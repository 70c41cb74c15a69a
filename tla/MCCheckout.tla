----------------------------- MODULE MCCheckout -----------------------------
(***************************************************************************)
(* Small shops for TLC.  g1 is sold plainly or by SKU, g2 only plainly.    *)
(***************************************************************************)
EXTENDS Checkout, TLC

CONSTANTS u1, u2, g1, g2, k1, k2, k3, p1, p2, b1, w1

OneOfEach   == [g \in Goods |-> 1]
TwoOfEach   == [g \in Goods |-> 2]
ThreeOfEach == [g \in Goods |-> 3]
ThreeAndOne == [g \in Goods |-> IF g = g1 THEN 3 ELSE 1]
G1Once      == [g \in Goods |-> IF g = g1 THEN 1 ELSE 0]
NoGoods     == [g \in Goods |-> 0]
FreeAndDear == [p \in Payment |-> IF p = p1 THEN 0 ELSE 1]
OneEach     == [b \in Bonus |-> 1]
NoFunds     == [u \in User |-> 0]
TwoFunds    == [u \in User |-> 2]
OneFunds    == [u \in User |-> 1]
ThreeFunds  == [u \in User |-> 3]
OneForPack  == [w \in Packs |-> 1]
\* Bound: one redemption of all users.
Redemptions == {r \in User \X Key : redeemed[r[1]][r[2]] # Empty}
StockNext == Next /\ Cardinality(Redemptions') <= 1
StockSpec == Init /\ [][StockNext]_vars

KeySymmetry == Permutations(Key)
BothSymmetry == Permutations(User) \union Permutations(Key)
=============================================================================
