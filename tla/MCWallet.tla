------------------------------ MODULE MCWallet ------------------------------
(***************************************************************************)
(* Two users, an auction and a snatch.                                     *)
(***************************************************************************)
EXTENDS Wallet, TLC

CONSTANTS u1, u2, u3, a1, a2, s1, r1, r2

OneLow    == [a \in Activity |-> 1]
TwoLow    == [a \in Activity |-> 2]
ThreeHigh == [a \in Activity |-> 3]
OneStep   == [a \in Auction |-> 1]
TwoStep   == [a \in Auction |-> 2]
OneCost   == [a \in Snatch |-> 1]
TwoFunds  == [u \in User |-> 2]
OnePoint  == [u \in User |-> 1]
Symmetry  == Permutations(User) \union Permutations(Request)
=============================================================================
