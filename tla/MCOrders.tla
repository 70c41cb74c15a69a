------------------------------ MODULE MCOrders ------------------------------
(***************************************************************************)
(* What an order may combine, in parts that TLC can finish.  A behaviour   *)
(* is about gifts, reductions, SKU lines and merging of u1; or about       *)
(* packages, points, a bonus, the balance and a provider, and redemptions, *)
(* of u1; or about one bonus, and wrapping, that u1 and u2 both want.      *)
(***************************************************************************)
EXTENDS MCCheckout

VARIABLE part

Unredeemed(u) == redeemed[u] = [k \in Key |-> Empty]
OwnsNone(u)   == \A b \in Bonus : bonus[b].owner # u
Uninvolved(u) ==
    /\ cart[u] = Empty /\ offer[u] = "none" /\ sel[u] = EmptySel
    /\ Unredeemed(u) /\ OwnsNone(u)
    /\ \A o \in OrderId : order[o].user # u

CashOnly == \A o \in OrderId : order[o].pay # p2 /\ order[o].paid = 0
G1Only   == \A o \in OrderId : order[o].sku = {} /\ order[o].lines[g2] = 0

Gifting ==
    /\ Uninvolved(u2) /\ Unredeemed(u1) /\ OwnsNone(u1)
    /\ stock[g1] > 0 /\ offer[u1] # "package" /\ sel[u1] = EmptySel
    /\ CashOnly

Paying ==
    /\ Uninvolved(u2) /\ nextId <= MaxOrder
    /\ spec[u1] = {} /\ cart[u1][g2] = 0 /\ offer[u1] \in {"none", "package"}
    /\ sel[u1].pay = 0 /\ sel[u1].pack = Null
    /\ G1Only
    /\ Unredeemed(u1) \/ (CashOnly /\ sel[u1].surplus = 0)

Claiming ==
    /\ nextId <= MaxOrder
    /\ \A u \in User :
          /\ Unredeemed(u)
          /\ spec[u] = {} /\ cart[u][g2] = 0 /\ offer[u] = "none"
          /\ sel[u].pay = 0 /\ sel[u].points = 0 /\ sel[u].surplus = 0
    /\ sel[u2].pack = Null
    /\ CashOnly /\ G1Only

PartInit == Init /\ part \in {"gifts", "money", "bonus"}
PartNext ==
    /\ Next /\ UNCHANGED part
    /\ CASE part = "gifts" -> Gifting'
         [] part = "money" -> Paying'
         [] OTHER -> Claiming'
PartSpec == PartInit /\ [][PartNext]_<<vars, part>>
=============================================================================
