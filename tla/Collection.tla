----------------------------- MODULE Collection -----------------------------
(***************************************************************************)
(* What collecting the money of orders promises, whoever pays and however  *)
(* often a provider repeats itself: an order that is due gathers money     *)
(* until it has exactly its price and is settled then and only then; a     *)
(* closed order keeps nothing, and two orders that have gathered nothing   *)
(* may be replaced by one that asks no more than both; a settled or closed *)
(* order never changes.  Module Checkout implements this, and module       *)
(* Settlement does on SQLite.                                              *)
(***************************************************************************)
EXTENDS Naturals

CONSTANT Order

VARIABLES state, price, got

vars == <<state, price, got>>

Init ==
    /\ state \in [Order -> {"none", "due"}]
    /\ price \in [Order -> Nat]
    /\ got = [o \in Order |-> 0]

Others(f, S) == \A p \in Order \ S : f'[p] = f[p]

Reached(o) == IF got'[o] = price'[o] THEN "settled" ELSE "due"

Place(o) ==
    /\ state[o] = "none" /\ state'[o] # "none"
    /\ price' \in [Order -> Nat] /\ Others(price, {o})
    /\ got' \in [Order -> Nat] /\ Others(got, {o})
    /\ got'[o] <= price'[o]
    /\ \/ state' = [state EXCEPT ![o] = Reached(o)]
       \/ got'[o] = 0 /\ state' = [state EXCEPT ![o] = "due"]

Collect(o) ==
    /\ state[o] = "due"
    /\ got' \in [Order -> Nat] /\ Others(got, {o})
    /\ got[o] < got'[o] /\ got'[o] <= price[o]
    /\ state' = [state EXCEPT ![o] = Reached(o)]
    /\ UNCHANGED price

Reprice(o) ==
    /\ state[o] = "due"
    /\ price' \in [Order -> Nat] /\ Others(price, {o})
    /\ UNCHANGED <<state, got>>

Close(o) ==
    /\ state[o] = "due"
    /\ state' = [state EXCEPT ![o] = "closed"]
    /\ got' = [got EXCEPT ![o] = 0]
    /\ UNCHANGED price

Merge(f, t) ==
    /\ f # t /\ state[f] = "due" /\ state[t] = "due"
    /\ got[f] = 0 /\ got[t] = 0
    /\ \E n \in Order :
          /\ state[n] = "none"
          /\ state' = [state EXCEPT ![f] = "closed", ![t] = "closed", ![n] = "due"]
          /\ price' \in [Order -> Nat] /\ Others(price, {n})
          /\ price'[n] <= price[f] + price[t]
    /\ UNCHANGED got

Next ==
    \/ \E o \in Order : Place(o) \/ Collect(o) \/ Reprice(o) \/ Close(o)
    \/ \E f, t \in Order : Merge(f, t)

Spec == Init /\ [][Next]_vars
=============================================================================
