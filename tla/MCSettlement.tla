---------------------------- MODULE MCSettlement ----------------------------
(***************************************************************************)
(* The orders of one customer, two notifications at a time.  When o1 and   *)
(* o2 are both placed, and may be merged into o3, Narrow bounds the rest.  *)
(***************************************************************************)
EXTENDS Settlement, TLC

CONSTANTS u1, o1, o2, o3, p1, p2, c1, c2, i1, i2, t1, t2

OwnedByU1   == [o \in Order |-> u1]
FreeAndDear == [p \in Payment |-> IF p = p1 THEN 0 ELSE 1]
TwoEach     == [o \in Order |-> 2]
OneEach     == [o \in Order |-> 1]
TwoAndOne   == [o \in Order |-> IF o = o1 THEN 2 ELSE 1]
OneFunds    == [u \in User |-> 1]

O1Only   == {{o1}}
O1AndO2  == {{o1, o2}}
O1OrBoth == {{o1}, {o1, o2}}

\* Bound: one intent, one notification at a time, one booked trade number, and
\* only o1 and the merged order change their payment method.
Narrow ==
    /\ intent[i2] = NoIntent
    /\ Cardinality({c \in Channel : job[c] # Null}) <= 1
    /\ Cardinality({t \in Trade : log[t] # NoLog}) <= 1
    /\ order[o2].pay = Pay0

\* i1 is used before i2, which does not matter, and one of them is ever too late.
Intents == (intent[i2] # NoIntent => intent[i1] # NoIntent) /\ Cardinality(lapsed) <= 1

PartNext == Next /\ Intents' /\ (order[o2].status = "none" \/ Narrow')
PartSpec == Init /\ [][PartNext]_vars
PartLiveSpec == PartSpec /\ Fairness

Symmetry == Permutations(Channel) \union Permutations(Trade)
=============================================================================
