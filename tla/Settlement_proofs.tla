-------------------------- MODULE Settlement_proofs --------------------------
(***************************************************************************)
(* Theorems about module Settlement: what holds on both databases, what    *)
(* SQLite adds, and that on SQLite it implements module Collection.        *)
(***************************************************************************)
EXTENDS Settlement, SumLemmas

UserOps == {"surplus", "payment_patch", "payment_intent_create", "merge"}
Notices == {"callback", "settle"} \X Order \X (Intent \union {Null}) \X Trade \X Cents

\* A row that is in use names an order, an order that is not there has no row, and
\* what was answered is a notification.
RowsNameOrders ==
    /\ \A o \in Order : order[o].status = "none" => order[o] = NoOrder
    /\ \A i \in Intent : intent[i].status # "none" => intent[i].order \in Order
    /\ \A t \in Trade : log[t] = NoLog \/ log[t].order \in Order
    /\ acked \subseteq Notices

\* The request of a user's transaction.
UserRequests ==
    \A u \in User : job[u] # Null =>
        /\ job[u].op \in UserOps /\ Owner[job[u].o] = u /\ Owner[job[u].to] = u
        /\ job[u].i = Null /\ job[u].t = Null
        /\ job[u].op = "surplus" => job[u].cents \in Cents

\* The request of a provider's transaction.
ChannelRequests ==
    \A c \in Channel : job[c] # Null =>
        /\ job[c].op \in {"callback", "settle"}
        /\ job[c].t \in Trade /\ job[c].cents \in Cents
        /\ job[c].op = "settle" =>
              /\ job[c].i \in Intent
              /\ intent[job[c].i].status # "none" /\ intent[job[c].i].order = job[c].o

\* A transaction is about orders that are there.
JobsPlaced ==
    \A a \in Actor : job[a] # Null =>
        order[job[a].o].status # "none" /\ order[job[a].to].status # "none"

Typed == TypeOK /\ RowsNameOrders /\ UserRequests /\ ChannelRequests /\ JobsPlaced
-----------------------------------------------------------------------------
\* Updating fields of a row or of a transaction.
LEMMA FieldTypes ==
    /\ \A r \in OrderRow :
          /\ \A v \in Status : [r EXCEPT !.status = v] \in OrderRow
          /\ \A p \in Payment, f, v \in Int :
                [r EXCEPT !.pay = p, !.fee = f, !.amount = v] \in OrderRow
          /\ \A v \in Nat, w \in Status : [r EXCEPT !.paid = v, !.status = w] \in OrderRow
    /\ \A r \in IntentRow : \A v \in {"none", "pending", "paid", "expired"} :
          [r EXCEPT !.status = v] \in IntentRow
    /\ \A j \in Job : \A v \in BOOLEAN : [j EXCEPT !.fresh = v] \in Job
BY DEF OrderRow, IntentRow, Job

LEMMA NullIsNoRow == Null \notin Order /\ Null \notin Intent /\ Null \notin Trade
BY SettlementAssumption

\* What begins, ends and commits does to the transactions of the others.
LEMMA BeginType ==
    ASSUME TypeOK, NEW a \in Actor,
           NEW op \in Op, NEW o \in Order, NEW to \in Order, NEW i \in Intent \union {Null},
           NEW t \in Trade \union {Null}, NEW cents \in Nat, NEW pay \in Payment,
           begin(a, op, o, to, i, t, cents, pay)
    PROVE  TypeOK'
<1> DEFINE r == IF i = Null THEN NoIntent ELSE intent[i]
           l == IF t = Null THEN Null ELSE log[t].order
           j == [op |-> op, o |-> o, to |-> to, i |-> i, t |-> t, cents |-> cents, pay |-> pay,
                 row |-> order[o], toRow |-> order[to], intent |-> r, logged |-> l,
                 late |-> i \in lapsed, fresh |-> TRUE]
<1>1. r \in IntentRow
  BY SettlementAssumption DEF TypeOK, NoIntent, IntentRow
<1>2. l \in Order \union {Null}
  BY DEF TypeOK, LogRow
<1>3. order[o] \in OrderRow /\ order[to] \in OrderRow
  BY DEF TypeOK
<1>4. job' = [job EXCEPT ![a] = j]
  BY DEF begin
<1> HIDE DEF r, l
<1>5. j \in Job
  BY <1>1, <1>2, <1>3 DEF Job
<1> HIDE DEF j
<1>6. job' \in [Actor -> Job \union {Null}]
  BY <1>4, <1>5 DEF TypeOK
<1> QED
  BY <1>6 DEF TypeOK, begin

LEMMA EndType ==
    ASSUME TypeOK, NEW a \in Actor, End(a)
    PROVE  job' \in [Actor -> Job \union {Null}]
BY DEF TypeOK, End

LEMMA CommitType ==
    ASSUME TypeOK, NEW a \in Actor, Commit(a)
    PROVE  job' \in [Actor -> Job \union {Null}]
<1> SUFFICES ASSUME NEW b \in Actor, job[b] # Null
             PROVE  [job[b] EXCEPT !.fresh = @ /\ Backend = "mysql"] \in Job
  BY DEF Commit
<1>1. job[b] \in Job
  BY DEF TypeOK
<1>2. (job[b].fresh /\ Backend = "mysql") \in BOOLEAN
  OBVIOUS
<1> QED
  BY <1>1, <1>2, FieldTypes

\* The transactions of users and of providers, with their types.
LEMMA JobTypes ==
    ASSUME Typed
    PROVE  /\ \A u \in User : job[u] # Null => job[u] \in Job /\ u \in Actor
           /\ \A c \in Channel : job[c] # Null => job[c] \in Job /\ c \in Actor
BY DEF Typed, TypeOK, Actor
-----------------------------------------------------------------------------
(* What a step does to a transaction: it ends, goes on or has just begun.  *)

Request(j) == <<j.op, j.o, j.to, j.i, j.t, j.cents, j.pay,
                j.row, j.toRow, j.intent, j.logged, j.late>>
rows == <<order, intent, log>>

\* a's transaction goes on; on SQLite what it read is stale once rows change.
Kept(a) ==
    /\ job[a] # Null /\ job'[a] # Null
    /\ Request(job'[a]) = Request(job[a])
    /\ Backend = "sqlite" /\ job'[a].fresh => job[a].fresh /\ UNCHANGED rows

\* a's transaction has just read the rows.
Begun(a) ==
    LET j == job'[a]
    IN  /\ UNCHANGED <<order, balance, intent, log, lapsed, acked>>
        /\ j.o \in Order /\ j.row = order[j.o] /\ order[j.o].status # "none"
        /\ j.to \in Order /\ j.toRow = order[j.to] /\ order[j.to].status # "none"
        /\ j.intent = IF j.i = Null THEN NoIntent ELSE intent[j.i]
        /\ j.logged = IF j.t = Null THEN Null ELSE log[j.t].order
        /\ \/ /\ a \in User /\ j.op \in UserOps /\ Owner[j.o] = a /\ Owner[j.to] = a
              /\ j.i = Null /\ j.t = Null
              /\ j.op = "surplus" => j.cents \in Cents
           \/ /\ a \in Channel /\ j.op \in {"callback", "settle"}
              /\ j.t \in Trade /\ j.cents \in Cents
              /\ j.op = "settle" => /\ j.i \in Intent
                                    /\ intent[j.i].status # "none"
                                    /\ intent[j.i].order = j.o

LEMMA EndKeeps ==
    ASSUME TypeOK, NEW a \in Actor, End(a), UNCHANGED rows, NEW b \in Actor
    PROVE  job'[b] = Null \/ Kept(b)
BY DEF TypeOK, End, Kept, Request

LEMMA CommitKeeps ==
    ASSUME TypeOK, NEW a \in Actor, Commit(a), NEW b \in Actor
    PROVE  job'[b] = Null \/ Kept(b)
<1> SUFFICES ASSUME b # a, job[b] # Null, job'[b] # Null PROVE Kept(b)
  BY DEF Commit
<1> DEFINE f == job[b].fresh /\ Backend = "mysql"
<1>1. job[b] \in Job
  BY DEF TypeOK
<1>2. job'[b] = [job[b] EXCEPT !.fresh = f]
  BY DEF Commit
<1>3. Request(job'[b]) = Request(job[b])
  BY <1>1, <1>2 DEF Request, Job
<1>4. job'[b].fresh = f
  BY <1>1, <1>2 DEF Job
<1>5. Backend = "sqlite" => ~f
  OBVIOUS
<1> QED
  BY <1>3, <1>4, <1>5 DEF Kept

LEMMA BeginKeeps ==
    ASSUME TypeOK, NEW a \in Actor, NEW op, NEW o, NEW to, NEW i, NEW t, NEW cents, NEW pay,
           begin(a, op, o, to, i, t, cents, pay), NEW b \in Actor, b # a
    PROVE  job'[b] = Null \/ Kept(b)
BY DEF TypeOK, begin, Kept, Request, rows

LEMMA UserBegun ==
    ASSUME TypeOK, NEW u \in User, NEW o \in Order, UserBegins(u, o)
    PROVE  job'[u] = Null \/ Begun(u)
<1>1. ASSUME NEW op \in UserOps, NEW to \in Order, Owner[to] = u, NEW cents, NEW pay,
             op = "surplus" => cents \in Cents, begin(u, op, o, to, Null, Null, cents, pay)
      PROVE  Begun(u)
  <2>1. u \in Actor
    BY DEF Actor
  <2> QED
    BY <1>1, <2>1 DEF TypeOK, begin, Begun, UserBegins
<1> QED
  BY <1>1 DEF UserBegins, UserOps

LEMMA ChannelBegun ==
    ASSUME Typed, NEW c \in Channel, NEW t \in Trade, NEW cents \in Cents
    PROVE  /\ \A o \in Order : callback_arrives(c, o, t, cents) => Begun(c)
           /\ \A i \in Intent : settle_arrives(c, i, t, cents) => Begun(c)
<1>1. c \in Actor /\ t # Null
  BY NullIsNoRow DEF Actor
<1>2. ASSUME NEW o \in Order, callback_arrives(c, o, t, cents) PROVE Begun(c)
  BY <1>1, <1>2 DEF Typed, TypeOK, callback_arrives, begin, Begun
<1>3. ASSUME NEW i \in Intent, settle_arrives(c, i, t, cents) PROVE Begun(c)
  <2>1. intent[i].order \in Order /\ i # Null
    BY <1>3, NullIsNoRow DEF Typed, RowsNameOrders, settle_arrives
  <2> QED
    BY <1>1, <1>3, <2>1 DEF Typed, TypeOK, settle_arrives, begin, Begun
<1> QED
  BY <1>2, <1>3
LEMMA JobSteps ==
    ASSUME Typed, [Next]_vars, NEW a \in Actor
    PROVE  job'[a] = Null \/ Kept(a) \/ Begun(a)
<1> DEFINE Goal == job'[a] = Null \/ Kept(a) \/ Begun(a)
<1>0. TypeOK /\ User \subseteq Actor /\ Channel \subseteq Actor
  BY DEF Typed, Actor
<1>1. ASSUME NEW b \in Actor, Commit(b) PROVE Goal
  BY <1>0, <1>1, CommitKeeps
<1>2. ASSUME NEW b \in Actor, End(b), UNCHANGED rows PROVE Goal
  BY <1>0, <1>2, EndKeeps
<1>3. ASSUME UNCHANGED <<job, order, intent, log>> PROVE Goal
  BY <1>3, <1>0 DEF Kept, Request, TypeOK, rows
<1>4. ASSUME NEW u \in User, NEW o \in Order, UserBegins(u, o) PROVE Goal
  <2>1. CASE a = u
    BY <1>0, <1>4, <2>1, UserBegun
  <2>2. CASE a # u
    <3> HIDE DEF Goal
    <3>1. ASSUME NEW op, NEW to, NEW cents, NEW pay, begin(u, op, o, to, Null, Null, cents, pay)
          PROVE  Goal
      BY <1>0, <2>2, <3>1, BeginKeeps DEF Goal
    <3> QED
      BY <1>4, <3>1 DEF UserBegins
  <2> QED
    BY <2>1, <2>2
<1>5. ASSUME NEW c \in Channel, NEW t \in Trade, NEW cents \in Cents, NEW o \in Order,
             callback_arrives(c, o, t, cents)
      PROVE  Goal
  <2>1. CASE a = c
    BY <1>5, <2>1, ChannelBegun
  <2>2. CASE a # c
    BY <1>0, <1>5, <2>2, BeginKeeps DEF callback_arrives
  <2> QED
    BY <2>1, <2>2
<1>6. ASSUME NEW c \in Channel, NEW t \in Trade, NEW cents \in Cents, NEW i \in Intent,
             settle_arrives(c, i, t, cents)
      PROVE  Goal
  <2>1. CASE a = c
    BY <1>6, <2>1, ChannelBegun
  <2>2. CASE a # c
    BY <1>0, <1>6, <2>2, BeginKeeps DEF settle_arrives
  <2> QED
    BY <2>1, <2>2
<1> HIDE DEF Goal
<1>7. ASSUME NEW u \in User,
             \/ \E o \in Order : order_cancel(u, o)
             \/ surplus(u) \/ payment_patch(u)
             \/ \E i \in Intent : payment_intent_create(u, i)
             \/ \E o \in Order : order_merge(u, o)
      PROVE  Goal
  BY <1>0, <1>1, <1>7 DEF order_cancel, surplus, payment_patch, payment_intent_create, order_merge
<1>8. ASSUME NEW c \in Channel, payment_callback(c) \/ settle_intent(c) PROVE Goal
  <2>1. Commit(c) \/ (End(c) /\ UNCHANGED rows)
    BY <1>8 DEF payment_callback, CallbackAnswers, CallbackPays, settle_intent,
                SettledBefore, SettleExpires, SettleRefuses, SettlePays, rows
  <2> QED
    BY <1>0, <1>1, <1>2, <2>1
<1>9. ASSUME NEW b \in Actor, fail(b) PROVE Goal
  BY <1>2, <1>9 DEF fail, rows
<1>10. ASSUME NEW i \in Intent, lapse(i) PROVE Goal
  BY <1>3, <1>10 DEF lapse
<1>11. ASSUME UNCHANGED vars PROVE Goal
  BY <1>3, <1>11 DEF vars
<1>12. ASSUME Next PROVE Goal
  BY <1>4, <1>5, <1>6, <1>7, <1>8, <1>9, <1>10, <1>12, Zenon DEF Next
<1>13. Goal
  BY <1>11, <1>12
<1> QED
  BY <1>13 DEF Goal
-----------------------------------------------------------------------------
(* Types, and what is final in the rows.                                   *)

IntentStays ==
    \A i \in Intent : intent[i].status # "none" =>
        /\ intent'[i].status # "none" /\ intent'[i].order = intent[i].order
        /\ intent'[i].pay = intent[i].pay /\ intent'[i].cents = intent[i].cents
LogStays == \A t \in Trade : log[t] # NoLog => log'[t] = log[t]
\* An order that is there stays, and its number is never free again.
OrderStays == \A o \in Order : order'[o].status = "none" => order'[o] = order[o]
RowsOK == TypeOK' /\ RowsNameOrders' /\ IntentStays /\ LogStays /\ OrderStays

\* Applied is what both the user and the order leave room for.
LEMMA AppliedRange ==
    ASSUME NEW j \in Job, Rest(j.row) > 0
    PROVE  /\ Applied(j) \in Nat /\ Applied(j) <= Rest(j.row) /\ Applied(j) <= j.cents
           /\ j.cents > 0 => Applied(j) > 0
BY DEF Job, OrderRow, Rest, Applied, Lesser

LEMMA SurplusRows ==
    ASSUME Typed, NEW u \in User, surplus(u)
    PROVE  RowsOK
<1> DEFINE j == job[u]
           w == IF Applied(j) = Rest(j.row) /\ order[j.o].status = "pending_payment"
                THEN "paid" ELSE order[j.o].status
<1>1. j \in Job /\ u \in Actor /\ j.o \in Order /\ order[j.o] \in OrderRow
  BY JobTypes DEF surplus, Running, Typed, TypeOK, Job
<1>2. Applied(j) \in Nat /\ Applied(j) <= balance[u]
  BY <1>1, AppliedRange DEF surplus, SurplusOk
<1>3. order[j.o].paid + Applied(j) \in Nat /\ w \in Status /\ w # "none"
  BY <1>1, <1>2 DEF OrderRow, Status, surplus, Running, Typed, JobsPlaced
<1>4. order' = [order EXCEPT ![j.o] =
                   [order[j.o] EXCEPT !.paid = order[j.o].paid + Applied(j), !.status = w]]
  BY <1>1 DEF surplus, Typed, TypeOK
<1>5. order' \in [Order -> OrderRow] /\ OrderStays
  <2> DEFINE r == [order[j.o] EXCEPT !.paid = order[j.o].paid + Applied(j), !.status = w]
  <2>1. r \in OrderRow /\ r.status # "none"
    BY <1>1, <1>3, FieldTypes DEF OrderRow
  <2> HIDE DEF r, j
  <2> QED
    BY <1>4, <2>1 DEF r, Typed, TypeOK, OrderStays
<1>6. balance' \in [User -> Nat]
  BY <1>2 DEF surplus, Typed, TypeOK
<1>7. job' \in [Actor -> Job \union {Null}]
  BY <1>1, CommitType DEF surplus, Typed
<1>8. UNCHANGED <<intent, log, lapsed, acked>>
  BY DEF surplus
<1> QED
  BY <1>5, <1>6, <1>7, <1>8
     DEF RowsOK, Typed, TypeOK, RowsNameOrders, IntentStays, LogStays, OrderStays, NoLog

LEMMA PatchRows ==
    ASSUME Typed, NEW u \in User, payment_patch(u)
    PROVE  RowsOK
<1> DEFINE j == job[u]
           v == j.row.amount - j.row.fee + PayFee[j.pay]
           r == [order[j.o] EXCEPT !.pay = j.pay, !.fee = PayFee[j.pay], !.amount = v]
<1>1. j \in Job /\ u \in Actor /\ j.o \in Order /\ order[j.o] \in OrderRow
  BY JobTypes DEF payment_patch, Running, Typed, TypeOK, Job
<1>2. v \in Int /\ j.pay \in Payment /\ PayFee[j.pay] \in Int
  BY <1>1, SettlementAssumption DEF Job, OrderRow
<1>3. r \in OrderRow /\ r.status = order[j.o].status
  <2> HIDE DEF v
  <2> QED
    BY <1>1, <1>2, FieldTypes DEF OrderRow
<1>4. \/ order' = order
      \/ order' = [order EXCEPT ![j.o] = r] /\ order[j.o].status = "pending_payment"
  BY DEF payment_patch
<1> HIDE DEF r, v
<1>5. order' \in [Order -> OrderRow] /\ OrderStays
  BY <1>3, <1>4 DEF Typed, TypeOK, OrderStays
<1>6. job' \in [Actor -> Job \union {Null}]
  BY <1>1, CommitType DEF payment_patch, Typed
<1>7. UNCHANGED <<balance, intent, log, lapsed, acked>>
  BY DEF payment_patch
<1> QED
  BY <1>5, <1>6, <1>7
     DEF RowsOK, Typed, TypeOK, RowsNameOrders, IntentStays, LogStays, OrderStays, NoLog

\* What a merge writes.
LEMMA MergeEffect ==
    ASSUME Typed, NEW u \in User, NEW new \in Order, order_merge(u, new)
    PROVE  /\ job[u] \in Job /\ u \in Actor /\ job[u].o \in Order /\ job[u].to \in Order
           /\ job[u].o # job[u].to /\ Owner[job[u].o] = u /\ Owner[job[u].to] = u
           /\ job[u].o # new /\ job[u].to # new /\ order[new] = NoOrder
           /\ job'[u] = Null /\ UNCHANGED <<balance, intent, log, lapsed, acked>>
           /\ order' \in [Order -> OrderRow]
           /\ order'[new] = [status |-> "pending_payment", pay |-> job[u].row.pay,
                             fee |-> job[u].row.fee + job[u].toRow.fee,
                             amount |-> job[u].row.amount + job[u].toRow.amount, paid |-> 0]
           /\ \A p \in Order \ {new} :
                 order'[p] = IF p \in {job[u].o, job[u].to}
                             THEN [order[p] EXCEPT !.status = "merged"] ELSE order[p]
<1> DEFINE j == job[u]
           f == job[u].o
           t == job[u].to
           r == [status |-> "pending_payment", pay |-> j.row.pay, fee |-> j.row.fee + j.toRow.fee,
                 amount |-> j.row.amount + j.toRow.amount, paid |-> 0]
<1>1. /\ j \in Job /\ u \in Actor /\ f \in Order /\ t \in Order /\ j # Null
      /\ order \in [Order -> OrderRow]
  BY JobTypes DEF order_merge, Running, Typed, TypeOK, Job
<1>2. /\ f # t /\ Owner[f] = u /\ Owner[t] = u
      /\ order[new].status = "none" /\ order[new] = NoOrder
      /\ order[f].status # "none" /\ order[t].status # "none"
  BY <1>1 DEF order_merge, MergeOk, Typed, UserRequests, RowsNameOrders, JobsPlaced
<1>3. r \in OrderRow
  BY <1>1 DEF Job, OrderRow, Status
<1>4. order' = [order EXCEPT ![f].status = "merged", ![t].status = "merged", ![new] = r]
  BY DEF order_merge
<1>5. \A p \in Order : [order[p] EXCEPT !.status = "merged"] \in OrderRow
  BY <1>1, FieldTypes DEF Status
<1>6. job'[u] = Null /\ UNCHANGED <<balance, intent, log, lapsed, acked>>
  BY <1>1 DEF order_merge, Commit
<1> HIDE DEF r, f, t
<1>7. /\ order'[new] = r
      /\ \A p \in Order \ {new} :
            order'[p] = IF p \in {f, t} THEN [order[p] EXCEPT !.status = "merged"] ELSE order[p]
      /\ DOMAIN order' = Order /\ order' = [p \in Order |-> order'[p]]
  BY <1>1, <1>2, <1>4
<1>8. order' \in [Order -> OrderRow]
  BY <1>1, <1>3, <1>5, <1>7
<1> QED
  BY <1>1, <1>2, <1>6, <1>7, <1>8 DEF r, f, t

LEMMA MergeFields ==
    ASSUME Typed, NEW u \in User, NEW new \in Order, order_merge(u, new)
    PROVE  /\ order'[new].status = "pending_payment" /\ order'[new].paid = 0
           /\ order'[new].fee = job[u].row.fee + job[u].toRow.fee
           /\ order'[new].amount = job[u].row.amount + job[u].toRow.amount
           /\ order[new].status = "none" /\ order[new].paid = 0
           /\ \A p \in Order \ {new} :
                 /\ order'[p].amount = order[p].amount /\ order'[p].paid = order[p].paid
                 /\ order'[p].fee = order[p].fee /\ order'[p].pay = order[p].pay
                 /\ p \in {job[u].o, job[u].to} => order'[p].status = "merged"
                 /\ p \notin {job[u].o, job[u].to} => order'[p] = order[p]
<1>1. order'[new] = [status |-> "pending_payment", pay |-> job[u].row.pay,
                     fee |-> job[u].row.fee + job[u].toRow.fee,
                     amount |-> job[u].row.amount + job[u].toRow.amount, paid |-> 0]
  BY MergeEffect, Zenon
<1>2. \A p \in Order \ {new} :
         order'[p] = IF p \in {job[u].o, job[u].to}
                     THEN [order[p] EXCEPT !.status = "merged"] ELSE order[p]
  BY MergeEffect, Zenon
<1>3. order[new] = NoOrder
  BY MergeEffect, Zenon
<1>4. order \in [Order -> OrderRow]
  BY DEF Typed, TypeOK
<1>5. /\ order'[new].status = "pending_payment" /\ order'[new].paid = 0
      /\ order'[new].fee = job[u].row.fee + job[u].toRow.fee
      /\ order'[new].amount = job[u].row.amount + job[u].toRow.amount
  BY <1>1
<1>6. order[new].status = "none" /\ order[new].paid = 0
  BY <1>3 DEF NoOrder
<1>7. ASSUME NEW p \in Order \ {new}
      PROVE  /\ order'[p].amount = order[p].amount /\ order'[p].paid = order[p].paid
             /\ order'[p].fee = order[p].fee /\ order'[p].pay = order[p].pay
             /\ p \in {job[u].o, job[u].to} => order'[p].status = "merged"
             /\ p \notin {job[u].o, job[u].to} => order'[p] = order[p]
  <2>1. CASE p \in {job[u].o, job[u].to}
    <3>1. order'[p] = [order[p] EXCEPT !.status = "merged"] /\ order[p] \in OrderRow
      BY <1>2, <1>4, <2>1
    <3> QED
      BY <2>1, <3>1 DEF OrderRow
  <2>2. CASE p \notin {job[u].o, job[u].to}
    BY <1>2, <2>2
  <2> QED
    BY <2>1, <2>2
<1> QED
  BY <1>5, <1>6, <1>7, Zenon

LEMMA MergeRows ==
    ASSUME Typed, NEW u \in User, NEW new \in Order, order_merge(u, new)
    PROVE  RowsOK
<1>1. /\ u \in Actor /\ order' \in [Order -> OrderRow]
      /\ UNCHANGED <<balance, intent, log, lapsed, acked>>
  BY MergeEffect
<1>2. OrderStays
  BY MergeFields, Zenon DEF OrderStays
<1>3. job' \in [Actor -> Job \union {Null}]
  BY <1>1, CommitType DEF order_merge, Typed
<1> QED
  BY <1>1, <1>2, <1>3
     DEF RowsOK, Typed, TypeOK, RowsNameOrders, IntentStays, LogStays, OrderStays, NoLog

LEMMA CreateRows ==
    ASSUME Typed, NEW u \in User, NEW new \in Intent, payment_intent_create(u, new)
    PROVE  RowsOK
<1> DEFINE j == job[u]
           r == [status |-> "pending", order |-> j.o, pay |-> j.row.pay, cents |-> Rest(j.row)]
<1>1. j \in Job /\ u \in Actor /\ j.o \in Order
  BY JobTypes DEF payment_intent_create, Running, Typed, TypeOK, Job
<1>2. r \in IntentRow
  BY <1>1 DEF Job, OrderRow, Rest, IntentRow
<1>3. \A i \in Intent : /\ intent[i] \in IntentRow
                        /\ Replaced(intent[i], j.o) \in IntentRow
                        /\ Replaced(intent[i], j.o).order = intent[i].order
                        /\ Replaced(intent[i], j.o).pay = intent[i].pay
                        /\ Replaced(intent[i], j.o).cents = intent[i].cents
                        /\ Replaced(intent[i], j.o).status = "none" <=> intent[i].status = "none"
  BY FieldTypes, ZenonT(30) DEF Typed, TypeOK, Replaced, IntentRow
<1>4. /\ intent' = [i \in Intent |-> IF i = new THEN r ELSE Replaced(intent[i], j.o)]
      /\ intent[new].status = "none"
      /\ UNCHANGED <<order, balance, log, lapsed, acked>>
  BY DEF payment_intent_create
<1>5. job' \in [Actor -> Job \union {Null}]
  BY <1>1, CommitType DEF payment_intent_create, Typed
<1>6. r.order \in Order
  BY <1>1
<1> HIDE DEF r, j
<1>7. intent' \in [Intent -> IntentRow] /\ IntentStays
  BY <1>2, <1>3, <1>4 DEF IntentStays
<1>8. RowsNameOrders'
  BY <1>3, <1>4, <1>6 DEF Typed, RowsNameOrders, NoLog
<1> QED
  BY <1>4, <1>5, <1>7, <1>8 DEF RowsOK, Typed, TypeOK, LogStays, OrderStays

LEMMA CancelRows ==
    ASSUME Typed, NEW u \in User, NEW o \in Order, order_cancel(u, o)
    PROVE  RowsOK
<1>1. order[o] \in OrderRow /\ u \in Actor /\ balance[u] \in Nat
  BY DEF Typed, TypeOK, Actor
<1>2. [order[o] EXCEPT !.status = "cancelled"] \in OrderRow /\ order[o].paid \in Nat
  BY <1>1, FieldTypes DEF OrderRow, Status
<1>3. /\ order' = [order EXCEPT ![o] = [order[o] EXCEPT !.status = "cancelled"]]
      /\ balance' = [balance EXCEPT ![u] = balance[u] + order[o].paid]
      /\ UNCHANGED <<intent, log, lapsed, acked>>
  BY DEF order_cancel
<1>4. order' \in [Order -> OrderRow] /\ balance' \in [User -> Nat] /\ OrderStays
  BY <1>1, <1>2, <1>3 DEF Typed, TypeOK, OrderStays, OrderRow
<1>5. job' \in [Actor -> Job \union {Null}]
  BY <1>1, CommitType DEF order_cancel, Typed
<1> QED
  BY <1>3, <1>4, <1>5
     DEF RowsOK, Typed, TypeOK, RowsNameOrders, IntentStays, LogStays, OrderStays, NoLog
\* What a provider's transaction names.
LEMMA ChannelRows ==
    ASSUME Typed, NEW c \in Channel, job[c] # Null
    PROVE  /\ job[c] \in Job /\ c \in Actor /\ job[c].o \in Order /\ job[c].t \in Trade
           /\ job[c].cents \in Nat /\ job[c].cents > 0 /\ job[c].cents \in Cents
           /\ Notice(job[c]) \in Notices
           /\ order[job[c].o] \in OrderRow /\ log[job[c].t] \in LogRow
           /\ job[c].op = "settle" => /\ job[c].i \in Intent
                                      /\ intent[job[c].i] \in IntentRow
<1>1. job[c] \in Job /\ c \in Actor
  BY JobTypes
<1>2. /\ job[c].o \in Order /\ job[c].i \in Intent \union {Null}
  BY <1>1 DEF Job
<1>3. /\ job[c].op \in {"callback", "settle"} /\ job[c].t \in Trade
      /\ job[c].cents \in Cents
      /\ job[c].op = "settle" => job[c].i \in Intent
  BY DEF Typed, ChannelRequests
<1>4. job[c].cents \in Nat /\ job[c].cents > 0
  <2>1. \A v \in Cents : v \in Nat /\ v > 0
    BY ONLY SettlementAssumption
  <2> QED
    BY <1>3, <2>1
<1>5. Notice(job[c]) \in Notices
  BY <1>2, <1>3 DEF Notice, Notices
<1> QED
  BY <1>1, <1>2, <1>3, <1>4, <1>5 DEF Typed, TypeOK

LEMMA AnswerTypes ==
    ASSUME Typed, NEW c \in Channel, job[c] # Null, NEW ok, Answer(job[c], ok)
    PROVE  /\ acked' \subseteq Notices
           /\ \A n \in acked' : \E o \in Order : n[2] = o
<1>1. Notice(job[c]) \in Notices
  BY ChannelRows
<1>2. acked' \subseteq Notices
  BY <1>1 DEF Typed, RowsNameOrders, Answer
<1> QED
  BY <1>2 DEF Notices

LEMMA CallbackRows ==
    ASSUME Typed, NEW c \in Channel, payment_callback(c)
    PROVE  RowsOK
<1> DEFINE j == job[c]
           r == [order[j.o] EXCEPT !.status = "paid"]
           l == [order |-> j.o, cents |-> j.cents]
<1>1. /\ j \in Job /\ c \in Actor /\ j.o \in Order /\ j.t \in Trade /\ j.cents \in Nat
      /\ order[j.o] \in OrderRow /\ job[c] # Null
  BY ChannelRows DEF payment_callback, Running
<1>2. r \in OrderRow /\ r.status = "paid"
  <2>1. "paid" \in Status
    BY DEF Status
  <2> QED
    BY <1>1, <2>1, FieldTypes DEF OrderRow
<1>3. l \in LogRow /\ l.order \in Order
  BY <1>1 DEF LogRow
<1>4. UNCHANGED <<balance, intent, lapsed>>
  BY DEF payment_callback
<1>5. CASE CallbackAnswers(c)
  <2>1. job' \in [Actor -> Job \union {Null}]
    BY <1>1, <1>5, EndType DEF CallbackAnswers, Typed
  <2>2. acked' \subseteq Notices /\ \A n \in acked' : \E o \in Order : n[2] = o
    BY <1>1, <1>5, AnswerTypes DEF CallbackAnswers
  <2>3. UNCHANGED <<order, log>>
    BY <1>5 DEF CallbackAnswers
  <2> QED
    BY <1>4, <2>1, <2>2, <2>3
       DEF RowsOK, Typed, TypeOK, RowsNameOrders, IntentStays, LogStays, OrderStays, NoLog
<1>6. CASE CallbackPays(c)
  <2>1. job' \in [Actor -> Job \union {Null}]
    BY <1>1, <1>6, CommitType DEF CallbackPays, Typed
  <2>2. acked' \subseteq Notices /\ \A n \in acked' : \E o \in Order : n[2] = o
    BY <1>1, <1>6, AnswerTypes DEF CallbackPays
  <2>3. /\ order' = [order EXCEPT ![j.o] = r] /\ log' = [log EXCEPT ![j.t] = l]
        /\ log[j.t] = NoLog
    BY <1>6 DEF CallbackPays
  <2> HIDE DEF r, l, j
  <2>4. order' \in [Order -> OrderRow] /\ log' \in [Trade -> LogRow] /\ OrderStays
    BY <1>2, <1>3, <2>3 DEF Typed, TypeOK, OrderStays
  <2>5. LogStays /\ \A t \in Trade : log'[t] = NoLog \/ log'[t].order \in Order
    BY <1>1, <1>3, <2>3 DEF LogStays, Typed, TypeOK, RowsNameOrders
  <2> QED
    BY <1>4, <2>1, <2>2, <2>4, <2>5
       DEF RowsOK, Typed, TypeOK, RowsNameOrders, IntentStays, OrderStays, NoLog
<1> QED
  BY <1>5, <1>6 DEF payment_callback

LEMMA SettleRows ==
    ASSUME Typed, NEW c \in Channel, settle_intent(c)
    PROVE  RowsOK
<1> DEFINE j == job[c]
           r == [order[j.o] EXCEPT !.status = "paid"]
           l == [order |-> j.o, cents |-> j.cents]
<1>1. /\ j \in Job /\ c \in Actor /\ j.o \in Order /\ j.t \in Trade /\ j.cents \in Nat
      /\ order[j.o] \in OrderRow /\ job[c] # Null
      /\ j.i \in Intent /\ intent[j.i] \in IntentRow
      /\ intent[j.i].status # "none"
  BY ChannelRows DEF settle_intent, Running, Typed, ChannelRequests
<1>2. r \in OrderRow /\ r.status = "paid"
  <2>1. "paid" \in Status
    BY DEF Status
  <2> QED
    BY <1>1, <2>1, FieldTypes DEF OrderRow
<1>3. l \in LogRow /\ l.order \in Order
  BY <1>1 DEF LogRow
<1>4. UNCHANGED <<balance, lapsed>>
  BY DEF settle_intent
<1>5. ASSUME NEW v \in {"paid", "expired"},
             intent' = [intent EXCEPT ![j.i] = [intent[j.i] EXCEPT !.status = v]]
      PROVE  /\ intent' \in [Intent -> IntentRow] /\ IntentStays
             /\ \A i \in Intent : intent'[i].status # "none" => intent'[i].order \in Order
  <2> DEFINE k == [intent[j.i] EXCEPT !.status = v]
  <2>1. /\ k \in IntentRow /\ k.status # "none" /\ k.order = intent[j.i].order
        /\ k.pay = intent[j.i].pay /\ k.cents = intent[j.i].cents
    BY <1>1, FieldTypes DEF IntentRow
  <2>2. intent' = [intent EXCEPT ![j.i] = k]
    BY <1>5
  <2> HIDE DEF k, j
  <2>3. intent[j.i].order \in Order
    BY <1>1 DEF Typed, RowsNameOrders
  <2> QED
    BY <1>1, <2>1, <2>2, <2>3 DEF Typed, TypeOK, IntentStays, RowsNameOrders
<1>6. ASSUME UNCHANGED intent
      PROVE  /\ intent' \in [Intent -> IntentRow] /\ IntentStays
             /\ \A i \in Intent : intent'[i].status # "none" => intent'[i].order \in Order
  BY <1>6 DEF Typed, TypeOK, IntentStays, RowsNameOrders
<1>7. \/ SettledBefore(c) \/ SettleRefuses(c) \/ SettleExpires(c) \/ SettlePays(c)
  BY DEF settle_intent
<1>8. job' \in [Actor -> Job \union {Null}]
  <2>1. End(c) \/ Commit(c)
    BY <1>7 DEF SettledBefore, SettleRefuses, SettleExpires, SettlePays
  <2> QED
    BY <1>1, <2>1, EndType, CommitType DEF Typed
<1>9. acked' \subseteq Notices /\ \A n \in acked' : \E o \in Order : n[2] = o
  <2>1. \E ok : Answer(j, ok)
    BY <1>7 DEF SettledBefore, SettleRefuses, SettleExpires, SettlePays
  <2> QED
    BY <1>1, <2>1, AnswerTypes
<1>10. CASE SettledBefore(c) \/ SettleRefuses(c) \/ SettleExpires(c)
  <2>1. /\ UNCHANGED <<order, log>>
        /\ \/ UNCHANGED intent
           \/ intent' = [intent EXCEPT ![j.i] = [intent[j.i] EXCEPT !.status = "expired"]]
    BY <1>10 DEF SettledBefore, SettleRefuses, SettleExpires
  <2>2. /\ intent' \in [Intent -> IntentRow] /\ IntentStays
        /\ \A i \in Intent : intent'[i].status # "none" => intent'[i].order \in Order
    BY <1>5, <1>6, <2>1
  <2> HIDE DEF j
  <2> QED
    BY <1>4, <1>8, <1>9, <2>1, <2>2
       DEF RowsOK, Typed, TypeOK, RowsNameOrders, LogStays, OrderStays, NoLog
<1>11. CASE SettlePays(c)
  <2>1. /\ order' = order \/ order' = [order EXCEPT ![j.o] = r]
        /\ log' = [log EXCEPT ![j.t] = l] /\ log[j.t] = NoLog
        /\ \/ UNCHANGED intent
           \/ intent' = [intent EXCEPT ![j.i] = [intent[j.i] EXCEPT !.status = "paid"]]
    BY <1>11 DEF SettlePays
  <2>2. /\ intent' \in [Intent -> IntentRow] /\ IntentStays
        /\ \A i \in Intent : intent'[i].status # "none" => intent'[i].order \in Order
    BY <1>5, <1>6, <2>1
  <2> HIDE DEF r, l, j
  <2>3. order' \in [Order -> OrderRow] /\ log' \in [Trade -> LogRow] /\ OrderStays
    BY <1>2, <1>3, <2>1 DEF Typed, TypeOK, OrderStays
  <2>4. LogStays /\ \A t \in Trade : log'[t] = NoLog \/ log'[t].order \in Order
    BY <1>1, <1>3, <2>1 DEF LogStays, Typed, TypeOK, RowsNameOrders
  <2> QED
    BY <1>4, <1>8, <1>9, <2>2, <2>3, <2>4
       DEF RowsOK, Typed, TypeOK, RowsNameOrders, OrderStays, NoLog
<1> QED
  BY <1>7, <1>10, <1>11
LEMMA BeginRows ==
    ASSUME Typed,
           \/ \E u \in User, o \in Order : UserBegins(u, o)
           \/ \E c \in Channel, t \in Trade, cents \in Cents :
                 \/ \E o \in Order : callback_arrives(c, o, t, cents)
                 \/ \E i \in Intent : settle_arrives(c, i, t, cents)
    PROVE  RowsOK
<1>0. \A v \in Cents : v \in Nat /\ v > 0
  BY ONLY SettlementAssumption
<1>1. User \subseteq Actor /\ Channel \subseteq Actor /\ 0 \in Nat /\ Pay0 \in Payment
  BY SettlementAssumption DEF Actor
<1>2. ASSUME NEW a \in Actor, NEW op \in Op, NEW o \in Order, NEW to \in Order,
             NEW i \in Intent \union {Null}, NEW t \in Trade \union {Null},
             NEW cents \in Nat, NEW pay \in Payment, begin(a, op, o, to, i, t, cents, pay)
      PROVE  RowsOK
  <2>1. TypeOK'
    BY <1>2, BeginType DEF Typed
  <2>2. UNCHANGED <<order, intent, log, acked>>
    BY <1>2 DEF begin
  <2> QED
    BY <2>1, <2>2 DEF RowsOK, Typed, RowsNameOrders, IntentStays, LogStays, OrderStays, NoLog
<1>3. ASSUME NEW u \in User, NEW o \in Order, UserBegins(u, o) PROVE RowsOK
  BY <1>0, <1>1, <1>2, <1>3 DEF UserBegins, Op
<1>4. ASSUME NEW c \in Channel, NEW t \in Trade, NEW cents \in Cents, NEW o \in Order,
             callback_arrives(c, o, t, cents)
      PROVE  RowsOK
  BY <1>0, <1>1, <1>2, <1>4 DEF callback_arrives, Op
<1>5. ASSUME NEW c \in Channel, NEW t \in Trade, NEW cents \in Cents, NEW i \in Intent,
             settle_arrives(c, i, t, cents)
      PROVE  RowsOK
  <2>1. intent[i].order \in Order
    BY <1>5 DEF settle_arrives, Typed, RowsNameOrders
  <2> QED
    BY <1>0, <1>1, <1>2, <1>5, <2>1 DEF settle_arrives, Op
<1> QED
  BY <1>3, <1>4, <1>5

LEMMA StepRows ==
    ASSUME Typed, [Next]_vars
    PROVE  RowsOK
<1>1. ASSUME NEW a \in Actor, fail(a) PROVE RowsOK
  <2>1. job' \in [Actor -> Job \union {Null}]
    BY <1>1, EndType DEF fail, Typed
  <2> QED
    BY <1>1, <2>1
       DEF fail, RowsOK, Typed, TypeOK, RowsNameOrders, IntentStays, LogStays, OrderStays, NoLog
<1>2. ASSUME NEW i \in Intent, lapse(i) PROVE RowsOK
  BY <1>2
     DEF lapse, RowsOK, Typed, TypeOK, RowsNameOrders, IntentStays, LogStays, OrderStays, NoLog
<1>3. CASE UNCHANGED vars
  BY <1>3
     DEF vars, RowsOK, Typed, TypeOK, RowsNameOrders, IntentStays, LogStays, OrderStays, NoLog
<1>4. CASE Next
  BY <1>1, <1>2, <1>4, BeginRows, SurplusRows, PatchRows, MergeRows, CreateRows, CancelRows,
     CallbackRows, SettleRows, Zenon DEF Next
<1> QED
  BY <1>3, <1>4

\* The requests of the transactions that go on or have just begun.
LEMMA StepRequests ==
    ASSUME Typed, [Next]_vars
    PROVE  UserRequests' /\ ChannelRequests' /\ JobsPlaced'
<1>1. IntentStays /\ OrderStays
  BY StepRows DEF RowsOK
<1>2. User \intersect Channel = {}
  BY SettlementAssumption
<1>3. ASSUME NEW u \in User, job'[u] # Null
      PROVE  /\ job'[u].op \in UserOps /\ Owner[job'[u].o] = u /\ Owner[job'[u].to] = u
             /\ job'[u].i = Null /\ job'[u].t = Null
             /\ job'[u].op = "surplus" => job'[u].cents \in Cents
  <2>1. u \in Actor /\ u \notin Channel
    BY <1>2 DEF Actor
  <2>2. Kept(u) \/ Begun(u)
    BY <1>3, <2>1, JobSteps
  <2>3. CASE Kept(u)
    BY <2>3 DEF Kept, Request, Typed, UserRequests
  <2>4. CASE Begun(u)
    BY <2>1, <2>4 DEF Begun
  <2> QED
    BY <2>2, <2>3, <2>4
<1>4. ASSUME NEW c \in Channel, job'[c] # Null
      PROVE  /\ job'[c].op \in {"callback", "settle"}
             /\ job'[c].t \in Trade /\ job'[c].cents \in Cents
             /\ job'[c].op = "settle" =>
                   /\ job'[c].i \in Intent
                   /\ intent'[job'[c].i].status # "none"
                   /\ intent'[job'[c].i].order = job'[c].o
  <2>1. c \in Actor /\ c \notin User
    BY <1>2 DEF Actor
  <2>2. Kept(c) \/ Begun(c)
    BY <1>4, <2>1, JobSteps
  <2>3. CASE Kept(c)
    <3>1. /\ job[c] # Null
          /\ job'[c].op = job[c].op /\ job'[c].t = job[c].t /\ job'[c].cents = job[c].cents
          /\ job'[c].i = job[c].i /\ job'[c].o = job[c].o
      BY <2>3 DEF Kept, Request
    <3> QED
      BY <1>1, <3>1 DEF Typed, ChannelRequests, IntentStays
  <2>4. CASE Begun(c)
    BY <2>1, <2>4 DEF Begun
  <2> QED
    BY <2>2, <2>3, <2>4
<1>5. ASSUME NEW a \in Actor, job'[a] # Null
      PROVE  order'[job'[a].o].status # "none" /\ order'[job'[a].to].status # "none"
  <2>1. CASE Kept(a)
    <3>1. job[a] # Null /\ job'[a].o = job[a].o /\ job'[a].to = job[a].to
      BY <2>1 DEF Kept, Request
    <3>2. job[a].o \in Order /\ job[a].to \in Order
      BY <3>1 DEF Typed, TypeOK, Job
    <3> QED
      BY <1>1, <3>1, <3>2 DEF Typed, JobsPlaced, OrderStays
  <2>2. CASE Begun(a)
    BY <2>2 DEF Begun
  <2> QED
    BY <1>5, <2>1, <2>2, JobSteps
<1> QED
  BY <1>3, <1>4, <1>5 DEF UserRequests, ChannelRequests, JobsPlaced

LEMMA InitTyped == Init => Typed
<1> SUFFICES ASSUME Init PROVE Typed
  OBVIOUS
<1>1. order \in [Order -> OrderRow] /\ \A o \in Order : order[o].status = "none" => order[o] = NoOrder
  <2>1. NoOrder \in OrderRow
    BY SettlementAssumption DEF NoOrder, OrderRow, Status
  <2>2. \A o \in Order : [status |-> "pending_payment", pay |-> Pay0, fee |-> PayFee[Pay0],
                          amount |-> Due[o] + PayFee[Pay0], paid |-> 0] \in OrderRow
    BY SettlementAssumption DEF OrderRow, Status
  <2> QED
    BY <2>1, <2>2 DEF Init
<1>2. NoIntent \in IntentRow /\ NoLog \in LogRow
  BY SettlementAssumption DEF NoIntent, IntentRow, NoLog, LogRow
<1>3. TypeOK
  BY <1>1, <1>2, SettlementAssumption DEF Init, TypeOK
<1>4. RowsNameOrders
  BY <1>1 DEF Init, RowsNameOrders, NoIntent
<1>5. UserRequests /\ ChannelRequests /\ JobsPlaced
  BY DEF Init, UserRequests, ChannelRequests, JobsPlaced, Actor
<1> QED
  BY <1>3, <1>4, <1>5 DEF Typed

LEMMA StepTyped == Typed /\ [Next]_vars => Typed'
BY StepRows, StepRequests DEF RowsOK, Typed

\* Orders, intents, logs and transactions keep the shapes the tables give them,
\* every row that is in use names an order, and no row is left of an order number
\* that was never used.
THEOREM SettlementTypes == Spec => [](TypeOK /\ RowsNameOrders)
<1>1. Typed => TypeOK /\ RowsNameOrders
  BY DEF Typed
<1> QED
  BY <1>1, InitTyped, StepTyped, PTL DEF Spec

LEMMA AlwaysTyped == Spec => []Typed
BY InitTyped, StepTyped, PTL DEF Spec
-----------------------------------------------------------------------------
(* Intents of one order.                                                   *)

\* Only payment_intent_create opens an intent.
LEMMA NothingOpens ==
    ASSUME Typed, [Next]_vars,
           ~\E u \in User, i \in Intent : payment_intent_create(u, i), NEW i \in Intent,
           intent'[i].status = "pending"
    PROVE  intent[i].status = "pending"
<1>1. ASSUME NEW c \in Channel, settle_intent(c) PROVE intent[i].status = "pending"
  <2>1. job[c].i \in Intent /\ intent \in [Intent -> IntentRow]
    BY <1>1, ChannelRows DEF settle_intent, Running, Typed, TypeOK
  <2>2. \/ UNCHANGED intent
        \/ \E v \in {"paid", "expired"} : intent' = [intent EXCEPT ![job[c].i].status = v]
    BY <1>1 DEF settle_intent, SettledBefore, SettleExpires, SettleRefuses, SettlePays
  <2> QED
    BY <2>1, <2>2 DEF IntentRow
<1>2. CASE UNCHANGED intent
  BY <1>2
<1>3. UNCHANGED intent \/ \E c \in Channel : settle_intent(c)
  BY ZenonT(30) DEF vars, Next, UserBegins, begin, order_cancel, order_merge, surplus,
         payment_patch, callback_arrives, settle_arrives, payment_callback, fail, lapse
<1> QED
  BY <1>1, <1>2, <1>3

\* Only one open channel attempt may exist at a time: opening an intent expires
\* the open one of its order (payment.rs:224-225), on both databases.
THEOREM OneIntentOpen == Spec => []OneOpenIntent
<1>1. Init => OneOpenIntent
  BY DEF Init, OneOpenIntent, NoIntent
<1>2. ASSUME Typed, OneOpenIntent, [Next]_vars PROVE OneOpenIntent'
  <2>1. ASSUME NEW u \in User, NEW new \in Intent, payment_intent_create(u, new)
        PROVE  OneOpenIntent'
    <3> DEFINE o == job[u].o
    <3>1. \A i \in Intent : intent'[i] =
             IF i = new THEN [status |-> "pending", order |-> o,
                              pay |-> job[u].row.pay, cents |-> Rest(job[u].row)]
             ELSE Replaced(intent[i], o)
      BY <2>1 DEF payment_intent_create
    <3> HIDE DEF o
    <3>2. \A i \in Intent \ {new} : intent'[i].status = "pending" =>
             intent'[i] = intent[i] /\ intent[i].order # o
      BY <1>2, <3>1 DEF Replaced, Typed, TypeOK, IntentRow
    <3>3. intent'[new].order = o
      BY <3>1
    <3> QED
      BY <1>2, <3>2, <3>3 DEF OneOpenIntent
  <2>2. CASE ~\E u \in User, i \in Intent : payment_intent_create(u, i)
    <3>1. IntentStays
      BY <1>2, StepRows DEF RowsOK
    <3>2. \A i \in Intent : intent'[i].status = "pending" =>
             intent[i].status = "pending" /\ intent'[i].order = intent[i].order
      BY <1>2, <2>2, <3>1, NothingOpens DEF IntentStays
    <3> QED
      BY <1>2, <3>2 DEF OneOpenIntent
  <2> QED
    BY <2>1, <2>2
<1> QED
  BY <1>1, <1>2, AlwaysTyped, PTL DEF Spec
-----------------------------------------------------------------------------
(* What steps do to orders.                                                *)

\* A step leaves money alone: what is paid and what is cancelled stays.
Quiet ==
    /\ UNCHANGED balance
    /\ \A o \in Order :
          /\ order'[o].paid = order[o].paid
          /\ order'[o].status = "cancelled" <=> order[o].status = "cancelled"

\* What is paid, cancelled or merged is final, and so is the amount then; a merge
\* may still turn it into merged.
Final == \A o \in Order : Over(o) =>
    order'[o].status = order[o].status /\ order'[o].amount = order[o].amount
FinalOrMerged == \A o \in Order : Over(o) =>
    /\ order'[o].amount = order[o].amount
    /\ \/ order'[o].status = order[o].status
       \/ /\ order'[o].status = "merged"
          /\ \E u \in User, n \in Order : order_merge(u, n) /\ o \in {job[u].o, job[u].to}

LEMMA OrderSteps ==
    ASSUME Typed, [Next]_vars
    PROVE  /\ FinalOrMerged
           /\ \/ Quiet
              \/ \E u \in User : \/ surplus(u)
                                 \/ \E o \in Order : order_cancel(u, o) \/ order_merge(u, o)
<1>0. order \in [Order -> OrderRow]
  BY DEF Typed, TypeOK
<1>1. ASSUME NEW u \in User, surplus(u) PROVE Final
  <2>1. job[u].o \in Order
    BY <1>1, JobTypes DEF surplus, Running, Job
  <2> QED
    BY <1>0, <1>1, <2>1 DEF surplus, OrderRow, Final, Over
<1>2. ASSUME NEW u \in User, NEW o \in Order, order_cancel(u, o) PROVE Final
  BY <1>0, <1>2 DEF order_cancel, OrderRow, Final, Over
<1>3. ASSUME NEW u \in User, payment_patch(u) PROVE Final /\ Quiet
  <2>1. job[u].o \in Order
    BY <1>3, JobTypes DEF payment_patch, Running, Job
  <2> QED
    BY <1>0, <1>3, <2>1 DEF payment_patch, OrderRow, Final, Over, Quiet
<1>4. ASSUME NEW c \in Channel, payment_callback(c) \/ settle_intent(c) PROVE Final /\ Quiet
  <2>1. job[c].o \in Order
    BY <1>4, ChannelRows DEF payment_callback, settle_intent, Running
  <2>2. /\ UNCHANGED balance
        /\ \/ UNCHANGED order
           \/ /\ order[job[c].o].status = "pending_payment"
              /\ order' = [order EXCEPT ![job[c].o].status = "paid"]
    BY <1>4 DEF payment_callback, CallbackAnswers, CallbackPays, settle_intent,
                SettledBefore, SettleExpires, SettleRefuses, SettlePays
  <2> QED
    BY <1>0, <2>1, <2>2 DEF OrderRow, Final, Over, Quiet
<1>5. ASSUME UNCHANGED <<order, balance>> PROVE Final /\ Quiet
  BY <1>5 DEF Final, Quiet
<1>6. ASSUME NEW u \in User, NEW n \in Order, order_merge(u, n) PROVE FinalOrMerged
  <2> SUFFICES ASSUME NEW o \in Order, Over(o)
               PROVE  /\ order'[o].amount = order[o].amount
                      /\ \/ order'[o].status = order[o].status
                         \/ order'[o].status = "merged" /\ o \in {job[u].o, job[u].to}
    BY <1>6 DEF FinalOrMerged
  <2>1. o # n
    BY <1>6, MergeFields DEF Over
  <2> QED
    BY <1>6, <2>1, MergeFields
<1>7. \/ UNCHANGED <<order, balance>>
      \/ \E c \in Channel : payment_callback(c) \/ settle_intent(c)
      \/ \E u \in User : \/ surplus(u) \/ payment_patch(u)
                         \/ \E o \in Order : order_cancel(u, o) \/ order_merge(u, o)
  BY DEF vars, Next, UserBegins, begin, payment_intent_create,
         callback_arrives, settle_arrives, fail, lapse
<1>8. Final => FinalOrMerged
  BY DEF Final, FinalOrMerged
<1>9. FinalOrMerged
  <2> HIDE DEF FinalOrMerged, Final
  <2> QED
    BY <1>1, <1>2, <1>3, <1>4, <1>5, <1>6, <1>7, <1>8, Zenon
<1>10. \/ Quiet
       \/ \E u \in User : \/ surplus(u)
                          \/ \E o \in Order : order_cancel(u, o) \/ order_merge(u, o)
  BY <1>3, <1>4, <1>5, <1>7, Zenon
<1> QED
  BY <1>9, <1>10
-----------------------------------------------------------------------------
(* The balance, and what a merge overwrites.                               *)

\* lock_user keeps cancellations away from the orders a user's transaction has
\* read: an order it read as not cancelled is not cancelled.
OrdersLocked ==
    \A u \in User : job[u] # Null =>
        /\ job[u].row.status # "cancelled" => order[job[u].o].status # "cancelled"
        /\ job[u].toRow.status # "cancelled" => order[job[u].to].status # "cancelled"

\* A merge reads both orders as pending, so that neither is cancelled.
LEMMA MergeQuiet ==
    ASSUME Typed, OrdersLocked, NEW u \in User, NEW n \in Order, order_merge(u, n)
    PROVE  /\ Quiet
           /\ order[job[u].o].status # "cancelled" /\ order[job[u].to].status # "cancelled"
<1>1. order[job[u].o].status # "cancelled" /\ order[job[u].to].status # "cancelled"
  BY DEF OrdersLocked, order_merge, Running, MergeOk
<1>2. ASSUME NEW p \in Order
      PROVE  /\ order'[p].paid = order[p].paid
             /\ order'[p].status = "cancelled" <=> order[p].status = "cancelled"
  <2>1. CASE p = n
    BY <2>1, MergeFields
  <2>2. CASE p # n /\ p \in {job[u].o, job[u].to}
    <3>1. order'[p].paid = order[p].paid /\ order'[p].status = "merged"
      BY <2>2, MergeFields
    <3> QED
      BY <1>1, <2>2, <3>1
  <2>3. CASE p # n /\ p \notin {job[u].o, job[u].to}
    BY <2>3, MergeFields
  <2> QED
    BY <2>1, <2>2, <2>3
<1>3. UNCHANGED balance
  BY DEF order_merge
<1> QED
  BY <1>1, <1>2, <1>3 DEF Quiet

LEMMA MoneySteps ==
    ASSUME Typed, OrdersLocked, [Next]_vars
    PROVE  Quiet \/ \E u \in User : surplus(u) \/ \E o \in Order : order_cancel(u, o)
BY OrderSteps, MergeQuiet

LEMMA StepLocked ==
    ASSUME Typed, OrdersLocked, [Next]_vars
    PROVE  OrdersLocked'
<1>1. ASSUME NEW u \in User, job[u] # Null, job'[u] # Null, NEW o \in Order, Owner[o] = u,
             order[o].status # "cancelled"
      PROVE  order'[o].status # "cancelled"
  <2>1. CASE Quiet
    BY <1>1, <2>1 DEF Quiet
  <2>2. ASSUME NEW v \in User, surplus(v) PROVE order'[o].status # "cancelled"
    BY <1>1, <2>2 DEF surplus, Typed, TypeOK, OrderRow
  <2>3. ASSUME NEW v \in User, NEW p \in Order, order_cancel(v, p)
        PROVE  order'[o].status # "cancelled"
    <3>1. job'[v] = Null
      BY <2>3 DEF order_cancel, Commit, Actor
    <3>2. p # o
      BY <1>1, <2>3, <3>1 DEF order_cancel
    <3> QED
      BY <1>1, <2>3, <3>2 DEF order_cancel, Typed, TypeOK
  <2> QED
    BY <2>1, <2>2, <2>3, MoneySteps
<1>2. ASSUME NEW u \in User, job'[u] # Null
      PROVE  /\ job'[u].row.status # "cancelled" => order'[job'[u].o].status # "cancelled"
             /\ job'[u].toRow.status # "cancelled" => order'[job'[u].to].status # "cancelled"
  <2>1. u \in Actor
    BY DEF Actor
  <2>2. Kept(u) \/ Begun(u)
    BY <1>2, <2>1, JobSteps
  <2>3. CASE Begun(u)
    BY <2>3 DEF Begun
  <2>4. CASE Kept(u)
    <3>1. /\ job[u] # Null /\ job'[u].o = job[u].o /\ job'[u].to = job[u].to
          /\ job'[u].row = job[u].row /\ job'[u].toRow = job[u].toRow
          /\ job[u].o \in Order /\ job[u].to \in Order
          /\ Owner[job[u].o] = u /\ Owner[job[u].to] = u
      BY <2>4, JobTypes DEF Kept, Request, Typed, UserRequests, Job
    <3> QED
      BY <1>1, <1>2, <3>1 DEF OrdersLocked
  <2> QED
    BY <2>2, <2>3, <2>4
<1> QED
  BY <1>2 DEF OrdersLocked

LEMMA AlwaysLocked == Spec => []OrdersLocked
<1>1. Init => OrdersLocked
  BY DEF Init, OrdersLocked, Actor
<1> QED
  BY <1>1, StepLocked, AlwaysTyped, PTL DEF Spec

\* Whatever overlaps, on both databases: the amount of an order that is paid,
\* cancelled or merged stays, and so does its status, but for one case: a merge that
\* read the order while it was pending turns an order paid meanwhile into merged
\* (order.rs:763-774).  No trade number is booked twice.
THEOREM MergeAloneOverwrites == Spec => OnlyMergeOverwrites
<1>1. ASSUME Typed, Typed', OrdersLocked, [Next]_vars
      PROVE  /\ \A o \in Order : Over(o) =>
                   /\ order'[o].amount = order[o].amount
                   /\ \/ order'[o].status = order[o].status
                      \/ /\ order[o].status = "paid" /\ order'[o].status = "merged"
                         /\ \E u \in User : /\ Running(u, "merge") /\ job'[u] = Null
                                            /\ o \in {job[u].o, job[u].to}
             /\ \A t \in Trade : log[t] # NoLog => log'[t] = log[t]
  <2>1. \A t \in Trade : log[t] # NoLog => log'[t] = log[t]
    BY <1>1, StepRows DEF RowsOK, LogStays
  <2>2. ASSUME NEW o \in Order, Over(o), order'[o].status # order[o].status
        PROVE  /\ order[o].status = "paid" /\ order'[o].status = "merged"
               /\ \E u \in User : /\ Running(u, "merge") /\ job'[u] = Null
                                  /\ o \in {job[u].o, job[u].to}
    <3>1. PICK u \in User, n \in Order : /\ order_merge(u, n) /\ o \in {job[u].o, job[u].to}
                                         /\ order'[o].status = "merged"
      BY <1>1, <2>2, OrderSteps DEF FinalOrMerged
    <3>2. order[o].status # "cancelled"
      BY <1>1, <3>1, MergeQuiet
    <3>3. order[o].status \in Status
      BY <1>1 DEF Typed, TypeOK, OrderRow
    <3>4. order[o].status = "paid"
      BY <2>2, <3>1, <3>2, <3>3 DEF Over, Status
    <3>5. Running(u, "merge") /\ job'[u] = Null
      BY <1>1, <3>1, MergeEffect DEF order_merge
    <3> QED
      BY <3>1, <3>4, <3>5
  <2>3. \A o \in Order : Over(o) => order'[o].amount = order[o].amount
    BY <1>1, OrderSteps DEF FinalOrMerged
  <2> QED
    BY <2>1, <2>2, <2>3
<1> QED
  BY <1>1, AlwaysTyped, AlwaysLocked, PTL DEF Spec, OnlyMergeOverwrites

LEMMA SpentType ==
    ASSUME Typed, NEW u \in User
    PROVE  /\ \A o \in Order : Spent(u)[o] \in Int
           /\ SumFunctionOnSet(Spent(u), Order) \in Int
<1>1. \A o \in Order : Spent(u)[o] \in Int
  BY DEF Typed, TypeOK, OrderRow, Spent
<1> QED
  BY <1>1, SumInt, SettlementAssumption

\* Every cent that left a balance is spent on an order of that user which is not
\* cancelled, and a cancellation gives it back, on both databases: the snapshot a
\* balance payment has read is never of an order that was cancelled meanwhile.
THEOREM BalanceIsKept == Spec => []BalanceKept
<1> DEFINE Sum(f) == SumFunctionOnSet(f, Order)
<1>0. IsFiniteSet(Order)
  BY SettlementAssumption
<1>1. Init => BalanceKept
  <2> SUFFICES ASSUME Init PROVE BalanceKept
    OBVIOUS
  <2>1. ASSUME NEW u \in User PROVE balance[u] + Sum(Spent(u)) = Balance0[u]
    <3>1. \A o \in Order : Spent(u)[o] = 0
      <4>1. \A o \in Order : order[o].paid = 0
        BY DEF Init, NoOrder
      <4> QED
        BY <4>1 DEF Spent
    <3>2. Sum(Spent(u)) = 0
      BY <1>0, <3>1, SumZero
    <3> HIDE DEF Sum
    <3> QED
      BY <3>2, SettlementAssumption DEF Init
  <2> QED
    BY <2>1 DEF BalanceKept
<1>2. ASSUME Typed, OrdersLocked, BalanceKept, [Next]_vars PROVE BalanceKept'
  <2>2. ASSUME Quiet PROVE BalanceKept'
    <3>1. \A u \in User : Spent(u)' = Spent(u)
      BY <2>2 DEF Quiet, Spent
    <3> QED
      BY <1>2, <2>2, <3>1 DEF BalanceKept, Quiet
  <2>3. ASSUME NEW u \in User, NEW o \in Order, Owner[o] = u,
               \A p \in Order \ {o} : order'[p] = order[p],
               balance' = [balance EXCEPT ![u] = balance[u] - (Spent(u)'[o] - Spent(u)[o])]
        PROVE  BalanceKept'
    <3> SUFFICES ASSUME NEW v \in User
                 PROVE  (balance[v] + Sum(Spent(v)))' = Balance0[v]
      BY DEF BalanceKept
    <3>0. Typed'
      BY <1>2, StepTyped
    <3>1. /\ balance[v] + Sum(Spent(v)) = Balance0[v]
          /\ balance[v] \in Int /\ balance[u] \in Int /\ balance' \in [User -> Nat]
      BY <1>2, <3>0 DEF BalanceKept, Typed, TypeOK
    <3>2. (\A p \in Order : Spent(v)[p] \in Int) /\ Sum(Spent(v)) \in Int
      BY <1>2, SpentType
    <3>3. \A p \in Order : Spent(v)'[p] \in Int
      BY <3>0 DEF Typed, TypeOK, OrderRow, Spent
    <3>4. \A p \in Order \ {o} : Spent(v)'[p] = Spent(v)[p]
      BY <2>3 DEF Spent
    <3>5. Sum(Spent(v)') = Sum(Spent(v)) + Spent(v)'[o] - Spent(v)[o]
      <4> DEFINE f == Spent(v)
                 g == Spent(v)'
      <4> HIDE DEF f, g
      <4>1. /\ \A p \in Order : f[p] \in Int /\ g[p] \in Int
            /\ \A p \in Order \ {o} : g[p] = f[p]
        BY <3>2, <3>3, <3>4 DEF f, g
      <4>2. SumFunctionOnSet(g, Order) = SumFunctionOnSet(f, Order) + g[o] - f[o]
        BY <1>0, <4>1, SumUpdate
      <4> QED
        BY <4>2 DEF f, g
    <3>6. Spent(v)[o] \in Int /\ Spent(v)'[o] \in Int
      BY <3>2, <3>3
    <3>7. CASE v = u
      <4>1. balance'[v] = balance[v] - (Spent(v)'[o] - Spent(v)[o])
        BY <1>2, <2>3, <3>7 DEF Typed, TypeOK
      <4> DEFINE f == Spent(v)[o]
                 g == Spent(v)'[o]
                 s == Sum(Spent(v))
                 r == Sum(Spent(v)')
                 b == balance[v]
      <4> HIDE DEF f, g, s, r, b
      <4>2. balance'[v] + r = Balance0[v]
        <5>1. /\ f \in Int /\ g \in Int /\ s \in Int /\ b \in Int
              /\ b + s = Balance0[v] /\ r = s + g - f /\ balance'[v] = b - (g - f)
          BY <3>1, <3>2, <3>5, <3>6, <4>1 DEF f, g, s, r, b
        <5> QED
          BY <5>1
      <4> QED
        BY <4>2 DEF r
    <3>8. CASE v # u
      <4>1. balance'[v] = balance[v]
        BY <2>3, <3>8 DEF Typed, TypeOK
      <4>2. Spent(v)'[o] = 0 /\ Spent(v)[o] = 0
        BY <2>3, <3>8 DEF Spent
      <4>3. Sum(Spent(v)') = Sum(Spent(v))
        BY <3>2, <3>5, <4>2
      <4> QED
        BY <3>1, <4>1, <4>3
    <3> QED
      BY <3>7, <3>8
  <2> HIDE DEF Sum
  <2>4. ASSUME NEW u \in User, surplus(u) PROVE BalanceKept'
    <3> DEFINE o == job[u].o
               n == Applied(job[u])
    <3>1. job[u] \in Job /\ o \in Order /\ Owner[o] = u /\ order[o] \in OrderRow
      BY <1>2, <2>4, JobTypes DEF surplus, Running, Job, Typed, TypeOK, UserRequests
    <3>2. order[o].status # "cancelled"
      BY <1>2, <2>4 DEF OrdersLocked, surplus, SurplusOk, Running
    <3>3. n \in Nat
      BY <2>4, <3>1, AppliedRange DEF surplus, SurplusOk
    <3>4. /\ \A p \in Order \ {o} : order'[p] = order[p]
          /\ order'[o].paid = order[o].paid + n
          /\ order'[o].status # "cancelled"
      BY <1>2, <2>4, <3>1, <3>2 DEF surplus, Typed, TypeOK, OrderRow
    <3>5. Spent(u)[o] = order[o].paid /\ Spent(u)'[o] = order[o].paid + n
      BY <3>1, <3>2, <3>4 DEF Spent
    <3>6. Spent(u)'[o] - Spent(u)[o] = n
      BY <3>1, <3>3, <3>5 DEF OrderRow
    <3>7. balance' = [balance EXCEPT ![u] = balance[u] - (Spent(u)'[o] - Spent(u)[o])]
      BY <2>4, <3>6 DEF surplus
    <3> HIDE DEF o, n
    <3> QED
      BY <2>3, <3>1, <3>4, <3>7
  <2>5. ASSUME NEW u \in User, NEW o \in Order, order_cancel(u, o) PROVE BalanceKept'
    <3>1. Owner[o] = u /\ order[o].status = "pending_payment" /\ order[o] \in OrderRow
      BY <1>2, <2>5 DEF order_cancel, Typed, TypeOK
    <3>2. /\ \A p \in Order \ {o} : order'[p] = order[p]
          /\ order'[o].status = "cancelled"
      BY <1>2, <2>5 DEF order_cancel, Typed, TypeOK, OrderRow
    <3>3. Spent(u)[o] = order[o].paid /\ Spent(u)'[o] = 0
      BY <3>1, <3>2 DEF Spent
    <3>4. balance[u] - (Spent(u)'[o] - Spent(u)[o]) = balance[u] + order[o].paid
      BY <1>2, <3>1, <3>3 DEF OrderRow, Typed, TypeOK
    <3>5. balance' = [balance EXCEPT ![u] = balance[u] - (Spent(u)'[o] - Spent(u)[o])]
      BY <2>5, <3>4 DEF order_cancel
    <3> QED
      BY <2>3, <3>1, <3>2, <3>5
  <2> QED
    BY <1>2, <2>2, <2>4, <2>5, MoneySteps
<1> QED
  BY <1>1, <1>2, AlwaysTyped, AlwaysLocked, PTL DEF Spec
-----------------------------------------------------------------------------
(* SQLite: a transaction writes only what its snapshot still shows.        *)

\* The transaction that may write has read the rows as they are.
FreshSees ==
    \A a \in Actor : job[a] # Null /\ job[a].fresh =>
        /\ job[a].row = order[job[a].o] /\ job[a].toRow = order[job[a].to]
        /\ job[a].i # Null => job[a].intent = intent[job[a].i]
        /\ job[a].t # Null => job[a].logged = log[job[a].t].order

LEMMA StepFresh ==
    ASSUME Typed, FreshSees, [Next]_vars, Backend = "sqlite"
    PROVE  FreshSees'
<1> SUFFICES ASSUME NEW a \in Actor, job'[a] # Null, job'[a].fresh
             PROVE  /\ job'[a].row = order'[job'[a].o] /\ job'[a].toRow = order'[job'[a].to]
                    /\ job'[a].i # Null => job'[a].intent = intent'[job'[a].i]
                    /\ job'[a].t # Null => job'[a].logged = log'[job'[a].t].order
  BY DEF FreshSees
<1>1. CASE Kept(a)
  <2>1. /\ job[a] # Null /\ job[a].fresh /\ UNCHANGED <<order, intent, log>>
        /\ job'[a].o = job[a].o /\ job'[a].i = job[a].i /\ job'[a].t = job[a].t
        /\ job'[a].to = job[a].to /\ job'[a].toRow = job[a].toRow
        /\ job'[a].row = job[a].row /\ job'[a].intent = job[a].intent
        /\ job'[a].logged = job[a].logged
    BY <1>1 DEF Kept, Request, rows
  <2> QED
    BY <2>1 DEF FreshSees
<1>2. CASE Begun(a)
  BY <1>2 DEF Begun
<1> QED
  BY <1>1, <1>2, JobSteps

\* The writes that handlers make on SQLite.
PartPaid(o) ==
    /\ order[o].status = "pending_payment"
    /\ \E n \in Nat \ {0} :
          /\ order[o].paid + n <= order[o].amount
          /\ order' = [order EXCEPT ![o] = [order[o] EXCEPT
                 !.paid = order[o].paid + n,
                 !.status = IF order[o].paid + n = order[o].amount
                            THEN "paid" ELSE "pending_payment"]]
    /\ UNCHANGED <<intent, log>>
Repriced(o) ==
    /\ order[o].status = "pending_payment"
    /\ \E p \in Payment :
          order' = [order EXCEPT ![o] = [order[o] EXCEPT
                       !.pay = p, !.fee = PayFee[p],
                       !.amount = order[o].amount - order[o].fee + PayFee[p]]]
    /\ UNCHANGED <<intent, log>>
Closed(o) ==
    /\ order[o].status = "pending_payment"
    /\ order' = [order EXCEPT ![o] = [order[o] EXCEPT !.status = "cancelled"]]
    /\ UNCHANGED <<intent, log>>
Merged(f, t, n) ==
    /\ f # t /\ order[f].status = "pending_payment" /\ order[t].status = "pending_payment"
    /\ order[f].paid = 0 /\ order[t].paid = 0 /\ order[n].status = "none"
    /\ order'[n].status = "pending_payment" /\ order'[n].paid = 0
    /\ order'[n].fee = order[f].fee + order[t].fee
    /\ order'[n].amount = order[f].amount + order[t].amount
    /\ \A p \in {f, t} :
          /\ order'[p].status = "merged" /\ order'[p].paid = order[p].paid
          /\ order'[p].amount = order[p].amount /\ order'[p].fee = order[p].fee
    /\ \A p \in Order \ {f, t, n} : order'[p] = order[p]
    /\ UNCHANGED <<intent, log>>
Opened(i) ==
    /\ intent[i].status = "none"
    /\ intent' \in [Intent -> IntentRow] /\ intent'[i].status = "pending"
    /\ \A k \in Intent \ {i} : /\ intent'[k].order = intent[k].order
                               /\ intent'[k].status = "paid" <=> intent[k].status = "paid"
                               /\ intent[k].status = "paid" => intent'[k] = intent[k]
    /\ UNCHANGED <<order, log>>
Expires(i) ==
    /\ intent[i].status = "pending"
    /\ intent' = [intent EXCEPT ![i] = [intent[i] EXCEPT !.status = "expired"]]
    /\ UNCHANGED <<order, log>>
Consumes(i, o, cents) ==
    /\ intent[i].status = "pending" /\ intent[i].order = o /\ intent[i].cents = cents
    /\ intent' = [intent EXCEPT ![i] = [intent[i] EXCEPT !.status = "paid"]]
Books(o, t, cents) ==
    /\ order[o].status = "pending_payment" /\ log[t] = NoLog
    /\ cents = Rest(order[o]) /\ cents > 0
    /\ order' = [order EXCEPT ![o] = [order[o] EXCEPT !.status = "paid"]]
    /\ log' = [log EXCEPT ![t] = [order |-> o, cents |-> cents]]
    /\ UNCHANGED intent \/ \E i \in Intent : Consumes(i, o, cents)

Writes ==
    \/ UNCHANGED rows
    \/ \E o \in Order : PartPaid(o) \/ Repriced(o) \/ Closed(o)
    \/ \E f, t, n \in Order : Merged(f, t, n)
    \/ \E i \in Intent : Opened(i) \/ Expires(i)
    \/ \E o \in Order, t \in Trade, cents \in Nat : Books(o, t, cents)

LEMMA SurplusWrites ==
    ASSUME Typed, FreshSees, Backend = "sqlite", NEW u \in User, surplus(u)
    PROVE  PartPaid(job[u].o) /\ job[u].o \in Order
<1> DEFINE j == job[u]
           o == job[u].o
           n == Applied(j)
<1>1. /\ j \in Job /\ u \in Actor /\ o \in Order /\ job[u] # Null /\ order[o] \in OrderRow
      /\ j.row = order[o] /\ j.row.status = "pending_payment" /\ Rest(j.row) > 0
  BY JobTypes DEF surplus, Running, SurplusOk, MayWrite, FreshSees, Job, Typed, TypeOK
<1>2. j.cents \in Nat /\ j.cents > 0
  <2>1. \A v \in Cents : v \in Nat /\ v > 0
    BY ONLY SettlementAssumption
  <2> QED
    BY <1>1, <2>1 DEF surplus, Running, Typed, UserRequests
<1>3. n \in Nat \ {0} /\ n <= Rest(j.row)
  BY <1>1, <1>2, AppliedRange
<1>4. Rest(j.row) = order[o].amount - order[o].paid /\ order[o].amount \in Int /\ order[o].paid \in Nat
  BY <1>1 DEF Rest, OrderRow
<1>5. order' = [order EXCEPT ![o] = [order[o] EXCEPT
                    !.paid = order[o].paid + n,
                    !.status = IF n = Rest(j.row) /\ order[o].status = "pending_payment"
                               THEN "paid" ELSE order[o].status]]
  BY DEF surplus
<1>6. UNCHANGED <<intent, log>>
  BY DEF surplus
<1> HIDE DEF n, o, j
<1>7. n = Rest(j.row) <=> order[o].paid + n = order[o].amount
  BY <1>3, <1>4
<1>8. order[o].paid + n <= order[o].amount
  BY <1>3, <1>4
<1>9. order' = [order EXCEPT ![o] = [order[o] EXCEPT
                    !.paid = order[o].paid + n,
                    !.status = IF order[o].paid + n = order[o].amount
                               THEN "paid" ELSE "pending_payment"]]
  BY <1>1, <1>5, <1>7
<1>10. PartPaid(o)
  BY <1>1, <1>3, <1>6, <1>8, <1>9 DEF PartPaid
<1> QED
  BY <1>1, <1>10 DEF o

LEMMA PatchWrites ==
    ASSUME Typed, FreshSees, Backend = "sqlite", NEW u \in User, payment_patch(u)
    PROVE  Repriced(job[u].o) /\ job[u].o \in Order
<1>1. /\ job[u] \in Job /\ u \in Actor /\ job[u].o \in Order /\ job[u].pay \in Payment
      /\ job[u].row = order[job[u].o] /\ job[u].row.status = "pending_payment"
  BY JobTypes DEF payment_patch, Running, PatchOk, MayWrite, FreshSees, Job
<1> QED
  BY <1>1 DEF payment_patch, Repriced

LEMMA MergeWrites ==
    ASSUME Typed, FreshSees, Backend = "sqlite", NEW u \in User, NEW n \in Order,
           order_merge(u, n)
    PROVE  Merged(job[u].o, job[u].to, n) /\ job[u].o \in Order /\ job[u].to \in Order
<1>1. /\ u \in Actor /\ job[u].o \in Order /\ job[u].to \in Order /\ job[u].o # job[u].to
      /\ job[u].o # n /\ job[u].to # n
  BY JobTypes DEF order_merge, Running, MergeOk, Job, Typed, JobsPlaced
<1>2. job[u].row = order[job[u].o] /\ job[u].toRow = order[job[u].to]
  BY <1>1 DEF order_merge, Running, MayWrite, FreshSees
<1>3. /\ order[job[u].o].status = "pending_payment" /\ order[job[u].to].status = "pending_payment"
      /\ order[job[u].o].paid = 0 /\ order[job[u].to].paid = 0
  BY <1>2 DEF order_merge, MergeOk
<1>4. UNCHANGED <<intent, log>>
  BY DEF order_merge
<1> QED
  BY <1>1, <1>2, <1>3, <1>4, MergeFields DEF Merged

LEMMA CreateWrites ==
    ASSUME Typed, FreshSees, NEW u \in User, NEW i \in Intent, payment_intent_create(u, i)
    PROVE  Opened(i)
<1>1. \A k \in Intent \ {i} : intent'[k] = Replaced(intent[k], job[u].o)
  BY DEF payment_intent_create
<1>2. intent' \in [Intent -> IntentRow]
  BY CreateRows DEF RowsOK, TypeOK
<1>3. \A k \in Intent : intent[k] \in IntentRow
  BY DEF Typed, TypeOK
<1>4. intent'[i].status = "pending" /\ intent[i].status = "none" /\ UNCHANGED <<order, log>>
  BY DEF payment_intent_create
<1> QED
  BY <1>1, <1>2, <1>3, <1>4 DEF Opened, Replaced, IntentRow

LEMMA ChannelWrites ==
    ASSUME Typed, FreshSees, Backend = "sqlite", NEW c \in Channel,
           payment_callback(c) \/ settle_intent(c)
    PROVE  Writes
<1> DEFINE j == job[c]
<1>1. /\ j \in Job /\ c \in Actor /\ j.o \in Order /\ j.t \in Trade /\ job[c] # Null
      /\ j.cents \in Nat /\ j.cents > 0
      /\ order[j.o] \in OrderRow
  BY ChannelRows DEF payment_callback, settle_intent, Running
<1>2. MayWrite(c) => j.row = order[j.o]
  BY <1>1 DEF MayWrite, FreshSees
<1>3. settle_intent(c) =>
          /\ j.i \in Intent /\ intent[j.i].order = j.o
          /\ MayWrite(c) => j.intent = intent[j.i]
  BY <1>1, NullIsNoRow DEF settle_intent, Running, Typed, ChannelRequests, MayWrite, FreshSees
<1>4. CASE payment_callback(c) /\ CallbackAnswers(c)
  BY <1>4 DEF payment_callback, CallbackAnswers, Writes, rows
<1>5. CASE payment_callback(c) /\ CallbackPays(c)
  <2>1. Books(j.o, j.t, j.cents)
    BY <1>1, <1>2, <1>5 DEF payment_callback, CallbackPays, CallbackDue, Books
  <2> QED
    BY <1>1, <2>1 DEF Writes
<1>6. CASE settle_intent(c) /\ (SettledBefore(c) \/ SettleRefuses(c))
  BY <1>6 DEF SettledBefore, SettleRefuses, Writes, rows
<1>7. CASE settle_intent(c) /\ SettleExpires(c)
  <2>1. Expires(j.i)
    BY <1>3, <1>7 DEF SettleExpires, Open, Expires
  <2> QED
    BY <1>3, <1>7, <2>1 DEF Writes
<1>8. CASE settle_intent(c) /\ SettlePays(c)
  <2>1. MayWrite(c) /\ Open(j) /\ Settleable(j) /\ log[j.t] = NoLog
    BY <1>8 DEF SettlePays
  <2>2. /\ order[j.o].status = "pending_payment" /\ j.cents = Rest(order[j.o])
        /\ intent[j.i].status = "pending" /\ intent[j.i].cents = j.cents
        /\ intent[j.i].order = j.o /\ j.i \in Intent
    BY <1>2, <1>3, <1>8, <2>1 DEF Settleable, Open
  <2>3. Books(j.o, j.t, j.cents)
    BY <1>1, <1>8, <2>1, <2>2 DEF SettlePays, Books, Consumes
  <2> QED
    BY <1>1, <2>3 DEF Writes
<1> QED
  BY <1>4, <1>5, <1>6, <1>7, <1>8 DEF payment_callback, settle_intent

LEMMA SqliteWrites ==
    ASSUME Typed, FreshSees, Backend = "sqlite", [Next]_vars
    PROVE  Writes
<1>1. ASSUME NEW u \in User,
             surplus(u) \/ payment_patch(u) \/ \E i \in Intent : payment_intent_create(u, i)
      PROVE  Writes
  BY <1>1, SurplusWrites, PatchWrites, CreateWrites DEF Writes
<1>2. ASSUME NEW u \in User, NEW o \in Order, order_cancel(u, o) PROVE Writes
  BY <1>2 DEF order_cancel, Writes, Closed
<1>5. ASSUME NEW u \in User, NEW o \in Order, order_merge(u, o) PROVE Writes
  BY <1>5, MergeWrites DEF Writes
<1>3. \/ UNCHANGED rows
      \/ \E c \in Channel : payment_callback(c) \/ settle_intent(c)
      \/ \E u \in User : \/ surplus(u) \/ payment_patch(u)
                         \/ \E i \in Intent : payment_intent_create(u, i)
                         \/ \E o \in Order : order_cancel(u, o) \/ order_merge(u, o)
  BY DEF vars, Next, UserBegins, begin, callback_arrives, settle_arrives, fail, lapse, rows
<1>4. UNCHANGED rows => Writes
  BY DEF Writes
<1> QED
  BY <1>1, <1>2, <1>3, <1>4, <1>5, ChannelWrites

\* None of these writes touches an order that is over.
LEMMA WritesFinal ==
    ASSUME Typed, Writes
    PROVE  Final
<1>0. order \in [Order -> OrderRow]
  BY DEF Typed, TypeOK
<1>1. ASSUME NEW o \in Order, PartPaid(o) \/ Repriced(o) \/ Closed(o) PROVE Final
  BY <1>0, <1>1 DEF PartPaid, Repriced, Closed, Final, Over
<1>2. ASSUME NEW f \in Order, NEW t \in Order, NEW n \in Order, Merged(f, t, n) PROVE Final
  BY <1>2 DEF Merged, Final, Over
<1>3. ASSUME NEW o \in Order, NEW t \in Trade, NEW cents \in Nat, Books(o, t, cents) PROVE Final
  BY <1>0, <1>3 DEF Books, Final, Over
<1>4. ASSUME UNCHANGED order PROVE Final
  BY <1>4 DEF Final
<1> QED
  BY <1>1, <1>2, <1>3, <1>4 DEF Writes, rows, Opened, Expires
-----------------------------------------------------------------------------
(* What that keeps: exact amounts, intents consumed once, true answers.    *)

Collected == PaidExact /\ NothingBookedUnpaid

\* What an order got, if only one transaction books something on it.
LEMMA BookedAfter ==
    ASSUME Typed, NEW o \in Order, NEW t \in Trade, NEW cents \in Nat, log[t] = NoLog,
           log' = [log EXCEPT ![t] = [order |-> o, cents |-> cents]]
    PROVE  /\ Booked(o)' = Booked(o) \union {t}
           /\ log'[t].cents = cents
           /\ \A p \in Order \ {o} : Booked(p)' = Booked(p)
           /\ \A s \in Trade \ {t} : log'[s] = log[s]
<1>1. log \in [Trade -> LogRow] /\ o # Null
  BY NullIsNoRow DEF Typed, TypeOK
<1>2. log[t].order = Null /\ \A p \in Order : p # Null
  BY NullIsNoRow DEF NoLog
<1> QED
  BY <1>1, <1>2 DEF Booked

LEMMA StepCollected ==
    ASSUME Typed, Collected, Writes
    PROVE  Collected'
<1>0. order \in [Order -> OrderRow] /\ log \in [Trade -> LogRow]
  BY DEF Typed, TypeOK
<1> USE DEF Collected
\* A step that leaves the log alone.
<1>1. ASSUME UNCHANGED log, NEW o \in Order,
             \/ order'[o] = order[o]
             \/ /\ order[o].status # "paid"
                /\ order'[o].status = "paid" => order'[o].paid = order'[o].amount
      PROVE  /\ order'[o].status = "paid" =>
                    \/ Booked(o)' = {} /\ order'[o].paid = order'[o].amount
                    \/ \E t \in Trade : /\ Booked(o)' = {t}
                                        /\ order'[o].paid + log'[t].cents = order'[o].amount
             /\ order'[o].status # "paid" => Booked(o)' = {}
  <2>1. Booked(o)' = Booked(o)
    BY <1>1 DEF Booked
  <2>2. CASE order'[o] = order[o]
    BY <1>1, <2>1, <2>2 DEF PaidExact, NothingBookedUnpaid
  <2>3. CASE /\ order[o].status # "paid"
             /\ order'[o].status = "paid" => order'[o].paid = order'[o].amount
    BY <2>1, <2>3 DEF NothingBookedUnpaid
  <2> QED
    BY <1>1, <2>2, <2>3
<1>2. ASSUME UNCHANGED log,
             \A o \in Order :
                \/ order'[o] = order[o]
                \/ /\ order[o].status # "paid"
                   /\ order'[o].status = "paid" => order'[o].paid = order'[o].amount
      PROVE  Collected'
  BY <1>1, <1>2 DEF PaidExact, NothingBookedUnpaid
<1>3. CASE UNCHANGED rows \/ \E i \in Intent : Opened(i) \/ Expires(i)
  BY <1>2, <1>3 DEF rows, Opened, Expires
<1>4. ASSUME NEW o \in Order, PartPaid(o) PROVE Collected'
  <2>1. /\ \A p \in Order \ {o} : order'[p] = order[p]
        /\ order[o].status = "pending_payment"
        /\ order'[o].status = "paid" => order'[o].paid = order'[o].amount
        /\ UNCHANGED log
    BY <1>0, <1>4 DEF PartPaid, OrderRow
  <2> QED
    BY <1>2, <2>1
<1>5. ASSUME NEW o \in Order, Repriced(o) \/ Closed(o) PROVE Collected'
  <2>1. /\ \A p \in Order \ {o} : order'[p] = order[p]
        /\ order[o].status = "pending_payment" /\ order'[o].status # "paid"
        /\ UNCHANGED log
    BY <1>0, <1>5 DEF Repriced, Closed, OrderRow
  <2> QED
    BY <1>2, <2>1
<1>6. ASSUME NEW o \in Order, NEW t \in Trade, NEW cents \in Nat, Books(o, t, cents)
      PROVE  Collected'
  <2>1. /\ Booked(o)' = Booked(o) \union {t} /\ log'[t].cents = cents
        /\ \A p \in Order \ {o} : Booked(p)' = Booked(p)
        /\ \A s \in Trade \ {t} : log'[s] = log[s]
    BY <1>6, BookedAfter, ZenonT(30) DEF Books
  <2>2. /\ \A p \in Order \ {o} : order'[p] = order[p]
        /\ order'[o].status = "paid" /\ order'[o].paid = order[o].paid
        /\ order'[o].amount = order[o].amount
        /\ order[o].status = "pending_payment"
    BY <1>0, <1>6 DEF Books, OrderRow
  <2>3. Booked(o)' = {t}
    BY <2>1, <2>2 DEF NothingBookedUnpaid
  <2>4. order'[o].paid + log'[t].cents = order'[o].amount
    BY <1>0, <1>6, <2>1, <2>2 DEF Books, Rest, OrderRow
  <2>5. ASSUME NEW p \in Order \ {o}, NEW s \in Trade, Booked(p) = {s} PROVE log'[s] = log[s]
    <3>1. s # t
      BY <1>6, <2>5, NullIsNoRow DEF Booked, Books, NoLog
    <3> QED
      BY <2>1, <3>1
  <2>6. \A p \in Order \ {o} :
           /\ order'[p].status = "paid" =>
                 \/ Booked(p)' = {} /\ order'[p].paid = order'[p].amount
                 \/ \E s \in Trade : /\ Booked(p)' = {s}
                                     /\ order'[p].paid + log'[s].cents = order'[p].amount
           /\ order'[p].status # "paid" => Booked(p)' = {}
    BY <2>1, <2>2, <2>5 DEF PaidExact, NothingBookedUnpaid
  <2> QED
    BY <2>2, <2>3, <2>4, <2>6 DEF PaidExact, NothingBookedUnpaid
<1>7. ASSUME NEW f \in Order, NEW t \in Order, NEW n \in Order, Merged(f, t, n) PROVE Collected'
  <2>1. \A p \in Order : \/ order'[p] = order[p]
                         \/ order[p].status # "paid" /\ order'[p].status # "paid"
    BY <1>7 DEF Merged
  <2>2. UNCHANGED log
    BY <1>7 DEF Merged
  <2> QED
    BY <1>2, <2>1, <2>2
<1> QED
  BY <1>3, <1>4, <1>5, <1>6, <1>7 DEF Writes

\* On SQLite an intent that was consumed stays consumed.
LEMMA ConsumedStays ==
    ASSUME Typed, Writes, NEW i \in Intent, intent[i].status = "paid"
    PROVE  intent'[i] = intent[i]
<1>0. intent \in [Intent -> IntentRow]
  BY DEF Typed, TypeOK
<1> QED
  BY <1>0
     DEF Writes, rows, PartPaid, Repriced, Closed, Merged, Opened, Expires, Books, Consumes, IntentRow

LEMMA StepConsumed ==
    ASSUME Typed, Collected, ConsumedOnce, Writes, [Next]_vars
    PROVE  ConsumedOnce'
<1>0. /\ intent \in [Intent -> IntentRow] /\ log \in [Trade -> LogRow]
      /\ \A i \in Intent : intent[i].status = "paid" =>
            intent[i].order \in Order /\ intent'[i] = intent[i]
  BY ConsumedStays DEF Typed, TypeOK, RowsNameOrders
<1>1. ASSUME NEW i \in Intent, intent[i].status = "paid"
      PROVE  /\ order'[intent'[i].order].status = "paid"
             /\ \E t \in Trade : log'[t] = [order |-> intent'[i].order, cents |-> intent'[i].cents]
  <2>1. /\ intent'[i] = intent[i] /\ intent[i].order \in Order
        /\ order[intent[i].order].status = "paid"
    BY <1>0, <1>1 DEF ConsumedOnce
  <2>2. order'[intent[i].order].status = "paid"
    BY <2>1, WritesFinal DEF Final, Over
  <2>3. PICK t \in Trade : log[t] = [order |-> intent[i].order, cents |-> intent[i].cents]
    BY <1>1 DEF ConsumedOnce
  <2>4. log[t] # NoLog
    BY <2>1, <2>3, NullIsNoRow DEF NoLog
  <2>5. log'[t] = log[t]
    BY <2>4, StepRows DEF RowsOK, LogStays
  <2> QED
    BY <2>1, <2>2, <2>3, <2>5
<1> DEFINE Paying(i) == /\ order'[intent'[i].order].status = "paid"
                        /\ \E t \in Trade : log'[t] =
                              [order |-> intent'[i].order, cents |-> intent'[i].cents]
           Once(i, k) == intent'[k].order = intent'[i].order => intent'[k].status # "paid"
<1>a. ASSUME \A i \in Intent : intent'[i].status = "paid" =>
                 Paying(i) /\ \A k \in Intent \ {i} : Once(i, k)
      PROVE  ConsumedOnce'
  BY <1>a DEF ConsumedOnce
<1>2. CASE \A i \in Intent : intent'[i].status = "paid" => intent[i].status = "paid"
  <2>1. ASSUME NEW i \in Intent, intent'[i].status = "paid"
        PROVE  Paying(i) /\ \A k \in Intent \ {i} : Once(i, k)
    <3>1. \A k \in Intent : intent'[k].status = "paid" =>
             intent[k].status = "paid" /\ intent'[k] = intent[k]
      BY <1>0, <1>2
    <3>2. \A k \in Intent \ {i} : Once(i, k)
      BY <2>1, <3>1, ZenonT(30) DEF ConsumedOnce
    <3> QED
      BY <1>1, <2>1, <3>1, <3>2
  <2> QED
    BY <1>a, <2>1
<1>3. ASSUME NEW i \in Intent, NEW o \in Order, NEW t \in Trade, NEW cents \in Nat,
             Books(o, t, cents), Consumes(i, o, cents)
      PROVE  ConsumedOnce'
  <2>1. /\ intent'[i].status = "paid" /\ intent'[i].order = o /\ intent'[i].cents = cents
        /\ \A k \in Intent \ {i} : intent'[k] = intent[k]
    BY <1>0, <1>3 DEF Consumes, IntentRow
  <2>2. log'[t] = [order |-> o, cents |-> cents]
    BY <1>0, <1>3 DEF Books
  <2>3. order'[o].status = "paid" /\ order[o].status = "pending_payment"
    BY <1>3 DEF Books, Typed, TypeOK, OrderRow
  <2>4. \A k \in Intent : intent[k].status = "paid" => intent[k].order # o
    BY <2>3 DEF ConsumedOnce
  <2>5. \A k \in Intent \ {i} : intent'[k].status = "paid" =>
           intent[k].status = "paid" /\ intent'[k] = intent[k] /\ intent[k].order # o
    BY <2>1, <2>4
  <2>6. Paying(i) /\ \A k \in Intent \ {i} : Once(i, k)
    BY <2>1, <2>2, <2>3, <2>5
  <2>7. ASSUME NEW m \in Intent \ {i}, intent'[m].status = "paid"
        PROVE  Paying(m) /\ \A k \in Intent \ {m} : Once(m, k)
    <3>1. Paying(m)
      BY <1>1, <2>5, <2>7
    <3>2. /\ intent[m].status = "paid" /\ intent'[m] = intent[m]
          /\ intent[m].order # o
      BY <2>5, <2>7
    <3>3. ASSUME NEW k \in Intent \ {m}  PROVE  Once(m, k)
      <4>1. CASE k = i
        BY <2>1, <3>2, <4>1
      <4>2. CASE k # i
        <5>1. intent'[k] = intent[k]
          BY <2>1, <4>2
        <5> QED
          BY <3>2, <5>1 DEF ConsumedOnce
      <4> QED
        BY <4>1, <4>2
    <3> QED
      BY <3>1, <3>3
  <2> HIDE DEF Paying, Once
  <2> QED
    BY <1>a, <2>6, <2>7
<1>4. CASE \E o \in Order, t \in Trade, cents \in Nat :
              Books(o, t, cents) /\ \E i \in Intent : Consumes(i, o, cents)
  BY <1>3, <1>4
<1>5. \/ \A i \in Intent : intent'[i].status = "paid" => intent[i].status = "paid"
      \/ \E o \in Order, t \in Trade, cents \in Nat :
              Books(o, t, cents) /\ \E i \in Intent : Consumes(i, o, cents)
  BY <1>0
     DEF Writes, rows, PartPaid, Repriced, Closed, Merged, Opened, Expires, Books, IntentRow
<1> QED
  BY <1>2, <1>4, <1>5
\* What the transaction of a provider has seen of its trade number and of its
\* intent still holds when it is final.
SeenStays ==
    \A c \in Channel : job[c] # Null =>
        /\ job[c].logged # Null => log[job[c].t].order = job[c].logged
        /\ job[c].op = "settle" /\ job[c].intent.status = "paid" =>
              intent[job[c].i].status = "paid"

LEMMA StepSeen ==
    ASSUME Typed, SeenStays, Writes, [Next]_vars
    PROVE  SeenStays'
<1> SUFFICES ASSUME NEW c \in Channel, job'[c] # Null
             PROVE  /\ job'[c].logged # Null => log'[job'[c].t].order = job'[c].logged
                    /\ job'[c].op = "settle" /\ job'[c].intent.status = "paid" =>
                          intent'[job'[c].i].status = "paid"
  BY DEF SeenStays
<1>0. c \in Actor /\ c \notin User
  BY SettlementAssumption DEF Actor
<1>1. CASE Kept(c)
  <2>1. /\ job[c] # Null /\ job'[c].t = job[c].t /\ job'[c].i = job[c].i
        /\ job'[c].logged = job[c].logged /\ job'[c].op = job[c].op
        /\ job'[c].intent = job[c].intent
    BY <1>1 DEF Kept, Request
  <2>2. job[c].t \in Trade /\ (job[c].op = "settle" => job[c].i \in Intent)
    BY <2>1 DEF Typed, ChannelRequests
  <2>3. ASSUME job[c].logged # Null PROVE log'[job[c].t].order = job[c].logged
    <3>1. log[job[c].t].order # Null
      BY <2>1, <2>3 DEF SeenStays
    <3>2. log[job[c].t] # NoLog
      BY <3>1 DEF NoLog
    <3> QED
      BY <2>1, <2>2, <2>3, <3>2, StepRows DEF SeenStays, RowsOK, LogStays
  <2>4. ASSUME job[c].op = "settle", job[c].intent.status = "paid"
        PROVE  intent'[job[c].i].status = "paid"
    BY <2>1, <2>2, <2>4, ConsumedStays DEF SeenStays
  <2> QED
    BY <2>1, <2>3, <2>4
<1>2. CASE Begun(c)
  <2>1. /\ UNCHANGED <<intent, log>> /\ job'[c].t \in Trade
        /\ job'[c].logged = log[job'[c].t].order
        /\ job'[c].op = "settle" => job'[c].i \in Intent /\ job'[c].intent = intent[job'[c].i]
    BY <1>0, <1>2, NullIsNoRow DEF Begun
  <2> QED
    BY <2>1
<1> QED
  BY <1>0, <1>1, <1>2, JobSteps

\* An answer is "ok" only if the trade number is booked on the order and, for a
\* settlement, the intent is consumed.
Answered(n) == /\ log[n[4]].order = n[2]
               /\ n[1] = "settle" => n[3] \in Intent /\ intent[n[3]].status = "paid"

LEMMA NewAnswers ==
    ASSUME Typed, FreshSees, SeenStays, Backend = "sqlite", [Next]_vars,
           NEW n \in acked', n \notin acked
    PROVE  Answered(n)'
<1>1. PICK c \in Channel : payment_callback(c) \/ settle_intent(c)
  BY ZenonT(30) DEF vars, Next, UserBegins, begin, order_cancel, order_merge, surplus, payment_patch,
         payment_intent_create, callback_arrives, settle_arrives, fail, lapse
<1> DEFINE j == job[c]
<1>2. /\ job[c] # Null /\ c \in Actor /\ j.o \in Order /\ j.t \in Trade
      /\ order[j.o] \in OrderRow /\ j.o # Null
      /\ log \in [Trade -> LogRow] /\ intent \in [Intent -> IntentRow]
  BY <1>1, ChannelRows, NullIsNoRow DEF payment_callback, settle_intent, Running, Typed, TypeOK
<1>3. /\ n = Notice(j)
      /\ \/ payment_callback(c) /\ CallbackAnswers(c) /\ j.logged = j.o
         \/ payment_callback(c) /\ CallbackPays(c)
         \/ settle_intent(c) /\ SettledBefore(c) /\ j.intent.status = "paid" /\ j.logged = j.o
         \/ settle_intent(c) /\ SettlePays(c)
  BY <1>1 DEF payment_callback, CallbackAnswers, CallbackPays, settle_intent,
              SettledBefore, SettleExpires, SettleRefuses, SettlePays, Answer
<1>4. n[1] = j.op /\ n[2] = j.o /\ n[3] = j.i /\ n[4] = j.t
  BY <1>3 DEF Notice
<1>5. ASSUME payment_callback(c) /\ CallbackAnswers(c) /\ j.logged = j.o PROVE Answered(n)'
  BY <1>2, <1>4, <1>5 DEF payment_callback, Running, CallbackAnswers, SeenStays, Answered
<1>6. ASSUME payment_callback(c) /\ CallbackPays(c) PROVE Answered(n)'
  BY <1>2, <1>4, <1>6 DEF payment_callback, Running, CallbackPays, Answered
<1>7. ASSUME settle_intent(c) /\ SettledBefore(c) /\ j.intent.status = "paid" /\ j.logged = j.o
      PROVE  Answered(n)'
  BY <1>2, <1>4, <1>7 DEF settle_intent, Running, SettledBefore, SeenStays, Answered,
                               Typed, ChannelRequests
<1>8. ASSUME settle_intent(c) /\ SettlePays(c) PROVE Answered(n)'
  <2>1. j.i \in Intent /\ j.i # Null /\ j.intent = intent[j.i] /\ intent[j.i].status = "pending"
    BY <1>2, <1>8, NullIsNoRow
       DEF settle_intent, Running, SettlePays, MayWrite, Open, FreshSees, Typed, ChannelRequests
  <2> QED
    BY <1>2, <1>4, <1>8, <2>1 DEF SettlePays, Answered, IntentRow
<1> QED
  BY <1>3, <1>5, <1>6, <1>7, <1>8

LEMMA OldAnswers ==
    ASSUME Typed, Writes, [Next]_vars, NEW n \in acked, Answered(n)
    PROVE  Answered(n)'
<1>1. n[2] \in Order /\ n[4] \in Trade
  BY DEF Typed, RowsNameOrders, Notices
<1>2. log[n[4]] # NoLog
  BY <1>1, NullIsNoRow DEF Answered, NoLog
<1>3. log'[n[4]] = log[n[4]]
  BY <1>1, <1>2, StepRows DEF RowsOK, LogStays
<1>4. n[3] \in Intent /\ intent[n[3]].status = "paid" => intent'[n[3]] = intent[n[3]]
  BY ConsumedStays
<1> QED
  BY <1>1, <1>3, <1>4 DEF Answered
\* What the theorems about SQLite rest on.
Inv ==
    /\ FreshSees /\ SeenStays
    /\ Collected /\ ConsumedOnce
    /\ \A n \in acked : Answered(n)

LEMMA InitInv == Init => Inv
<1> SUFFICES ASSUME Init PROVE Inv
  OBVIOUS
<1>1. FreshSees /\ SeenStays
  BY DEF Init, FreshSees, SeenStays, Actor
<1>2. \A o \in Order : Booked(o) = {}
  BY NullIsNoRow DEF Init, Booked, NoLog
<1>3. Collected
  BY <1>2 DEF Init, Collected, PaidExact, NothingBookedUnpaid, NoOrder
<1>4. ConsumedOnce
  BY DEF Init, ConsumedOnce, NoIntent
<1>5. acked = {}
  BY DEF Init
<1> QED
  BY <1>1, <1>3, <1>4, <1>5 DEF Inv

LEMMA StepInv ==
    ASSUME Backend = "sqlite", Typed, Inv, [Next]_vars
    PROVE  Inv'
<1>1. Writes
  BY SqliteWrites DEF Inv
<1>2. FreshSees' /\ SeenStays'
  BY <1>1, StepFresh, StepSeen DEF Inv
<1>3. Collected' /\ ConsumedOnce'
  BY <1>1, StepCollected, StepConsumed DEF Inv
<1>4. ASSUME NEW n \in acked' PROVE Answered(n)'
  BY <1>1, NewAnswers, OldAnswers DEF Inv
<1> QED
  BY <1>2, <1>3, <1>4 DEF Inv

LEMMA AlwaysInv ==
    ASSUME Backend = "sqlite"
    PROVE  Spec => []Inv
<1>1. Typed /\ Inv /\ [Next]_vars => Inv'
  BY StepInv
<1> QED
  BY <1>1, InitInv, AlwaysTyped, PTL DEF Spec

\* On SQLite a paid order got exactly its amount, from the balance or with the
\* rest from one provider transaction, and an order that is not paid has no
\* provider money booked, however balance payments, method changes,
\* cancellations and repeated notifications overlap (docs/14:18).
THEOREM ExactlyPaid ==
    ASSUME Backend = "sqlite"
    PROVE  Spec => [](PaidExact /\ NothingBookedUnpaid)
<1>1. Inv => PaidExact /\ NothingBookedUnpaid
  BY DEF Inv, Collected
<1> QED
  BY <1>1, AlwaysInv, PTL

\* On SQLite, where a merge cannot write once the orders it read have changed,
\* nothing reopens, closes again or reprices an order that is paid, cancelled or
\* merged (docs/14:18; order.rs:435, 763-774, 898, 949, payment.rs:149, 383).
THEOREM NothingFinalChanges ==
    ASSUME Backend = "sqlite"
    PROVE  Spec => FinalStays
<1>1. Typed /\ Inv /\ [Next]_vars => Final
  BY SqliteWrites, WritesFinal DEF Inv
<1> QED
  BY <1>1, AlwaysTyped, AlwaysInv, PTL DEF Spec, FinalStays, Final

\* On SQLite no trade number is booked on an order that is not paid: a settlement
\* that is rejected has written nothing (payment.rs:361-390).
THEOREM NothingUnpaidIsBooked ==
    ASSUME Backend = "sqlite"
    PROVE  Spec => []NothingBookedUnpaid
BY ExactlyPaid, PTL

\* On SQLite a consumed intent paid its order with exactly its amount, and no
\* second intent of that order is ever consumed (payment.rs:273).
THEOREM IntentConsumedOnce ==
    ASSUME Backend = "sqlite"
    PROVE  Spec => []ConsumedOnce
<1>1. Inv => ConsumedOnce
  BY DEF Inv
<1> QED
  BY <1>1, AlwaysInv, PTL

\* On SQLite a provider that was told "ok" has paid: its order is paid and its
\* trade number booked on it, and a settlement's intent is consumed, so that the
\* answer is the same when the notification comes again (payment.rs:275, 303-308).
THEOREM OkIsTrue ==
    ASSUME Backend = "sqlite"
    PROVE  Spec => []OkIsPaid
<1>1. Typed /\ Inv => OkIsPaid
  <2> SUFFICES ASSUME Typed, Inv, NEW n \in acked
               PROVE  /\ order[n[2]].status = "paid" /\ log[n[4]].order = n[2]
                      /\ n[1] = "settle" => intent[n[3]].status = "paid"
    BY DEF OkIsPaid
  <2>1. n[2] \in Order /\ n[4] \in Trade /\ Answered(n)
    BY DEF Typed, RowsNameOrders, Notices, Inv
  <2>2. n[4] \in Booked(n[2])
    BY <2>1 DEF Answered, Booked
  <2> QED
    BY <2>1, <2>2 DEF Answered, Inv, Collected, NothingBookedUnpaid
<1> QED
  BY <1>1, AlwaysInv, AlwaysTyped, PTL
-----------------------------------------------------------------------------
(* On SQLite, Settlement implements Collection.                            *)

\* An order asks for at least its payment fee, and the balance has paid nothing
\* for one that was merged.
Amounts ==
    \A o \in Order :
        /\ order[o].fee \in Nat /\ order[o].amount \in Nat /\ order[o].fee <= order[o].amount
        /\ order[o].status \in {"none", "merged"} => order[o].paid = 0

LEMMA StepAmounts ==
    ASSUME Typed, Amounts, Writes
    PROVE  Amounts'
<1>0. order \in [Order -> OrderRow]
  BY DEF Typed, TypeOK
<1>1. ASSUME NEW o \in Order, Repriced(o) PROVE Amounts'
  <2>1. PICK p \in Payment :
           order' = [order EXCEPT ![o] = [order[o] EXCEPT
                        !.pay = p, !.fee = PayFee[p],
                        !.amount = order[o].amount - order[o].fee + PayFee[p]]]
    BY <1>1 DEF Repriced
  <2>2. /\ \A q \in Order \ {o} : order'[q] = order[q]
        /\ order'[o].fee = PayFee[p] /\ order'[o].status = "pending_payment"
        /\ order'[o].amount = order[o].amount - order[o].fee + PayFee[p]
    BY <1>0, <1>1, <2>1 DEF OrderRow, Repriced
  <2>3. /\ PayFee[p] \in Nat /\ order[o].fee \in Nat /\ order[o].amount \in Nat
        /\ order[o].fee <= order[o].amount
    BY SettlementAssumption DEF Amounts
  <2>4. /\ order'[o].amount \in Nat /\ order'[o].fee \in Nat
        /\ order'[o].fee <= order'[o].amount
    BY <2>2, <2>3
  <2> QED
    BY <2>2, <2>4 DEF Amounts
<1>2. ASSUME \A o \in Order : \/ order'[o] = order[o]
                             \/ /\ order'[o].amount = order[o].amount
                                /\ order'[o].fee = order[o].fee
                                /\ order'[o].status \notin {"none", "merged"}
      PROVE  Amounts'
  BY <1>2 DEF Amounts
<1>3. ASSUME NEW p \in Order, PartPaid(p) \/ Closed(p) PROVE Amounts'
  <2>1. \A o \in Order \ {p} : order'[o] = order[o]
    BY <1>0, <1>3 DEF PartPaid, Closed
  <2>2. /\ order'[p].amount = order[p].amount /\ order'[p].fee = order[p].fee
        /\ order'[p].status \notin {"none", "merged"}
    BY <1>0, <1>3 DEF PartPaid, Closed, OrderRow
  <2> QED
    BY <1>2, <2>1, <2>2
<1>4. ASSUME NEW p \in Order, NEW t \in Trade, NEW cents \in Nat, Books(p, t, cents)
      PROVE  Amounts'
  <2>1. \A o \in Order \ {p} : order'[o] = order[o]
    BY <1>0, <1>4 DEF Books
  <2>2. /\ order'[p].amount = order[p].amount /\ order'[p].fee = order[p].fee
        /\ order'[p].status \notin {"none", "merged"}
    BY <1>0, <1>4 DEF Books, OrderRow
  <2> QED
    BY <1>2, <2>1, <2>2
<1>5. ASSUME UNCHANGED order PROVE Amounts'
  BY <1>2, <1>5
<1>6. ASSUME NEW f \in Order, NEW t \in Order, NEW n \in Order, Merged(f, t, n) PROVE Amounts'
  <2>1. /\ order'[n].amount \in Nat /\ order'[n].fee \in Nat
        /\ order'[n].fee <= order'[n].amount /\ order'[n].status = "pending_payment"
    BY <1>6 DEF Merged, Amounts
  <2>2. \A p \in {f, t} : /\ order'[p].amount = order[p].amount /\ order'[p].paid = 0
                          /\ order'[p].fee = order[p].fee
    BY <1>6 DEF Merged
  <2>3. \A p \in Order \ {f, t, n} : order'[p] = order[p]
    BY <1>6 DEF Merged
  <2> QED
    BY <2>1, <2>2, <2>3 DEF Amounts
<1> QED
  BY <1>1, <1>3, <1>4, <1>5, <1>6 DEF Writes, rows, Opened, Expires

LEMMA GotFacts ==
    Typed /\ Collected /\ Amounts =>
        \A o \in Order :
           /\ Got(o) \in Nat /\ IsFiniteSet(Booked(o))
           /\ order[o].status = "pending_payment" => Got(o) = order[o].paid
           /\ order[o].status \in {"none", "cancelled", "merged"} => Got(o) = 0
           /\ order[o].status = "paid" => Got(o) = order[o].amount
           /\ order[o].amount \in Nat
<1> SUFFICES ASSUME Typed, Collected, Amounts, NEW o \in Order
             PROVE  /\ Got(o) \in Nat /\ IsFiniteSet(Booked(o))
                    /\ order[o].status = "pending_payment" => Got(o) = order[o].paid
                    /\ order[o].status \in {"none", "cancelled", "merged"} => Got(o) = 0
                    /\ order[o].status = "paid" => Got(o) = order[o].amount
                    /\ order[o].amount \in Nat
  OBVIOUS
<1> DEFINE cents == [t \in Trade |-> log[t].cents]
<1>1. /\ order[o].paid \in Nat
      /\ order[o].status \in {"none", "merged"} => order[o].paid = 0
      /\ \A t \in Trade : cents[t] \in Nat /\ cents[t] = log[t].cents
  BY DEF Typed, TypeOK, OrderRow, LogRow, Amounts
<1>2. order[o].amount \in Nat
  BY DEF Amounts
<1> HIDE DEF cents
<1>3. CASE Booked(o) = {}
  <2>1. SumFunctionOnSet(cents, Booked(o)) = 0
    BY <1>3, SumEmpty
  <2>2. Got(o) = IF order[o].status = "cancelled" THEN 0 ELSE order[o].paid
    BY <1>1, <2>1 DEF Got, cents
  <2>3. order[o].status = "paid" => order[o].paid = order[o].amount
    BY <1>3 DEF Collected, PaidExact
  <2> QED
    BY <1>1, <1>2, <1>3, <2>2, <2>3, FS_EmptySet
<1>4. ASSUME NEW t \in Trade, Booked(o) = {t}, order[o].paid + log[t].cents = order[o].amount,
             order[o].status = "paid"
      PROVE  Got(o) = order[o].amount /\ IsFiniteSet(Booked(o))
  <2>1. cents[t] \in Int /\ cents[t] = log[t].cents
    BY <1>1
  <2>2. SumFunctionOnSet(cents, {t}) = cents[t]
    BY <2>1, SumOne
  <2> QED
    BY <1>4, <2>1, <2>2, FS_Singleton DEF Got, cents
<1>5. \/ Booked(o) = {}
      \/ \E t \in Trade : /\ Booked(o) = {t}
                          /\ order[o].paid + log[t].cents = order[o].amount
                          /\ order[o].status = "paid"
  BY DEF Collected, PaidExact, NothingBookedUnpaid
<1> QED
  BY <1>2, <1>3, <1>4, <1>5

LEMMA GotSame ==
    ASSUME Typed, Collected, Amounts, NEW o \in Order,
           order'[o].status = order[o].status, order'[o].paid = order[o].paid,
           Booked(o)' = Booked(o), \A t \in Booked(o) : log'[t] = log[t]
    PROVE  Got(o)' = Got(o)
<1> DEFINE f == [t \in Trade |-> log[t].cents]
           g == [t \in Trade |-> log'[t].cents]
<1>1. \A t \in Booked(o) : f[t] \in Int /\ g[t] = f[t]
  BY DEF Typed, TypeOK, LogRow, Booked
<1>2. IsFiniteSet(Booked(o))
  BY GotFacts
<1> HIDE DEF f, g
<1>3. SumFunctionOnSet(g, Booked(o)) = SumFunctionOnSet(f, Booked(o))
  BY <1>1, <1>2, SumSame
<1> QED
  BY <1>3 DEF Got, f, g
\* What the refinement rests on; it holds of both ends of a step.
Sound == Typed /\ Collected /\ Amounts

\* The mapping of each order.
Mapped ==
    /\ Gathered \in [Order -> Nat] /\ Price \in [Order -> Nat]
    /\ Stage \in [Order -> {"none", "due", "settled", "closed"}]
    /\ \A o \in Order :
          /\ Stage[o] = "none" <=> order[o].status = "none"
          /\ Stage[o] = "due" <=> order[o].status = "pending_payment"
          /\ Stage[o] = "settled" <=> order[o].status = "paid"
          /\ Stage[o] = "closed" <=> order[o].status \in {"cancelled", "merged"}
          /\ Price[o] = order[o].amount /\ Gathered[o] = Got(o)
          /\ Stage[o] = "due" => Gathered[o] = order[o].paid
          /\ Stage[o] = "settled" => Gathered[o] = Price[o]
          /\ Stage[o] \in {"none", "closed"} => Gathered[o] = 0

LEMMA SoundMapped == Sound => Mapped
<1> SUFFICES ASSUME Sound PROVE Mapped
  OBVIOUS
<1>1. \A o \in Order : order[o].status \in Status
  BY DEF Sound, Typed, TypeOK, OrderRow
<1>2. /\ Stage \in [Order -> {"none", "due", "settled", "closed"}]
      /\ \A o \in Order : /\ Stage[o] = "none" <=> order[o].status = "none"
                          /\ Stage[o] = "due" <=> order[o].status = "pending_payment"
                          /\ Stage[o] = "settled" <=> order[o].status = "paid"
                          /\ Stage[o] = "closed" <=> order[o].status \in {"cancelled", "merged"}
  BY <1>1 DEF Stage, Status
<1>3. Typed /\ Collected /\ Amounts
  BY DEF Sound
<1>4. \A o \in Order : Price[o] = order[o].amount /\ Gathered[o] = Got(o)
  BY DEF Price, Gathered
<1>5. Gathered \in [Order -> Nat] /\ Price \in [Order -> Nat]
  BY <1>3, GotFacts DEF Price, Gathered
<1> QED
  BY <1>1, <1>2, <1>3, <1>4, <1>5, GotFacts DEF Mapped

LEMMA SoundMappedNext == Sound' => Mapped'
BY SoundMapped, PTL

LEMMA InitAmounts == Init => Amounts
BY SettlementAssumption DEF Init, Amounts, NoOrder

LEMMA RefineInit == Init => Money!Init
<1> SUFFICES ASSUME Init PROVE Money!Init
  OBVIOUS
<1>1. \A o \in Order : order[o].status \in {"none", "pending_payment"} /\ order[o].paid = 0
  BY DEF Init, NoOrder
<1>2. Stage \in [Order -> {"none", "due"}]
  BY <1>1 DEF Stage
<1>4. Sound
  BY InitTyped, InitInv, InitAmounts DEF Sound, Inv
<1>3. Price \in [Order -> Nat]
  BY <1>4, SoundMapped DEF Mapped
<1>5. Gathered = [o \in Order |-> 0]
  BY <1>2, <1>1, <1>4, SoundMapped DEF Mapped, Gathered
<1> QED
  BY <1>2, <1>3, <1>5 DEF Money!Init

\* An order that a step does not write gathers nothing and stays where it is.
LEMMA OtherStays ==
    ASSUME Sound, Sound', NEW p \in Order, order'[p] = order[p], UNCHANGED log
    PROVE  Gathered'[p] = Gathered[p] /\ Stage'[p] = Stage[p] /\ Price'[p] = Price[p]
<1>1. Got(p)' = Got(p)
  BY GotSame DEF Sound, Booked
<1> QED
  BY <1>1 DEF Gathered, Stage, Price

LEMMA RefineStep ==
    ASSUME Sound, Sound', Writes
    PROVE  Money!Next \/ UNCHANGED <<Stage, Price, Gathered>>
<1>0. order \in [Order -> OrderRow] /\ log \in [Trade -> LogRow] /\ Mapped /\ Mapped'
  BY SoundMapped, SoundMappedNext DEF Sound, Typed, TypeOK
<1>1. CASE UNCHANGED <<order, log>>
  BY <1>1 DEF Stage, Price, Gathered, Got, Booked
<1>2. ASSUME NEW o \in Order,
             \A p \in Order \ {o} : Gathered'[p] = Gathered[p] /\ Stage'[p] = Stage[p],
             Price' = Price, Stage[o] = "due", Stage'[o] \in {"due", "settled"},
             Gathered[o] < Gathered'[o], Gathered'[o] <= Price[o],
             Stage'[o] = "due" => Gathered'[o] # Price[o]
      PROVE  Money!Next
  <2>1. Stage'[o] = IF Gathered'[o] = Price[o] THEN "settled" ELSE "due"
    BY <1>0, <1>2 DEF Mapped
  <2>2. Stage' = [Stage EXCEPT ![o] = IF Gathered'[o] = Price[o] THEN "settled" ELSE "due"]
    BY <1>0, <1>2, <2>1 DEF Mapped
  <2>3. Money!Collect(o)
    BY <1>0, <1>2, <2>2 DEF Mapped, Money!Collect, Money!Others, Money!Reached
  <2> QED
    BY <2>3 DEF Money!Next
<1>3. ASSUME NEW o \in Order, PartPaid(o) PROVE Money!Next
  <2>1. /\ \A p \in Order \ {o} : order'[p] = order[p]
        /\ UNCHANGED log /\ order[o].status = "pending_payment"
    BY <1>0, <1>3 DEF PartPaid
  <2>2. /\ order'[o].amount = order[o].amount
        /\ order'[o].status \in {"pending_payment", "paid"}
        /\ order[o].paid < order'[o].paid /\ order'[o].paid <= order[o].amount
        /\ order'[o].status = "paid" <=> order'[o].paid = order[o].amount
    BY <1>0, <1>3 DEF PartPaid, OrderRow
  <2>3. \A p \in Order \ {o} : /\ Gathered'[p] = Gathered[p] /\ Stage'[p] = Stage[p]
                               /\ Price'[p] = Price[p]
    BY <2>1, OtherStays
  <2>4. Price' = Price
    BY <1>0, <2>2, <2>3 DEF Mapped
  <2>5. Gathered[o] = order[o].paid /\ Gathered'[o] = order'[o].paid
    BY <1>0, <2>1, <2>2 DEF Mapped
  <2> QED
    BY <1>0, <1>2, <2>1, <2>2, <2>3, <2>4, <2>5 DEF Mapped
<1>4. ASSUME NEW o \in Order, NEW t \in Trade, NEW cents \in Nat, Books(o, t, cents)
      PROVE  Money!Next
  <2>1. /\ \A p \in Order \ {o} : order'[p] = order[p]
        /\ order[o].status = "pending_payment" /\ order'[o].status = "paid"
        /\ order'[o].paid = order[o].paid /\ order'[o].amount = order[o].amount
        /\ order[o].paid < order[o].amount
    BY <1>0, <1>4 DEF Books, Rest, OrderRow
  <2>2. ASSUME NEW p \in Order \ {o}
        PROVE  /\ Gathered'[p] = Gathered[p] /\ Stage'[p] = Stage[p] /\ Price'[p] = Price[p]
    <3>1. Booked(p)' = Booked(p) /\ \A s \in Trade \ {t} : log'[s] = log[s]
      BY <1>4, BookedAfter DEF Books, Sound
    <3>2. t \notin Booked(p)
      BY <1>4, NullIsNoRow DEF Booked, Books, NoLog
    <3>3. Got(p)' = Got(p)
      BY <2>1, <3>1, <3>2, GotSame DEF Sound, Booked
    <3> QED
      BY <2>1, <3>3 DEF Gathered, Stage, Price
  <2>3. Price' = Price
    BY <1>0, <2>1, <2>2 DEF Mapped
  <2>4. Stage[o] = "due" /\ Stage'[o] = "settled" /\ Gathered[o] = order[o].paid
        /\ Gathered'[o] = Price[o] /\ Price[o] = order[o].amount
    BY <1>0, <2>1, <2>3 DEF Mapped
  <2>5. Gathered[o] < Gathered'[o] /\ Gathered'[o] <= Price[o]
    BY <1>0, <2>1, <2>4 DEF Mapped
  <2> QED
    BY <1>2, <2>2, <2>3, <2>4, <2>5
<1>5. ASSUME NEW o \in Order, Repriced(o) PROVE Money!Next
  <2>1. /\ \A p \in Order \ {o} : order'[p] = order[p]
        /\ UNCHANGED log /\ order[o].status = "pending_payment"
        /\ order'[o].status = "pending_payment" /\ order'[o].paid = order[o].paid
    BY <1>0, <1>5 DEF Repriced, OrderRow
  <2>2. \A p \in Order \ {o} : /\ Gathered'[p] = Gathered[p] /\ Stage'[p] = Stage[p]
                               /\ Price'[p] = Price[p]
    BY <2>1, OtherStays
  <2>3. Gathered'[o] = Gathered[o] /\ Stage'[o] = Stage[o] /\ Stage[o] = "due"
    BY <1>0, <2>1 DEF Mapped
  <2>4. Gathered' = Gathered /\ Stage' = Stage
    BY <1>0, <2>2, <2>3 DEF Mapped
  <2>5. Money!Reprice(o)
    BY <1>0, <2>2, <2>3, <2>4 DEF Mapped, Money!Reprice, Money!Others
  <2> QED
    BY <2>5 DEF Money!Next
<1>6. ASSUME NEW o \in Order, Closed(o) PROVE Money!Next
  <2>1. /\ \A p \in Order \ {o} : order'[p] = order[p]
        /\ UNCHANGED log /\ order[o].status = "pending_payment"
        /\ order'[o].status = "cancelled" /\ order'[o].amount = order[o].amount
    BY <1>0, <1>6 DEF Closed, OrderRow
  <2>2. \A p \in Order \ {o} : /\ Gathered'[p] = Gathered[p] /\ Stage'[p] = Stage[p]
                               /\ Price'[p] = Price[p]
    BY <2>1, OtherStays
  <2>3. /\ Stage[o] = "due" /\ Stage'[o] = "closed" /\ Gathered'[o] = 0
        /\ Price'[o] = Price[o]
    BY <1>0, <2>1 DEF Mapped
  <2>4. /\ Price' = Price /\ Stage' = [Stage EXCEPT ![o] = "closed"]
        /\ Gathered' = [Gathered EXCEPT ![o] = 0]
    BY <1>0, <2>2, <2>3 DEF Mapped
  <2>5. Money!Close(o)
    BY <2>3, <2>4 DEF Money!Close
  <2> QED
    BY <2>5 DEF Money!Next
<1>7. ASSUME NEW f \in Order, NEW t \in Order, NEW n \in Order, Merged(f, t, n)
      PROVE  Money!Next
  <2>1. /\ f # t /\ f # n /\ t # n
        /\ order[f].status = "pending_payment" /\ order[t].status = "pending_payment"
        /\ order[f].paid = 0 /\ order[t].paid = 0 /\ order[n].status = "none"
        /\ order'[f].status = "merged" /\ order'[t].status = "merged"
        /\ order'[n].status = "pending_payment" /\ order'[n].paid = 0
        /\ order'[f].amount = order[f].amount /\ order'[t].amount = order[t].amount
        /\ UNCHANGED log
    BY <1>7 DEF Merged
  <2>2. \A p \in Order \ {f, t, n} : /\ Gathered'[p] = Gathered[p] /\ Stage'[p] = Stage[p]
                                     /\ Price'[p] = Price[p]
    BY <1>7, <2>1, OtherStays DEF Merged
  <2>3. /\ Stage[f] = "due" /\ Stage[t] = "due" /\ Stage[n] = "none"
        /\ Stage'[f] = "closed" /\ Stage'[t] = "closed" /\ Stage'[n] = "due"
        /\ Gathered[f] = 0 /\ Gathered[t] = 0 /\ Gathered[n] = 0
        /\ Gathered'[f] = 0 /\ Gathered'[t] = 0 /\ Gathered'[n] = 0
        /\ Price'[f] = Price[f] /\ Price'[t] = Price[t]
    BY <1>0, <2>1 DEF Mapped
  <2>4. Gathered' = Gathered
    BY <1>0, <2>2, <2>3 DEF Mapped
  <2>5. Stage' = [Stage EXCEPT ![f] = "closed", ![t] = "closed", ![n] = "due"]
    BY <1>0, <2>1, <2>2, <2>3 DEF Mapped
  <2>6. Money!Merge(f, t)
    <3>1. Price' \in [Order -> Nat] /\ \A p \in Order \ {n} : Price'[p] = Price[p]
      BY <1>0, <2>2, <2>3 DEF Mapped
    <3>2. Price'[n] = Price[f] + Price[t]
      BY <1>0, <1>7 DEF Mapped, Merged
    <3> QED
      BY <1>0, <2>1, <2>3, <2>4, <2>5, <3>1, <3>2 DEF Mapped, Money!Merge, Money!Others
  <2> QED
    BY <2>6 DEF Money!Next
<1> QED
  BY <1>1, <1>3, <1>4, <1>5, <1>6, <1>7 DEF Writes, rows, Opened, Expires

\* On SQLite every step of the handlers collects, reprices or closes as
\* Collection allows, or changes nothing it speaks of: an order is settled by the
\* payment that completes its price and by no other, and then nothing changes it.
THEOREM SettlementCollects ==
    ASSUME Backend = "sqlite"
    PROVE  Spec => ImplementsCollection
<1>2. Typed /\ Inv /\ Amounts /\ [Next]_vars => Amounts'
  BY SqliteWrites, StepAmounts DEF Inv
<1>3. Typed /\ Typed' /\ Inv /\ Inv' /\ Amounts /\ Amounts' /\ [Next]_vars =>
          [Money!Next]_(Money!vars)
  <2> SUFFICES ASSUME Typed, Typed', Inv, Inv', Amounts, Amounts', [Next]_vars
               PROVE  Money!Next \/ UNCHANGED <<Stage, Price, Gathered>>
    BY DEF Money!vars
  <2>1. Writes
    BY SqliteWrites DEF Inv
  <2>2. Sound /\ Sound'
    BY DEF Sound, Inv
  <2> QED
    BY <2>1, <2>2, RefineStep
<1> QED
  BY <1>2, <1>3, InitAmounts, RefineInit, AlwaysTyped, AlwaysInv, PTL
     DEF Spec, ImplementsCollection, Money!Spec
-----------------------------------------------------------------------------
(* What MySQL keeps too.                                                   *)

\* What the transaction of a provider has read of its trade number and of the
\* amount of its intent stays true, whoever commits meanwhile.
Shown ==
    \A c \in Channel : job[c] # Null =>
        /\ job[c].logged # Null => log[job[c].t].order = job[c].logged
        /\ job[c].op = "settle" => job[c].intent.cents = intent[job[c].i].cents

\* Every answer "ok" has a booking, and so has every consumed intent.
AnswersBooked ==
    \A n \in acked : log[n[4]].order = n[2] /\ (n[1] = "settle" => n[3] \in Intent)
ConsumedBooked ==
    \A i \in Intent : intent[i].status = "paid" =>
        \E t \in Trade : log[t] = [order |-> intent[i].order, cents |-> intent[i].cents]

LEMMA StepShown ==
    ASSUME Typed, Shown, [Next]_vars
    PROVE  Shown'
<1> SUFFICES ASSUME NEW c \in Channel, job'[c] # Null
             PROVE  /\ job'[c].logged # Null => log'[job'[c].t].order = job'[c].logged
                    /\ job'[c].op = "settle" => job'[c].intent.cents = intent'[job'[c].i].cents
  BY DEF Shown
<1>0. c \in Actor /\ c \notin User /\ LogStays /\ IntentStays
  BY SettlementAssumption, StepRows DEF Actor, RowsOK
<1>1. CASE Kept(c)
  <2>1. /\ job[c] # Null /\ job'[c].t = job[c].t /\ job'[c].i = job[c].i
        /\ job'[c].logged = job[c].logged /\ job'[c].op = job[c].op
        /\ job'[c].intent = job[c].intent
    BY <1>1 DEF Kept, Request
  <2>2. /\ job[c].t \in Trade
        /\ job[c].op = "settle" => job[c].i \in Intent /\ intent[job[c].i].status # "none"
    BY <2>1 DEF Typed, ChannelRequests
  <2>3. ASSUME job[c].logged # Null PROVE log'[job[c].t].order = job[c].logged
    <3>1. log[job[c].t].order = job[c].logged /\ log[job[c].t] # NoLog
      BY <2>1, <2>3 DEF Shown, NoLog
    <3> QED
      BY <1>0, <2>2, <3>1 DEF LogStays
  <2>4. ASSUME job[c].op = "settle" PROVE job[c].intent.cents = intent'[job[c].i].cents
    BY <1>0, <2>1, <2>2, <2>4 DEF Shown, IntentStays
  <2> QED
    BY <2>1, <2>3, <2>4
<1>2. CASE Begun(c)
  <2>1. /\ UNCHANGED <<intent, log>> /\ job'[c].t \in Trade
        /\ job'[c].logged = log[job'[c].t].order
        /\ job'[c].op = "settle" => job'[c].i \in Intent /\ job'[c].intent = intent[job'[c].i]
    BY <1>0, <1>2, NullIsNoRow DEF Begun
  <2> QED
    BY <2>1
<1> QED
  BY <1>0, <1>1, <1>2, JobSteps

\* Which steps book and which answer.
LEMMA BookingSteps ==
    ASSUME Typed, [Next]_vars
    PROVE  \/ UNCHANGED <<log, acked>> /\ \A i \in Intent :
                  intent'[i].status = "paid" => intent[i].status = "paid"
           \/ \E c \in Channel :
                 \/ payment_callback(c) /\ (CallbackAnswers(c) \/ CallbackPays(c))
                 \/ settle_intent(c) /\ (SettledBefore(c) \/ SettleExpires(c)
                                         \/ SettleRefuses(c) \/ SettlePays(c))
<1>1. CASE \E c \in Channel : payment_callback(c) \/ settle_intent(c)
  BY <1>1 DEF payment_callback, settle_intent
<1>2. ASSUME NEW u \in User, NEW new \in Intent, payment_intent_create(u, new), NEW i \in Intent,
             intent'[i].status = "paid"
      PROVE  intent[i].status = "paid"
  <2>1. intent'[i] = IF i = new THEN [status |-> "pending", order |-> job[u].o,
                                      pay |-> job[u].row.pay, cents |-> Rest(job[u].row)]
                     ELSE Replaced(intent[i], job[u].o)
    BY <1>2 DEF payment_intent_create
  <2>2. intent[i] \in IntentRow
    BY DEF Typed, TypeOK
  <2> QED
    BY <1>2, <2>1, <2>2 DEF Replaced, IntentRow
<1>3. ASSUME NEW u \in User, NEW new \in Intent, payment_intent_create(u, new)
      PROVE  UNCHANGED <<log, acked>>
  BY <1>3 DEF payment_intent_create
<1>4. ASSUME NEW u \in User, NEW o \in Order,
             UserBegins(u, o) \/ order_cancel(u, o) \/ order_merge(u, o)
      PROVE  UNCHANGED <<log, acked, intent>>
  BY <1>4 DEF UserBegins, begin, order_cancel, order_merge
<1>5. ASSUME NEW u \in User, surplus(u) \/ payment_patch(u)
      PROVE  UNCHANGED <<log, acked, intent>>
  BY <1>5 DEF surplus, payment_patch
<1>6. ASSUME NEW c \in Channel, NEW t \in Trade, NEW cents \in Cents,
             \/ \E o \in Order : callback_arrives(c, o, t, cents)
             \/ \E i \in Intent : settle_arrives(c, i, t, cents)
      PROVE  UNCHANGED <<log, acked, intent>>
  BY <1>6 DEF callback_arrives, settle_arrives, begin
<1>7. ASSUME NEW a \in Actor, fail(a) PROVE UNCHANGED <<log, acked, intent>>
  BY <1>7 DEF fail
<1>8. ASSUME NEW i \in Intent, lapse(i) PROVE UNCHANGED <<log, acked, intent>>
  BY <1>8 DEF lapse
<1>9. \/ UNCHANGED <<log, acked, intent>>
      \/ \E u \in User, i \in Intent : payment_intent_create(u, i)
      \/ \E c \in Channel : payment_callback(c) \/ settle_intent(c)
  <2>1. CASE UNCHANGED vars
    BY <2>1 DEF vars
  <2> QED
    BY <2>1, <1>4, <1>5, <1>6, <1>7, <1>8, Zenon DEF Next
<1> QED
  BY <1>1, <1>2, <1>3, <1>9

LEMMA StepAnswersBooked ==
    ASSUME Typed, Shown, AnswersBooked, [Next]_vars
    PROVE  AnswersBooked'
<1>0. LogStays
  BY StepRows DEF RowsOK
<1>1. ASSUME NEW n \in acked
      PROVE  log'[n[4]].order = n[2] /\ (n[1] = "settle" => n[3] \in Intent)
  <2>1. n[2] \in Order /\ n[4] \in Trade
    BY DEF Typed, RowsNameOrders, Notices
  <2>2. log[n[4]] # NoLog
    BY <2>1, NullIsNoRow DEF AnswersBooked, NoLog
  <2> QED
    BY <1>0, <2>1, <2>2 DEF AnswersBooked, LogStays
<1>2. ASSUME NEW n \in acked' \ acked
      PROVE  log'[n[4]].order = n[2] /\ (n[1] = "settle" => n[3] \in Intent)
  <2>1. PICK c \in Channel : payment_callback(c) \/ settle_intent(c)
    BY <1>2, BookingSteps
  <2> DEFINE j == job[c]
  <2>2. /\ job[c] # Null /\ j.o \in Order /\ j.t \in Trade /\ j.o # Null
        /\ j.op = "settle" => j.i \in Intent
        /\ log \in [Trade -> LogRow]
    BY <2>1, ChannelRows, NullIsNoRow DEF payment_callback, settle_intent, Running, Typed, TypeOK
  <2>3. /\ n = Notice(j)
        /\ \/ j.logged = j.o /\ UNCHANGED log
           \/ log' = [log EXCEPT ![j.t] = [order |-> j.o, cents |-> j.cents]]
    BY <1>2, <2>1 DEF payment_callback, CallbackAnswers, CallbackPays, settle_intent,
                SettledBefore, SettleExpires, SettleRefuses, SettlePays, Answer
  <2>4. n[1] = j.op /\ n[2] = j.o /\ n[3] = j.i /\ n[4] = j.t
    BY <2>3 DEF Notice
  <2>5. log'[j.t].order = j.o
    BY <2>2, <2>3 DEF Shown
  <2> QED
    BY <2>2, <2>4, <2>5
<1> QED
  BY <1>1, <1>2 DEF AnswersBooked

LEMMA StepConsumedBooked ==
    ASSUME Typed, Shown, ConsumedBooked, [Next]_vars
    PROVE  ConsumedBooked'
<1>0. LogStays /\ IntentStays /\ intent \in [Intent -> IntentRow] /\ log \in [Trade -> LogRow]
  BY StepRows DEF RowsOK, Typed, TypeOK
<1> SUFFICES ASSUME NEW i \in Intent, intent'[i].status = "paid"
             PROVE  \E t \in Trade : log'[t] = [order |-> intent'[i].order,
                                                cents |-> intent'[i].cents]
  BY DEF ConsumedBooked
<1>1. CASE intent[i].status = "paid"
  <2>1. PICK t \in Trade : log[t] = [order |-> intent[i].order, cents |-> intent[i].cents]
    BY <1>1 DEF ConsumedBooked
  <2>2. intent[i].order # Null
    BY <1>1, NullIsNoRow DEF Typed, RowsNameOrders
  <2>3. log[t] # NoLog
    BY <2>1, <2>2 DEF NoLog
  <2> QED
    BY <1>0, <1>1, <2>1, <2>3 DEF LogStays, IntentStays
<1>2. CASE intent[i].status # "paid"
  <2>1. PICK c \in Channel : settle_intent(c) /\ SettlePays(c) /\ i = job[c].i
    <3>1. PICK c \in Channel :
              \/ payment_callback(c) /\ (CallbackAnswers(c) \/ CallbackPays(c))
              \/ settle_intent(c) /\ (SettledBefore(c) \/ SettleExpires(c)
                                      \/ SettleRefuses(c) \/ SettlePays(c))
      BY <1>2, BookingSteps
    <3>2. settle_intent(c) => job[c].i \in Intent
      BY ChannelRows DEF settle_intent, Running
    <3> QED
      BY <1>0, <1>2, <3>1, <3>2
         DEF payment_callback, SettledBefore, SettleExpires, SettleRefuses, SettlePays, IntentRow
  <2> DEFINE j == job[c]
  <2>2. /\ job[c] # Null /\ j.t \in Trade /\ j.op = "settle"
        /\ intent[i].status # "none" /\ intent[i].order = j.o
    BY <2>1, ChannelRows DEF settle_intent, Running, Typed, ChannelRequests
  <2>3. j.cents = intent[i].cents
    BY <2>1, <2>2 DEF SettlePays, Open, Shown
  <2>4. log'[j.t] = [order |-> j.o, cents |-> j.cents]
    BY <1>0, <2>1, <2>2 DEF SettlePays
  <2> QED
    BY <1>0, <2>2, <2>3, <2>4 DEF IntentStays
<1> QED
  BY <1>1, <1>2

\* On both databases a trade number that was answered "ok" is booked on the order
\* it named, so the answer can be repeated from the log (payment.rs:123-137), and
\* money was booked for every intent that was consumed: with its order and its
\* amount, though on MySQL perhaps after the order was closed (payment.rs:361-390).
THEOREM OkIsBooked ==
    Spec => [](/\ \A n \in acked : log[n[4]].order = n[2]
               /\ \A i \in Intent : intent[i].status = "paid" =>
                     \E t \in Trade : log[t] = [order |-> intent[i].order,
                                                cents |-> intent[i].cents])
<1> DEFINE BothInv == Shown /\ AnswersBooked /\ ConsumedBooked
<1>1. Init => BothInv
  BY DEF Init, Shown, AnswersBooked, ConsumedBooked, Actor, NoIntent
<1>2. Typed /\ BothInv /\ [Next]_vars => BothInv'
  BY StepShown, StepAnswersBooked, StepConsumedBooked
<1>3. BothInv =>
        /\ \A n \in acked : log[n[4]].order = n[2]
        /\ \A i \in Intent : intent[i].status = "paid" =>
              \E t \in Trade : log[t] = [order |-> intent[i].order, cents |-> intent[i].cents]
  BY DEF AnswersBooked, ConsumedBooked
<1> QED
  BY <1>1, <1>2, <1>3, AlwaysTyped, PTL DEF Spec

\* Where no intent was ever opened, a booking and the payment are one step.
BookedIsPaid ==
    \A t \in Trade : log[t] # NoLog =>
        /\ order[log[t].order].status \in {"paid", "merged"}
        /\ \A s \in Trade : log[s].order = log[t].order => s = t

LEMMA StepBookedIsPaid ==
    ASSUME Intent = {}, Typed, BookedIsPaid, [Next]_vars
    PROVE  BookedIsPaid'
<1>0. /\ order \in [Order -> OrderRow] /\ log \in [Trade -> LogRow]
      /\ \A o \in Order : order[o].status \in {"paid", "merged"} =>
            order'[o].status \in {"paid", "merged"}
      /\ \A t \in Trade : log[t] # NoLog => log[t].order \in Order
  BY OrderSteps DEF FinalOrMerged, Over, Typed, TypeOK, RowsNameOrders
<1>1. CASE UNCHANGED log
  BY <1>0, <1>1 DEF BookedIsPaid
<1>2. CASE ~UNCHANGED log
  <2>1. PICK c \in Channel : payment_callback(c) /\ CallbackPays(c)
    <3>1. PICK c \in Channel :
              \/ payment_callback(c) /\ (CallbackAnswers(c) \/ CallbackPays(c))
              \/ settle_intent(c)
      BY <1>2, BookingSteps
    <3>2. ~settle_intent(c)
      BY ChannelRows DEF settle_intent, Running
    <3> QED
      BY <1>2, <3>1, <3>2 DEF CallbackAnswers
  <2> DEFINE o == job[c].o
             t == job[c].t
             l == [order |-> job[c].o, cents |-> job[c].cents]
  <2>2. job[c] # Null /\ o \in Order /\ t \in Trade /\ o # Null
    BY <2>1, ChannelRows, NullIsNoRow DEF payment_callback, Running
  <2>3. /\ order[o].status = "pending_payment" /\ log[t] = NoLog
        /\ order' = [order EXCEPT ![o].status = "paid"]
        /\ log' = [log EXCEPT ![t] = l]
    BY <2>1 DEF CallbackPays
  <2>4. /\ order'[o].status = "paid" /\ \A p \in Order \ {o} : order'[p] = order[p]
        /\ log'[t].order = o /\ \A s \in Trade \ {t} : log'[s] = log[s]
    BY <1>0, <2>2, <2>3 DEF OrderRow
  <2>5. \A s \in Trade : log[s].order # o
    BY <2>2, <2>3, NullIsNoRow DEF BookedIsPaid, NoLog
  <2> HIDE DEF o, t, l
  <2> QED
    BY <1>0, <2>2, <2>4, <2>5 DEF BookedIsPaid
<1> QED
  BY <1>1, <1>2

\* Where no channel uses payment intents, both databases book at most one provider
\* transaction on an order, and the order is paid, unless a merge overwrote it: the
\* callback's conditional UPDATE and the INSERT are one transaction, so what MySQL
\* books on an order that waits, that was cancelled or that has a booking comes from
\* settle_intent alone (payment.rs:140-182 against 361-390).
THEOREM CallbacksBookOnce ==
    ASSUME Intent = {}
    PROVE  Spec => []\A o \in Order :
                        /\ Booked(o) # {} => order[o].status \in {"paid", "merged"}
                        /\ \A s, t \in Booked(o) : s = t
<1>1. Init => BookedIsPaid
  BY DEF Init, BookedIsPaid
<1>2. Typed /\ BookedIsPaid /\ [Next]_vars => BookedIsPaid'
  BY StepBookedIsPaid
<1>3. BookedIsPaid =>
        \A o \in Order : /\ Booked(o) # {} => order[o].status \in {"paid", "merged"}
                         /\ \A s, t \in Booked(o) : s = t
  <2> SUFFICES ASSUME BookedIsPaid, NEW o \in Order, NEW t \in Booked(o)
               PROVE  /\ order[o].status \in {"paid", "merged"}
                      /\ \A s \in Booked(o) : s = t
    BY DEF Booked
  <2>1. t \in Trade /\ log[t].order = o /\ log[t] # NoLog
    BY NullIsNoRow DEF Booked, NoLog
  <2> QED
    BY <2>1 DEF BookedIsPaid, Booked
<1> QED
  BY <1>1, <1>2, <1>3, AlwaysTyped, PTL DEF Spec
-----------------------------------------------------------------------------
(* Where all payment methods cost the same, MySQL collects too much at     *)
(* worst.                                                                  *)

SameFee == \A p \in Payment : PayFee[p] = PayFee[Pay0]

\* Nobody undercharges.
PaidEnough ==
    \A o \in Order : order[o].status = "paid" =>
        \/ order[o].paid >= order[o].amount
        \/ \E t \in Booked(o) : order[o].paid + log[t].cents >= order[o].amount

\* A merged order carries the fees of both; a new method leaves one of them.
FeesStand == \A o \in Order : order[o].status # "none" => order[o].fee >= PayFee[Pay0]

\* What a transaction has read of an order: no less than it asks for now, and no more
\* than has been paid; the lock makes the user's own reading exact.
ReadsStand ==
    \A a \in Actor : job[a] # Null =>
        /\ job[a].row.fee >= PayFee[Pay0] /\ job[a].toRow.fee >= PayFee[Pay0]
        /\ job[a].row.amount >= order[job[a].o].amount
        /\ job[a].row.paid <= order[job[a].o].paid
        /\ a \in User => /\ job[a].row.amount = order[job[a].o].amount
                         /\ job[a].row.paid = order[job[a].o].paid

LEMMA FeeIsNat == PayFee[Pay0] \in Nat
BY SettlementAssumption

\* What a step writes of the amount and the fee of an order that is there.
LEMMA AmountSteps ==
    ASSUME SameFee, Typed, ReadsStand, [Next]_vars, NEW o \in Order, order[o].status # "none"
    PROVE  \/ order'[o].amount = order[o].amount /\ order'[o].fee = order[o].fee
           \/ /\ order'[o].amount <= order[o].amount /\ order'[o].fee = PayFee[Pay0]
              /\ job'[Owner[o]] = Null
<1>0. order \in [Order -> OrderRow] /\ order[o] \in OrderRow
  BY DEF Typed, TypeOK
<1> DEFINE Same == order'[o].amount = order[o].amount /\ order'[o].fee = order[o].fee
<1>1. ASSUME NEW u \in User, payment_patch(u)
      PROVE  \/ Same
             \/ /\ order'[o].amount <= order[o].amount /\ order'[o].fee = PayFee[Pay0]
                /\ job'[Owner[o]] = Null
  <2> DEFINE j == job[u]
             v == j.row.amount - j.row.fee + PayFee[j.pay]
  <2>1. /\ j \in Job /\ u \in Actor /\ j.o \in Order /\ j # Null /\ Owner[j.o] = u
        /\ j.pay \in Payment /\ j.row.amount \in Int /\ j.row.fee \in Int
    BY <1>1, JobTypes DEF payment_patch, Running, Job, OrderRow, Typed, UserRequests
  <2>2. /\ PayFee[j.pay] = PayFee[Pay0] /\ PayFee[Pay0] \in Nat
        /\ j.row.fee >= PayFee[Pay0] /\ j.row.amount = order[j.o].amount
    BY <2>1, FeeIsNat DEF SameFee, ReadsStand
  <2>3. v <= order[j.o].amount
    BY <2>1, <2>2
  <2>4. \/ order' = order
        \/ order' = [order EXCEPT ![j.o] = [order[j.o] EXCEPT
                        !.pay = j.pay, !.fee = PayFee[j.pay], !.amount = v]]
    BY <1>1 DEF payment_patch
  <2>5. job'[u] = Null
    BY <1>1, <2>1 DEF payment_patch, Commit
  <2> HIDE DEF j, v
  <2>6. CASE o # j.o \/ order' = order
    BY <1>0, <2>4, <2>6
  <2>7. CASE o = j.o /\ order' # order
    <3>1. order'[o].amount = v /\ order'[o].fee = PayFee[j.pay]
      BY <1>0, <2>1, <2>4, <2>7 DEF OrderRow
    <3> QED
      BY <2>1, <2>2, <2>3, <2>5, <2>7, <3>1
  <2> QED
    BY <2>6, <2>7
<1>2. ASSUME NEW u \in User, surplus(u) PROVE Same
  <2>1. PICK v, w : order' = [order EXCEPT ![job[u].o] =
                                [order[job[u].o] EXCEPT !.paid = v, !.status = w]]
    BY <1>2 DEF surplus
  <2> QED
    BY <1>0, <2>1 DEF OrderRow
<1>3. ASSUME NEW c \in Channel, payment_callback(c) \/ settle_intent(c) PROVE Same
  <2>1. UNCHANGED order \/ order' = [order EXCEPT ![job[c].o] =
                                        [order[job[c].o] EXCEPT !.status = "paid"]]
    BY <1>3 DEF payment_callback, CallbackAnswers, CallbackPays, settle_intent,
                SettledBefore, SettleExpires, SettleRefuses, SettlePays
  <2> QED
    BY <1>0, <2>1 DEF OrderRow
<1>4. ASSUME NEW u \in User, NEW p \in Order, order_cancel(u, p) PROVE Same
  BY <1>0, <1>4 DEF order_cancel, OrderRow
<1>5. ASSUME NEW u \in User, NEW n \in Order, order_merge(u, n) PROVE Same
  <2>1. o # n
    BY <1>5, MergeFields
  <2> QED
    BY <1>5, <2>1, MergeFields
<1>6. \/ UNCHANGED order
      \/ \E c \in Channel : payment_callback(c) \/ settle_intent(c)
      \/ \E u \in User : \/ surplus(u) \/ payment_patch(u)
                         \/ \E p \in Order : order_cancel(u, p) \/ order_merge(u, p)
  BY DEF vars, Next, UserBegins, begin, payment_intent_create,
         callback_arrives, settle_arrives, fail, lapse
<1>7. UNCHANGED order => Same
  OBVIOUS
<1> HIDE DEF Same
<1>8. \/ Same
      \/ /\ order'[o].amount <= order[o].amount /\ order'[o].fee = PayFee[Pay0]
         /\ job'[Owner[o]] = Null
  BY <1>1, <1>2, <1>3, <1>4, <1>5, <1>6, <1>7, Zenon
<1> QED
  BY <1>8 DEF Same

\* A step that puts an order there: a merge.
LEMMA NewOrders ==
    ASSUME Typed, [Next]_vars, NEW o \in Order, order[o].status = "none",
           order'[o].status # "none"
    PROVE  \E u \in User : order_merge(u, o)
<1>0. order \in [Order -> OrderRow] /\ order[o] \in OrderRow
  BY DEF Typed, TypeOK
<1>1. ASSUME NEW u \in User, surplus(u) \/ payment_patch(u) PROVE FALSE
  <2>1. job[u].o # o
    BY <1>1, JobTypes DEF surplus, payment_patch, Running, Typed, JobsPlaced
  <2> QED
    BY <1>0, <1>1, <2>1 DEF surplus, payment_patch
<1>2. ASSUME NEW c \in Channel, payment_callback(c) \/ settle_intent(c) PROVE FALSE
  <2>1. job[c].o # o
    BY <1>2, JobTypes DEF payment_callback, settle_intent, Running, Typed, JobsPlaced
  <2> QED
    BY <1>0, <1>2, <2>1 DEF payment_callback, CallbackAnswers, CallbackPays, settle_intent,
                            SettledBefore, SettleExpires, SettleRefuses, SettlePays
<1>3. ASSUME NEW u \in User, NEW p \in Order, order_cancel(u, p) PROVE FALSE
  BY <1>0, <1>3 DEF order_cancel
<1>4. ASSUME NEW u \in User, NEW n \in Order, order_merge(u, n), n # o PROVE FALSE
  <2>1. o # job[u].o /\ o # job[u].to
    BY <1>4, JobTypes DEF order_merge, Running, Typed, JobsPlaced
  <2> QED
    BY <1>4, <2>1, MergeFields
<1>5. \/ UNCHANGED order
      \/ \E c \in Channel : payment_callback(c) \/ settle_intent(c)
      \/ \E u \in User : \/ surplus(u) \/ payment_patch(u)
                         \/ \E p \in Order : order_cancel(u, p) \/ order_merge(u, p)
  BY DEF vars, Next, UserBegins, begin, payment_intent_create,
         callback_arrives, settle_arrives, fail, lapse
<1> QED
  BY <1>1, <1>2, <1>3, <1>4, <1>5

LEMMA StepFeesStand ==
    ASSUME SameFee, Typed, FeesStand, ReadsStand, [Next]_vars
    PROVE  FeesStand'
<1> SUFFICES ASSUME NEW o \in Order, order'[o].status # "none"
             PROVE  order'[o].fee >= PayFee[Pay0]
  BY DEF FeesStand
<1>1. CASE order[o].status # "none"
  BY <1>1, AmountSteps, FeeIsNat DEF FeesStand
<1>2. CASE order[o].status = "none"
  <2>1. PICK u \in User : order_merge(u, o)
    BY <1>2, NewOrders
  <2>2. u \in Actor /\ job[u] # Null /\ job[u] \in Job
    BY <2>1, JobTypes DEF order_merge, Running
  <2>3. order'[o].fee = job[u].row.fee + job[u].toRow.fee
    BY <2>1, MergeFields
  <2>4. /\ job[u].row.fee \in Int /\ job[u].toRow.fee \in Int
        /\ job[u].row.fee >= PayFee[Pay0] /\ job[u].toRow.fee >= PayFee[Pay0]
    BY <2>2 DEF ReadsStand, Job, OrderRow
  <2> QED
    BY <2>3, <2>4, FeeIsNat
<1> QED
  BY <1>1, <1>2

\* Only the user's own transaction changes what the balance has paid.
LEMMA PaidSteps ==
    ASSUME Typed, [Next]_vars, NEW o \in Order
    PROVE  \/ order'[o].paid = order[o].paid
           \/ \E u \in User : surplus(u) /\ job[u].o = o /\ Owner[o] = u /\ job'[u] = Null
                              /\ order'[o].paid = order[o].paid + Applied(job[u])
                              /\ Applied(job[u]) \in Nat
<1>0. order \in [Order -> OrderRow]
  BY DEF Typed, TypeOK
<1>1. ASSUME NEW u \in User, surplus(u), job[u].o = o
      PROVE  /\ Owner[o] = u /\ job'[u] = Null /\ Applied(job[u]) \in Nat
             /\ order'[o].paid = order[o].paid + Applied(job[u])
  <2>1. job[u] \in Job /\ u \in Actor /\ job[u] # Null
    BY <1>1, JobTypes DEF surplus, Running
  <2>2. Applied(job[u]) \in Nat
    BY <1>1, <2>1, AppliedRange DEF surplus, SurplusOk
  <2>3. Owner[o] = u /\ job'[u] = Null
    BY <1>1, <2>1 DEF surplus, Commit, Typed, UserRequests
  <2> QED
    BY <1>0, <1>1, <2>2, <2>3 DEF surplus, OrderRow
<1>2. ASSUME NEW u \in User, surplus(u), job[u].o # o PROVE order'[o] = order[o]
  BY <1>0, <1>2 DEF surplus
<1>3. ASSUME NEW u \in User, NEW p \in Order, order_cancel(u, p)
      PROVE  order'[o].paid = order[o].paid
  BY <1>0, <1>3 DEF order_cancel, OrderRow
<1>4. ASSUME NEW u \in User, NEW n \in Order, order_merge(u, n)
      PROVE  order'[o].paid = order[o].paid
  <2>1. CASE o = n
    BY <1>4, <2>1, MergeFields
  <2>2. CASE o # n
    BY <1>4, <2>2, MergeFields
  <2> QED
    BY <2>1, <2>2
<1> QED
  BY <1>1, <1>2, <1>3, <1>4, OrderSteps DEF Quiet

LEMMA StepReadsStand ==
    ASSUME SameFee, Typed, Typed', FeesStand, ReadsStand, [Next]_vars
    PROVE  ReadsStand'
<1> DEFINE Stands(a) ==
             /\ job'[a].row.fee >= PayFee[Pay0] /\ job'[a].toRow.fee >= PayFee[Pay0]
             /\ job'[a].row.amount >= order'[job'[a].o].amount
             /\ job'[a].row.paid <= order'[job'[a].o].paid
             /\ a \in User => /\ job'[a].row.amount = order'[job'[a].o].amount
                              /\ job'[a].row.paid = order'[job'[a].o].paid
<1> SUFFICES ASSUME NEW a \in Actor, job'[a] # Null PROVE Stands(a)
  BY DEF ReadsStand
<1>1. CASE Kept(a)
  <2> DEFINE o == job[a].o
  <2>1. /\ job[a] # Null /\ job'[a].o = o
        /\ job'[a].row = job[a].row /\ job'[a].toRow = job[a].toRow
    BY <1>1 DEF Kept, Request
  <2>2. /\ o \in Order /\ order[o].status # "none"
        /\ job[a].row.paid \in Nat /\ order[o].paid \in Nat
        /\ job[a].row.amount \in Int /\ order[o].amount \in Int /\ order'[o].amount \in Int
        /\ a \in User => Owner[o] = a
    BY <2>1 DEF Typed, TypeOK, Job, OrderRow, JobsPlaced, UserRequests
  <2>3. /\ job[a].row.amount >= order'[o].amount
        /\ a \in User => job[a].row.amount = order'[o].amount
    <3>1. CASE order'[o].amount = order[o].amount
      BY <2>1, <3>1 DEF ReadsStand
    <3>2. CASE order'[o].amount <= order[o].amount /\ job'[Owner[o]] = Null
      <4>1. a \notin User
        BY <2>2, <3>2
      <4>2. job[a].row.amount >= order[o].amount
        BY <2>1 DEF ReadsStand
      <4> QED
        BY <2>2, <3>2, <4>1, <4>2
    <3> QED
      BY <2>2, <3>1, <3>2, AmountSteps
  <2>4. /\ job[a].row.paid <= order'[o].paid
        /\ a \in User => job[a].row.paid = order'[o].paid
    <3>1. CASE order'[o].paid = order[o].paid
      BY <2>1, <3>1 DEF ReadsStand
    <3>2. ASSUME NEW u \in User, Owner[o] = u, job'[u] = Null,
                 order'[o].paid = order[o].paid + Applied(job[u]), Applied(job[u]) \in Nat
          PROVE  job[a].row.paid <= order'[o].paid /\ a \notin User
      <4>1. a \notin User
        BY <2>2, <3>2
      <4> QED
        BY <2>1, <2>2, <3>2, <4>1 DEF ReadsStand
    <3> QED
      BY <2>2, <3>1, <3>2, PaidSteps
  <2>5. job[a].row.fee >= PayFee[Pay0] /\ job[a].toRow.fee >= PayFee[Pay0]
    BY <2>1 DEF ReadsStand
  <2> QED
    BY <2>1, <2>3, <2>4, <2>5
<1>2. CASE Begun(a)
  <2>1. /\ UNCHANGED order /\ job'[a].o \in Order /\ job'[a].row = order[job'[a].o]
        /\ job'[a].to \in Order /\ job'[a].toRow = order[job'[a].to]
        /\ order[job'[a].o].status # "none" /\ order[job'[a].to].status # "none"
    BY <1>2 DEF Begun
  <2>2. order[job'[a].o].paid \in Nat /\ order[job'[a].o].amount \in Int
    BY <2>1 DEF Typed, TypeOK, OrderRow
  <2> QED
    BY <2>1, <2>2 DEF FeesStand
<1> QED
  BY <1>1, <1>2, JobSteps

LEMMA StepPaidEnough ==
    ASSUME Typed, Typed', ReadsStand, PaidEnough, [Next]_vars
    PROVE  PaidEnough'
<1>0. /\ order \in [Order -> OrderRow] /\ log \in [Trade -> LogRow]
      /\ order' \in [Order -> OrderRow] /\ FinalOrMerged /\ LogStays
  BY OrderSteps, StepRows DEF RowsOK, Typed, TypeOK
<1> SUFFICES ASSUME NEW o \in Order, order'[o].status = "paid"
             PROVE  \/ order'[o].paid >= order'[o].amount
                    \/ \E t \in Booked(o)' : order'[o].paid + log'[t].cents >= order'[o].amount
  BY DEF PaidEnough
<1>1. /\ order[o].amount \in Int /\ order'[o].amount \in Int
      /\ order[o].paid \in Nat /\ order'[o].paid \in Nat /\ order'[o].paid >= order[o].paid
  <2>1. /\ order[o].amount \in Int /\ order'[o].amount \in Int
        /\ order[o].paid \in Nat /\ order'[o].paid \in Nat
    BY <1>0 DEF OrderRow
  <2> QED
    BY <2>1, PaidSteps
<1>2. ASSUME order[o].status = "paid"
      PROVE  \/ order'[o].paid >= order'[o].amount
             \/ \E t \in Booked(o)' : order'[o].paid + log'[t].cents >= order'[o].amount
  <2>1. order'[o].amount = order[o].amount
    BY <1>0, <1>2 DEF FinalOrMerged, Over
  <2>2. CASE order[o].paid >= order[o].amount
    BY <1>1, <2>1, <2>2
  <2>3. ASSUME NEW t \in Booked(o), order[o].paid + log[t].cents >= order[o].amount
        PROVE  \E s \in Booked(o)' : order'[o].paid + log'[s].cents >= order'[o].amount
    <3>1. t \in Trade /\ log[t] # NoLog /\ log[t].cents \in Nat
      BY <1>0, NullIsNoRow DEF Booked, NoLog, LogRow
    <3>2. log'[t] = log[t] /\ t \in Booked(o)'
      BY <1>0, <3>1 DEF LogStays, Booked
    <3>3. order'[o].paid + log'[t].cents >= order'[o].amount
      BY <1>1, <2>1, <2>3, <3>1, <3>2
    <3> QED
      BY <3>2, <3>3
  <2> QED
    BY <1>2, <2>2, <2>3 DEF PaidEnough
<1>3. ASSUME order[o].status # "paid"
      PROVE  \/ order'[o].paid >= order'[o].amount
             \/ \E t \in Booked(o)' : order'[o].paid + log'[t].cents >= order'[o].amount
  <2>1. ASSUME NEW c \in Channel, payment_callback(c) \/ settle_intent(c)
        PROVE  \E t \in Booked(o)' : order'[o].paid + log'[t].cents >= order'[o].amount
    <3> DEFINE j == job[c]
    <3>1. j \in Job /\ c \in Actor /\ j # Null /\ j.o \in Order /\ j.t \in Trade
      BY <2>1, ChannelRows DEF payment_callback, settle_intent, Running
    <3>2. /\ order' = [order EXCEPT ![j.o].status = "paid"]
          /\ log' = [log EXCEPT ![j.t] = [order |-> j.o, cents |-> j.cents]]
          /\ j.cents = Rest(j.row)
      BY <1>3, <2>1 DEF payment_callback, CallbackAnswers, CallbackPays, CallbackDue,
              settle_intent, SettledBefore, SettleExpires, SettleRefuses, SettlePays, Settleable
    <3>3. j.o = o
      BY <1>0, <1>3, <3>1, <3>2
    <3>4. log'[j.t] = [order |-> o, cents |-> j.cents] /\ j.t \in Booked(o)'
      BY <1>0, <3>1, <3>2, <3>3 DEF Booked
    <3>5. /\ j.cents = j.row.amount - j.row.paid
          /\ j.row.paid <= order[o].paid /\ j.row.amount >= order[o].amount
          /\ j.row.paid \in Nat /\ j.row.amount \in Int
      BY <3>1, <3>2, <3>3 DEF Rest, ReadsStand, Job, OrderRow
    <3>6. order'[o].paid = order[o].paid /\ order'[o].amount = order[o].amount
      BY <1>0, <3>1, <3>2 DEF OrderRow
    <3>7. order'[o].paid + log'[j.t].cents >= order'[o].amount
      BY <1>1, <3>4, <3>5, <3>6
    <3> QED
      BY <3>4, <3>7
  <2>2. ASSUME NEW u \in User, surplus(u) PROVE order'[o].paid >= order'[o].amount
    <3> DEFINE j == job[u]
               n == Applied(job[u])
    <3>1. j \in Job /\ u \in Actor /\ j # Null /\ Rest(j.row) > 0 /\ j.o = o
      BY <1>0, <1>3, <2>2, JobTypes DEF surplus, Running, SurplusOk
    <3>2. n \in Nat
      BY <3>1, AppliedRange
    <3>3. Rest(j.row) = order[o].amount - order[o].paid
      BY <3>1 DEF Rest, ReadsStand
    <3>4. order' = [order EXCEPT ![o] = [order[o] EXCEPT
                      !.paid = order[o].paid + n,
                      !.status = IF n = Rest(j.row) /\ order[o].status = "pending_payment"
                                 THEN "paid" ELSE order[o].status]]
      BY <2>2, <3>1 DEF surplus
    <3> HIDE DEF n, j
    <3>5. /\ order'[o].paid = order[o].paid + n /\ order'[o].amount = order[o].amount
          /\ n = Rest(j.row)
      BY <1>0, <1>3, <3>4 DEF OrderRow
    <3> QED
      BY <1>1, <3>2, <3>3, <3>5
  <2>3. ASSUME NEW u \in User, payment_patch(u) PROVE FALSE
    BY <1>0, <1>3, <2>3 DEF payment_patch, OrderRow
  <2>4. ASSUME NEW u \in User, NEW p \in Order, order_cancel(u, p) PROVE FALSE
    BY <1>0, <1>3, <2>4 DEF order_cancel, OrderRow
  <2>5. ASSUME NEW u \in User, NEW n \in Order, order_merge(u, n) PROVE FALSE
    <3>1. CASE o = n
      BY <2>5, <3>1, MergeFields
    <3>2. CASE o # n
      BY <1>3, <2>5, <3>2, MergeFields
    <3> QED
      BY <3>1, <3>2
  <2>6. \/ UNCHANGED order
        \/ \E c \in Channel : payment_callback(c) \/ settle_intent(c)
        \/ \E u \in User : \/ surplus(u) \/ payment_patch(u)
                           \/ \E p \in Order : order_cancel(u, p) \/ order_merge(u, p)
    BY DEF vars, Next, UserBegins, begin, payment_intent_create,
           callback_arrives, settle_arrives, fail, lapse
  <2> QED
    BY <1>3, <2>1, <2>2, <2>3, <2>4, <2>5, <2>6
<1> QED
  BY <1>2, <1>3

\* Where every payment method has the same fee, both databases take at least what
\* an order asks for: a paid order has been paid by the balance, or has a booking
\* that covers the rest.  A notification that meets a part payment made meanwhile
\* collects too much, never too little (payment.rs:123, 316-330), and so does one
\* that meets a merged order whose two fees became one; with fees that differ, a
\* change of the method meanwhile makes it too little on MySQL (order.rs:946).
THEOREM NeverUnderpaid ==
    ASSUME SameFee
    PROVE  Spec => []PaidEnough
<1> DEFINE AllInv == FeesStand /\ ReadsStand /\ PaidEnough
<1>1. Init => AllInv
  <2> SUFFICES ASSUME Init PROVE AllInv
    OBVIOUS
  <2>1. \A o \in Order : /\ order[o].status # "paid"
                         /\ order[o].status # "none" => order[o].fee = PayFee[Pay0]
    BY DEF Init, NoOrder
  <2>2. ReadsStand
    BY DEF Init, ReadsStand
  <2> QED
    BY <2>1, <2>2, FeeIsNat DEF FeesStand, PaidEnough
<1>2. Typed /\ Typed' /\ AllInv /\ [Next]_vars => AllInv'
  BY StepFeesStand, StepReadsStand, StepPaidEnough
<1> QED
  BY <1>1, <1>2, AlwaysTyped, PTL DEF Spec
=============================================================================
