----------------------------- MODULE Settlement -----------------------------
(***************************************************************************)
(* The money of a pending order: paid from the balance, through a signed   *)
(* provider callback or by settling a payment intent, while its customer   *)
(* changes its payment method, cancels it or merges it with another one    *)
(* (payment.rs and the handlers of order.rs).                              *)
(*                                                                         *)
(* A handler is two steps.  `begin` takes the snapshot its SELECTs see and *)
(* the action named after the handler does its UPDATEs and INSERTs, which  *)
(* meet the rows as they are then, and commits.  On MySQL (REPEATABLE      *)
(* READ) another transaction may commit in between; on SQLite the write of *)
(* a transaction whose snapshot was overtaken fails, and it rolls back.    *)
(* Handlers of a signed-in user exclude each other by db::lock_user, which *)
(* on SQLite, being a write, excludes every other writer; those of a       *)
(* provider take no lock.                                                  *)
(***************************************************************************)
EXTENDS Integers, FiniteSetsExt

CONSTANTS
    Backend,        \* "sqlite" or "mysql"
    User, Order, Payment, Null,
    Owner,          \* [Order -> User]
    Placings,       \* the sets of orders that may be there at first; the other
                    \* order numbers are free for merged orders
    Channel,        \* notifications the server handles at the same time
    Intent,         \* the rows ecs_payment_intent may get
    Trade,          \* (provider, provider_trade_no), unique in ecs_pay_log
    PayFee,         \* [Payment -> Nat]
    Due,            \* [Order -> Nat]: the amount without the payment fee
    Pay0,           \* the payment method chosen at checkout
    Balance0,       \* [User -> Nat]
    Cents           \* amounts users enter and notifications carry

ASSUME SettlementAssumption ==
    /\ Backend \in {"sqlite", "mysql"}
    /\ Null \notin Order \union Intent \union Trade
    /\ IsFiniteSet(Order)
    /\ Owner \in [Order -> User] /\ Placings \subseteq SUBSET Order
    /\ PayFee \in [Payment -> Nat] /\ Pay0 \in Payment
    /\ Due \in [Order -> Nat \ {0}]
    /\ Balance0 \in [User -> Nat]
    /\ Cents \subseteq Nat \ {0}
    /\ User \intersect Channel = {}

VARIABLES
    order,      \* status, pay_id, payment_fee and order_amount of
                \* ecs_order_info, paid_cents of ecs_order_balance_payment
    balance,    \* ecs_account_balance.available_cents
    intent,     \* ecs_payment_intent
    log,        \* ecs_pay_log by trade number
    lapsed,     \* intents whose expires_at has passed
    job,        \* the transaction each user and channel is in
    acked       \* notifications that have been answered "ok"

vars == <<order, balance, intent, log, lapsed, job, acked>>

Actor    == User \union Channel
Lesser(a, b) == IF a <= b THEN a ELSE b

NoOrder  == [status |-> "none", pay |-> Pay0, fee |-> 0, amount |-> 0, paid |-> 0]
NoIntent == [status |-> "none", order |-> Null, pay |-> Pay0, cents |-> 0]
NoLog    == [order |-> Null, cents |-> 0]
Rest(row) == row.amount - row.paid

Init ==
    /\ \E S \in Placings : order = [o \in Order |->
           IF o \in S THEN [status |-> "pending_payment", pay |-> Pay0, fee |-> PayFee[Pay0],
                            amount |-> Due[o] + PayFee[Pay0], paid |-> 0]
           ELSE NoOrder]
    /\ balance = Balance0
    /\ intent = [i \in Intent |-> NoIntent]
    /\ log = [t \in Trade |-> NoLog]
    /\ lapsed = {}
    /\ job = [a \in Actor |-> Null]
    /\ acked = {}
-----------------------------------------------------------------------------
(* Transactions.                                                           *)

Notice(j) == <<j.op, j.o, j.i, j.t, j.cents>>

\* The request and what its SELECTs return: the order, the one it is merged with
\* (to = o for the other requests), the intent, the order its trade number is
\* logged for, and whether the intent has expired.
begin(a, op, o, to, i, t, cents, pay) ==
    /\ job[a] = Null /\ order[o].status # "none" /\ order[to].status # "none"
    /\ job' = [job EXCEPT ![a] =
           [op |-> op, o |-> o, to |-> to, i |-> i, t |-> t, cents |-> cents, pay |-> pay,
            row |-> order[o], toRow |-> order[to], intent |-> IF i = Null THEN NoIntent ELSE intent[i],
            logged |-> IF t = Null THEN Null ELSE log[t].order,
            late |-> i \in lapsed, fresh |-> TRUE]]
    /\ UNCHANGED <<order, balance, intent, log, lapsed, acked>>

Running(a, op) == job[a] # Null /\ job[a].op = op

\* Nobody else holds the write lock of the database.
Alone(a) == Backend = "sqlite" => \A u \in User \ {a} : job[u] = Null

\* a ends without having written.
End(a) == job' = [job EXCEPT ![a] = Null]

\* a commits its writes; on SQLite every other open snapshot is overtaken.
MayWrite_stale(a) == Alone(a)               \* mutant: overtaken snapshots may write
MayWrite(a) == Alone(a) /\ (Backend = "sqlite" => job[a].fresh)
Commit(a) ==
    job' = [b \in Actor |-> IF b = a \/ job[b] = Null THEN Null
                            ELSE [job[b] EXCEPT !.fresh = @ /\ Backend = "mysql"]]

Answer(j, ok) == acked' = IF ok THEN acked \union {Notice(j)} ELSE acked
-----------------------------------------------------------------------------
(* Handlers of the user, after lock_user.                                  *)

\* PATCH /me/orders/{id}/surplus.  The last UPDATE, from pending_payment to
\* paid, does not check that it met a row.
Applied(j) == Lesser(j.cents, Rest(j.row))
SurplusOk_overdrawn(u) ==                   \* mutant: balance not checked
    job[u].row.status = "pending_payment" /\ Rest(job[u].row) > 0
SurplusOk(u) ==
    LET j == job[u]
    IN  /\ j.row.status = "pending_payment" /\ Rest(j.row) > 0
        /\ Applied(j) <= balance[u]

surplus(u) ==
    LET j == job[u]
    IN  /\ Running(u, "surplus") /\ MayWrite(u) /\ SurplusOk(u)
        /\ balance' = [balance EXCEPT ![u] = @ - Applied(j)]
        /\ order' = [order EXCEPT ![j.o] = [@ EXCEPT
               !.paid = order[j.o].paid + Applied(j),
               !.status = IF /\ Applied(j) = Rest(j.row)
                             /\ order[j.o].status = "pending_payment"
                          THEN "paid" ELSE order[j.o].status]]
        /\ Commit(u)
        /\ UNCHANGED <<intent, log, lapsed, acked>>

\* PATCH /me/orders/{id}/payment: an UPDATE on the condition that the order is
\* still pending, unchecked.
PatchOk(u) == job[u].row.status = "pending_payment" /\ job[u].row.pay # job[u].pay

payment_patch(u) ==
    LET j == job[u]
    IN  /\ Running(u, "payment_patch") /\ MayWrite(u) /\ PatchOk(u)
        /\ order' = IF order[j.o].status # "pending_payment" THEN order
                    ELSE [order EXCEPT ![j.o] = [@ EXCEPT
                             !.pay = j.pay, !.fee = PayFee[j.pay],
                             !.amount = j.row.amount - j.row.fee + PayFee[j.pay]]]
        /\ Commit(u)
        /\ UNCHANGED <<balance, intent, log, lapsed, acked>>

\* POST /me/orders/{id}/payment-intents: the open intent of the order expires
\* and one for the rest is opened.
IntentOk(u) == job[u].row.status = "pending_payment" /\ Rest(job[u].row) > 0

Replaced_never(r, o) == r                   \* mutant: older intents stay open
Replaced(r, o) ==
    IF r.order = o /\ r.status = "pending" THEN [r EXCEPT !.status = "expired"] ELSE r

payment_intent_create(u, new) ==
    LET j == job[u]
    IN  /\ Running(u, "payment_intent_create") /\ MayWrite(u) /\ IntentOk(u)
        /\ intent[new].status = "none"
        /\ intent' = [i \in Intent |->
               IF i = new THEN [status |-> "pending", order |-> j.o,
                                pay |-> j.row.pay, cents |-> Rest(j.row)]
               ELSE Replaced(intent[i], j.o)]
        /\ Commit(u)
        /\ UNCHANGED <<order, balance, log, lapsed, acked>>

\* POST /me/orders/merge: a new order asks for what both ask for.  (Orders with a
\* discount, a gift or SKU lines are refused; module Checkout has them.)
MergeOk_paid(u) ==                          \* mutant: whatever the balance has paid
    LET j == job[u]
    IN  /\ j.o # j.to
        /\ j.row.status = "pending_payment" /\ j.toRow.status = "pending_payment"
MergeOk_closed(u) ==                        \* mutant: closed orders too
    /\ job[u].o # job[u].to
    /\ job[u].row.paid = 0 /\ job[u].toRow.paid = 0
MergeOk(u) ==
    LET j == job[u]
    IN  /\ j.o # j.to
        /\ j.row.status = "pending_payment" /\ j.toRow.status = "pending_payment"
        /\ j.row.paid = 0 /\ j.toRow.paid = 0

\* The two UPDATEs to merged have no condition on the status.
order_merge(u, new) ==
    LET j == job[u]
    IN  /\ Running(u, "merge") /\ MayWrite(u) /\ MergeOk(u)
        /\ order[new].status = "none" /\ Owner[new] = u
        /\ order' = [order EXCEPT
               ![j.o].status = "merged", ![j.to].status = "merged",
               ![new] = [status |-> "pending_payment", pay |-> j.row.pay,
                         fee |-> j.row.fee + j.toRow.fee,
                         amount |-> j.row.amount + j.toRow.amount, paid |-> 0]]
        /\ Commit(u)
        /\ UNCHANGED <<balance, intent, log, lapsed, acked>>

\* Mutant: refunds a cancelled order again.
order_cancel_again(u, o) ==
    /\ job[u] = Null /\ Owner[o] = u /\ Alone(u)
    /\ order[o].status \notin {"none", "paid"}
    /\ order' = [order EXCEPT ![o].status = "cancelled"]
    /\ balance' = [balance EXCEPT ![u] = @ + order[o].paid]
    /\ Commit(u)
    /\ UNCHANGED <<intent, log, lapsed, acked>>

\* POST /me/orders/{id}/cancel: the first statement is the conditional UPDATE,
\* so the handler is one step.
order_cancel(u, o) ==
    /\ job[u] = Null /\ Owner[o] = u /\ Alone(u)
    /\ order[o].status = "pending_payment"
    /\ order' = [order EXCEPT ![o].status = "cancelled"]
    /\ balance' = [balance EXCEPT ![u] = @ + order[o].paid]
    /\ Commit(u)
    /\ UNCHANGED <<intent, log, lapsed, acked>>
-----------------------------------------------------------------------------
(* Notifications of a provider.                                            *)

\* POST /payments/{provider}/callback.  A trade number that is logged already
\* is answered from the log.
CallbackDue_full(j) ==                      \* mutant: forgets what the balance paid
    /\ j.logged = Null
    /\ j.row.status = "pending_payment" /\ j.cents = j.row.amount

CallbackDue(j) ==
    /\ j.logged = Null
    /\ j.row.status = "pending_payment" /\ j.cents = Rest(j.row)

CallbackAnswers(c) ==
    LET j == job[c]
    IN  /\ ~CallbackDue(j)
        /\ Answer(j, j.logged = j.o)
        /\ End(c)
        /\ UNCHANGED <<order, log>>

CallbackPays_unconditional(c) ==            \* mutant: UPDATE without the status
    LET j == job[c]
    IN  /\ CallbackDue(j) /\ MayWrite(c) /\ log[j.t] = NoLog
        /\ log' = [log EXCEPT ![j.t] = [order |-> j.o, cents |-> j.cents]]
        /\ order' = [order EXCEPT ![j.o].status = "paid"]
        /\ Answer(j, TRUE)
        /\ Commit(c)

CallbackPays(c) ==
    LET j == job[c]
    IN  /\ CallbackDue(j) /\ MayWrite(c)
        /\ log[j.t] = NoLog
        /\ order[j.o].status = "pending_payment"
        /\ log' = [log EXCEPT ![j.t] = [order |-> j.o, cents |-> j.cents]]
        /\ order' = [order EXCEPT ![j.o].status = "paid"]
        /\ Answer(j, TRUE)
        /\ Commit(c)

payment_callback(c) ==
    /\ Running(c, "callback")
    /\ CallbackAnswers(c) \/ CallbackPays(c)
    /\ UNCHANGED <<balance, intent, lapsed>>

\* settle_intent, called by chinabank_settle and alipay_settle.
Open_again(j) ==                            \* mutant: a paid intent is looked at again
    j.intent.status \in {"pending", "paid"} /\ j.cents = j.intent.cents
Open(j) == j.intent.status = "pending" /\ j.cents = j.intent.cents
Expired(j) == j.late \/ j.row.pay # j.intent.pay

\* Mutant: any trade number is answered ok once the intent is paid.
SettledBefore_anyTrade(c) ==
    LET j == job[c]
    IN  /\ ~Open(j)
        /\ Answer(j, j.cents = j.intent.cents /\ j.intent.status = "paid")
        /\ End(c)
        /\ UNCHANGED <<order, intent, log>>

\* The intent was consumed before, or is no longer open.
SettledBefore(c) ==
    LET j == job[c]
    IN  /\ j.intent.status # "pending" \/ j.cents # j.intent.cents
        /\ Answer(j, /\ j.cents = j.intent.cents
                     /\ j.intent.status = "paid" /\ j.logged = j.o)
        /\ End(c)
        /\ UNCHANGED <<order, intent, log>>

\* The intent is too late or the payment method of the order has changed: an
\* unconditional UPDATE makes it expired, and that is committed.
SettleExpires(c) ==
    LET j == job[c]
    IN  /\ Open(j) /\ MayWrite(c)
        /\ Expired(j)
        /\ intent' = [intent EXCEPT ![j.i].status = "expired"]
        /\ Answer(j, FALSE)
        /\ Commit(c)
        /\ UNCHANGED <<order, log>>

Settleable_anyStatus(j) ==                  \* mutant: closed orders too
    j.cents = Rest(j.row) /\ j.logged \in {Null, j.o}

Settleable_full(j) ==                       \* mutant: forgets what the balance paid
    /\ j.row.status = "pending_payment" /\ j.cents = j.row.amount
    /\ j.logged \in {Null, j.o}

Settleable(j) ==
    /\ j.row.status = "pending_payment"
    /\ j.cents = Rest(j.row)
    /\ j.logged \in {Null, j.o}

SettleRefuses(c) ==
    LET j == job[c]
    IN  /\ Open(j) /\ ~Expired(j)
        /\ ~Settleable(j)
        /\ Answer(j, FALSE)
        /\ End(c)
        /\ UNCHANGED <<order, intent, log>>

\* All three writes are committed whatever rows they met; only the answer says
\* whether the order became paid.
SettlePays(c) ==
    LET j == job[c]
        pending == order[j.o].status = "pending_payment"
    IN  /\ Open(j) /\ ~Expired(j)
        /\ Settleable(j) /\ MayWrite(c)
        /\ log[j.t] = NoLog
        /\ intent' = IF intent[j.i].status = "pending"
                     THEN [intent EXCEPT ![j.i].status = "paid"] ELSE intent
        /\ log' = [log EXCEPT ![j.t] = [order |-> j.o, cents |-> j.cents]]
        /\ order' = IF pending THEN [order EXCEPT ![j.o].status = "paid"] ELSE order
        /\ Answer(j, pending)
        /\ Commit(c)

settle_intent(c) ==
    /\ Running(c, "settle")
    /\ SettledBefore(c) \/ SettleExpires(c) \/ SettleRefuses(c) \/ SettlePays(c)
    /\ UNCHANGED <<balance, lapsed>>

\* Bound: there is no further row in Intent, or no order number, for a to insert.
NoRowLeft(a) ==
    \/ Running(a, "payment_intent_create") /\ \A i \in Intent : intent[i].status # "none"
    \/ Running(a, "merge") /\ \A o \in Order : Owner[o] = a => order[o].status # "none"

\* A handler returns an error and rolls back: a check or a write it makes did
\* not hold.  Providers take it as no answer.
fail(a) ==
    LET j == job[a]
    IN  /\ j # Null
        /\ \/ Running(a, "surplus") /\ ~(MayWrite(a) /\ SurplusOk(a))
           \/ Running(a, "payment_patch") /\ ~(MayWrite(a) /\ PatchOk(a))
           \/ Running(a, "payment_intent_create") /\ ~(MayWrite(a) /\ IntentOk(a))
           \/ Running(a, "merge") /\ ~(MayWrite(a) /\ MergeOk(a))
           \/ NoRowLeft(a)
           \/ /\ Running(a, "callback") /\ CallbackDue(j)
              /\ ~(MayWrite(a) /\ log[j.t] = NoLog /\ order[j.o].status = "pending_payment")
           \/ /\ Running(a, "settle") /\ Open(j)
              /\ \/ ~MayWrite(a) /\ (Expired(j) \/ Settleable(j))
                 \/ ~Expired(j) /\ Settleable(j) /\ log[j.t] # NoLog
        /\ End(a)
        /\ UNCHANGED <<order, balance, intent, log, lapsed, acked>>

\* expires_at of an intent passes.
lapse(i) ==
    /\ intent[i].status # "none" /\ i \notin lapsed
    /\ lapsed' = lapsed \union {i}
    /\ UNCHANGED <<order, balance, intent, log, job, acked>>
-----------------------------------------------------------------------------
UserBegins(u, o) ==
    /\ Owner[o] = u /\ Alone(u)
    /\ \/ \E c \in Cents : begin(u, "surplus", o, o, Null, Null, c, Pay0)
       \/ \E p \in Payment : begin(u, "payment_patch", o, o, Null, Null, 0, p)
       \/ begin(u, "payment_intent_create", o, o, Null, Null, 0, Pay0)
       \/ \E to \in Order \ {o} :
             Owner[to] = u /\ begin(u, "merge", o, to, Null, Null, 0, Pay0)

\* A provider may notify at any time, again, and under any trade number.
callback_arrives(c, o, t, cents) == begin(c, "callback", o, o, Null, t, cents, Pay0)
settle_arrives(c, i, t, cents) ==
    /\ intent[i].status # "none"
    /\ begin(c, "settle", intent[i].order, intent[i].order, i, t, cents, Pay0)

Next ==
    \/ \E u \in User :
          \/ \E o \in Order : UserBegins(u, o) \/ order_cancel(u, o)
          \/ surplus(u) \/ payment_patch(u)
          \/ \E i \in Intent : payment_intent_create(u, i)
          \/ \E o \in Order : order_merge(u, o)
    \/ \E c \in Channel, t \in Trade, cents \in Cents :
          \/ \E o \in Order : callback_arrives(c, o, t, cents)
          \/ \E i \in Intent : settle_arrives(c, i, t, cents)
    \/ \E c \in Channel : payment_callback(c) \/ settle_intent(c)
    \/ \E a \in Actor : fail(a)
    \/ \E i \in Intent : lapse(i)

Spec == Init /\ [][Next]_vars

\* The server ends the transactions of notifications.
Fairness == \A c \in Channel : WF_vars(payment_callback(c) \/ settle_intent(c) \/ fail(c))

LiveSpec == Spec /\ Fairness
-----------------------------------------------------------------------------
(* Properties.                                                             *)

Status    == {"none", "pending_payment", "paid", "cancelled", "merged"}
OrderRow  == [status : Status, pay : Payment, fee : Int, amount : Int, paid : Nat]
IntentRow == [status : {"none", "pending", "paid", "expired"},
              order : Order \union {Null}, pay : Payment, cents : Int]
LogRow    == [order : Order \union {Null}, cents : Nat]
Op == {"surplus", "payment_patch", "payment_intent_create", "merge", "callback", "settle"}
Job == [op : Op, o : Order, to : Order, i : Intent \union {Null}, t : Trade \union {Null}, cents : Nat,
        pay : Payment, row : OrderRow, toRow : OrderRow, intent : IntentRow,
        logged : Order \union {Null}, late : BOOLEAN, fresh : BOOLEAN]

TypeOK ==
    /\ order \in [Order -> OrderRow]
    /\ balance \in [User -> Nat]
    /\ intent \in [Intent -> IntentRow]
    /\ log \in [Trade -> LogRow]
    /\ lapsed \subseteq Intent
    /\ job \in [Actor -> Job \union {Null}]
    /\ \A n \in acked : \E o \in Order : n[2] = o

Booked(o) == {t \in Trade : log[t].order = o}

\* docs/14:18: the balance, a cancellation and a notification never collect
\* twice.  A paid order got exactly its amount, from the balance or with the
\* rest from one provider transaction (order.rs:895-902, payment.rs:147, 381).
PaidExact ==
    \A o \in Order : order[o].status = "paid" =>
        \/ Booked(o) = {} /\ order[o].paid = order[o].amount
        \/ \E t \in Trade : /\ Booked(o) = {t}
                            /\ order[o].paid + log[t].cents = order[o].amount

\* docs/14:18: what fails is rolled back.  No provider money is booked on an
\* order that is not paid (payment.rs:388 answers Rejected and the caller commits).
NothingBookedUnpaid == \A o \in Order : order[o].status # "paid" => Booked(o) = {}

\* A consumed intent paid its order with exactly its amount, and no second
\* intent of the order was consumed (payment.rs:273).
ConsumedOnce ==
    \A i \in Intent : intent[i].status = "paid" =>
        /\ order[intent[i].order].status = "paid"
        /\ \E t \in Trade : log[t] = [order |-> intent[i].order, cents |-> intent[i].cents]
        /\ \A k \in Intent \ {i} : intent[k].order = intent[i].order => intent[k].status # "paid"

\* Only one open channel attempt may exist at a time (payment.rs:224-225).
OneOpenIntent ==
    \A i, k \in Intent :
        /\ intent[i].status = "pending" /\ intent[k].status = "pending"
        /\ intent[i].order = intent[k].order
        => i = k

\* A provider that was told ok need not come back: the order is paid and the trade
\* number is booked on it; and should it come back, it is told ok again, as the
\* intent stays consumed (payment.rs:275, 303-308: the trade number makes a
\* settlement idempotent).
OkIsPaid ==
    \A n \in acked :
        /\ order[n[2]].status = "paid" /\ log[n[4]].order = n[2]
        /\ n[1] = "settle" => intent[n[3]].status = "paid"

\* What the balance of u has paid for each order that is not cancelled.
Spent(u) == [o \in Order |->
    IF Owner[o] = u /\ order[o].status # "cancelled" THEN order[o].paid ELSE 0]

\* Balance money is spent on an order that is not cancelled or still there.
BalanceKept ==
    \A u \in User : balance[u] + SumFunctionOnSet(Spent(u), Order) = Balance0[u]

Over(o) == order[o].status \notin {"none", "pending_payment"}

\* docs/14:18: a merge, a payment and a cancellation exclude each other.  An order
\* that is paid, cancelled or merged is never reopened, closed again or repriced
\* by a late handler (order.rs:435, 763-774, 898, 949, payment.rs:149, 383).
FinalStays ==
    [][\A o \in Order : Over(o) =>
          order'[o].status = order[o].status /\ order'[o].amount = order[o].amount]_vars

\* What is left of that on MySQL: only a merge that read the order while it was
\* pending overwrites it, and only if it was paid meanwhile.  A booked trade
\* number is never booked again.
OnlyMergeOverwrites ==
    [][/\ \A o \in Order : Over(o) =>
             /\ order'[o].amount = order[o].amount
             /\ \/ order'[o].status = order[o].status
                \/ /\ order[o].status = "paid" /\ order'[o].status = "merged"
                   /\ \E u \in User : /\ Running(u, "merge") /\ job'[u] = Null
                                      /\ o \in {job[u].o, job[u].to}
       /\ \A t \in Trade : log[t] # NoLog => log'[t] = log[t]]_vars

\* A provider repeats its callback until it is served.
CallbacksRepeat ==
    \A o \in Order, t \in Trade, cents \in Cents :
        SF_vars(\E c \in Channel : callback_arrives(c, o, t, cents))

\* A callback that matches an order that waits for it, and is repeated, is not
\* starved by notifications and payments that overlap it.
CallbackServed ==
    CallbacksRepeat =>
        \A o \in Order, t \in Trade, cents \in Cents :
            LET waits == /\ order[o].status = "pending_payment" /\ Rest(order[o]) = cents
                         /\ log[t] = NoLog
            IN  waits ~> ~waits

SettlementsRepeat ==
    \A i \in Intent, t \in Trade, cents \in Cents :
        SF_vars(\E c \in Channel : settle_arrives(c, i, t, cents))

\* The same of the settlement of an open intent, without any callback.
SettleServed ==
    SettlementsRepeat =>
        \A i \in Intent, t \in Trade, cents \in Cents :
            LET o == intent[i].order
                waits == /\ intent[i].status = "pending" /\ i \notin lapsed
                         /\ intent[i].cents = cents
                         /\ order[o].status = "pending_payment" /\ Rest(order[o]) = cents
                         /\ order[o].pay = intent[i].pay /\ log[t] = NoLog
            IN  waits ~> ~waits
-----------------------------------------------------------------------------
\* The collection of the money of the orders, without transactions.
Got(o) ==
    IF order[o].status = "cancelled" THEN 0
    ELSE order[o].paid + SumFunctionOnSet([t \in Trade |-> log[t].cents], Booked(o))

Stage == [o \in Order |-> CASE order[o].status = "none" -> "none"
                            [] order[o].status = "pending_payment" -> "due"
                            [] order[o].status = "paid" -> "settled"
                            [] OTHER -> "closed"]
Price == [o \in Order |-> order[o].amount]
Gathered == [o \in Order |-> Got(o)]

Money == INSTANCE Collection WITH state <- Stage, price <- Price, got <- Gathered

\* Every step of the handlers collects, reprices or closes as Collection allows.
ImplementsCollection == Money!Spec
=============================================================================
