------------------------------- MODULE Wallet -------------------------------
(***************************************************************************)
(* The balance of a user besides orders: deposits, withdrawals and         *)
(* converted points (account.rs, compat.rs, mock.rs), and the money and    *)
(* points that auctions and snatches hold (bid and group_buy of            *)
(* marketing_write.rs; the order group_buy writes is in module Checkout).  *)
(*                                                                         *)
(* Handlers hold the lock of their user and change a balance only by       *)
(* relative UPDATEs, and bid takes the lock of the activity before its     *)
(* first SELECT, so they are one step.  group_buy does its first SELECT,   *)
(* and with it takes its MySQL snapshot, before it takes the lock of the   *)
(* activity, so it is two.  On SQLite it is alone from lock_user on.       *)
(***************************************************************************)
EXTENDS Integers, Sequences, FiniteSetsExt

CONSTANTS
    Backend,                    \* "sqlite" or "mysql"
    User, Null,
    Auction, Snatch,            \* started activities of act_type 0 and 2
    Request,                    \* rows ecs_user_account may get
    Lowest, Highest,            \* start and end price, or price range (0: no end)
    Amplitude, Deposit,         \* [Auction -> Nat]
    CostPoints,                 \* [Snatch -> Nat]
    Balance0, Points0,          \* [User -> Nat]
    Amounts,                    \* amounts and prices users enter
    MaxBids                     \* bound on the bids of an activity

Activity == Auction \union Snatch

ASSUME WalletAssumption ==
    /\ Backend \in {"sqlite", "mysql"}
    /\ Null \notin User /\ Auction \intersect Snatch = {}
    /\ IsFiniteSet(Auction) /\ IsFiniteSet(Snatch) /\ IsFiniteSet(Request)
    /\ {Lowest, Highest} \subseteq [Activity -> Nat]
    /\ {Amplitude, Deposit} \subseteq [Auction -> Nat]
    /\ CostPoints \in [Snatch -> Nat]
    /\ {Balance0, Points0} \subseteq [User -> Nat]
    /\ Amounts \subseteq Nat \ {0} /\ MaxBids \in Nat

VARIABLES
    available, frozen,  \* ecs_account_balance
    points,             \* ecs_users.pay_points
    log,                \* the sums of the deltas in ecs_account_log
    request,            \* ecs_user_account and ecs_account_payment_intent
    bids,               \* ecs_promotion_bid, by activity
    over,               \* activities whose end_time has passed
    finished,           \* activities with is_finished = 1
    claim,              \* ecs_promotion_claim
    job                 \* the activity a user is buying, with its snapshot

vars == <<available, frozen, points, log, request, bids, over, finished, claim, job>>
balanceVars  == <<available, frozen, log>>
activityVars == <<bids, over, finished, claim>>

NoRequest == [status |-> "none", kind |-> "none", user |-> Null, cents |-> 0, intent |-> "none"]
Lesser(a, b) == IF a <= b THEN a ELSE b

Init ==
    /\ available = Balance0 /\ frozen = [u \in User |-> 0]
    /\ points = Points0
    /\ log = [u \in User |-> [available |-> 0, frozen |-> 0]]
    /\ request = [r \in Request |-> NoRequest]
    /\ bids = [a \in Activity |-> <<>>]
    /\ over = {} /\ finished = {}
    /\ claim = [a \in Activity |-> Null]
    /\ job = [u \in User |-> Null]
-----------------------------------------------------------------------------
\* lock_user: its row on MySQL, the whole database on SQLite.
Free(u) == IF Backend = "sqlite" THEN \A v \in User : job[v] = Null ELSE job[u] = Null

\* Move c cents of u from available to frozen (back when c < 0) and log it.
Freeze(u, c) ==
    /\ available' = [available EXCEPT ![u] = @ - c]
    /\ frozen' = [frozen EXCEPT ![u] = @ + c]
    /\ log' = [log EXCEPT ![u] = [available |-> log[u].available - c,
                                  frozen |-> log[u].frozen + c]]

\* Add c cents to what u may spend and log it.
Credit(u, c) ==
    /\ available' = [available EXCEPT ![u] = @ + c]
    /\ log' = [log EXCEPT ![u].available = @ + c]
    /\ UNCHANGED frozen
-----------------------------------------------------------------------------
(* Deposits, withdrawals and points.                                       *)

Open(u, r, kind) ==
    /\ request[r].user = u /\ request[r].kind = kind
    /\ request[r].status = IF kind = "deposit" THEN "pending_payment" ELSE "pending_review"

\* POST /me/account/requests of kind deposit.
request_deposit(u, r, c) ==
    /\ Free(u) /\ request[r].status = "none"
    /\ request' = [request EXCEPT ![r] = [status |-> "pending_payment", kind |-> "deposit",
                                          user |-> u, cents |-> c, intent |-> "none"]]
    /\ UNCHANGED <<balanceVars, points, activityVars, job>>

\* POST /me/account/requests of kind withdrawal: the amount is frozen.
request_withdrawal(u, r, c) ==
    /\ Free(u) /\ request[r].status = "none"
    /\ c <= available[u]
    /\ Freeze(u, c)
    /\ request' = [request EXCEPT ![r] = [status |-> "pending_review", kind |-> "withdrawal",
                                          user |-> u, cents |-> c, intent |-> "none"]]
    /\ UNCHANGED <<points, activityVars, job>>

\* Mutant: the request stays and can be cancelled again.
account_request_cancel_keeps(u, r) ==
    /\ Free(u) /\ Open(u, r, "withdrawal")
    /\ request[r].cents <= frozen[u]
    /\ Freeze(u, -request[r].cents)
    /\ UNCHANGED <<request, points, activityVars, job>>

\* DELETE /me/account/requests/{id}: the row and its intent go, the amount of a
\* withdrawal comes back (ecs_account_balance has CHECK(frozen_cents >= 0)).
account_request_cancel(u, r) ==
    /\ Free(u)
    /\ \/ Open(u, r, "deposit") /\ UNCHANGED balanceVars
       \/ /\ Open(u, r, "withdrawal")
          /\ request[r].cents <= frozen[u]
          /\ Freeze(u, -request[r].cents)
    /\ request' = [request EXCEPT ![r] = [@ EXCEPT !.status = "deleted", !.intent = "none"]]
    /\ UNCHANGED <<points, activityVars, job>>

\* POST /me/account/requests/{id}/payment: one intent for each request.
account_request_payment(u, r) ==
    /\ Free(u) /\ Open(u, r, "deposit")
    /\ request[r].intent = "none"
    /\ request' = [request EXCEPT ![r].intent = "pending"]
    /\ UNCHANGED <<balanceVars, points, activityVars, job>>

\* Mutant: credits every notification.
deposit_again(u, r) ==
    /\ Free(u) /\ request[r].user = u
    /\ request[r].intent # "none"
    /\ Credit(u, request[r].cents)
    /\ request' = [request EXCEPT ![r] = [@ EXCEPT !.status = "paid", !.intent = "paid"]]
    /\ UNCHANGED <<points, activityVars, job>>

\* The provider settles the intent of a deposit (a paid one is only replayed).
deposit(u, r) ==
    /\ Free(u) /\ request[r].intent = "pending" /\ Open(u, r, "deposit")
    /\ Credit(u, request[r].cents)
    /\ request' = [request EXCEPT ![r] = [@ EXCEPT !.status = "paid", !.intent = "paid"]]
    /\ UNCHANGED <<points, activityVars, job>>

\* POST /me/points/conversions: a point is a cent.
points_convert(u, c) ==
    /\ Free(u) /\ c <= points[u]
    /\ points' = [points EXCEPT ![u] = @ - c]
    /\ Credit(u, c)
    /\ UNCHANGED <<request, activityVars, job>>
-----------------------------------------------------------------------------
(* Bids.                                                                   *)

LastBid(b) == b[Len(b)]
Running(a) == a \notin over /\ a \notin finished

\* Mutant: the step between two bids is forgotten.
Minimum_noStep(a) == IF bids[a] # <<>> THEN LastBid(bids[a]).price ELSE Lowest[a]

\* The least price a may be bid: never more than its end price.
Minimum(a) ==
    LET next == IF a \in Auction /\ bids[a] # <<>>
                THEN LastBid(bids[a]).price + Amplitude[a] ELSE Lowest[a]
    IN  IF a \in Auction /\ Highest[a] > 0 THEN Lesser(next, Highest[a]) ELSE next

Biddable(a, price) ==
    /\ Running(a) /\ Len(bids[a]) < MaxBids
    /\ price >= Minimum(a)
    /\ Highest[a] > 0 => price <= Highest[a]

\* What the UPDATE of the outbid user's row gives back, and what is logged
\* whether or not it met the row.
Refund(a) == IF bids[a] = <<>> THEN 0 ELSE LastBid(bids[a]).deposit
Outbid(a, u) == bids[a] # <<>> /\ LastBid(bids[a]).user = u
Back_never(a, u) == 0                       \* mutant: the loser's money stays frozen
Back(a, u) == IF Outbid(a, u) /\ Refund(a) <= frozen[u] THEN Refund(a) ELSE 0
Held(a, u, bidder) == IF u = bidder THEN Deposit[a] ELSE 0

\* Mutant: available money is not checked.
CanHold_always(u, c) == TRUE
CanHold(u, c) == c <= available[u]

\* POST /promotions/{id}/bids on an auction: the deposit of the new bidder is
\* frozen, that of the last one released, and the end price ends the auction.
auction_bid(u, a, price) ==
    LET logged(v) == Held(a, v, u) - (IF Outbid(a, v) THEN Refund(a) ELSE 0)
    IN  /\ Free(u) /\ Biddable(a, price)
        /\ ~Outbid(a, u)
        /\ CanHold(u, Deposit[a])
        /\ available' = [v \in User |-> available[v] - Held(a, v, u) + Back(a, v)]
        /\ frozen' = [v \in User |-> frozen[v] + Held(a, v, u) - Back(a, v)]
        /\ log' = [v \in User |-> [available |-> log[v].available - logged(v),
                                   frozen |-> log[v].frozen + logged(v)]]
        /\ bids' = [bids EXCEPT ![a] =
                       Append(@, [user |-> u, price |-> price, deposit |-> Deposit[a]])]
        /\ finished' = IF Highest[a] > 0 /\ price = Highest[a]
                       THEN finished \union {a} ELSE finished
        /\ UNCHANGED <<points, request, over, claim, job>>

\* The same on a snatch: a price not bid by u before, for points.
snatch_bid(u, a, price) ==
    /\ Free(u) /\ Biddable(a, price)
    /\ \A i \in DOMAIN bids[a] : bids[a][i].user = u => bids[a][i].price # price
    /\ CostPoints[a] <= points[u]
    /\ points' = [points EXCEPT ![u] = @ - CostPoints[a]]
    /\ bids' = [bids EXCEPT ![a] = Append(@, [user |-> u, price |-> price, deposit |-> 0])]
    /\ UNCHANGED <<balanceVars, request, over, finished, claim, job>>

\* end_time passes.
ends(a) ==
    /\ a \notin over
    /\ over' = over \union {a}
    /\ UNCHANGED <<balanceVars, points, request, bids, finished, claim, job>>
-----------------------------------------------------------------------------
(* Buying what was won: POST /promotions/{id}/orders.                      *)

group_buy_begins(u, a) ==
    /\ Free(u)
    /\ job' = [job EXCEPT ![u] = [activity |-> a, bids |-> bids[a],
                                  finished |-> a \in finished, claim |-> claim[a]]]
    /\ UNCHANGED <<balanceVars, points, request, activityVars>>

\* The winning bid: the last one, or the lowest price that was bid once.
Unique(b, i) == \A k \in DOMAIN b \ {i} : b[k].price # b[i].price
Wins(a, b, i) ==
    IF a \in Auction THEN i = Len(b)
    ELSE /\ Unique(b, i)
         /\ \A k \in DOMAIN b : Unique(b, k) => b[i].price <= b[k].price

Ended_always(j) == TRUE                     \* mutant: does not wait for the end
Ended(j) == j.finished \/ j.activity \in over

\* The winner gets the deposit back and owns the activity.  The order may still
\* fail for other reasons, which rolls everything back.
group_buy(u) ==
    LET j == job[u]
    IN  /\ j # Null
        /\ Ended(j) /\ j.claim = Null
        /\ \E i \in DOMAIN j.bids :
              /\ Wins(j.activity, j.bids, i) /\ j.bids[i].user = u
              /\ j.bids[i].deposit <= frozen[u]
              /\ Freeze(u, -j.bids[i].deposit)
        /\ claim[j.activity] = Null
        /\ claim' = [claim EXCEPT ![j.activity] = u]
        /\ job' = [job EXCEPT ![u] = Null]
        /\ UNCHANGED <<points, request, bids, over, finished>>

rollback(u) ==
    /\ job[u] # Null
    /\ job' = [job EXCEPT ![u] = Null]
    /\ UNCHANGED <<balanceVars, points, request, activityVars>>
-----------------------------------------------------------------------------
Requests(u, r) ==
    \/ \E c \in Amounts : request_deposit(u, r, c) \/ request_withdrawal(u, r, c)
    \/ account_request_cancel(u, r) \/ account_request_payment(u, r) \/ deposit(u, r)

Next ==
    \/ \E u \in User :
          \/ \E r \in Request : Requests(u, r)
          \/ \E c \in Amounts : points_convert(u, c)
          \/ \E a \in Auction, price \in Amounts : auction_bid(u, a, price)
          \/ \E a \in Snatch, price \in Amounts : snatch_bid(u, a, price)
          \/ \E a \in Activity : group_buy_begins(u, a)
          \/ group_buy(u) \/ rollback(u)
    \/ \E a \in Activity : ends(a)

Spec == Init /\ [][Next]_vars
-----------------------------------------------------------------------------
(* Properties.                                                             *)

Bid == [user : User, price : Nat, deposit : Nat]
RequestRow == [status : {"none", "pending_payment", "pending_review", "paid", "deleted"},
               kind : {"none", "deposit", "withdrawal"}, user : User \union {Null},
               cents : Nat, intent : {"none", "pending", "paid"}]
Snapshot == [activity : Activity, bids : Seq(Bid), finished : BOOLEAN,
             claim : User \union {Null}]

\* The rows have their types: no balance, frozen amount or points below zero.
TypeOK ==
    /\ available \in [User -> Nat] /\ frozen \in [User -> Nat] /\ points \in [User -> Nat]
    /\ log \in [User -> [available : Int, frozen : Int]]
    /\ request \in [Request -> RequestRow]
    /\ bids \in [Activity -> Seq(Bid)]
    /\ over \subseteq Activity /\ finished \subseteq Activity
    /\ claim \in [Activity -> User \union {Null}]
    /\ job \in [User -> Snapshot \union {Null}]

\* The cents of the requests of u of a kind and status, and their sum.
Counted(u, kind, status) == [r \in Request |->
    IF /\ request[r].user = u /\ request[r].kind = kind
       /\ request[r].status = status
    THEN request[r].cents ELSE 0]
MoneyOf(u, kind, status) == SumFunctionOnSet(Counted(u, kind, status), Request)

\* The bids of u on a, what they cost on snatches, and the deposits of u that lead.
BidsOf(u, a) == {i \in DOMAIN bids[a] : bids[a][i].user = u}
BidCosts(u) == [a \in Snatch |-> CostPoints[a] * Cardinality(BidsOf(u, a))]
Leading(u) == [a \in Auction |-> IF Outbid(a, u) /\ claim[a] = Null THEN Refund(a) ELSE 0]

\* Deposits are credited once and nothing else makes money: available, frozen
\* and points of a user are what they were, plus the paid deposits, less the
\* points of snatch bids (account.rs:926-1103, compat.rs:185-228, mock.rs:90-130).
MoneyConserved ==
    \A u \in User :
        available[u] + frozen[u] + points[u]
            = Balance0[u] + Points0[u] + MoneyOf(u, "deposit", "paid")
              - SumFunctionOnSet(BidCosts(u), Snatch)

\* Frozen money has a reason that can release it: a withdrawal under review or
\* the deposit of the leading bid of an auction that has not been bought
\* (marketing_write.rs:171-186 and 306-315).
FrozenExplained ==
    \A u \in User :
        frozen[u] = MoneyOf(u, "withdrawal", "pending_review")
                    + SumFunctionOnSet(Leading(u), Auction)

\* The account log adds up to the balance, though the outbid row is logged
\* without a look at what its UPDATE met (marketing_write.rs:183-184).
LogExplains ==
    \A u \in User : /\ available[u] = Balance0[u] + log[u].available
                    /\ frozen[u] = log[u].frozen

\* docs/12:20: an activity is bought by its winner, after its end and once.
\* A bid that came later than the buyer's snapshot must not be passed over.
WinnerClaims ==
    \A a \in Activity : claim[a] # Null =>
        /\ a \in over \union finished
        /\ IF a \in Auction THEN Outbid(a, claim[a])
           ELSE \E i \in BidsOf(claim[a], a) :
                   /\ Unique(bids[a], i)
                   /\ \A k \in DOMAIN bids[a] : bids[a][k].price < bids[a][i].price =>
                          ~Unique(bids[a], k)

\* The bids of an auction rise by its step, the last one up to the end price
\* alone, alternate between users, and stop at the end price.
BidsRise ==
    \A a \in Auction : \A i \in 2..Len(bids[a]) :
        LET b == bids[a][i]
            before == bids[a][i - 1]
        IN  /\ b.user # before.user
            /\ b.price >= before.price + Amplitude[a] \/ b.price = Highest[a]
            /\ Highest[a] > 0 => before.price < Highest[a]
=============================================================================
