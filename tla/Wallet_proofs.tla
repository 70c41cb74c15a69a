---------------------------- MODULE Wallet_proofs ----------------------------
(***************************************************************************)
(* Theorems about module Wallet, for every number of users, requests and   *)
(* activities.                                                             *)
(***************************************************************************)
EXTENDS Wallet, SumLemmas

Sums == [available : Int, frozen : Int]

\* The types of the money of the users, of their requests and of the activities.
Money    == /\ available \in [User -> Nat] /\ frozen \in [User -> Nat]
            /\ points \in [User -> Nat] /\ log \in [User -> Sums]
Market   == /\ bids \in [Activity -> Seq(Bid)]
            /\ over \subseteq Activity /\ finished \subseteq Activity
            /\ claim \in [Activity -> User \union {Null}]
Jobs     == job \in [User -> Snapshot \union {Null}]
Rows     == request \in [Request -> RequestRow]

LEMMA TypeParts == TypeOK <=> Money /\ Market /\ Jobs /\ Rows
BY DEF TypeOK, Money, Market, Jobs, Rows, Sums

LEMMA FreezeType ==
    ASSUME Money, NEW u \in User, NEW c \in Int, c <= available[u], -c <= frozen[u],
           Freeze(u, c), UNCHANGED points
    PROVE  Money'
<1>1. available[u] - c \in Nat /\ frozen[u] + c \in Nat
  BY DEF Money
<1>2. log[u].available - c \in Int /\ log[u].frozen + c \in Int
  BY DEF Money, Sums
<1> QED
  BY <1>1, <1>2 DEF Money, Freeze, Sums

LEMMA CreditType ==
    ASSUME Money, NEW u \in User, NEW c \in Nat, Credit(u, c), points' \in [User -> Nat]
    PROVE  Money'
<1>1. available[u] + c \in Nat /\ log[u].available + c \in Int
  BY DEF Money, Sums
<1>2. log' = [log EXCEPT ![u] = [log[u] EXCEPT !.available = log[u].available + c]]
  BY DEF Credit
<1>3. [log[u] EXCEPT !.available = log[u].available + c] \in Sums
  BY <1>1 DEF Money, Sums
<1> QED
  BY <1>1, <1>2, <1>3 DEF Money, Credit

\* The rows of requests.
LEMMA RequestFields ==
    ASSUME NEW r \in RequestRow
    PROVE  /\ [r EXCEPT !.status = "deleted", !.intent = "none"] \in RequestRow
           /\ [r EXCEPT !.status = "paid", !.intent = "paid"] \in RequestRow
           /\ [r EXCEPT !.intent = "pending"] \in RequestRow
           /\ r.cents \in Nat /\ r.user \in User \union {Null}
BY DEF RequestRow

LEMMA AmountTypes == \A c \in Amounts : c \in Nat /\ c > 0
BY ONLY WalletAssumption

LEMMA RequestTypes ==
    ASSUME TypeOK, NEW u \in User, NEW r \in Request, Requests(u, r)
    PROVE  TypeOK'
<1>0. Money /\ Market /\ Jobs /\ Rows /\ request[r] \in RequestRow
  BY TypeParts DEF Rows
<1>1. ASSUME UNCHANGED <<activityVars, job>>, Money', Rows' PROVE TypeOK'
  BY <1>0, <1>1 DEF TypeOK, Money, Market, Jobs, Rows, Sums, activityVars
<1>2. ASSUME NEW row \in RequestRow, request' = [request EXCEPT ![r] = row] PROVE Rows'
  BY <1>0, <1>2 DEF Rows
<1>3. ASSUME UNCHANGED <<balanceVars, points>> PROVE Money'
  BY <1>0, <1>3 DEF Money, balanceVars
<1>4. ASSUME NEW c \in Amounts, request_deposit(u, r, c) PROVE TypeOK'
  <2> DEFINE row == [status |-> "pending_payment", kind |-> "deposit",
                     user |-> u, cents |-> c, intent |-> "none"]
  <2>1. row \in RequestRow
    BY AmountTypes DEF RequestRow
  <2>2. request' = [request EXCEPT ![r] = row] /\ UNCHANGED <<balanceVars, points, activityVars, job>>
    BY <1>4 DEF request_deposit
  <2> HIDE DEF row
  <2> QED
    BY <1>1, <1>2, <1>3, <2>1, <2>2
<1>5. ASSUME NEW c \in Amounts, request_withdrawal(u, r, c) PROVE TypeOK'
  <2> DEFINE row == [status |-> "pending_review", kind |-> "withdrawal",
                     user |-> u, cents |-> c, intent |-> "none"]
  <2>1. row \in RequestRow /\ c \in Int /\ -c <= frozen[u]
    BY <1>0, AmountTypes DEF RequestRow, Money
  <2>2. request' = [request EXCEPT ![r] = row] /\ UNCHANGED <<points, activityVars, job>>
    BY <1>5 DEF request_withdrawal
  <2> HIDE DEF row
  <2>3. Money'
    BY <1>0, <1>5, <2>1, FreezeType DEF request_withdrawal
  <2> QED
    BY <1>1, <1>2, <2>1, <2>2, <2>3
<1>6. CASE account_request_cancel(u, r)
  <2> DEFINE row == [request[r] EXCEPT !.status = "deleted", !.intent = "none"]
  <2>1. row \in RequestRow
    BY <1>0, RequestFields
  <2>2. request' = [request EXCEPT ![r] = row] /\ UNCHANGED <<points, activityVars, job>>
    BY <1>6 DEF account_request_cancel
  <2> HIDE DEF row
  <2>3. ASSUME request[r].cents <= frozen[u], Freeze(u, -request[r].cents) PROVE Money'
    <3>1. request[r].cents \in Nat /\ available[u] \in Nat /\ frozen[u] \in Nat
      BY <1>0, RequestFields DEF Money
    <3>2. -request[r].cents \in Int /\ -request[r].cents <= available[u]
          /\ -(-request[r].cents) <= frozen[u]
      BY <2>3, <3>1
    <3> QED
      BY <1>0, <2>2, <2>3, <3>2, FreezeType
  <2>4. Money'
    BY <1>3, <1>6, <2>2, <2>3 DEF account_request_cancel
  <2> QED
    BY <1>1, <1>2, <2>1, <2>2, <2>4
<1>7. CASE account_request_payment(u, r)
  <2> DEFINE row == [request[r] EXCEPT !.intent = "pending"]
  <2>1. row \in RequestRow
    BY <1>0, RequestFields
  <2>2. request' = [request EXCEPT ![r] = row] /\ UNCHANGED <<balanceVars, points, activityVars, job>>
    BY <1>7 DEF account_request_payment
  <2> HIDE DEF row
  <2> QED
    BY <1>1, <1>2, <1>3, <2>1, <2>2
<1>8. CASE deposit(u, r)
  <2> DEFINE row == [request[r] EXCEPT !.status = "paid", !.intent = "paid"]
  <2>1. row \in RequestRow /\ request[r].cents \in Nat
    BY <1>0, RequestFields
  <2>2. request' = [request EXCEPT ![r] = row] /\ UNCHANGED <<points, activityVars, job>>
    BY <1>8 DEF deposit
  <2> HIDE DEF row
  <2>3. Money'
    BY <1>0, <1>8, <2>1, <2>2, CreditType DEF deposit, Money
  <2> QED
    BY <1>1, <1>2, <2>1, <2>2, <2>3
<1> QED
  BY <1>4, <1>5, <1>6, <1>7, <1>8 DEF Requests
-----------------------------------------------------------------------------
(* Bids.                                                                   *)

\* The bids of an activity, and one more.
LEMMA BidFacts ==
    ASSUME Market, NEW a \in Activity
    PROVE  /\ bids[a] \in Seq(Bid) /\ Len(bids[a]) \in Nat
           /\ DOMAIN bids[a] = 1..Len(bids[a])
           /\ \A i \in 1..Len(bids[a]) : bids[a][i] \in Bid
           /\ bids[a] # <<>> <=> Len(bids[a]) > 0
           /\ bids[a] # <<>> => LastBid(bids[a]) \in Bid /\ Len(bids[a]) \in 1..Len(bids[a])
BY DEF Market, LastBid

LEMMA AppendFacts ==
    ASSUME Market, NEW a \in Activity, NEW b \in Bid, bids' = [bids EXCEPT ![a] = Append(@, b)]
    PROVE  /\ bids' \in [Activity -> Seq(Bid)]
           /\ \A c \in Activity \ {a} : bids'[c] = bids[c]
           /\ Len(bids'[a]) = Len(bids[a]) + 1
           /\ DOMAIN bids'[a] = 1..(Len(bids[a]) + 1)
           /\ \A i \in 1..Len(bids[a]) : bids'[a][i] = bids[a][i]
           /\ bids'[a][Len(bids[a]) + 1] = b
           /\ bids'[a] # <<>> /\ LastBid(bids'[a]) = b
<1>1. bids[a] \in Seq(Bid) /\ Len(bids[a]) \in Nat
  BY BidFacts
<1>2. bids'[a] = Append(bids[a], b) /\ \A c \in Activity \ {a} : bids'[c] = bids[c]
  BY DEF Market
<1>3. Append(bids[a], b) \in Seq(Bid)
  BY <1>1
<1>4. bids' \in [Activity -> Seq(Bid)]
  BY <1>3 DEF Market
<1> QED
  BY <1>1, <1>2, <1>4 DEF LastBid

\* What a bid moves between available and frozen money.
LEMMA BidMoves ==
    ASSUME Money, Market, NEW a \in Auction, NEW u \in User, NEW v \in User
    PROVE  /\ Held(a, v, u) \in Nat /\ Back(a, v) \in Nat /\ Refund(a) \in Nat
           /\ Back(a, v) <= frozen[v] /\ Deposit[a] \in Nat
           /\ Held(a, v, u) = IF v = u THEN Deposit[a] ELSE 0
<1>1. Deposit[a] \in Nat /\ frozen[v] \in Nat /\ a \in Activity
  BY WalletAssumption DEF Money, Activity
<1>2. Refund(a) \in Nat
  BY <1>1, BidFacts DEF Refund, Bid
<1> QED
  BY <1>1, <1>2 DEF Held, Back

LEMMA AuctionBidTypes ==
    ASSUME TypeOK, NEW u \in User, NEW a \in Auction, NEW price \in Amounts,
           auction_bid(u, a, price)
    PROVE  TypeOK'
<1>0. Money /\ Market /\ Jobs /\ Rows /\ a \in Activity
  BY TypeParts DEF Activity
<1>1. available' \in [User -> Nat]
  <2> SUFFICES ASSUME NEW v \in User PROVE available[v] - Held(a, v, u) + Back(a, v) \in Nat
    BY DEF auction_bid
  <2>1. Deposit[a] <= available[u] /\ available[v] \in Nat
    BY <1>0 DEF auction_bid, CanHold, Money
  <2>2. Held(a, v, u) <= available[v]
    BY <1>0, <2>1, BidMoves
  <2> QED
    BY <1>0, <2>1, <2>2, BidMoves
<1>2. frozen' \in [User -> Nat]
  <2> SUFFICES ASSUME NEW v \in User PROVE frozen[v] + Held(a, v, u) - Back(a, v) \in Nat
    BY DEF auction_bid
  <2> QED
    BY <1>0, BidMoves DEF Money
<1>3. log' \in [User -> Sums]
  <2> DEFINE logged(v) == Held(a, v, u) - (IF Outbid(a, v) THEN Refund(a) ELSE 0)
  <2>1. \A v \in User : logged(v) \in Int
    BY <1>0, BidMoves
  <2>2. log' = [v \in User |-> [available |-> log[v].available - logged(v),
                                frozen |-> log[v].frozen + logged(v)]]
    BY DEF auction_bid
  <2> HIDE DEF logged
  <2> QED
    BY <1>0, <2>1, <2>2 DEF Money, Sums
<1>4. bids' \in [Activity -> Seq(Bid)]
  <2>1. [user |-> u, price |-> price, deposit |-> Deposit[a]] \in Bid
    BY <1>0, BidMoves, AmountTypes DEF Bid
  <2> QED
    BY <1>0, <2>1, AppendFacts DEF auction_bid
<1>5. /\ finished' = finished \/ finished' = finished \union {a}
      /\ UNCHANGED <<points, request, over, claim, job>>
  BY DEF auction_bid
<1> QED
  BY <1>0, <1>1, <1>2, <1>3, <1>4, <1>5 DEF TypeOK, Money, Market, Jobs, Rows, Sums

LEMMA SnatchBidTypes ==
    ASSUME TypeOK, NEW u \in User, NEW a \in Snatch, NEW price \in Amounts,
           snatch_bid(u, a, price)
    PROVE  TypeOK'
<1>0. Market /\ a \in Activity
  BY TypeParts DEF Activity
<1>1. bids' \in [Activity -> Seq(Bid)]
  <2>1. [user |-> u, price |-> price, deposit |-> 0] \in Bid
    BY AmountTypes DEF Bid
  <2> QED
    BY <1>0, <2>1, AppendFacts DEF snatch_bid
<1>2. points' \in [User -> Nat]
  <2>1. points[u] - CostPoints[a] \in Nat
    BY WalletAssumption DEF snatch_bid, TypeOK
  <2> QED
    BY <2>1 DEF snatch_bid, TypeOK
<1>3. UNCHANGED <<available, frozen, log, request, over, finished, claim, job>>
  BY DEF snatch_bid, balanceVars
<1> QED
  BY <1>1, <1>2, <1>3 DEF TypeOK
-----------------------------------------------------------------------------
(* Purchases.                                                              *)

LEMMA BuyTypes ==
    ASSUME TypeOK, NEW u \in User, group_buy(u)
    PROVE  TypeOK'
<1>1. job[u] \in Snapshot
  BY DEF group_buy, TypeOK
<1>2. PICK i \in DOMAIN job[u].bids :
          /\ job[u].bids[i].deposit <= frozen[u]
          /\ Freeze(u, -job[u].bids[i].deposit)
  BY DEF group_buy
<1>3. job[u].bids \in Seq(Bid) /\ job[u].activity \in Activity
  BY <1>1 DEF Snapshot
<1>4. job[u].bids[i].deposit \in Nat
  <2>1. job[u].bids[i] \in Bid
    BY <1>2, <1>3
  <2> QED
    BY <2>1 DEF Bid
<1> DEFINE d == job[u].bids[i].deposit
<1>5. Money'
  <2>1. available[u] \in Nat /\ frozen[u] \in Nat /\ Money
    BY TypeParts DEF Money
  <2>2. UNCHANGED points
    BY DEF group_buy
  <2> HIDE DEF d
  <2>3. -d \in Int /\ -d <= available[u] /\ -(-d) <= frozen[u] /\ Freeze(u, -d)
    BY <1>2, <1>4, <2>1 DEF d
  <2> QED
    BY <2>1, <2>2, <2>3, FreezeType
<1>6. /\ claim' = [claim EXCEPT ![job[u].activity] = u] /\ job' = [job EXCEPT ![u] = Null]
      /\ UNCHANGED <<request, bids, over, finished>>
  BY DEF group_buy
<1> QED
  BY <1>5, <1>6 DEF TypeOK, Money, Sums

LEMMA OtherTypes ==
    ASSUME TypeOK, NEW u \in User
    PROVE  /\ \A c \in Amounts : points_convert(u, c) => TypeOK'
           /\ \A a \in Activity : group_buy_begins(u, a) => TypeOK'
           /\ rollback(u) => TypeOK'
<1>0. Money /\ Market /\ Jobs /\ Rows
  BY TypeParts
<1>1. ASSUME NEW c \in Amounts, points_convert(u, c) PROVE TypeOK'
  <2>1. c \in Nat /\ points[u] - c \in Nat
    BY <1>0, <1>1, AmountTypes DEF points_convert, Money
  <2>2. points' \in [User -> Nat]
    BY <1>0, <1>1, <2>1 DEF points_convert, Money
  <2>3. Money'
    BY <1>0, <1>1, <2>1, <2>2, CreditType DEF points_convert
  <2> QED
    BY <1>0, <1>1, <2>3 DEF points_convert, activityVars, TypeOK, Money, Sums
<1>2. ASSUME NEW a \in Activity, group_buy_begins(u, a) PROVE TypeOK'
  <2> DEFINE s == [activity |-> a, bids |-> bids[a], finished |-> a \in finished,
                   claim |-> claim[a]]
  <2>1. s \in Snapshot
    BY <1>0 DEF Snapshot, Market
  <2>2. job' = [job EXCEPT ![u] = s]
    BY <1>2 DEF group_buy_begins
  <2> HIDE DEF s
  <2> QED
    BY <1>2, <2>1, <2>2 DEF group_buy_begins, activityVars, balanceVars, TypeOK
<1>3. CASE rollback(u)
  BY <1>3 DEF rollback, activityVars, balanceVars, TypeOK
<1> QED
  BY <1>1, <1>2, <1>3
LEMMA InitTypes == Init => TypeOK
BY WalletAssumption DEF Init, TypeOK, NoRequest, RequestRow

LEMMA StepTypes == TypeOK /\ [Next]_vars => TypeOK'
<1> SUFFICES ASSUME TypeOK, [Next]_vars PROVE TypeOK'
  OBVIOUS
<1>1. CASE UNCHANGED vars
  BY <1>1 DEF vars, TypeOK
<1>2. ASSUME NEW a \in Activity, ends(a) PROVE TypeOK'
  BY <1>2 DEF ends, balanceVars, TypeOK
<1>3. CASE Next
  BY <1>2, <1>3, RequestTypes, AuctionBidTypes, SnatchBidTypes, BuyTypes, OtherTypes, Zenon DEF Next
<1> QED
  BY <1>1, <1>3

\* No balance, frozen amount or points fall below zero, and every row keeps its
\* shape, on both databases.
THEOREM WalletTypes == Spec => []TypeOK
BY InitTypes, StepTypes, PTL DEF Spec
-----------------------------------------------------------------------------
(* The bids of an auction rise.                                            *)

\* The end price ends an auction.
TopFinishes ==
    \A a \in Auction : bids[a] # <<>> /\ Highest[a] > 0 =>
        LastBid(bids[a]).price < Highest[a] \/ a \in finished

\* A step that does not bid on an auction leaves its bids alone.
LEMMA NoBid ==
    ASSUME TypeOK, [Next]_vars, NEW a \in Auction,
           ~\E u \in User, price \in Amounts : auction_bid(u, a, price)
    PROVE  bids'[a] = bids[a] /\ (a \in finished => a \in finished')
<1>0. Market /\ a \in Activity
  BY TypeParts DEF Activity
<1>1. ASSUME NEW u \in User, NEW b \in Auction, NEW price \in Amounts, auction_bid(u, b, price)
      PROVE  bids'[a] = bids[a] /\ (a \in finished => a \in finished')
  <2>1. a # b
    BY <1>1
  <2> QED
    BY <1>0, <1>1, <2>1 DEF auction_bid, Market
<1>2. ASSUME NEW u \in User, NEW b \in Snatch, NEW price \in Amounts, snatch_bid(u, b, price)
      PROVE  bids'[a] = bids[a] /\ (a \in finished => a \in finished')
  BY <1>0, <1>2, WalletAssumption DEF snatch_bid, Market
<1>3. CASE UNCHANGED <<bids, finished>>
  BY <1>3
<1>4. \/ UNCHANGED <<bids, finished>>
      \/ \E u \in User, b \in Auction, price \in Amounts : auction_bid(u, b, price)
      \/ \E u \in User, b \in Snatch, price \in Amounts : snatch_bid(u, b, price)
  BY ZenonT(30)
     DEF vars, Next, Requests, request_deposit, request_withdrawal, account_request_cancel,
         account_request_payment, deposit, points_convert, group_buy_begins, group_buy,
         rollback, ends, activityVars
<1> QED
  BY <1>1, <1>2, <1>3, <1>4

\* The bids of an auction rise by its step, the last one up to the end price
\* alone, alternate between users, and stop at the end price, on both databases:
\* a bid takes the lock of the activity before it reads the last one
\* (marketing_write.rs:100-131).
THEOREM BidsAlwaysRise == Spec => []BidsRise
<1> DEFINE Inv == BidsRise /\ TopFinishes
           Step(b, before, a) ==
               /\ b.user # before.user
               /\ b.price >= before.price + Amplitude[a] \/ b.price = Highest[a]
               /\ Highest[a] > 0 => before.price < Highest[a]
<1>1. Init => Inv
  <2> SUFFICES ASSUME Init PROVE Inv
    OBVIOUS
  <2>1. \A a \in Auction : bids[a] = <<>>
    BY DEF Init, Activity
  <2>2. \A a \in Auction : Len(bids[a]) = 0
    BY <2>1
  <2> QED
    BY <2>1, <2>2 DEF BidsRise, TopFinishes
<1>2. ASSUME TypeOK, Inv, [Next]_vars PROVE Inv'
  <2>0. Market
    BY <1>2, TypeParts
  <2> SUFFICES ASSUME NEW a \in Auction
               PROVE  /\ \A i \in 2..Len(bids'[a]) : Step(bids'[a][i], bids'[a][i - 1], a)
                      /\ bids'[a] # <<>> /\ Highest[a] > 0 =>
                            LastBid(bids'[a]).price < Highest[a] \/ a \in finished'
    BY DEF BidsRise, TopFinishes
  <2>1. CASE ~\E u \in User, price \in Amounts : auction_bid(u, a, price)
    <3>1. bids'[a] = bids[a] /\ (a \in finished => a \in finished')
      BY <1>2, <2>1, NoBid
    <3> QED
      BY <1>2, <3>1 DEF BidsRise, TopFinishes
  <2>2. ASSUME NEW u \in User, NEW price \in Amounts, auction_bid(u, a, price)
        PROVE  /\ \A i \in 2..Len(bids'[a]) : Step(bids'[a][i], bids'[a][i - 1], a)
               /\ bids'[a] # <<>> /\ Highest[a] > 0 =>
                     LastBid(bids'[a]).price < Highest[a] \/ a \in finished'
    <3> DEFINE b == [user |-> u, price |-> price, deposit |-> Deposit[a]]
               n == Len(bids[a])
    <3>1. /\ a \in Activity /\ price \in Nat /\ Highest[a] \in Nat /\ Amplitude[a] \in Nat
          /\ Deposit[a] \in Nat /\ Lowest[a] \in Nat
      BY AmountTypes, WalletAssumption DEF Activity
    <3>2. b \in Bid
      BY <3>1 DEF Bid
    <3>3. /\ Len(bids'[a]) = n + 1 /\ bids'[a][n + 1] = b /\ LastBid(bids'[a]) = b
          /\ \A i \in 1..n : bids'[a][i] = bids[a][i]
      BY <2>0, <2>2, <3>1, <3>2, AppendFacts DEF auction_bid
    <3>4. n \in Nat /\ (bids[a] # <<>> <=> n > 0) /\ (n > 0 => LastBid(bids[a]) \in Bid)
      BY <2>0, <3>1, BidFacts
    <3>5. /\ a \notin finished /\ price >= Minimum(a) /\ (Highest[a] > 0 => price <= Highest[a])
          /\ finished' = IF Highest[a] > 0 /\ price = Highest[a]
                         THEN finished \union {a} ELSE finished
      BY <2>2 DEF auction_bid, Biddable, Running
    <3>6. ASSUME n > 0 PROVE Step(b, bids[a][n], a)
      <4> DEFINE last == LastBid(bids[a])
      <4>1. last = bids[a][n] /\ last.price \in Nat /\ last.user # u
        BY <2>2, <3>4, <3>6 DEF LastBid, Bid, auction_bid, Outbid
      <4>2. Highest[a] > 0 => last.price < Highest[a]
        BY <1>2, <3>4, <3>5, <3>6 DEF TopFinishes
      <4>3. Minimum(a) = IF Highest[a] > 0 THEN Lesser(last.price + Amplitude[a], Highest[a])
                         ELSE last.price + Amplitude[a]
        BY <3>4, <3>6 DEF Minimum
      <4> HIDE DEF last
      <4>4. price >= last.price + Amplitude[a] \/ price = Highest[a]
        BY <3>1, <3>5, <4>1, <4>3 DEF Lesser
      <4> QED
        BY <4>1, <4>2, <4>4
    <3>7. ASSUME NEW i \in 2..(n + 1) PROVE Step(bids'[a][i], bids'[a][i - 1], a)
      <4>1. CASE i = n + 1
        <5>1. n > 0 /\ i - 1 = n /\ n \in 1..n
          BY <3>4, <3>7, <4>1
        <5>2. bids'[a][i] = b /\ bids'[a][i - 1] = bids[a][n]
          BY <3>3, <4>1, <5>1
        <5> HIDE DEF b, n, Step
        <5> QED
          BY <3>6, <5>1, <5>2
      <4>2. CASE i # n + 1
        <5>1. i \in 2..n /\ i \in 1..n /\ i - 1 \in 1..n
          BY <3>4, <3>7, <4>2
        <5>2. bids'[a][i] = bids[a][i] /\ bids'[a][i - 1] = bids[a][i - 1]
          BY <3>3, <5>1
        <5>3. Step(bids[a][i], bids[a][i - 1], a)
          BY <1>2, <5>1 DEF BidsRise
        <5> HIDE DEF Step
        <5> QED
          BY <5>2, <5>3
      <4> QED
        BY <4>1, <4>2
    <3>8. Highest[a] > 0 => LastBid(bids'[a]).price < Highest[a] \/ a \in finished'
      BY <3>1, <3>3, <3>5
    <3> HIDE DEF Step
    <3> QED
      BY <3>3, <3>7, <3>8
  <2> QED
    BY <2>1, <2>2
<1>3. Inv => BidsRise
  OBVIOUS
<1> QED
  BY <1>1, <1>2, <1>3, WalletTypes, PTL DEF Spec
-----------------------------------------------------------------------------
(* Sums over requests, snatches and auctions.                              *)

Worth(row, u, kind, status) ==
    IF row.user = u /\ row.kind = kind /\ row.status = status THEN row.cents ELSE 0

LEMMA CountedTypes ==
    ASSUME Rows, NEW u, NEW kind, NEW status
    PROVE  /\ \A r \in Request : /\ Counted(u, kind, status)[r] \in Nat
                                 /\ Counted(u, kind, status)[r] \in Int
                                 /\ Counted(u, kind, status)[r] =
                                       Worth(request[r], u, kind, status)
           /\ MoneyOf(u, kind, status) \in Nat
<1> DEFINE f == Counted(u, kind, status)
<1>1. \A r \in Request : f[r] \in Nat /\ f[r] \in Int /\ f[r] = Worth(request[r], u, kind, status)
  BY DEF Rows, RequestRow, Counted, Worth
<1>2. IsFiniteSet(Request)
  BY WalletAssumption
<1>3. SumFunctionOnSet(f, Request) \in Nat
  <2> HIDE DEF f
  <2> QED
    BY <1>1, <1>2, SumNat
<1> QED
  BY <1>1, <1>3 DEF MoneyOf

PaidIn(u) == MoneyOf(u, "deposit", "paid")
UnderReview(u) == MoneyOf(u, "withdrawal", "pending_review")

LEMMA CountedSame ==
    ASSUME UNCHANGED request, NEW u
    PROVE  PaidIn(u)' = PaidIn(u) /\ UnderReview(u)' = UnderReview(u)
BY DEF PaidIn, UnderReview, MoneyOf, Counted

\* One request changes.
LEMMA CountedUpdate ==
    ASSUME Rows, NEW r \in Request, NEW row \in RequestRow,
           request' = [request EXCEPT ![r] = row], NEW u
    PROVE  /\ PaidIn(u)' = PaidIn(u) + Worth(row, u, "deposit", "paid")
                               - Worth(request[r], u, "deposit", "paid")
           /\ UnderReview(u)' = UnderReview(u) + Worth(row, u, "withdrawal", "pending_review")
                               - Worth(request[r], u, "withdrawal", "pending_review")
<1>0. IsFiniteSet(Request)
  BY WalletAssumption
<1>1. PaidIn(u)' = PaidIn(u) + Worth(row, u, "deposit", "paid")
                     - Worth(request[r], u, "deposit", "paid")
  <2> DEFINE f == Counted(u, "deposit", "paid")
             g == Counted(u, "deposit", "paid")'
  <2>1. /\ \A s \in Request : f[s] \in Int
        /\ g[r] \in Int
        /\ \A s \in Request \ {r} : g[s] = f[s]
    BY DEF Rows, RequestRow, Counted
  <2>3. g[r] = Worth(row, u, "deposit", "paid") /\ f[r] = Worth(request[r], u, "deposit", "paid")
    BY DEF Rows, RequestRow, Counted, Worth
  <2>2. SumFunctionOnSet(g, Request) = SumFunctionOnSet(f, Request) + g[r] - f[r]
    <3> HIDE DEF f, g
    <3> QED
      BY ONLY <1>0, <2>1, r \in Request, SumUpdate
  <2> QED
    BY <2>2, <2>3 DEF PaidIn, MoneyOf
<1>2. UnderReview(u)' = UnderReview(u) + Worth(row, u, "withdrawal", "pending_review")
                          - Worth(request[r], u, "withdrawal", "pending_review")
  <2> DEFINE f == Counted(u, "withdrawal", "pending_review")
             g == Counted(u, "withdrawal", "pending_review")'
  <2>1. /\ \A s \in Request : f[s] \in Int
        /\ g[r] \in Int
        /\ \A s \in Request \ {r} : g[s] = f[s]
    BY DEF Rows, RequestRow, Counted
  <2>3. /\ g[r] = Worth(row, u, "withdrawal", "pending_review")
        /\ f[r] = Worth(request[r], u, "withdrawal", "pending_review")
    BY DEF Rows, RequestRow, Counted, Worth
  <2>2. SumFunctionOnSet(g, Request) = SumFunctionOnSet(f, Request) + g[r] - f[r]
    <3> HIDE DEF f, g
    <3> QED
      BY ONLY <1>0, <2>1, r \in Request, SumUpdate
  <2> QED
    BY <2>2, <2>3 DEF UnderReview, MoneyOf
<1> QED
  BY <1>1, <1>2

Cost(u) == SumFunctionOnSet(BidCosts(u), Snatch)
Leads(u) == SumFunctionOnSet(Leading(u), Auction)

LEMMA BidsOfFinite ==
    ASSUME Market, NEW a \in Activity, NEW u
    PROVE  IsFiniteSet(BidsOf(u, a)) /\ Cardinality(BidsOf(u, a)) \in Nat
<1>1. BidsOf(u, a) \subseteq 1..Len(bids[a]) /\ Len(bids[a]) \in Nat
  BY BidFacts DEF BidsOf
<1>2. IsFiniteSet(1..Len(bids[a]))
  BY <1>1, FS_Interval
<1> QED
  BY <1>1, <1>2, FS_Subset, FS_CardinalityType

LEMMA CostTypes ==
    ASSUME Market, NEW u
    PROVE  (\A a \in Snatch : BidCosts(u)[a] \in Nat /\ BidCosts(u)[a] \in Int) /\ Cost(u) \in Nat
<1> DEFINE f == BidCosts(u)
<1>1. ASSUME NEW a \in Snatch PROVE f[a] \in Nat /\ f[a] \in Int
  <2>1. Cardinality(BidsOf(u, a)) \in Nat /\ CostPoints[a] \in Nat
    BY BidsOfFinite, WalletAssumption DEF Activity
  <2>2. \A x, y \in Nat : x * y \in Nat
    OBVIOUS
  <2> QED
    BY <2>1, <2>2 DEF BidCosts
<1>2. IsFiniteSet(Snatch)
  BY WalletAssumption
<1>3. SumFunctionOnSet(f, Snatch) \in Nat
  <2> HIDE DEF f
  <2> QED
    BY <1>1, <1>2, SumNat
<1> QED
  BY <1>1, <1>3 DEF Cost

\* A bid adds one to the bids of its bidder.
LEMMA BidsOfAfter ==
    ASSUME Market, NEW a \in Activity, NEW b \in Bid, bids' = [bids EXCEPT ![a] = Append(@, b)],
           NEW u
    PROVE  /\ BidsOf(u, a)' = IF u = b.user THEN BidsOf(u, a) \union {Len(bids[a]) + 1}
                              ELSE BidsOf(u, a)
           /\ \A c \in Activity \ {a} : BidsOf(u, c)' = BidsOf(u, c)
           /\ Cardinality(BidsOf(u, a)') = Cardinality(BidsOf(u, a)) + IF u = b.user THEN 1 ELSE 0
<1> DEFINE n == Len(bids[a])
<1>1. /\ DOMAIN bids'[a] = 1..(n + 1) /\ DOMAIN bids[a] = 1..n /\ n \in Nat
      /\ \A i \in 1..n : bids'[a][i] = bids[a][i]
      /\ bids'[a][n + 1] = b /\ \A c \in Activity \ {a} : bids'[c] = bids[c]
  BY BidFacts, AppendFacts
<1> HIDE DEF n
<1>2. BidsOf(u, a)' = IF u = b.user THEN BidsOf(u, a) \union {n + 1} ELSE BidsOf(u, a)
  BY <1>1 DEF BidsOf
<1>3. \A c \in Activity \ {a} : BidsOf(u, c)' = BidsOf(u, c)
  BY <1>1 DEF BidsOf
<1>4. n + 1 \notin BidsOf(u, a)
  BY <1>1 DEF BidsOf
<1>5. Cardinality(BidsOf(u, a)') = Cardinality(BidsOf(u, a)) + IF u = b.user THEN 1 ELSE 0
  <2> DEFINE S == BidsOf(u, a)
  <2>1. IsFiniteSet(S) /\ Cardinality(S) \in Nat
    BY BidsOfFinite
  <2> HIDE DEF S
  <2>2. n + 1 \notin S => Cardinality(S \union {n + 1}) = Cardinality(S) + 1
    BY <2>1, FS_AddElement
  <2> QED
    BY <1>2, <1>4, <2>1, <2>2 DEF S
<1> QED
  BY <1>2, <1>3, <1>5 DEF n
-----------------------------------------------------------------------------
(* Money is conserved.                                                     *)

Total(v) == available[v] + frozen[v] + points[v]

\* Freezing moves money of one user.
LEMMA FreezeTotals ==
    ASSUME Money, NEW u \in User, NEW c \in Int, Freeze(u, c), UNCHANGED points, NEW v \in User
    PROVE  Total(v)' = Total(v)
<1>1. /\ available[v] \in Nat /\ frozen[v] \in Nat /\ points[v] \in Nat
      /\ available'[v] = IF v = u THEN available[v] - c ELSE available[v]
      /\ frozen'[v] = IF v = u THEN frozen[v] + c ELSE frozen[v]
  BY DEF Money, Freeze
<1> QED
  BY <1>1 DEF Total

LEMMA RequestTotals ==
    ASSUME TypeOK, NEW u \in User, NEW r \in Request, Requests(u, r), NEW v \in User
    PROVE  Total(v)' - Total(v)
               = PaidIn(v)' - PaidIn(v)
<1>0. Money /\ Rows /\ request[r] \in RequestRow
  BY TypeParts DEF Rows
<1>1. Total(v) \in Nat
  BY <1>0 DEF Money, Total
<1> DEFINE W(row) == Worth(row, v, "deposit", "paid")
           M == PaidIn(v)
<1>2. ASSUME NEW row \in RequestRow, request' = [request EXCEPT ![r] = row],
             W(row) = W(request[r])
      PROVE  M' - M = 0
  <2>1. M' = M + W(row) - W(request[r]) /\ M \in Nat /\ W(row) \in Nat
    <3>1. M' = M + W(row) - W(request[r])
      BY <1>0, <1>2, CountedUpdate
    <3>2. M \in Nat
      BY <1>0, CountedTypes DEF PaidIn
    <3>3. W(row) \in Nat
      BY <1>2 DEF Worth, RequestRow
    <3> QED
      BY <3>1, <3>2, <3>3
  <2> HIDE DEF M, W
  <2> QED
    BY <1>2, <2>1
<1>3. ASSUME NEW c \in Amounts, request_deposit(u, r, c) \/ request_withdrawal(u, r, c)
      PROVE  Total(v)' = Total(v) /\ M' - M = 0
  <2>1. c \in Nat
    BY AmountTypes
  <2>2. PICK kind \in {"deposit", "withdrawal"}, status \in {"pending_payment", "pending_review"} :
           request' = [request EXCEPT ![r] = [status |-> status, kind |-> kind,
                                              user |-> u, cents |-> c, intent |-> "none"]]
    BY <1>3 DEF request_deposit, request_withdrawal
  <2> DEFINE row == [status |-> status, kind |-> kind,
                     user |-> u, cents |-> c, intent |-> "none"]
  <2>3. row \in RequestRow /\ W(row) = 0
    BY <2>1 DEF RequestRow, Worth
  <2>4. W(request[r]) = 0
    BY <1>0, <1>3 DEF request_deposit, request_withdrawal, Worth
  <2> HIDE DEF row
  <2>5. Total(v)' = Total(v)
    <3>1. CASE request_deposit(u, r, c)
      BY <3>1 DEF request_deposit, Total, balanceVars
    <3>2. CASE request_withdrawal(u, r, c)
      BY <1>0, <2>1, <3>2, FreezeTotals DEF request_withdrawal
    <3> QED
      BY <1>3, <3>1, <3>2
  <2> QED
    BY <1>2, <2>2, <2>3, <2>4, <2>5 DEF row
<1>4. ASSUME account_request_cancel(u, r) PROVE Total(v)' = Total(v) /\ M' - M = 0
  <2> DEFINE row == [request[r] EXCEPT !.status = "deleted", !.intent = "none"]
  <2>1. row \in RequestRow /\ row.status = "deleted"
    BY <1>0, RequestFields, ZenonT(30) DEF RequestRow
  <2>2. request' = [request EXCEPT ![r] = row]
    BY <1>4 DEF account_request_cancel
  <2>3. W(row) = 0 /\ W(request[r]) = 0
    BY <1>0, <1>4, <2>1 DEF Worth, account_request_cancel, Open
  <2>4. request[r].cents \in Nat
    BY <1>0, RequestFields
  <2>5. Freeze(u, -request[r].cents) => Total(v)' = Total(v)
    BY <1>0, <1>4, <2>4, FreezeTotals DEF account_request_cancel
  <2>6. UNCHANGED <<balanceVars, points>> => Total(v)' = Total(v)
    BY DEF Total, balanceVars
  <2> HIDE DEF row
  <2> QED
    BY <1>2, <1>4, <2>1, <2>2, <2>3, <2>5, <2>6 DEF account_request_cancel
<1>5. ASSUME account_request_payment(u, r) PROVE Total(v)' = Total(v) /\ M' - M = 0
  <2> DEFINE row == [request[r] EXCEPT !.intent = "pending"]
  <2>1. row \in RequestRow /\ W(row) = W(request[r])
    BY <1>0, RequestFields, ZenonT(30) DEF RequestRow, Worth
  <2>2. request' = [request EXCEPT ![r] = row] /\ Total(v)' = Total(v)
    BY <1>5 DEF account_request_payment, balanceVars, Total
  <2> HIDE DEF row
  <2> QED
    BY <1>2, <2>1, <2>2
<1>6. ASSUME deposit(u, r) PROVE Total(v)' - Total(v) = M' - M
  <2> DEFINE row == [request[r] EXCEPT !.status = "paid", !.intent = "paid"]
             c == request[r].cents
  <2>1. /\ row \in RequestRow /\ row.status = "paid" /\ row.user = u /\ row.kind = "deposit"
        /\ row.cents = c /\ c \in Nat
    BY <1>0, <1>6, RequestFields, ZenonT(30) DEF RequestRow, deposit, Open
  <2>2. request' = [request EXCEPT ![r] = row] /\ Credit(u, c) /\ UNCHANGED points
    BY <1>6 DEF deposit
  <2>3. W(row) = IF v = u THEN c ELSE 0
    BY <2>1 DEF Worth
  <2>4. W(request[r]) = 0
    BY <1>0, <1>6 DEF Worth, deposit, Open
  <2> HIDE DEF row, c
  <2>5. M' = M + W(row) - W(request[r]) /\ M \in Nat
    <3>1. M' = M + W(row) - W(request[r])
      BY <1>0, <2>1, <2>2, CountedUpdate
    <3>2. M \in Nat
      BY <1>0, CountedTypes DEF PaidIn
    <3> QED
      BY <3>1, <3>2
  <2>6. Total(v)' = Total(v) + IF v = u THEN c ELSE 0
    BY <1>0, <2>1, <2>2 DEF Credit, Total, Money
  <2> HIDE DEF M, W
  <2> QED
    BY <1>1, <2>1, <2>3, <2>4, <2>5, <2>6
<1> HIDE DEF M
<1> QED
  BY <1>1, <1>3, <1>4, <1>5, <1>6 DEF Requests, M

\* The cost of the snatch bids follows the bids on snatches alone.
LEMMA CostSame ==
    ASSUME \A c \in Snatch : bids'[c] = bids[c], NEW v
    PROVE  Cost(v)' = Cost(v)
<1>1. \A c \in Snatch : BidsOf(v, c)' = BidsOf(v, c)
  BY DEF BidsOf
<1>2. BidCosts(v)' = BidCosts(v)
  BY <1>1 DEF BidCosts
<1> QED
  BY <1>2 DEF Cost

LEMMA CostAfter ==
    ASSUME Market, NEW a \in Snatch, NEW b \in Bid, bids' = [bids EXCEPT ![a] = Append(@, b)],
           NEW v
    PROVE  Cost(v)' = Cost(v) + IF v = b.user THEN CostPoints[a] ELSE 0
<1> DEFINE f == BidCosts(v)
           g == BidCosts(v)'
           n == Cardinality(BidsOf(v, a))
           more == IF v = b.user THEN 1 ELSE 0
<1>0. a \in Activity /\ Snatch \subseteq Activity /\ IsFiniteSet(Snatch) /\ CostPoints[a] \in Nat
  BY WalletAssumption DEF Activity
<1>1. n \in Nat /\ Cardinality(BidsOf(v, a)') = n + more
  BY <1>0, BidsOfFinite, BidsOfAfter
<1>2. \A c \in Snatch \ {a} : g[c] = f[c]
  <2>1. \A c \in Snatch \ {a} : bids'[c] = bids[c]
    BY <1>0 DEF Market
  <2> QED
    BY <2>1 DEF BidCosts, BidsOf
<1>3. \A c \in Snatch : f[c] \in Int
  BY CostTypes
<1>4. f[a] = CostPoints[a] * n /\ g[a] = CostPoints[a] * (n + more)
  BY <1>1 DEF BidCosts
<1>5. g[a] = f[a] + IF v = b.user THEN CostPoints[a] ELSE 0
  <2>1. \A x, m \in Nat : x * (m + 1) = x * m + x /\ x * (m + 0) = x * m + 0
    OBVIOUS
  <2> HIDE DEF f, g, n
  <2> QED
    BY <1>0, <1>1, <1>4, <2>1
<1>6. g[a] \in Int
  BY <1>0, <1>3, <1>5
<1> HIDE DEF f, g, n
<1>7. SumFunctionOnSet(g, Snatch) = SumFunctionOnSet(f, Snatch) + g[a] - f[a]
  BY ONLY <1>0, <1>2, <1>3, <1>6, a \in Snatch, SumUpdate
<1>8. Cost(v)' = SumFunctionOnSet(g, Snatch) /\ Cost(v) = SumFunctionOnSet(f, Snatch)
  BY DEF Cost, f, g
<1>9. Cost(v) \in Nat /\ f[a] \in Int
  BY <1>3, CostTypes
<1> QED
  BY <1>0, <1>5, <1>7, <1>8, <1>9

\* What a user has, what was paid in, and what the bids cost.
Balanced(v) == Total(v) - PaidIn(v) + Cost(v)

LEMMA BalancedTypes ==
    ASSUME TypeOK, NEW v \in User
    PROVE  Total(v) \in Nat /\ PaidIn(v) \in Nat /\ Cost(v) \in Nat
BY TypeParts, CountedTypes, CostTypes DEF Total, PaidIn, Money

LEMMA StepBalanced ==
    ASSUME TypeOK, TypeOK', [Next]_vars, NEW v \in User
    PROVE  Balanced(v)' = Balanced(v)
<1>0. Money /\ Market /\ Jobs /\ Rows
  BY TypeParts
<1>1. Total(v) \in Nat /\ PaidIn(v) \in Nat /\ Cost(v) \in Nat
  BY BalancedTypes
<1>2. Total(v)' \in Nat /\ PaidIn(v)' \in Nat /\ Cost(v)' \in Nat
  <2>1. (TypeOK => Total(v) \in Nat /\ PaidIn(v) \in Nat /\ Cost(v) \in Nat)'
    BY BalancedTypes, PTL
  <2> QED
    BY <2>1
<1>3. ASSUME Total(v)' - Total(v) = PaidIn(v)' - PaidIn(v) - (Cost(v)' - Cost(v))
      PROVE  Balanced(v)' = Balanced(v)
  BY <1>1, <1>2, <1>3 DEF Balanced
<1>4. UNCHANGED bids => Cost(v)' = Cost(v)
  BY CostSame
<1>5. ASSUME NEW u \in User, NEW r \in Request, Requests(u, r) PROVE Balanced(v)' = Balanced(v)
  <2>1. UNCHANGED bids
    BY <1>5 DEF Requests, request_deposit, request_withdrawal, account_request_cancel,
                account_request_payment, deposit, activityVars
  <2>2. Total(v)' - Total(v) = PaidIn(v)' - PaidIn(v)
    BY <1>5, RequestTotals
  <2> QED
    BY <1>1, <1>2, <1>3, <1>4, <2>1, <2>2
<1>6. ASSUME UNCHANGED <<request, bids>>, Total(v)' = Total(v) PROVE Balanced(v)' = Balanced(v)
  BY <1>1, <1>3, <1>4, <1>6, CountedSame
<1>7. ASSUME NEW u \in User, NEW c \in Amounts, points_convert(u, c)
      PROVE  Balanced(v)' = Balanced(v)
  <2>1. c \in Nat /\ available[v] \in Nat /\ frozen[v] \in Nat /\ points[v] \in Nat
    BY <1>0, AmountTypes DEF Money
  <2>2. /\ available'[v] = IF v = u THEN available[v] + c ELSE available[v]
        /\ points'[v] = IF v = u THEN points[v] - c ELSE points[v]
        /\ UNCHANGED <<frozen, request, bids>>
    BY <1>0, <1>7 DEF points_convert, Credit, activityVars, Money
  <2> QED
    BY <1>6, <2>1, <2>2 DEF Total
<1>8. ASSUME NEW u \in User, NEW a \in Auction, NEW price \in Amounts, auction_bid(u, a, price)
      PROVE  Balanced(v)' = Balanced(v)
  <2>1. Held(a, v, u) \in Nat /\ Back(a, v) \in Nat
    BY <1>0, BidMoves
  <2>2. available[v] \in Nat /\ frozen[v] \in Nat /\ points[v] \in Nat
    BY <1>0 DEF Money
  <2>3. /\ available'[v] = available[v] - Held(a, v, u) + Back(a, v)
        /\ frozen'[v] = frozen[v] + Held(a, v, u) - Back(a, v)
        /\ UNCHANGED <<points, request>>
    BY <1>8 DEF auction_bid
  <2>4. Total(v)' = Total(v)
    BY <2>1, <2>2, <2>3 DEF Total
  <2>5. Cost(v)' = Cost(v)
    <3>1. \A c \in Snatch : bids'[c] = bids[c]
      BY <1>0, <1>8, WalletAssumption DEF auction_bid, Market, Activity
    <3> QED
      BY <3>1, CostSame
  <2> QED
    BY <1>1, <1>3, <2>3, <2>4, <2>5, CountedSame
<1>9. ASSUME NEW u \in User, NEW a \in Snatch, NEW price \in Amounts, snatch_bid(u, a, price)
      PROVE  Balanced(v)' = Balanced(v)
  <2> DEFINE b == [user |-> u, price |-> price, deposit |-> 0]
  <2>1. b \in Bid /\ b.user = u
    BY AmountTypes DEF Bid
  <2>2. bids' = [bids EXCEPT ![a] = Append(@, b)] /\ UNCHANGED <<available, frozen, request>>
    BY <1>9 DEF snatch_bid, balanceVars
  <2> HIDE DEF b
  <2>3. Cost(v)' = Cost(v) + IF v = u THEN CostPoints[a] ELSE 0
    BY <1>0, <2>1, <2>2, CostAfter
  <2>4. /\ points'[v] = IF v = u THEN points[v] - CostPoints[a] ELSE points[v]
        /\ available[v] \in Nat /\ frozen[v] \in Nat /\ points[v] \in Nat /\ CostPoints[a] \in Nat
    BY <1>0, <1>9, WalletAssumption DEF snatch_bid, Money, Activity
  <2>5. Total(v)' = Total(v) - IF v = u THEN CostPoints[a] ELSE 0
    BY <2>2, <2>4 DEF Total
  <2>6. PaidIn(v)' = PaidIn(v)
    BY <2>2, CountedSame
  <2> QED
    BY <1>1, <1>3, <2>3, <2>4, <2>5, <2>6
<1>10. ASSUME NEW u \in User, group_buy(u) PROVE Balanced(v)' = Balanced(v)
  <2>1. PICK i \in DOMAIN job[u].bids : Freeze(u, -job[u].bids[i].deposit)
    BY <1>10 DEF group_buy
  <2>2. job[u].bids[i].deposit \in Nat
    <3>1. job[u] \in Snapshot
      BY <1>0, <1>10 DEF group_buy, Jobs
    <3>2. job[u].bids[i] \in Bid
      BY <2>1, <3>1 DEF Snapshot
    <3> QED
      BY <3>2 DEF Bid
  <2>3. UNCHANGED <<points, request, bids>>
    BY <1>10 DEF group_buy
  <2>4. -job[u].bids[i].deposit \in Int
    BY <2>2
  <2>5. Total(v)' = Total(v)
    BY <1>0, <2>1, <2>3, <2>4, FreezeTotals
  <2> QED
    BY <1>6, <2>3, <2>5
<1>11. ASSUME UNCHANGED <<balanceVars, points, request, bids>> PROVE Balanced(v)' = Balanced(v)
  BY <1>6, <1>11 DEF Total, balanceVars
<1>12. \/ UNCHANGED <<balanceVars, points, request, bids>>
       \/ \E u \in User :
             \/ \E r \in Request : Requests(u, r)
             \/ \E c \in Amounts : points_convert(u, c)
             \/ \E a \in Auction, price \in Amounts : auction_bid(u, a, price)
             \/ \E a \in Snatch, price \in Amounts : snatch_bid(u, a, price)
             \/ group_buy(u)
  BY DEF Next, vars, ends, rollback, group_buy_begins, balanceVars, activityVars
<1> QED
  BY <1>5, <1>7, <1>8, <1>9, <1>10, <1>11, <1>12

\* Deposits are credited once and nothing else makes money, on both databases
\* and for every number of requests and bids: what a user has in available,
\* frozen and points is what it was, plus the paid deposits, less the points of
\* the bids on snatches (account.rs:926-1103, compat.rs:185-228, mock.rs:90-130).
THEOREM MoneyIsConserved == Spec => []MoneyConserved
<1> DEFINE Inv == \A v \in User : Balanced(v) = Balance0[v] + Points0[v]
<1>1. ASSUME Init PROVE Inv
  <2> SUFFICES ASSUME NEW v \in User PROVE Balanced(v) = Balance0[v] + Points0[v]
    OBVIOUS
  <2>1. PaidIn(v) = 0
    <3> DEFINE f == Counted(v, "deposit", "paid")
    <3>1. \A r \in Request : f[r] = 0
      BY <1>1 DEF Counted, Init, NoRequest
    <3>2. IsFiniteSet(Request)
      BY WalletAssumption
    <3>3. SumFunctionOnSet(f, Request) = 0
      <4> HIDE DEF f
      <4> QED
        BY <3>1, <3>2, SumZero
    <3> QED
      BY <3>3 DEF PaidIn, MoneyOf
  <2>2. Cost(v) = 0
    <3> DEFINE f == BidCosts(v)
    <3>1. ASSUME NEW a \in Snatch PROVE f[a] = 0
      <4>1. BidsOf(v, a) = {} /\ CostPoints[a] \in Nat
        BY <1>1, WalletAssumption DEF BidsOf, Init, Activity
      <4>2. \A x \in Nat : x * 0 = 0
        OBVIOUS
      <4> QED
        BY <4>1, <4>2, FS_EmptySet DEF BidCosts
    <3>2. IsFiniteSet(Snatch)
      BY WalletAssumption
    <3>3. SumFunctionOnSet(f, Snatch) = 0
      <4> HIDE DEF f
      <4> QED
        BY <3>1, <3>2, SumZero
    <3> QED
      BY <3>3 DEF Cost
  <2>3. Total(v) = Balance0[v] + Points0[v]
    BY <1>1, WalletAssumption DEF Total, Init
  <2>4. Balance0[v] \in Nat /\ Points0[v] \in Nat
    BY WalletAssumption
  <2> QED
    BY <2>1, <2>2, <2>3, <2>4 DEF Balanced
<1>2. TypeOK /\ TypeOK' /\ Inv /\ [Next]_vars => Inv'
  BY StepBalanced
<1>3. ASSUME TypeOK, Inv PROVE MoneyConserved
  <2> SUFFICES ASSUME NEW u \in User
               PROVE  Total(u) = Balance0[u] + Points0[u] + PaidIn(u) - Cost(u)
    BY DEF MoneyConserved, Total, PaidIn, Cost
  <2>1. Balance0[u] \in Nat /\ Points0[u] \in Nat
    BY WalletAssumption
  <2> QED
    BY <1>3, <2>1, BalancedTypes DEF Balanced
<1> HIDE DEF Inv
<1> QED
  BY <1>1, <1>2, <1>3, WalletTypes, PTL DEF Spec
-----------------------------------------------------------------------------
(* SQLite: lock_user takes the whole database, so a purchase is alone from *)
(* its first SELECT on and its snapshot is what the tables hold.           *)

AtWork(u) == LET j == job[u]
             IN  /\ \A v \in User : job[v] # Null => v = u
                 /\ j.bids = bids[j.activity] /\ j.claim = claim[j.activity]
                 /\ j.finished <=> j.activity \in finished

SnapshotTrue == \A u \in User : job[u] # Null => AtWork(u)

\* A request or a bid waits for purchases to end.
LEMMA OnlyPurchases ==
    ASSUME Backend = "sqlite", [Next]_vars
    PROVE  \/ UNCHANGED vars
           \/ (\A v \in User : job[v] = Null) /\ UNCHANGED job
           \/ \E u \in User, a \in Activity : /\ \A v \in User : job[v] = Null
                                              /\ group_buy_begins(u, a)
           \/ \E u \in User : group_buy(u) \/ rollback(u)
           \/ \E a \in Activity : ends(a)
<1>1. ASSUME NEW u \in User, Free(u) PROVE \A v \in User : job[v] = Null
  BY <1>1 DEF Free
<1>2. ASSUME NEW u \in User, NEW r \in Request, Requests(u, r) PROVE Free(u) /\ UNCHANGED job
  BY <1>2 DEF Requests, request_deposit, request_withdrawal, account_request_cancel,
              account_request_payment, deposit
<1>3. ASSUME NEW u \in User, NEW c \in Amounts, points_convert(u, c) PROVE Free(u) /\ UNCHANGED job
  BY <1>3 DEF points_convert
<1>4. ASSUME NEW u \in User, NEW a \in Auction, NEW price \in Amounts, auction_bid(u, a, price)
      PROVE  Free(u) /\ UNCHANGED job
  BY <1>4 DEF auction_bid
<1>5. ASSUME NEW u \in User, NEW a \in Snatch, NEW price \in Amounts, snatch_bid(u, a, price)
      PROVE  Free(u) /\ UNCHANGED job
  BY <1>5 DEF snatch_bid
<1>6. ASSUME NEW u \in User, NEW a \in Activity, group_buy_begins(u, a) PROVE Free(u)
  BY <1>6 DEF group_buy_begins
<1> QED
  BY <1>1, <1>2, <1>3, <1>4, <1>5, <1>6, Zenon DEF Next

LEMMA StepSnapshot ==
    ASSUME Backend = "sqlite", TypeOK, SnapshotTrue, [Next]_vars
    PROVE  SnapshotTrue'
<1>0. Market /\ Jobs
  BY TypeParts
<1>1. CASE UNCHANGED <<job, bids, finished, claim>>
  BY <1>1 DEF SnapshotTrue, AtWork
<1>2. CASE (\A v \in User : job[v] = Null) /\ UNCHANGED job
  BY <1>2 DEF SnapshotTrue
<1>3. ASSUME NEW u \in User, NEW a \in Activity, \A v \in User : job[v] = Null,
             group_buy_begins(u, a)
      PROVE  SnapshotTrue'
  <2> DEFINE s == [activity |-> a, bids |-> bids[a], finished |-> a \in finished,
                   claim |-> claim[a]]
  <2>1. /\ s.activity = a /\ s.bids = bids[a] /\ s.claim = claim[a]
        /\ s.finished <=> a \in finished
    OBVIOUS
  <2>2. /\ job' = [job EXCEPT ![u] = s]
        /\ UNCHANGED <<bids, finished, claim>>
    BY <1>3 DEF group_buy_begins, activityVars
  <2> HIDE DEF s
  <2>3. job'[u] = s /\ \A v \in User \ {u} : job'[v] = Null
    BY <1>0, <1>3, <2>2 DEF Jobs
  <2> QED
    BY <2>1, <2>2, <2>3 DEF SnapshotTrue, AtWork
<1>4. ASSUME NEW u \in User, group_buy(u) \/ rollback(u) PROVE SnapshotTrue'
  <2>1. job[u] # Null /\ job' = [job EXCEPT ![u] = Null]
    BY <1>4 DEF group_buy, rollback
  <2>2. \A v \in User : job'[v] = Null
    BY <1>0, <2>1 DEF SnapshotTrue, AtWork, Jobs
  <2> QED
    BY <2>2 DEF SnapshotTrue
<1>5. ASSUME NEW a \in Activity, ends(a) PROVE SnapshotTrue'
  BY <1>1, <1>5 DEF ends
<1> QED
  BY <1>1, <1>2, <1>3, <1>4, <1>5, OnlyPurchases DEF vars

\* What a purchase does on SQLite: the activity is over and still free, and the
\* winner's deposit comes back.
LEMMA Bought ==
    ASSUME TypeOK, SnapshotTrue, NEW u \in User, group_buy(u)
    PROVE  \E a \in Activity :
               /\ a \in over \union finished
               /\ claim[a] = Null /\ claim' = [claim EXCEPT ![a] = u]
               /\ UNCHANGED <<points, request, bids, over, finished>>
               /\ \E i \in DOMAIN bids[a] : /\ Wins(a, bids[a], i) /\ bids[a][i].user = u
                                            /\ bids[a][i].deposit <= frozen[u]
                                            /\ Freeze(u, -bids[a][i].deposit)
<1> DEFINE a == job[u].activity
<1>1. job[u] \in Snapshot /\ job[u] # Null
  BY DEF group_buy, TypeOK
<1>2. a \in Activity
  BY <1>1 DEF Snapshot
<1>3. job[u].bids = bids[a] /\ (job[u].finished <=> a \in finished)
  BY <1>1 DEF SnapshotTrue, AtWork
<1>4. a \in over \union finished
  BY <1>3 DEF group_buy, Ended
<1>5. /\ claim[a] = Null /\ claim' = [claim EXCEPT ![a] = u]
      /\ UNCHANGED <<points, request, bids, over, finished>>
  BY DEF group_buy
<1>6. \E i \in DOMAIN bids[a] : /\ Wins(a, bids[a], i) /\ bids[a][i].user = u
                                /\ bids[a][i].deposit <= frozen[u]
                                /\ Freeze(u, -bids[a][i].deposit)
  BY <1>3 DEF group_buy
<1> HIDE DEF a
<1> QED
  BY <1>2, <1>4, <1>5, <1>6

\* What the bids of a say of its owner.
Owned(a, u) ==
    IF a \in Auction THEN Outbid(a, u)
    ELSE \E i \in BidsOf(u, a) :
            /\ Unique(bids[a], i)
            /\ \A k \in DOMAIN bids[a] : bids[a][k].price < bids[a][i].price =>
                   ~Unique(bids[a], k)

Kept(a) == claim[a] # Null => a \in over \union finished /\ Owned(a, claim[a])

LEMMA WinnersKept == WinnerClaims <=> \A a \in Activity : Kept(a)
BY DEF WinnerClaims, Owned, Kept

LEMMA StepWinner ==
    ASSUME Backend = "sqlite", TypeOK, SnapshotTrue, WinnerClaims, [Next]_vars
    PROVE  WinnerClaims'
<1>0. Market
  BY TypeParts
<1>1. (WinnerClaims <=> \A a \in Activity : Kept(a))'
  BY WinnersKept, PTL
<1> SUFFICES ASSUME NEW a \in Activity PROVE Kept(a)'
  BY <1>1
<1>2. Kept(a)
  BY WinnersKept
<1>3. ASSUME claim'[a] = claim[a], bids'[a] = bids[a] \/ Running(a),
             over \subseteq over', finished \subseteq finished'
      PROVE  Kept(a)'
  <2>1. claim[a] # Null => bids'[a] = bids[a]
    BY <1>2, <1>3 DEF Running, Kept
  <2> QED
    BY <1>2, <1>3, <2>1 DEF Kept, Owned, Outbid, BidsOf, LastBid
<1>4. ASSUME NEW u \in User, group_buy(u)
      PROVE  Kept(a)'
  <2>1. PICK c \in Activity :
            /\ c \in over \union finished
            /\ claim' = [claim EXCEPT ![c] = u]
            /\ UNCHANGED <<bids, over, finished>>
            /\ \E i \in DOMAIN bids[c] : Wins(c, bids[c], i) /\ bids[c][i].user = u
    BY <1>4, Bought
  <2>2. CASE c # a
    BY <1>0, <1>3, <2>1, <2>2 DEF Market
  <2>3. CASE c = a
    <3>1. PICK i \in DOMAIN bids[a] : Wins(a, bids[a], i) /\ bids[a][i].user = u
      BY <2>1, <2>3
    <3>2. /\ DOMAIN bids[a] = 1..Len(bids[a]) /\ Len(bids[a]) \in Nat
          /\ \A k \in DOMAIN bids[a] : bids[a][k].price \in Nat
      <4>1. \A k \in DOMAIN bids[a] : bids[a][k] \in Bid
        BY <1>0, BidFacts
      <4> QED
        BY <1>0, <4>1, BidFacts DEF Bid
    <3>3. ASSUME a \in Auction PROVE Owned(a, u)
      BY <1>0, <3>1, <3>2, <3>3, BidFacts DEF Owned, Outbid, Wins, LastBid
    <3>4. ASSUME a \notin Auction PROVE Owned(a, u)
      <4>1. /\ i \in BidsOf(u, a) /\ Unique(bids[a], i)
            /\ \A k \in DOMAIN bids[a] : bids[a][k].price < bids[a][i].price =>
                   ~Unique(bids[a], k)
        BY <3>1, <3>2, <3>4 DEF Wins, BidsOf
      <4> QED
        BY <3>4, <4>1 DEF Owned
    <3>5. claim'[a] = u
      BY <1>0, <2>1, <2>3 DEF Market
    <3> QED
      BY <2>1, <2>3, <3>3, <3>4, <3>5 DEF Kept, Owned, Outbid, BidsOf, LastBid
  <2> QED
    BY <2>2, <2>3
<1>5. ASSUME NEW u \in User, NEW c \in Auction, NEW price \in Amounts, auction_bid(u, c, price)
      PROVE  Kept(a)'
  <2>1. bids'[a] = bids[a] \/ Running(a)
    BY <1>0, <1>5 DEF auction_bid, Biddable, Market
  <2> QED
    BY <1>3, <1>5, <2>1 DEF auction_bid
<1>6. ASSUME NEW u \in User, NEW c \in Snatch, NEW price \in Amounts, snatch_bid(u, c, price)
      PROVE  Kept(a)'
  <2>1. bids'[a] = bids[a] \/ Running(a)
    BY <1>0, <1>6 DEF snatch_bid, Biddable, Market
  <2> QED
    BY <1>3, <1>6, <2>1 DEF snatch_bid
<1>7. ASSUME NEW c \in Activity, ends(c)
      PROVE  Kept(a)'
  BY <1>3, <1>7 DEF ends
<1>8. CASE UNCHANGED <<bids, over, finished, claim>>
  BY <1>3, <1>8
<1>9. ASSUME NEW u \in User, NEW r \in Request, Requests(u, r) PROVE Kept(a)'
  BY <1>8, <1>9 DEF Requests, request_deposit, request_withdrawal, account_request_cancel,
         account_request_payment, deposit, activityVars
<1>10. ASSUME NEW u \in User,
              \/ \E c \in Amounts : points_convert(u, c)
              \/ \E c \in Activity : group_buy_begins(u, c)
              \/ rollback(u)
       PROVE  Kept(a)'
  BY <1>8, <1>10 DEF points_convert, group_buy_begins, rollback, activityVars
<1> QED
  BY <1>4, <1>5, <1>6, <1>7, <1>8, <1>9, <1>10, Zenon DEF Next, vars

\* docs/12:20: an activity is bought by its winner, after its end and once, and
\* no bid that came in between is passed over.  On MySQL this is false: the
\* snapshot is older than the lock of the activity (run MCWallet_stale_winner).
THEOREM WinnersClaim ==
    ASSUME Backend = "sqlite"
    PROVE  Spec => []WinnerClaims
<1>1. Init => SnapshotTrue /\ WinnerClaims
  BY DEF Init, SnapshotTrue, WinnerClaims
<1>2. TypeOK /\ SnapshotTrue /\ WinnerClaims /\ [Next]_vars => (SnapshotTrue /\ WinnerClaims)'
  BY StepSnapshot, StepWinner
<1> QED
  BY <1>1, <1>2, WalletTypes, PTL DEF Spec
-----------------------------------------------------------------------------
(* What MySQL keeps of it: the buyer won the bids its snapshot shows, and  *)
(* these are the first bids of the activity.                               *)

StartOf(s, b) == Len(s) <= Len(b) /\ \A i \in 1..Len(s) : s[i] = b[i]

SnapshotPast ==
    \A u \in User : job[u] # Null =>
        /\ StartOf(job[u].bids, bids[job[u].activity])
        /\ job[u].finished => job[u].activity \in finished

HadWon(a) ==
    claim[a] # Null =>
        /\ a \in over \union finished
        /\ \E s \in Seq(Bid) : /\ StartOf(s, bids[a])
                               /\ \E i \in DOMAIN s : Wins(a, s, i) /\ s[i].user = claim[a]

LEMMA StartOfStart ==
    ASSUME NEW r \in Seq(Bid), NEW s \in Seq(Bid), NEW b \in Seq(Bid),
           StartOf(r, s), StartOf(s, b)
    PROVE  StartOf(r, b)
BY DEF StartOf

\* Bids are only ever added at the end, and nothing reopens an activity.
LEMMA BidsAreAdded ==
    ASSUME TypeOK, [Next]_vars, NEW a \in Activity
    PROVE  StartOf(bids[a], bids'[a]) /\ over \subseteq over' /\ finished \subseteq finished'
<1>0. Market /\ Len(bids[a]) \in Nat /\ Auction \subseteq Activity /\ Snatch \subseteq Activity
  BY TypeParts, BidFacts DEF Activity
<1>1. ASSUME bids'[a] = bids[a] PROVE StartOf(bids[a], bids'[a])
  BY <1>0, <1>1 DEF StartOf
<1>2. ASSUME NEW c \in Activity, NEW b \in Bid, bids' = [bids EXCEPT ![c] = Append(@, b)]
      PROVE  StartOf(bids[a], bids'[a])
  <2>1. CASE a = c
    BY <1>0, <1>2, <2>1, AppendFacts DEF StartOf
  <2>2. CASE a # c
    BY <1>0, <1>1, <1>2, <2>2, AppendFacts
  <2> QED
    BY <2>1, <2>2
<1>3. ASSUME NEW u \in User, NEW c \in Auction, NEW price \in Amounts, auction_bid(u, c, price)
      PROVE  StartOf(bids[a], bids'[a]) /\ over \subseteq over' /\ finished \subseteq finished'
  <2>1. [user |-> u, price |-> price, deposit |-> Deposit[c]] \in Bid
    BY <1>0, TypeParts, BidMoves, AmountTypes DEF Bid
  <2> QED
    BY <1>0, <1>2, <1>3, <2>1 DEF auction_bid
<1>4. ASSUME NEW u \in User, NEW c \in Snatch, NEW price \in Amounts, snatch_bid(u, c, price)
      PROVE  StartOf(bids[a], bids'[a]) /\ over \subseteq over' /\ finished \subseteq finished'
  <2>1. [user |-> u, price |-> price, deposit |-> 0] \in Bid
    BY AmountTypes DEF Bid
  <2> QED
    BY <1>0, <1>2, <1>4, <2>1 DEF snatch_bid
<1>5. ASSUME NEW c \in Activity, ends(c)
      PROVE  StartOf(bids[a], bids'[a]) /\ over \subseteq over' /\ finished \subseteq finished'
  BY <1>1, <1>5 DEF ends
<1>6. CASE UNCHANGED <<bids, over, finished>>
  BY <1>1, <1>6
<1>7. \/ UNCHANGED <<bids, over, finished>>
      \/ \E u \in User, c \in Auction, price \in Amounts : auction_bid(u, c, price)
      \/ \E u \in User, c \in Snatch, price \in Amounts : snatch_bid(u, c, price)
      \/ \E c \in Activity : ends(c)
  BY ZenonT(30)
     DEF vars, Next, Requests, request_deposit, request_withdrawal, account_request_cancel,
         account_request_payment, deposit, points_convert, group_buy_begins, group_buy,
         rollback, activityVars
<1> QED
  BY <1>3, <1>4, <1>5, <1>6, <1>7

\* What a step does to purchases that are under way and to claims.
LEMMA JobsAndClaims ==
    ASSUME [Next]_vars
    PROVE  \/ UNCHANGED <<job, claim>>
           \/ \E u \in User, a \in Activity : group_buy_begins(u, a)
           \/ \E u \in User : group_buy(u) \/ rollback(u)
<1>1. ASSUME NEW u \in User, NEW r \in Request, Requests(u, r) PROVE UNCHANGED <<job, claim>>
  BY <1>1 DEF Requests, request_deposit, request_withdrawal, account_request_cancel,
              account_request_payment, deposit, activityVars
<1>2. ASSUME NEW u \in User, NEW c \in Amounts, points_convert(u, c)
      PROVE  UNCHANGED <<job, claim>>
  BY <1>2 DEF points_convert, activityVars
<1>3. ASSUME NEW u \in User, NEW a \in Auction, NEW price \in Amounts, auction_bid(u, a, price)
      PROVE  UNCHANGED <<job, claim>>
  BY <1>3 DEF auction_bid
<1>4. ASSUME NEW u \in User, NEW a \in Snatch, NEW price \in Amounts, snatch_bid(u, a, price)
      PROVE  UNCHANGED <<job, claim>>
  BY <1>4 DEF snatch_bid
<1>5. ASSUME NEW a \in Activity, ends(a) PROVE UNCHANGED <<job, claim>>
  BY <1>5 DEF ends
<1>6. CASE UNCHANGED vars
  BY <1>6 DEF vars
<1> QED
  BY <1>1, <1>2, <1>3, <1>4, <1>5, <1>6, Zenon DEF Next

LEMMA StepPast ==
    ASSUME TypeOK, SnapshotPast, [Next]_vars
    PROVE  SnapshotPast'
<1>0. Market /\ Jobs /\ TypeOK'
  BY TypeParts, StepTypes
<1>1. ASSUME NEW u \in User, job[u] # Null, job'[u] = job[u]
      PROVE  /\ StartOf(job'[u].bids, bids'[job'[u].activity])
             /\ job'[u].finished => job'[u].activity \in finished'
  <2> DEFINE a == job[u].activity
  <2>1. a \in Activity /\ job[u].bids \in Seq(Bid)
    BY <1>0, <1>1 DEF Jobs, Snapshot
  <2>2. bids[a] \in Seq(Bid) /\ bids'[a] \in Seq(Bid)
    BY <1>0, <2>1 DEF TypeOK, Market
  <2>3. StartOf(job[u].bids, bids[a]) /\ (job[u].finished => a \in finished)
    BY <1>1 DEF SnapshotPast
  <2>4. StartOf(bids[a], bids'[a]) /\ finished \subseteq finished'
    BY <2>1, BidsAreAdded
  <2> HIDE DEF a
  <2>5. StartOf(job[u].bids, bids'[a]) /\ (job[u].finished => a \in finished')
    BY <2>1, <2>2, <2>3, <2>4, StartOfStart
  <2> QED
    BY <1>1, <2>5 DEF a
<1>2. ASSUME NEW u \in User, NEW a \in Activity, group_buy_begins(u, a)
      PROVE  SnapshotPast'
  <2> DEFINE s == [activity |-> a, bids |-> bids[a], finished |-> a \in finished,
                   claim |-> claim[a]]
  <2>1. /\ s.activity = a /\ s.bids = bids[a]
        /\ s.finished <=> a \in finished
    OBVIOUS
  <2>2. job' = [job EXCEPT ![u] = s] /\ UNCHANGED <<bids, finished>>
    BY <1>2 DEF group_buy_begins, activityVars
  <2> HIDE DEF s
  <2>3. job'[u] = s /\ \A v \in User \ {u} : job'[v] = job[v]
    BY <1>0, <2>2 DEF Jobs
  <2>4. StartOf(bids[a], bids'[a])
    BY BidsAreAdded
  <2>5. ASSUME NEW v \in User, job'[v] # Null
        PROVE  /\ StartOf(job'[v].bids, bids'[job'[v].activity])
               /\ job'[v].finished => job'[v].activity \in finished'
    <3>1. CASE v = u
      BY <2>1, <2>2, <2>3, <2>4, <3>1
    <3>2. CASE v # u
      BY <1>1, <2>3, <2>5, <3>2
    <3> QED
      BY <3>1, <3>2
  <2> QED
    BY <2>5 DEF SnapshotPast
<1>3. ASSUME NEW u \in User, group_buy(u) \/ rollback(u) PROVE SnapshotPast'
  <2>1. job' = [job EXCEPT ![u] = Null]
    BY <1>3 DEF group_buy, rollback
  <2>2. \A v \in User : job'[v] # Null => job'[v] = job[v]
    BY <1>0, <2>1 DEF Jobs
  <2> QED
    BY <1>1, <2>2 DEF SnapshotPast
<1>4. CASE UNCHANGED job
  BY <1>1, <1>4 DEF SnapshotPast
<1> QED
  BY <1>2, <1>3, <1>4, JobsAndClaims

LEMMA StepHadWon ==
    ASSUME TypeOK, SnapshotPast, [Next]_vars, NEW a \in Activity, HadWon(a)
    PROVE  HadWon(a)'
<1>0. Market /\ Jobs /\ TypeOK'
  BY TypeParts, StepTypes
<1>1. /\ bids[a] \in Seq(Bid) /\ bids'[a] \in Seq(Bid)
      /\ StartOf(bids[a], bids'[a]) /\ over \subseteq over' /\ finished \subseteq finished'
  BY <1>0, BidsAreAdded DEF TypeOK, Market
<1>2. CASE claim'[a] = claim[a]
  <2> SUFFICES ASSUME claim[a] # Null PROVE HadWon(a)'
    BY <1>2 DEF HadWon
  <2>1. PICK s \in Seq(Bid) : /\ StartOf(s, bids[a])
                              /\ \E i \in DOMAIN s : Wins(a, s, i) /\ s[i].user = claim[a]
    BY DEF HadWon
  <2>2. StartOf(s, bids'[a])
    BY <1>1, <2>1, StartOfStart
  <2>3. a \in over' \union finished'
    BY <1>1 DEF HadWon
  <2> QED
    BY <1>2, <2>1, <2>2, <2>3 DEF HadWon
<1>3. ASSUME NEW u \in User, group_buy(u), claim'[a] # claim[a] PROVE HadWon(a)'
  <2>1. job[u] \in Snapshot /\ job[u] # Null
    BY <1>0, <1>3 DEF group_buy, Jobs
  <2>2. /\ claim' = [claim EXCEPT ![job[u].activity] = u]
        /\ UNCHANGED <<bids, over, finished>>
        /\ Ended(job[u])
        /\ \E i \in DOMAIN job[u].bids :
               Wins(job[u].activity, job[u].bids, i) /\ job[u].bids[i].user = u
    BY <1>3 DEF group_buy
  <2>3. job[u].activity = a /\ claim'[a] = u
    BY <1>0, <1>3, <2>2 DEF Market
  <2>4. job[u].bids \in Seq(Bid) /\ StartOf(job[u].bids, bids[a])
        /\ (job[u].finished => a \in finished)
    BY <2>1, <2>3 DEF Snapshot, SnapshotPast
  <2>5. a \in over' \union finished'
    BY <2>2, <2>3, <2>4 DEF Ended
  <2>6. \E s \in Seq(Bid) : /\ StartOf(s, bids'[a])
                            /\ \E i \in DOMAIN s : Wins(a, s, i) /\ s[i].user = claim'[a]
    BY <2>2, <2>3, <2>4
  <2> QED
    BY <2>5, <2>6 DEF HadWon
<1>4. ASSUME UNCHANGED claim PROVE HadWon(a)'
  BY <1>2, <1>4
<1>5. ASSUME NEW u \in User, rollback(u) PROVE UNCHANGED claim
  BY <1>5 DEF rollback, activityVars
<1>6. ASSUME NEW u \in User, NEW c \in Activity, group_buy_begins(u, c) PROVE UNCHANGED claim
  BY <1>6 DEF group_buy_begins, activityVars
<1> QED
  BY <1>2, <1>3, <1>4, <1>5, <1>6, JobsAndClaims

\* Both databases: an activity is bought after its end by a user who had won it
\* with its first bids up to some moment.  SQLite adds that no bid came later
\* (WinnersClaim).  MySQL does not: group_buy takes its snapshot before it waits
\* for the row of the activity (marketing_write.rs:238-254).
THEOREM ClaimsWereWon ==
    Spec => [](\A a \in Activity : claim[a] # Null =>
                  /\ a \in over \union finished
                  /\ \E s \in Seq(Bid) :
                        /\ Len(s) <= Len(bids[a])
                        /\ \A i \in 1..Len(s) : s[i] = bids[a][i]
                        /\ \E i \in DOMAIN s : Wins(a, s, i) /\ s[i].user = claim[a])
<1> DEFINE Inv == SnapshotPast /\ \A a \in Activity : HadWon(a)
           Won == \A a \in Activity : claim[a] # Null =>
                      /\ a \in over \union finished
                      /\ \E s \in Seq(Bid) :
                            /\ Len(s) <= Len(bids[a])
                            /\ \A i \in 1..Len(s) : s[i] = bids[a][i]
                            /\ \E i \in DOMAIN s : Wins(a, s, i) /\ s[i].user = claim[a]
<1>1. Init => Inv
  BY DEF Init, SnapshotPast, HadWon
<1>2. TypeOK /\ Inv /\ [Next]_vars => Inv'
  BY StepPast, StepHadWon
<1>3. Inv => Won
  BY DEF HadWon, StartOf
<1> HIDE DEF Inv
<1> QED
  BY <1>1, <1>2, <1>3, WalletTypes, PTL DEF Spec
-----------------------------------------------------------------------------
(* Frozen money has a reason, and the log explains the balance (SQLite).   *)

LEMMA LeadTypes ==
    ASSUME Market, NEW v
    PROVE  /\ \A a \in Auction : /\ Leading(v)[a] \in Nat /\ Leading(v)[a] \in Int
                                 /\ Leading(v)[a] <= Leads(v)
           /\ Leads(v) \in Nat
<1> DEFINE f == Leading(v)
<1>1. ASSUME NEW a \in Auction PROVE f[a] \in Nat
  <2>1. Refund(a) \in Nat
    BY BidFacts DEF Activity, Refund, Bid
  <2> QED
    BY <2>1 DEF Leading
<1>2. IsFiniteSet(Auction)
  BY WalletAssumption
<1> HIDE DEF f
<1>3. SumFunctionOnSet(f, Auction) \in Nat /\ \A a \in Auction : f[a] <= SumFunctionOnSet(f, Auction)
  BY <1>1, <1>2, SumNat
<1> QED
  BY <1>1, <1>3 DEF Leads, f

LEMMA LeadsSame ==
    ASSUME \A c \in Auction : bids'[c] = bids[c] /\ claim'[c] = claim[c], NEW v
    PROVE  Leads(v)' = Leads(v)
<1>1. Leading(v)' = Leading(v)
  BY DEF Leading, Outbid, Refund, LastBid
<1> QED
  BY <1>1 DEF Leads

\* One auction changes.
LEMMA LeadsAfter ==
    ASSUME Market, NEW a \in Auction, NEW v,
           \A c \in Auction \ {a} : bids'[c] = bids[c] /\ claim'[c] = claim[c],
           Leading(v)'[a] \in Int
    PROVE  Leads(v)' = Leads(v) + Leading(v)'[a] - Leading(v)[a]
<1> DEFINE f == Leading(v)
           g == Leading(v)'
<1>1. IsFiniteSet(Auction) /\ \A c \in Auction : f[c] \in Int
  BY WalletAssumption, LeadTypes
<1>2. \A c \in Auction \ {a} : g[c] = f[c]
  BY DEF Leading, Outbid, Refund, LastBid
<1>3. g[a] \in Int
  OBVIOUS
<1> HIDE DEF f, g
<1>4. SumFunctionOnSet(g, Auction) = SumFunctionOnSet(f, Auction) + g[a] - f[a]
  BY ONLY <1>1, <1>2, <1>3, a \in Auction, SumUpdate
<1> QED
  BY <1>4 DEF Leads, f, g

Logged(v) == /\ available[v] = Balance0[v] + log[v].available
             /\ frozen[v] = log[v].frozen
Explained(v) == frozen[v] = UnderReview(v) + Leads(v)

\* A snatch freezes no deposit.
NoDeposits == \A a \in Snatch : \A i \in DOMAIN bids[a] : bids[a][i].deposit = 0

LEMMA MoneyLogged ==
    ASSUME Money, NEW u \in User, NEW v \in User, Logged(v), NEW c \in Int
    PROVE  Freeze(u, c) \/ Credit(u, c) => Logged(v)'
<1>1. /\ available[v] \in Nat /\ frozen[v] \in Nat /\ log[v].available \in Int
      /\ log[v].frozen \in Int /\ Balance0[v] \in Nat
  BY WalletAssumption DEF Money, Sums
<1>2. ASSUME Freeze(u, c)
      PROVE  /\ available'[v] = IF v = u THEN available[v] - c ELSE available[v]
             /\ frozen'[v] = IF v = u THEN frozen[v] + c ELSE frozen[v]
             /\ log'[v].available = IF v = u THEN log[v].available - c ELSE log[v].available
             /\ log'[v].frozen = IF v = u THEN log[v].frozen + c ELSE log[v].frozen
  BY <1>2 DEF Freeze, Money, Sums
<1>3. ASSUME Credit(u, c)
      PROVE  /\ available'[v] = IF v = u THEN available[v] + c ELSE available[v]
             /\ frozen'[v] = frozen[v]
             /\ log'[v].available = IF v = u THEN log[v].available + c ELSE log[v].available
             /\ log'[v].frozen = log[v].frozen
  BY <1>3 DEF Credit, Money, Sums
<1> QED
  BY <1>1, <1>2, <1>3 DEF Logged

\* A request freezes what it asks for while it is under review.
LEMMA RequestHolds ==
    ASSUME TypeOK, NEW u \in User, NEW r \in Request, Requests(u, r), NEW v \in User, Logged(v)
    PROVE  frozen'[v] - frozen[v] = UnderReview(v)' - UnderReview(v) /\ Logged(v)'
<1>0. Money /\ Rows /\ request[r] \in RequestRow
  BY TypeParts DEF Rows
<1> DEFINE W(row) == Worth(row, v, "withdrawal", "pending_review")
           M == UnderReview(v)
           Moves(c) == frozen'[v] = IF v = u THEN frozen[v] + c ELSE frozen[v]
<1>1. M \in Nat /\ frozen[v] \in Nat
  BY <1>0, CountedTypes DEF UnderReview, Money
<1>2. ASSUME NEW row \in RequestRow, request' = [request EXCEPT ![r] = row]
      PROVE  M' = M + W(row) - W(request[r])
  BY <1>0, <1>2, CountedUpdate
<1>3. UNCHANGED balanceVars => Moves(0) /\ Logged(v)'
  BY <1>1 DEF balanceVars, Logged
<1>4. ASSUME NEW c \in Int, Freeze(u, c) PROVE Moves(c) /\ Logged(v)'
  BY <1>0, <1>4, MoneyLogged DEF Freeze, Money
<1>5. ASSUME NEW c \in Amounts, request_deposit(u, r, c)
      PROVE  Moves(0) /\ Logged(v)' /\ M' = M
  <2> DEFINE row == [status |-> "pending_payment", kind |-> "deposit",
                     user |-> u, cents |-> c, intent |-> "none"]
  <2>1. row \in RequestRow /\ W(row) = 0
    BY AmountTypes DEF RequestRow, Worth
  <2>2. request' = [request EXCEPT ![r] = row] /\ UNCHANGED balanceVars
    BY <1>5 DEF request_deposit
  <2>3. W(request[r]) = 0
    BY <1>0, <1>5 DEF request_deposit, Worth
  <2> HIDE DEF row
  <2>4. M' = M + W(row) - W(request[r])
    BY <1>2, <2>1, <2>2
  <2> HIDE DEF M, W, Moves
  <2> QED
    BY <1>1, <1>3, <2>1, <2>2, <2>3, <2>4
<1>6. ASSUME NEW c \in Amounts, request_withdrawal(u, r, c)
      PROVE  Moves(c) /\ Logged(v)' /\ M' = M + IF v = u THEN c ELSE 0
  <2> DEFINE row == [status |-> "pending_review", kind |-> "withdrawal",
                     user |-> u, cents |-> c, intent |-> "none"]
  <2>1. row \in RequestRow /\ c \in Nat /\ W(row) = IF v = u THEN c ELSE 0
    BY AmountTypes DEF RequestRow, Worth
  <2>2. request' = [request EXCEPT ![r] = row] /\ Freeze(u, c)
    BY <1>6 DEF request_withdrawal
  <2>3. W(request[r]) = 0
    BY <1>0, <1>6 DEF request_withdrawal, Worth
  <2> HIDE DEF row
  <2>4. M' = M + W(row) - W(request[r])
    BY <1>2, <2>1, <2>2
  <2>5. Moves(c) /\ Logged(v)'
    BY <1>4, <2>1, <2>2
  <2> HIDE DEF M, W, Moves
  <2> QED
    BY <1>1, <2>1, <2>3, <2>4, <2>5
<1>7. ASSUME account_request_cancel(u, r)
      PROVE  \E c \in Int : Moves(c) /\ Logged(v)' /\ M' = M + IF v = u THEN c ELSE 0
  <2> DEFINE row == [request[r] EXCEPT !.status = "deleted", !.intent = "none"]
             c == request[r].cents
  <2>1. row \in RequestRow /\ c \in Nat
    BY <1>0, RequestFields
  <2>2. request' = [request EXCEPT ![r] = row]
    BY <1>7 DEF account_request_cancel
  <2>3. W(row) = 0
    BY <1>0 DEF Worth, RequestRow
  <2> HIDE DEF row, c
  <2>4. M' = M + W(row) - W(request[r])
    BY <1>2, <2>1, <2>2
  <2>5. ASSUME Open(u, r, "deposit"), UNCHANGED balanceVars PROVE Moves(0) /\ Logged(v)' /\ M' = M
    <3>1. W(request[r]) = 0
      BY <1>0, <2>5 DEF Open, Worth
    <3> HIDE DEF M, W, Moves
    <3> QED
      BY <1>1, <1>3, <2>3, <2>4, <2>5, <3>1
  <2>6. ASSUME Open(u, r, "withdrawal"), Freeze(u, -c)
        PROVE  -c \in Int /\ Moves(-c) /\ Logged(v)' /\ M' = M + IF v = u THEN -c ELSE 0
    <3>1. W(request[r]) = IF v = u THEN c ELSE 0
      BY <1>0, <2>6 DEF Open, Worth, c
    <3>2. -c \in Int
      BY <2>1
    <3>3. Moves(-c) /\ Logged(v)'
      BY <1>4, <2>6, <3>2
    <3> HIDE DEF M, W, Moves
    <3> QED
      BY <1>1, <2>1, <2>3, <2>4, <3>1, <3>2, <3>3
  <2>7. \/ Open(u, r, "deposit") /\ UNCHANGED balanceVars
        \/ Open(u, r, "withdrawal") /\ Freeze(u, -c)
    BY <1>7 DEF account_request_cancel, c
  <2> HIDE DEF M, W, Moves
  <2>8. M + 0 = M /\ 0 \in Int
    BY <1>1
  <2> QED
    BY <2>5, <2>6, <2>7, <2>8
<1>8. ASSUME account_request_payment(u, r) PROVE Moves(0) /\ Logged(v)' /\ M' = M
  <2> DEFINE row == [request[r] EXCEPT !.intent = "pending"]
  <2>1. row \in RequestRow /\ W(row) = W(request[r]) /\ W(row) \in Nat
    BY <1>0, RequestFields, ZenonT(30) DEF RequestRow, Worth
  <2>2. request' = [request EXCEPT ![r] = row] /\ UNCHANGED balanceVars
    BY <1>8 DEF account_request_payment
  <2> HIDE DEF row
  <2>3. M' = M + W(row) - W(request[r])
    BY <1>2, <2>1, <2>2
  <2> HIDE DEF M, W, Moves
  <2> QED
    BY <1>1, <1>3, <2>1, <2>2, <2>3
<1>9. ASSUME deposit(u, r) PROVE Moves(0) /\ Logged(v)' /\ M' = M
  <2> DEFINE row == [request[r] EXCEPT !.status = "paid", !.intent = "paid"]
  <2>0. row \in RequestRow /\ request[r].cents \in Nat
    BY <1>0, RequestFields
  <2>1. row \in RequestRow /\ request[r].cents \in Int
    <3> HIDE DEF row
    <3> QED
      BY <2>0
  <2>2. request' = [request EXCEPT ![r] = row] /\ Credit(u, request[r].cents)
    BY <1>9 DEF deposit
  <2>3. W(row) = 0 /\ W(request[r]) = 0
    BY <1>0, <1>9 DEF RequestRow, Worth, deposit, Open
  <2>4. Moves(0)
    BY <1>1, <2>2 DEF Credit
  <2>5. Logged(v)'
    BY <1>0, <2>1, <2>2, MoneyLogged
  <2> HIDE DEF row
  <2>6. M' = M + W(row) - W(request[r])
    BY <1>2, <2>1, <2>2
  <2> HIDE DEF M, W, Moves
  <2> QED
    BY <1>1, <2>3, <2>4, <2>5, <2>6
<1>10. \A c \in Amounts : c \in Int
  BY AmountTypes
<1>11. M + 0 = M
  BY <1>1
<1>12. \E c \in Int : Moves(c) /\ Logged(v)' /\ M' = M + IF v = u THEN c ELSE 0
  <2> HIDE DEF M, W, Moves
  <2> QED
    BY <1>5, <1>6, <1>7, <1>8, <1>9, <1>10, <1>11 DEF Requests
<1> HIDE DEF M
<1> QED
  BY <1>1, <1>12 DEF M

\* A bid freezes the deposit of the new leader and gives the last one back in
\* full: a leading deposit is frozen.
LEMMA BidHolds ==
    ASSUME TypeOK, WinnerClaims, NEW u \in User, NEW a \in Auction, NEW price \in Amounts,
           auction_bid(u, a, price), NEW v \in User, Logged(v), Explained(v)
    PROVE  Logged(v)' /\ Explained(v)'
<1>0. Money /\ Market /\ Rows /\ a \in Activity
  BY TypeParts DEF Activity
<1>1. claim[a] = Null /\ claim'[a] = Null
  BY <1>0 DEF auction_bid, Biddable, Running, WinnerClaims
<1> DEFINE b == [user |-> u, price |-> price, deposit |-> Deposit[a]]
           old == IF Outbid(a, v) THEN Refund(a) ELSE 0
           new == Held(a, v, u)
<1>2. b \in Bid /\ b.user = u /\ b.deposit = Deposit[a]
  BY <1>0, BidMoves, AmountTypes DEF Bid
<1>3. bids' = [bids EXCEPT ![a] = Append(@, b)]
  BY DEF auction_bid
<1>4. Leading(v)[a] = old
  BY <1>1 DEF Leading
<1>5. Leading(v)'[a] = new
  <2> HIDE DEF b
  <2>1. bids'[a] # <<>> /\ LastBid(bids'[a]) = b
    BY <1>0, <1>2, <1>3, AppendFacts
  <2>2. Leading(v)'[a] = IF bids'[a] # <<>> /\ LastBid(bids'[a]).user = v
                         THEN LastBid(bids'[a]).deposit ELSE 0
    BY <1>1 DEF Leading, Outbid, Refund, LastBid
  <2> QED
    BY <1>2, <2>1, <2>2 DEF Held
<1>6. new \in Nat /\ old \in Nat /\ Leads(v) \in Nat /\ UnderReview(v) \in Nat /\ old <= Leads(v)
  BY <1>0, <1>4, BidMoves, LeadTypes, CountedTypes DEF UnderReview
<1>7. Leads(v)' = Leads(v) + new - old
  <2>1. \A c \in Auction \ {a} : bids'[c] = bids[c] /\ claim'[c] = claim[c]
    BY <1>0, <1>3 DEF auction_bid, Market, Activity
  <2>2. Leading(v)'[a] \in Int
    BY <1>5, <1>6
  <2> QED
    BY <1>0, <1>4, <1>5, <2>1, <2>2, LeadsAfter
<1>8. Back(a, v) = old
  <2>1. frozen[v] = UnderReview(v) + Leads(v)
    BY DEF Explained
  <2>2. Outbid(a, v) => Refund(a) <= frozen[v]
    BY <1>6, <2>1
  <2> QED
    BY <2>2 DEF Back
<1>9. UnderReview(v)' = UnderReview(v)
  BY CountedSame DEF auction_bid
<1>10. /\ available'[v] = available[v] - new + old
       /\ frozen'[v] = frozen[v] + new - old
       /\ log'[v].available = log[v].available - (new - old)
       /\ log'[v].frozen = log[v].frozen + (new - old)
  BY <1>8 DEF auction_bid
<1>11. /\ available[v] \in Nat /\ frozen[v] \in Nat /\ log[v].available \in Int
       /\ log[v].frozen \in Int /\ Balance0[v] \in Nat
  BY <1>0, WalletAssumption DEF Money, Sums
<1> HIDE DEF new, old
<1>12. Logged(v)'
  BY <1>6, <1>10, <1>11 DEF Logged
<1>13. Explained(v)'
  BY <1>6, <1>7, <1>9, <1>10, <1>11 DEF Explained
<1> QED
  BY <1>12, <1>13

\* The winner of an auction gets the leading deposit, that of a snatch nothing.
LEMMA BuyReleases ==
    ASSUME TypeOK, SnapshotTrue, NoDeposits, NEW u \in User, group_buy(u), NEW v \in User,
           Logged(v), Explained(v)
    PROVE  Logged(v)' /\ Explained(v)'
<1>0. Money /\ Market /\ Rows
  BY TypeParts
<1>1. PICK a \in Activity :
          /\ claim[a] = Null /\ claim' = [claim EXCEPT ![a] = u]
          /\ UNCHANGED <<points, request, bids, over, finished>>
          /\ \E i \in DOMAIN bids[a] : /\ Wins(a, bids[a], i) /\ bids[a][i].user = u
                                       /\ bids[a][i].deposit <= frozen[u]
                                       /\ Freeze(u, -bids[a][i].deposit)
  BY Bought
<1>2. PICK i \in DOMAIN bids[a] : /\ Wins(a, bids[a], i) /\ bids[a][i].user = u
                                  /\ Freeze(u, -bids[a][i].deposit)
  BY <1>1
<1> DEFINE d == bids[a][i].deposit
<1>3. d \in Nat
  <2>1. bids[a][i] \in Bid
    BY <1>0, BidFacts
  <2> QED
    BY <2>1 DEF Bid
<1>4. -d \in Int
  BY <1>3
<1>5. Logged(v)'
  BY <1>0, <1>2, <1>4, MoneyLogged
<1>6. frozen'[v] = IF v = u THEN frozen[v] - d ELSE frozen[v]
  BY <1>0, <1>2, <1>3 DEF Freeze, Money
<1>7. UnderReview(v)' = UnderReview(v)
  BY <1>1, CountedSame
<1>8. UnderReview(v) \in Nat /\ Leads(v) \in Nat
  BY <1>0, CountedTypes, LeadTypes DEF UnderReview
<1>9. Leads(v)' = Leads(v) - IF v = u THEN d ELSE 0
  <2>1. CASE a \in Snatch
    <3>1. d = 0
      BY <2>1 DEF NoDeposits
    <3>2. \A c \in Auction : bids'[c] = bids[c] /\ claim'[c] = claim[c]
      BY <1>0, <1>1, <2>1, WalletAssumption DEF Market, Activity
    <3>3. Leads(v)' = Leads(v)
      BY <3>2, LeadsSame
    <3> QED
      BY <1>8, <3>1, <3>3
  <2>2. CASE a \in Auction
    <3>1. i = Len(bids[a]) /\ bids[a] # <<>>
      BY <1>0, <1>2, <2>2, BidFacts DEF Wins
    <3>2. (Outbid(a, v) <=> v = u) /\ Refund(a) = d
      BY <1>2, <3>1 DEF Outbid, Refund, LastBid
    <3>3. Leading(v)[a] = IF v = u THEN d ELSE 0
      BY <1>1, <2>2, <3>2 DEF Leading
    <3>4. claim'[a] = u /\ u # Null
      BY <1>0, <1>1, WalletAssumption DEF Market
    <3>5. Leading(v)'[a] = 0
      BY <2>2, <3>4 DEF Leading
    <3>6. \A c \in Auction \ {a} : bids'[c] = bids[c] /\ claim'[c] = claim[c]
      BY <1>0, <1>1 DEF Market, Activity
    <3> HIDE DEF d
    <3> QED
      BY <1>0, <1>3, <1>8, <2>2, <3>3, <3>5, <3>6, LeadsAfter
  <2> QED
    BY <2>1, <2>2 DEF Activity
<1>10. frozen[v] \in Nat
  BY <1>0 DEF Money
<1> HIDE DEF d
<1>11. Explained(v)'
  BY <1>3, <1>6, <1>7, <1>8, <1>9, <1>10 DEF Explained
<1> QED
  BY <1>5, <1>11

LEMMA HoldTypes ==
    ASSUME NEW v \in User
    PROVE  TypeOK => frozen[v] \in Nat /\ UnderReview(v) \in Nat
BY TypeParts, CountedTypes DEF UnderReview, Money

LEMMA StepExplained ==
    ASSUME Backend = "sqlite", TypeOK, SnapshotTrue, WinnerClaims, NoDeposits, [Next]_vars,
           NEW v \in User, Logged(v), Explained(v)
    PROVE  Logged(v)' /\ Explained(v)'
<1>0. Money /\ Market /\ Rows
  BY TypeParts
<1>1. ASSUME UNCHANGED <<frozen, request, bids, claim>> PROVE Explained(v)'
  <2>1. Leads(v)' = Leads(v)
    BY <1>1, LeadsSame
  <2> QED
    BY <1>1, <2>1, CountedSame DEF Explained
<1>2. ASSUME UNCHANGED balanceVars PROVE Logged(v)'
  BY <1>2 DEF Logged, balanceVars
<1>3. ASSUME NEW u \in User, NEW r \in Request, Requests(u, r) PROVE Logged(v)' /\ Explained(v)'
  <2>1. UNCHANGED <<bids, claim>>
    BY <1>3 DEF Requests, request_deposit, request_withdrawal, account_request_cancel,
                account_request_payment, deposit, activityVars
  <2>2. Leads(v)' = Leads(v)
    BY <2>1, LeadsSame
  <2>3. frozen'[v] - frozen[v] = UnderReview(v)' - UnderReview(v) /\ Logged(v)'
    BY <1>3, RequestHolds
  <2>4. frozen[v] \in Nat /\ UnderReview(v) \in Nat /\ Leads(v) \in Nat
    BY <1>0, CountedTypes, LeadTypes DEF UnderReview, Money
  <2>5. frozen'[v] \in Nat /\ UnderReview(v)' \in Nat
    <3>1. TypeOK'
      BY StepTypes
    <3>2. (TypeOK => frozen[v] \in Nat /\ UnderReview(v) \in Nat)'
      BY HoldTypes, PTL
    <3> QED
      BY <3>1, <3>2
  <2> QED
    BY <2>2, <2>3, <2>4, <2>5 DEF Explained
<1>4. ASSUME NEW u \in User, NEW c \in Amounts, points_convert(u, c)
      PROVE  Logged(v)' /\ Explained(v)'
  <2>1. c \in Int
    BY AmountTypes
  <2>2. Credit(u, c) /\ UNCHANGED <<frozen, request, bids, claim>>
    BY <1>4 DEF points_convert, Credit, activityVars
  <2> QED
    BY <1>0, <1>1, <2>1, <2>2, MoneyLogged
<1>5. ASSUME NEW u \in User, NEW a \in Snatch, NEW price \in Amounts, snatch_bid(u, a, price)
      PROVE  Logged(v)' /\ Explained(v)'
  <2>1. UNCHANGED <<balanceVars, request, claim>>
    BY <1>5 DEF snatch_bid
  <2>2. \A c \in Auction : bids'[c] = bids[c] /\ claim'[c] = claim[c]
    BY <1>0, <1>5, WalletAssumption DEF snatch_bid, Market, Activity
  <2>3. Leads(v)' = Leads(v) /\ UnderReview(v)' = UnderReview(v)
    BY <2>1, <2>2, LeadsSame, CountedSame
  <2> QED
    BY <1>2, <2>1, <2>3 DEF Explained, balanceVars
<1>6. CASE UNCHANGED <<balanceVars, request, bids, claim>>
  BY <1>1, <1>2, <1>6 DEF balanceVars
<1>7. \/ UNCHANGED <<balanceVars, request, bids, claim>>
      \/ \E u \in User :
             \/ \E r \in Request : Requests(u, r)
             \/ \E c \in Amounts : points_convert(u, c)
             \/ \E a \in Auction, price \in Amounts : auction_bid(u, a, price)
             \/ \E a \in Snatch, price \in Amounts : snatch_bid(u, a, price)
             \/ group_buy(u)
  BY DEF Next, vars, ends, rollback, group_buy_begins, balanceVars, activityVars
<1> QED
  BY <1>3, <1>4, <1>5, <1>6, <1>7, BidHolds, BuyReleases

LEMMA StepDeposits ==
    ASSUME TypeOK, NoDeposits, [Next]_vars
    PROVE  NoDeposits'
<1>0. Market
  BY TypeParts
<1>1. ASSUME \A c \in Snatch : bids'[c] = bids[c] PROVE NoDeposits'
  BY <1>1 DEF NoDeposits
<1>2. ASSUME NEW u \in User, NEW a \in Auction, NEW price \in Amounts, auction_bid(u, a, price)
      PROVE  NoDeposits'
  BY <1>0, <1>1, <1>2, WalletAssumption DEF auction_bid, Market, Activity
<1>3. ASSUME NEW u \in User, NEW a \in Snatch, NEW price \in Amounts, snatch_bid(u, a, price)
      PROVE  NoDeposits'
  <2> DEFINE b == [user |-> u, price |-> price, deposit |-> 0]
             n == Len(bids[a])
  <2>1. b \in Bid /\ b.deposit = 0 /\ a \in Activity /\ Snatch \subseteq Activity
    BY AmountTypes DEF Bid, Activity
  <2>2. bids' = [bids EXCEPT ![a] = Append(@, b)]
    BY <1>3 DEF snatch_bid
  <2> HIDE DEF b
  <2>3. /\ \A c \in Activity \ {a} : bids'[c] = bids[c]
        /\ DOMAIN bids'[a] = 1..(n + 1) /\ DOMAIN bids[a] = 1..n /\ n \in Nat
        /\ \A i \in 1..n : bids'[a][i] = bids[a][i]
        /\ bids'[a][n + 1] = b
    BY <1>0, <2>1, <2>2, AppendFacts, BidFacts
  <2> HIDE DEF n
  <2>4. \A i \in 1..(n + 1) : bids'[a][i].deposit = 0
    BY <2>1, <2>3 DEF NoDeposits
  <2> QED
    BY <2>1, <2>3, <2>4 DEF NoDeposits
<1>4. \/ UNCHANGED bids
      \/ \E u \in User :
             \/ \E a \in Auction, price \in Amounts : auction_bid(u, a, price)
             \/ \E a \in Snatch, price \in Amounts : snatch_bid(u, a, price)
  BY ZenonT(30)
     DEF Next, vars, Requests, request_deposit, request_withdrawal, account_request_cancel,
         account_request_payment, deposit, points_convert, group_buy_begins, group_buy,
         rollback, ends, activityVars
<1> QED
  BY <1>1, <1>2, <1>3, <1>4

LEMMA InitExplained == Init => \A v \in User : Logged(v) /\ Explained(v)
<1> SUFFICES ASSUME Init, NEW v \in User PROVE Logged(v) /\ Explained(v)
  OBVIOUS
<1>1. UnderReview(v) = 0
  <2> DEFINE f == Counted(v, "withdrawal", "pending_review")
  <2>1. \A r \in Request : f[r] = 0
    BY DEF Counted, Init, NoRequest
  <2>2. IsFiniteSet(Request)
    BY WalletAssumption
  <2>3. SumFunctionOnSet(f, Request) = 0
    <3> HIDE DEF f
    <3> QED
      BY <2>1, <2>2, SumZero
  <2> QED
    BY <2>3 DEF UnderReview, MoneyOf
<1>2. Leads(v) = 0
  <2> DEFINE f == Leading(v)
  <2>1. \A a \in Auction : f[a] = 0
    BY DEF Leading, Outbid, Init, Activity
  <2>2. IsFiniteSet(Auction)
    BY WalletAssumption
  <2>3. SumFunctionOnSet(f, Auction) = 0
    <3> HIDE DEF f
    <3> QED
      BY <2>1, <2>2, SumZero
  <2> QED
    BY <2>3 DEF Leads
<1> QED
  BY <1>1, <1>2, WalletAssumption DEF Init, Logged, Explained

\* SQLite: frozen money has a reason that can release it, a withdrawal under
\* review or the deposit of the leading bid of an auction not bought yet
\* (marketing_write.rs:171-186 and 306-315), and the account log adds up to the
\* balance, though what is logged for the outbid user is not what the UPDATE
\* met (marketing_write.rs:183-184): the refund is always frozen.
THEOREM FrozenMoneyExplained ==
    ASSUME Backend = "sqlite"
    PROVE  Spec => [](FrozenExplained /\ LogExplains)
<1> DEFINE Inv == /\ SnapshotTrue /\ WinnerClaims /\ NoDeposits
                  /\ \A v \in User : Logged(v) /\ Explained(v)
<1>1. Init => Inv
  <2>1. Init => SnapshotTrue /\ WinnerClaims
    BY DEF Init, SnapshotTrue, WinnerClaims
  <2>2. Init => NoDeposits
    <3> SUFFICES ASSUME Init, NEW a \in Snatch PROVE DOMAIN bids[a] = {}
      BY DEF NoDeposits
    <3>1. bids[a] = <<>>
      BY DEF Init, Activity
    <3> QED
      BY <3>1
  <2> QED
    BY <2>1, <2>2, InitExplained
<1>2. TypeOK /\ Inv /\ [Next]_vars => Inv'
  BY StepSnapshot, StepWinner, StepDeposits, StepExplained
<1>3. Inv => FrozenExplained /\ LogExplains
  BY DEF FrozenExplained, LogExplains, Logged, Explained, UnderReview, Leads
<1> HIDE DEF Inv
<1> QED
  BY <1>1, <1>2, <1>3, WalletTypes, PTL DEF Spec

\* SQLite: the rows of the account log of a user add up to the balance.
THEOREM LogIsTrue ==
    ASSUME Backend = "sqlite"
    PROVE  Spec => []LogExplains
BY FrozenMoneyExplained, PTL
=============================================================================
