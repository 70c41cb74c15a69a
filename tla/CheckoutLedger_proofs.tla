------------------------ MODULE CheckoutLedger_proofs ------------------------
(***************************************************************************)
(* Theorems about what module Checkout adds up: stock, SKU stock, balance  *)
(* and points against the orders and redemptions that hold them, and the   *)
(* bonuses and gifts of orders.                                            *)
(***************************************************************************)
EXTENDS Checkout_proofs, SumLemmas

Alive == Settled \union {"pending_payment"}

\* What the row r of an order holds of g and of u.
Units(r, g) == IF r.status \in Alive THEN r.lines[g] + r.gifts[g] ELSE 0
Skus(r, g)  == IF r.status \in Alive /\ g \in r.sku THEN r.lines[g] ELSE 0
Cents(r, u) == IF r.status \in Alive /\ r.user = u THEN r.paid ELSE 0
Spent(r, u) == IF r.status \in Alive /\ r.user = u THEN r.points ELSE 0

UnitSum(g)  == SumFunctionOnSet(UnitsOf(g), OrderId)
SkuSum(g)   == SumFunctionOnSet(SkusOf(g), OrderId)
PaidSum(u)  == SumFunctionOnSet(PaidBy(u), OrderId)
PointSum(u) == SumFunctionOnSet(PointsBy(u), OrderId)
SwapUnits(g)  == SumFunctionOnSet(Redeemed(g), User \X Key)
SwapPoints(u) == SumFunctionOnSet(RedeemedBy(u), Key \X Goods)

LEMMA FiniteTables ==
    IsFiniteSet(OrderId) /\ IsFiniteSet(User \X Key) /\ IsFiniteSet(Key \X Goods)
<1>1. IsFiniteSet(User) /\ IsFiniteSet(Key) /\ IsFiniteSet(Goods) /\ MaxOrder \in Nat
  BY CheckoutAssumption
<1>2. 1 \in Int /\ MaxOrder \in Int
  BY ONLY <1>1
<1>3. IsFiniteSet(1..MaxOrder)
  BY ONLY <1>2, FS_Interval
<1>4. IsFiniteSet(User \X Key)
  BY ONLY <1>1, FS_Product
<1>5. IsFiniteSet(Key \X Goods)
  BY ONLY <1>1, FS_Product
<1> QED
  BY <1>3, <1>4, <1>5 DEF OrderId

LEMMA ShareTypes ==
    ASSUME NEW r \in Order
    PROVE  /\ \A g \in Goods : /\ Units(r, g) \in Nat /\ Skus(r, g) \in Nat
                               /\ r.lines[g] \in Nat /\ r.gifts[g] \in Nat
           /\ \A u : Cents(r, u) \in Nat /\ Spent(r, u) \in Nat
<1>1. /\ r.lines \in Quantities /\ r.gifts \in Quantities
      /\ r.paid \in Nat /\ r.points \in Nat
  BY DEF Order
<1> QED
  BY <1>1 DEF Units, Skus, Cents, Spent, Quantities

\* The tables in terms of the rows.
LEMMA RowShares ==
    ASSUME TypeOK, NEW o \in OrderId
    PROVE  /\ order[o] \in Order
           /\ \A g \in Goods : /\ UnitsOf(g)[o] = Units(order[o], g) /\ UnitsOf(g)[o] \in Nat
                               /\ SkusOf(g)[o] = Skus(order[o], g) /\ SkusOf(g)[o] \in Nat
           /\ \A u : /\ PaidBy(u)[o] = Cents(order[o], u) /\ PaidBy(u)[o] \in Nat
                     /\ PointsBy(u)[o] = Spent(order[o], u) /\ PointsBy(u)[o] \in Nat
<1>1. order[o] \in Order
  BY DEF TypeOK
<1>2. ASSUME NEW g \in Goods
      PROVE  UnitsOf(g)[o] = Units(order[o], g) /\ SkusOf(g)[o] = Skus(order[o], g)
  BY DEF UnitsOf, SkusOf, Units, Skus, Live, Alive
<1>3. ASSUME NEW u
      PROVE  PaidBy(u)[o] = Cents(order[o], u) /\ PointsBy(u)[o] = Spent(order[o], u)
  BY DEF PaidBy, PointsBy, Cents, Spent, Live, Alive
<1> QED
  BY <1>1, <1>2, <1>3, ShareTypes

LEMMA SumTypes ==
    ASSUME TypeOK
    PROVE  /\ \A g \in Goods : UnitSum(g) \in Nat /\ SkuSum(g) \in Nat /\ SwapUnits(g) \in Nat
           /\ \A u \in User : PaidSum(u) \in Nat /\ PointSum(u) \in Nat /\ SwapPoints(u) \in Nat
<1>1. ASSUME NEW g \in Goods PROVE UnitSum(g) \in Nat
  BY RowShares, FiniteTables, SumNat DEF UnitSum
<1>2. ASSUME NEW g \in Goods PROVE SkuSum(g) \in Nat
  BY RowShares, FiniteTables, SumNat DEF SkuSum
<1>3. ASSUME NEW u \in User PROVE PaidSum(u) \in Nat
  BY RowShares, FiniteTables, SumNat DEF PaidSum
<1>4. ASSUME NEW u \in User PROVE PointSum(u) \in Nat
  BY RowShares, FiniteTables, SumNat DEF PointSum
<1>5. ASSUME NEW g \in Goods PROVE SwapUnits(g) \in Nat
  <2> DEFINE f == Redeemed(g)
  <2>1. \A r \in User \X Key : f[r] \in Nat
    BY DEF Redeemed, TypeOK, Quantities
  <2> HIDE DEF f
  <2>2. SumFunctionOnSet(f, User \X Key) \in Nat
    BY <2>1, FiniteTables, SumNat
  <2> QED
    BY <2>2 DEF SwapUnits, f
<1>6. ASSUME NEW u \in User PROVE SwapPoints(u) \in Nat
  <2> DEFINE f == RedeemedBy(u)
  <2>1. ASSUME NEW r \in Key \X Goods PROVE f[r] \in Nat
    <3>1. PointPrice[r[2]] \in Nat /\ redeemed[u][r[1]][r[2]] \in Nat
      BY CheckoutAssumption DEF TypeOK, Quantities
    <3>2. \A x, y \in Nat : x * y \in Nat
      OBVIOUS
    <3> QED
      BY <3>1, <3>2 DEF RedeemedBy
  <2> HIDE DEF f
  <2>2. SumFunctionOnSet(f, Key \X Goods) \in Nat
    BY <2>1, FiniteTables, SumNat
  <2> QED
    BY <2>2 DEF SwapPoints, f
<1> QED
  BY <1>1, <1>2, <1>3, <1>4, <1>5, <1>6

\* The row of one order changes.
LEMMA GoodsOfRow ==
    ASSUME TypeOK, NEW o \in OrderId, NEW r \in Order, order' = [order EXCEPT ![o] = r],
           NEW g \in Goods
    PROVE  /\ UnitSum(g)' = UnitSum(g) + Units(r, g) - Units(order[o], g)
           /\ SkuSum(g)' = SkuSum(g) + Skus(r, g) - Skus(order[o], g)
<1>1. order'[o] = r /\ \A q \in OrderId \ {o} : order'[q] = order[q]
  BY DEF TypeOK
<1>2. UnitSum(g)' = UnitSum(g) + Units(r, g) - Units(order[o], g)
  <2> DEFINE f == UnitsOf(g)
             h == UnitsOf(g)'
  <2>1. /\ \A q \in OrderId : f[q] \in Int
        /\ h[o] \in Int
        /\ \A q \in OrderId \ {o} : h[q] = f[q]
    <3>1. h[o] = Units(r, g)
      BY <1>1 DEF UnitsOf, Units, Live, Alive
    <3>2. \A q \in OrderId \ {o} : h[q] = f[q]
      BY <1>1 DEF UnitsOf, Live
    <3> QED
      BY <3>1, <3>2, RowShares, ShareTypes
  <2>2. h[o] = Units(r, g) /\ f[o] = Units(order[o], g)
    BY <1>1 DEF UnitsOf, Units, Live, Alive
  <2> HIDE DEF f, h
  <2>3. SumFunctionOnSet(h, OrderId) = SumFunctionOnSet(f, OrderId) + h[o] - f[o]
    BY ONLY FiniteTables, <2>1, o \in OrderId, SumUpdate
  <2> QED
    BY <2>2, <2>3 DEF UnitSum, f, h
<1>3. SkuSum(g)' = SkuSum(g) + Skus(r, g) - Skus(order[o], g)
  <2> DEFINE f == SkusOf(g)
             h == SkusOf(g)'
  <2>1. /\ \A q \in OrderId : f[q] \in Int
        /\ h[o] \in Int
        /\ \A q \in OrderId \ {o} : h[q] = f[q]
    <3>1. h[o] = Skus(r, g)
      BY <1>1 DEF SkusOf, Skus, Live, Alive
    <3>2. \A q \in OrderId \ {o} : h[q] = f[q]
      BY <1>1 DEF SkusOf, Live
    <3> QED
      BY <3>1, <3>2, RowShares, ShareTypes
  <2>2. h[o] = Skus(r, g) /\ f[o] = Skus(order[o], g)
    BY <1>1 DEF SkusOf, Skus, Live, Alive
  <2> HIDE DEF f, h
  <2>3. SumFunctionOnSet(h, OrderId) = SumFunctionOnSet(f, OrderId) + h[o] - f[o]
    BY ONLY FiniteTables, <2>1, o \in OrderId, SumUpdate
  <2> QED
    BY <2>2, <2>3 DEF SkuSum, f, h
<1> QED
  BY <1>2, <1>3

LEMMA FundsOfRow ==
    ASSUME TypeOK, NEW o \in OrderId, NEW r \in Order, order' = [order EXCEPT ![o] = r],
           NEW u \in User
    PROVE  /\ PaidSum(u)' = PaidSum(u) + Cents(r, u) - Cents(order[o], u)
           /\ PointSum(u)' = PointSum(u) + Spent(r, u) - Spent(order[o], u)
<1>1. order'[o] = r /\ \A q \in OrderId \ {o} : order'[q] = order[q]
  BY DEF TypeOK
<1>2. PaidSum(u)' = PaidSum(u) + Cents(r, u) - Cents(order[o], u)
  <2> DEFINE f == PaidBy(u)
             h == PaidBy(u)'
  <2>1. /\ \A q \in OrderId : f[q] \in Int
        /\ h[o] \in Int
        /\ \A q \in OrderId \ {o} : h[q] = f[q]
    <3>1. h[o] = Cents(r, u)
      BY <1>1 DEF PaidBy, Cents, Live, Alive
    <3>2. \A q \in OrderId \ {o} : h[q] = f[q]
      BY <1>1 DEF PaidBy, Live
    <3> QED
      BY <3>1, <3>2, RowShares, ShareTypes
  <2>2. h[o] = Cents(r, u) /\ f[o] = Cents(order[o], u)
    BY <1>1 DEF PaidBy, Cents, Live, Alive
  <2> HIDE DEF f, h
  <2>3. SumFunctionOnSet(h, OrderId) = SumFunctionOnSet(f, OrderId) + h[o] - f[o]
    BY ONLY FiniteTables, <2>1, o \in OrderId, SumUpdate
  <2> QED
    BY <2>2, <2>3 DEF PaidSum, f, h
<1>3. PointSum(u)' = PointSum(u) + Spent(r, u) - Spent(order[o], u)
  <2> DEFINE f == PointsBy(u)
             h == PointsBy(u)'
  <2>1. /\ \A q \in OrderId : f[q] \in Int
        /\ h[o] \in Int
        /\ \A q \in OrderId \ {o} : h[q] = f[q]
    <3>1. h[o] = Spent(r, u)
      BY <1>1 DEF PointsBy, Spent, Live, Alive
    <3>2. \A q \in OrderId \ {o} : h[q] = f[q]
      BY <1>1 DEF PointsBy, Live
    <3> QED
      BY <3>1, <3>2, RowShares, ShareTypes
  <2>2. h[o] = Spent(r, u) /\ f[o] = Spent(order[o], u)
    BY <1>1 DEF PointsBy, Spent, Live, Alive
  <2> HIDE DEF f, h
  <2>3. SumFunctionOnSet(h, OrderId) = SumFunctionOnSet(f, OrderId) + h[o] - f[o]
    BY ONLY FiniteTables, <2>1, o \in OrderId, SumUpdate
  <2> QED
    BY <2>2, <2>3 DEF PointSum, f, h
<1> QED
  BY <1>2, <1>3

LEMMA SumsSame ==
    /\ UNCHANGED order => \A g \in Goods : UnitSum(g)' = UnitSum(g) /\ SkuSum(g)' = SkuSum(g)
    /\ UNCHANGED order => \A u \in User : PaidSum(u)' = PaidSum(u) /\ PointSum(u)' = PointSum(u)
    /\ UNCHANGED redeemed => \A g \in Goods : SwapUnits(g)' = SwapUnits(g)
    /\ UNCHANGED redeemed => \A u \in User : SwapPoints(u)' = SwapPoints(u)
BY DEF UnitSum, SkuSum, PaidSum, PointSum, SwapUnits, SwapPoints, UnitsOf, SkusOf, PaidBy,
       PointsBy, Redeemed, RedeemedBy, Live

-----------------------------------------------------------------------------
(* What the handlers do to the rows, as far as the sums see it.            *)

\* order_create: the cart of u becomes the order r.
Bought(u, r) ==
    /\ order' = [order EXCEPT ![nextId] = r]
    /\ r.user = u /\ r.status \in {"paid", "pending_payment"}
    /\ r.lines = cart[u] /\ r.gifts = gifts[u] /\ r.sku = spec[u]
    /\ r.logged = -r.paid /\ r.points = sel[u].points /\ r.bonus = sel[u].bonus
    /\ r.offer = IF offer[u] = "package" THEN "none" ELSE offer[u]
    /\ r.discount = Discount(u, Value(cart[u]))
    /\ Adjustable(u, Value(cart[u])) /\ Value(cart[u]) \in Nat /\ cart[u] # Empty
    /\ r.paid <= balance[u]
    /\ balance' = [balance EXCEPT ![u] = @ - r.paid]
    /\ bonus' = IF r.bonus = Null THEN bonus ELSE [bonus EXCEPT ![r.bonus].order = nextId]

\* order_payment_patch, payment_callback, ship and order_received: nothing the
\* sums see.
Untouched(r, s) ==
    /\ r.status \in Alive /\ s.status \in Alive
    /\ s.user = r.user /\ s.lines = r.lines /\ s.gifts = r.gifts /\ s.sku = r.sku
    /\ s.points = r.points /\ s.bonus = r.bonus /\ s.offer = r.offer
    /\ s.discount = r.discount
    /\ s.status = "pending_payment" => r.status = "pending_payment"

\* order_cancel: the row is dead.
Dropped(r, s) ==
    /\ r.status = "pending_payment" /\ s.status = "cancelled"
    /\ s.lines = r.lines /\ s.gifts = r.gifts /\ s.sku = r.sku /\ s.bonus = r.bonus
    /\ s.offer = r.offer /\ s.discount = r.discount /\ s.logged = r.logged + r.paid

LEMMA CreateBuys ==
    ASSUME TypeOK, NEW u \in User, NEW k \in Key, NEW p \in Payment \union {0},
           order_create(u, k, p)
    PROVE  \E r \in Order : Bought(u, r)
<1>1. PICK goods \in Nat, amount \in Nat, disc \in Int, paid \in Nat, pay \in Payment :
          /\ goods = Value(cart[u]) /\ disc = Discount(u, goods)
          /\ paid <= balance[u]
          /\ order' = [order EXCEPT ![nextId] = NewOrder(u, k, pay, goods, amount, disc, paid)]
          /\ balance' = [balance EXCEPT ![u] = @ - paid]
  BY OrderCreateFacts, Zenon
<1> DEFINE r == NewOrder(u, k, pay, goods, amount, disc, paid)
<1>2. r \in Order
  BY NewOrderType
<1>3. /\ r.user = u /\ r.status \in {"paid", "pending_payment"}
      /\ r.lines = cart[u] /\ r.gifts = gifts[u] /\ r.sku = spec[u]
      /\ r.logged = -r.paid /\ r.points = sel[u].points /\ r.bonus = sel[u].bonus
      /\ r.offer = IF offer[u] = "package" THEN "none" ELSE offer[u]
      /\ r.discount = disc /\ r.paid = paid
  BY DEF NewOrder
<1>4. /\ Adjustable(u, Value(cart[u])) /\ cart[u] # Empty
      /\ bonus' = IF sel[u].bonus = Null THEN bonus
                   ELSE [bonus EXCEPT ![sel[u].bonus].order = nextId]
  BY Zenon DEF order_create
<1> HIDE DEF r
<1>5. order' = [order EXCEPT ![nextId] = r]
  BY <1>1 DEF r
<1> QED
  BY ONLY <1>1, <1>2, <1>3, <1>4, <1>5, Zenon DEF Bought

LEMMA PatchTouchesNothing ==
    ASSUME TypeOK, NEW u \in User, NEW o \in OrderId, NEW p \in Payment,
           order_payment_patch(u, o, p)
    PROVE  \E r \in Order : /\ order' = [order EXCEPT ![o] = r] /\ Untouched(order[o], r)
                            /\ r.paid = order[o].paid /\ r.logged = order[o].logged
<1> DEFINE r == [order[o] EXCEPT !.pay = p, !.payFee = PayFee[p],
                    !.amount = order[o].amount - order[o].payFee + PayFee[p]]
<1>1. order[o] \in Order /\ order[o].status = "pending_payment" /\ TypeOK'
  BY PatchType DEF order_payment_patch, Pending, TypeOK
<1>2. order' = [order EXCEPT ![o] = r]
  BY Zenon DEF order_payment_patch
<1>3. r \in Order
  <2>1. order'[o] = r
    <3> HIDE DEF r
    <3> QED
      BY <1>2 DEF TypeOK
  <2> QED
    BY <1>1, <2>1 DEF TypeOK
<1>4. Untouched(order[o], r) /\ r.paid = order[o].paid /\ r.logged = order[o].logged
  BY <1>1 DEF Order, Untouched, Alive
<1> HIDE DEF r
<1> QED
  BY <1>2, <1>3, <1>4

LEMMA CallbackTouchesNothing ==
    ASSUME TypeOK, NEW o \in OrderId, payment_callback(o)
    PROVE  \E r \in Order : /\ order' = [order EXCEPT ![o] = r] /\ Untouched(order[o], r)
                            /\ r.paid = order[o].paid /\ r.logged = order[o].logged
<1> DEFINE rest == order[o].amount - order[o].paid
           r == [order[o] EXCEPT !.status = "paid", !.channel = rest]
<1>1. order[o] \in Order /\ order[o].status = "pending_payment" /\ TypeOK'
  BY CallbackType DEF payment_callback, TypeOK
<1>2. order' = [order EXCEPT ![o] = r]
  BY DEF payment_callback, TypeOK
<1>3. r \in Order
  <2>1. order'[o] = r
    <3> HIDE DEF r
    <3> QED
      BY <1>2 DEF TypeOK
  <2> QED
    BY <1>1, <2>1 DEF TypeOK
<1>4. Untouched(order[o], r) /\ r.paid = order[o].paid /\ r.logged = order[o].logged
  BY <1>1 DEF Order, Untouched, Alive, Settled
<1> HIDE DEF r
<1> QED
  BY <1>2, <1>3, <1>4

LEMMA AdvanceTouchesNothing ==
    ASSUME TypeOK, NEW u \in User, NEW o \in OrderId, ship(u, o) \/ order_received(u, o)
    PROVE  \E r \in Order : /\ order' = [order EXCEPT ![o] = r] /\ Untouched(order[o], r)
                            /\ r.paid = order[o].paid /\ r.logged = order[o].logged
<1>1. PICK from \in Settled, to \in Settled : Advance(u, o, from, to)
  BY DEF ship, order_received, Settled
<1> DEFINE r == [order[o] EXCEPT !.status = to]
<1>2. order[o] \in Order /\ order[o].status = from
  BY <1>1 DEF Advance, TypeOK
<1>3. r \in Order /\ to # "pending_payment"
  BY <1>2, FieldTypes DEF Status, Settled
<1>4. order' = [order EXCEPT ![o] = r]
  BY <1>1 DEF Advance, TypeOK
<1>5. Untouched(order[o], r) /\ r.paid = order[o].paid /\ r.logged = order[o].logged
  BY <1>2, <1>3 DEF Order, Untouched, Alive, Settled
<1> HIDE DEF r
<1> QED
  BY <1>3, <1>4, <1>5

LEMMA SurplusTouches ==
    ASSUME TypeOK, NEW u \in User, NEW o \in OrderId, NEW c \in SurplusChoice \ {0},
           order_surplus(u, o, c)
    PROVE  \E cents \in Nat, r \in Order :
              /\ order' = [order EXCEPT ![o] = r] /\ Untouched(order[o], r)
              /\ r.paid = order[o].paid + cents /\ r.logged = order[o].logged - cents
              /\ order[o].user = u /\ balance' = [balance EXCEPT ![u] = @ - cents]
<1>1. PICK cents \in Nat, r \in Order :
          /\ cents <= balance[u] /\ balance' = [balance EXCEPT ![u] = @ - cents]
          /\ order' = [order EXCEPT ![o] = r]
          /\ r = SurplusRow(o, cents)
  BY SurplusFacts
<1>2. order[o] \in Order /\ order[o].status = "pending_payment" /\ order[o].user = u
  BY DEF order_surplus, Pending, TypeOK
<1>3. /\ Untouched(order[o], r)
      /\ r.paid = order[o].paid + cents /\ r.logged = order[o].logged - cents
  BY <1>1, <1>2 DEF Order, SurplusRow, Untouched, Alive, Settled
<1> QED
  BY <1>1, <1>2, <1>3

LEMMA CancelDrops ==
    ASSUME TypeOK, NEW u \in User, NEW o \in OrderId, order_cancel(u, o)
    PROVE  \E r \in Order : order' = [order EXCEPT ![o] = r] /\ Dropped(order[o], r)
<1> DEFINE r == [order[o] EXCEPT !.status = "cancelled", !.logged = @ + order[o].paid]
<1>1. order[o] \in Order /\ order[o].status = "pending_payment" /\ TypeOK'
  BY CancelType, ZenonT(30) DEF order_cancel, Pending, TypeOK
<1>2. order' = [order EXCEPT ![o] = r]
  BY DEF order_cancel, TypeOK
<1>3. r \in Order
  <2>1. order'[o] = r
    <3> HIDE DEF r
    <3> QED
      BY <1>2 DEF TypeOK
  <2> QED
    BY <1>1, <2>1 DEF TypeOK
<1>4. Dropped(order[o], r)
  BY <1>1 DEF Order, Dropped
<1> HIDE DEF r
<1> QED
  BY <1>2, <1>3, <1>4

\* order_merge: the rows f and t are dead and a new one holds their goods.
Joined(u, f, t) ==
    /\ nextId \in OrderId /\ f # t /\ f # nextId /\ t # nextId
    /\ Mergeable(u, f) /\ Mergeable(u, t)
    /\ \A q \in OrderId \ {f, t, nextId} : order'[q] = order[q]
    /\ order'[f].status = "merged" /\ order'[t].status = "merged"
    /\ order'[f].logged = order[f].logged /\ order'[t].logged = order[t].logged
    /\ order'[f].bonus = order[f].bonus /\ order'[t].bonus = order[t].bonus
    /\ order'[f].user = order[f].user /\ order'[t].user = order[t].user
    /\ order'[f].gifts = Empty /\ order'[t].gifts = order[t].gifts
    /\ order'[t].offer = order[t].offer
    /\ order'[f].sku = {} /\ order'[t].sku = {}
    /\ order'[nextId].status = "pending_payment" /\ order'[nextId].user = u
    /\ order'[nextId].lines = Plus(order[f].lines, order[t].lines)
    /\ order'[nextId].gifts = Plus(order[f].gifts, order[t].gifts)
    /\ order'[nextId].sku = {} /\ order'[nextId].bonus = Null
    /\ order'[nextId].paid = 0 /\ order'[nextId].logged = 0 /\ order'[nextId].points = 0
    /\ UNCHANGED bonus

LEMMA MergeJoins ==
    ASSUME TypeOK, Unused, NEW u \in User, NEW f \in OrderId, NEW t \in OrderId,
           order_merge(u, f, t)
    PROVE  Joined(u, f, t)
<1> DEFINE rf  == [order[f] EXCEPT !.status = "merged", !.lines = Empty, !.gifts = Empty]
           rt  == [order[t] EXCEPT !.status = "merged"]
           new == PlainOrder(u, Null, order[f].pay, Plus(order[f].lines, order[t].lines),
                             Plus(order[f].gifts, order[t].gifts),
                             order[f].goods + order[t].goods, order[f].ship + order[t].ship,
                             order[f].payFee + order[t].payFee)
<1>1. nextId \in OrderId /\ f # t /\ Mergeable(u, f) /\ Mergeable(u, t)
  BY DEF order_merge
<1>2. f # nextId /\ t # nextId
  <2>1. order[nextId].status = "none"
    BY <1>1 DEF Unused, NoOrder, TypeOK
  <2> QED
    BY <1>1, <2>1 DEF Mergeable, Pending
<1>3. order[f] \in Order /\ order[t] \in Order /\ order[f].sku = {} /\ order[t].sku = {}
  BY <1>1 DEF TypeOK, Mergeable
<1>4. order' = [order EXCEPT ![f] = rf, ![t].status = "merged", ![nextId] = new]
  BY Zenon DEF order_merge
<1>5. /\ order'[f] = rf /\ order'[t] = rt /\ order'[nextId] = new
      /\ \A q \in OrderId \ {f, t, nextId} : order'[q] = order[q]
  <2> HIDE DEF rf, new
  <2> QED
    BY <1>1, <1>2, <1>4 DEF TypeOK
<1>6. /\ rf.status = "merged" /\ rf.logged = order[f].logged /\ rf.gifts = Empty /\ rf.sku = {}
      /\ rt.status = "merged" /\ rt.logged = order[t].logged /\ rt.gifts = order[t].gifts
      /\ rt.sku = {} /\ rt.offer = order[t].offer
      /\ rf.bonus = order[f].bonus /\ rt.bonus = order[t].bonus
      /\ rf.user = order[f].user /\ rt.user = order[t].user
  BY <1>3 DEF Order
<1>7. /\ new.status = "pending_payment" /\ new.user = u
      /\ new.lines = Plus(order[f].lines, order[t].lines)
      /\ new.gifts = Plus(order[f].gifts, order[t].gifts)
      /\ new.sku = {} /\ new.bonus = Null /\ new.paid = 0 /\ new.logged = 0 /\ new.points = 0
  BY DEF PlainOrder
<1>8. UNCHANGED bonus
  BY DEF order_merge, fundVars
<1> HIDE DEF rf, rt, new
<1> QED
  BY ONLY <1>1, <1>2, <1>5, <1>6, <1>7, <1>8, Zenon DEF Joined

\* The totals of two dead orders are those of the new one.
LEMMA JoinedGoods ==
    ASSUME TypeOK, TypeOK', Unused, NEW u \in User, NEW f \in OrderId, NEW t \in OrderId,
           Joined(u, f, t), NEW g \in Goods
    PROVE  UnitSum(g)' = UnitSum(g) /\ SkuSum(g)' = SkuSum(g)
<1>1. /\ nextId \in OrderId /\ f # t /\ f # nextId /\ t # nextId
      /\ order[nextId] = NoOrder
      /\ order[f] \in Order /\ order[t] \in Order
      /\ order[f].status = "pending_payment" /\ order[t].status = "pending_payment"
      /\ order[f].sku = {} /\ order[t].sku = {}
  BY DEF Joined, Unused, Mergeable, Pending, TypeOK
<1>2. /\ order[f].lines[g] \in Nat /\ order[f].gifts[g] \in Nat
      /\ order[t].lines[g] \in Nat /\ order[t].gifts[g] \in Nat
  BY <1>1, ShareTypes
<1>3. f \in OrderId /\ t \in OrderId \ {f} /\ nextId \in OrderId \ {f, t}
  BY <1>1
<1>4. UnitSum(g)' = UnitSum(g)
  <2> DEFINE a == UnitsOf(g)
             b == UnitsOf(g)'
  <2>1. \A q \in OrderId : a[q] \in Int /\ b[q] \in Int
    <3>1. \A q \in OrderId : a[q] \in Int
      BY RowShares
    <3>2. ASSUME NEW q \in OrderId PROVE b[q] \in Int
      <4>1. b[q] = Units(order'[q], g) /\ order'[q] \in Order
        BY DEF UnitsOf, Units, Live, Alive, TypeOK
      <4> QED
        BY <4>1, ShareTypes
    <3> QED
      BY <3>1, <3>2
  <2>2. \A q \in OrderId \ {f, t, nextId} : b[q] = a[q]
    BY DEF UnitsOf, Live, Joined
  <2>3. /\ a[f] = order[f].lines[g] + order[f].gifts[g] /\ b[f] = 0
        /\ a[t] = order[t].lines[g] + order[t].gifts[g] /\ b[t] = 0
        /\ a[nextId] = 0
    BY <1>1 DEF UnitsOf, Live, Joined, NoOrder, Settled
  <2>4. b[nextId] = (order[f].lines[g] + order[t].lines[g])
                       + (order[f].gifts[g] + order[t].gifts[g])
    BY <1>1 DEF UnitsOf, Live, Joined, Plus
  <2> HIDE DEF a, b
  <2>5. SumFunctionOnSet(b, OrderId) = SumFunctionOnSet(a, OrderId)
           + (b[f] - a[f]) + (b[t] - a[t]) + (b[nextId] - a[nextId])
    BY ONLY FiniteTables, <1>3, <2>1, <2>2, SumThree
  <2>6. SumFunctionOnSet(a, OrderId) \in Int
    BY <2>1, FiniteTables, SumInt
  <2>7. SumFunctionOnSet(b, OrderId) = SumFunctionOnSet(a, OrderId)
    BY ONLY <1>2, <2>3, <2>4, <2>5, <2>6
  <2> QED
    BY <2>7 DEF UnitSum, a, b
<1>5. SkuSum(g)' = SkuSum(g)
  <2> DEFINE a == SkusOf(g)
             b == SkusOf(g)'
  <2>1. \A q \in OrderId : a[q] \in Int
    BY RowShares
  <2>2. ASSUME NEW q \in OrderId PROVE b[q] = a[q]
    BY <1>1 DEF SkusOf, Live, Joined, NoOrder, Settled
  <2> HIDE DEF a, b
  <2>3. SumFunctionOnSet(b, OrderId) = SumFunctionOnSet(a, OrderId)
    BY ONLY FiniteTables, <2>1, <2>2, SumSame
  <2> QED
    BY <2>3 DEF SkuSum, a, b
<1> QED
  BY <1>4, <1>5

LEMMA JoinedFunds ==
    ASSUME TypeOK, Unused, NEW u \in User, NEW f \in OrderId, NEW t \in OrderId,
           Joined(u, f, t), NEW v \in User
    PROVE  /\ PaidSum(v)' = PaidSum(v)
           /\ order[f].points = 0 /\ order[t].points = 0 => PointSum(v)' = PointSum(v)
           /\ PointSum(v)' \in Int /\ PointSum(v)' <= PointSum(v)
<1>1. /\ nextId \in OrderId /\ f # t /\ f # nextId /\ t # nextId
      /\ order[nextId] = NoOrder
      /\ order[f].paid = 0 /\ order[t].paid = 0
  BY DEF Joined, Unused, Mergeable, TypeOK
<1>2. PaidSum(v)' = PaidSum(v)
  <2> DEFINE a == PaidBy(v)
             b == PaidBy(v)'
  <2>1. \A q \in OrderId : a[q] \in Int
    BY RowShares
  <2>2. ASSUME NEW q \in OrderId PROVE b[q] = a[q]
    BY <1>1 DEF PaidBy, Live, Joined, NoOrder, Settled
  <2> HIDE DEF a, b
  <2>3. SumFunctionOnSet(b, OrderId) = SumFunctionOnSet(a, OrderId)
    BY ONLY FiniteTables, <2>1, <2>2, SumSame
  <2> QED
    BY <2>3 DEF PaidSum, a, b
<1>3. ASSUME order[f].points = 0, order[t].points = 0 PROVE PointSum(v)' = PointSum(v)
  <2> DEFINE a == PointsBy(v)
             b == PointsBy(v)'
  <2>1. \A q \in OrderId : a[q] \in Int
    BY RowShares
  <2>2. ASSUME NEW q \in OrderId PROVE b[q] = a[q]
    BY <1>1, <1>3 DEF PointsBy, Live, Joined, NoOrder, Settled
  <2> HIDE DEF a, b
  <2>3. SumFunctionOnSet(b, OrderId) = SumFunctionOnSet(a, OrderId)
    BY ONLY FiniteTables, <2>1, <2>2, SumSame
  <2> QED
    BY <2>3 DEF PointSum, a, b
<1>4. PointSum(v)' \in Int /\ PointSum(v)' <= PointSum(v)
  <2> DEFINE a == PointsBy(v)
             b == PointsBy(v)'
  <2>1. \A q \in OrderId : a[q] \in Nat
    BY RowShares
  <2>2. \A q \in OrderId \ {f, t, nextId} : b[q] = a[q]
    BY DEF PointsBy, Live, Joined
  <2>3. b[f] = 0 /\ b[t] = 0 /\ b[nextId] = 0 /\ a[nextId] = 0
    BY <1>1 DEF PointsBy, Live, Joined, NoOrder, Settled
  <2>4. f \in OrderId /\ t \in OrderId \ {f} /\ nextId \in OrderId \ {f, t}
    BY <1>1
  <2> HIDE DEF a, b
  <2>5. \A q \in OrderId : a[q] \in Int /\ b[q] \in Int
    BY <2>1, <2>2, <2>3
  <2>6. SumFunctionOnSet(b, OrderId) = SumFunctionOnSet(a, OrderId)
           + (b[f] - a[f]) + (b[t] - a[t]) + (b[nextId] - a[nextId])
    BY ONLY FiniteTables, <2>4, <2>5, <2>2, SumThree
  <2>7. SumFunctionOnSet(a, OrderId) \in Int
    BY <2>5, FiniteTables, SumInt
  <2>8. a[f] \in Nat /\ a[t] \in Nat
    BY <2>1
  <2>9. SumFunctionOnSet(b, OrderId) <= SumFunctionOnSet(a, OrderId)
    BY ONLY <2>3, <2>6, <2>7, <2>8
  <2>10. SumFunctionOnSet(b, OrderId) \in Int
    BY <2>5, FiniteTables, SumInt
  <2> QED
    BY <2>9, <2>10 DEF PointSum, a, b
<1> QED
  BY <1>2, <1>3, <1>4

\* One redemption more.
LEMMA RedeemedSums ==
    ASSUME TypeOK, NEW u \in User, NEW k \in Key, NEW g \in ExchangeGoods, NEW q \in 1..MaxQty,
           redeem(u, k, g, q)
    PROVE  /\ \A h \in Goods : SwapUnits(h)' = SwapUnits(h) + (IF h = g THEN q ELSE 0)
           /\ \A v \in User : SwapPoints(v)'
                                 = SwapPoints(v) + (IF v = u THEN PointPrice[g] * q ELSE 0)
<1>1. /\ g \in Goods /\ q \in Nat /\ redeemed[u][k] = Empty
      /\ redeemed'[u][k] = [Empty EXCEPT ![g] = q]
      /\ \A v \in User, j \in Key : <<v, j>> # <<u, k>> => redeemed'[v][j] = redeemed[v][j]
  BY CheckoutAssumption DEF redeem, TypeOK
<1>2. \A v \in User, j \in Key, h \in Goods : redeemed[v][j][h] \in Nat
  BY DEF TypeOK, Quantities
<1>3. ASSUME NEW h \in Goods
      PROVE  SwapUnits(h)' = SwapUnits(h) + (IF h = g THEN q ELSE 0)
  <2> DEFINE S == User \X Key
             a == Redeemed(h)
             b == Redeemed(h)'
             e == <<u, k>>
  <2>1. \A r \in S : a[r] \in Int
    BY <1>2 DEF Redeemed
  <2>2. e \in S /\ IsFiniteSet(S)
    BY FiniteTables
  <2>3. \A r \in S \ {e} : b[r] = a[r]
    BY <1>1 DEF Redeemed
  <2>4. a[e] = 0 /\ b[e] = IF h = g THEN q ELSE 0
    BY <1>1 DEF Redeemed, Empty
  <2>5. b[e] \in Int
    BY <1>1, <2>4
  <2> HIDE DEF a, b, e, S
  <2>6. e \in S
    BY <2>2
  <2>7. IsFiniteSet(S)
    BY <2>2
  <2>8. SumFunctionOnSet(b, S) = SumFunctionOnSet(a, S) + b[e] - a[e]
    BY ONLY <2>1, <2>3, <2>5, <2>6, <2>7, SumUpdate
  <2>9. SumFunctionOnSet(a, S) \in Int
    BY <2>1, <2>7, SumInt
  <2>10. SumFunctionOnSet(b, S) = SumFunctionOnSet(a, S) + (IF h = g THEN q ELSE 0)
    BY ONLY <2>4, <2>5, <2>8, <2>9
  <2> QED
    BY <2>10 DEF SwapUnits, a, b, S
<1>4. ASSUME NEW v \in User
      PROVE  SwapPoints(v)' = SwapPoints(v) + (IF v = u THEN PointPrice[g] * q ELSE 0)
  <2> DEFINE a == RedeemedBy(v)
             b == RedeemedBy(v)'
             e == <<k, g>>
             cost == PointPrice[g] * q
  <2>1. cost \in Int /\ PointPrice[g] \in Nat
    BY <1>1, CheckoutAssumption
  <2>2. ASSUME NEW r \in Key \X Goods PROVE a[r] \in Int
    <3>1. PointPrice[r[2]] \in Nat /\ redeemed[v][r[1]][r[2]] \in Nat
      BY <1>2, CheckoutAssumption
    <3>2. \A x, y \in Nat : x * y \in Int
      OBVIOUS
    <3> QED
      BY <3>1, <3>2 DEF RedeemedBy
  <2>3. e \in Key \X Goods
    BY <1>1
  <2>4. ASSUME NEW r \in (Key \X Goods) \ {e} PROVE b[r] = a[r]
    <3>1. redeemed'[v][r[1]][r[2]] = redeemed[v][r[1]][r[2]]
      <4>1. CASE v = u /\ r[1] = k
        <5>1. r[2] # g
          BY <2>4, <4>1
        <5> QED
          BY <1>1, <4>1, <5>1 DEF Empty
      <4>2. CASE ~(v = u /\ r[1] = k)
        BY <1>1, <4>2
      <4> QED
        BY <4>1, <4>2
    <3> QED
      BY <3>1 DEF RedeemedBy
  <2>5. a[e] = IF v = u THEN 0 ELSE b[e]
    <3>1. CASE v = u
      <4>1. a[e] = PointPrice[g] * 0
        BY <1>1, <2>3, <3>1 DEF RedeemedBy, Empty
      <4> QED
        BY <2>1, <3>1, <4>1
    <3>2. CASE v # u
      BY <1>1, <3>2 DEF RedeemedBy
    <3> QED
      BY <3>1, <3>2
  <2>6. v = u => b[e] = cost
    BY <1>1 DEF RedeemedBy, Empty
  <2>7. b[e] \in Int
    BY <2>1, <2>2, <2>3, <2>5, <2>6
  <2> HIDE DEF a, b, e, cost
  <2>8. SumFunctionOnSet(b, Key \X Goods) = SumFunctionOnSet(a, Key \X Goods) + b[e] - a[e]
    BY ONLY FiniteTables, <2>2, <2>3, <2>4, <2>7, SumUpdate
  <2>9. SumFunctionOnSet(a, Key \X Goods) \in Int
    BY <2>2, FiniteTables, SumInt
  <2>10. SumFunctionOnSet(b, Key \X Goods)
            = SumFunctionOnSet(a, Key \X Goods) + (IF v = u THEN cost ELSE 0)
    BY ONLY <2>1, <2>5, <2>6, <2>7, <2>8, <2>9
  <2> QED
    BY <2>10 DEF SwapPoints, a, b, cost
<1> QED
  BY <1>3, <1>4

-----------------------------------------------------------------------------
(* No handler changes a total.                                             *)

UnitTotal(g)  == stock[g] + UnitSum(g) + SwapUnits(g)
SkuTotal(g)   == skuStock[g] + SkuSum(g)
CentTotal(u)  == balance[u] + PaidSum(u)
PointTotal(u) == points[u] + PointSum(u) + SwapPoints(u)

UnitsStay  == \A g \in Goods : UnitTotal(g)' = UnitTotal(g)
SkusStay   == \A g \in Goods : SkuTotal(g)' = SkuTotal(g)
CentsStay  == \A u \in User : CentTotal(u)' = CentTotal(u)
PointsStay == \A u \in User : PointTotal(u)' = PointTotal(u)

\* What holds of every shop: SKU units are not lost and points not invented.
OneSided ==
    /\ \A g \in Goods : SkuTotal(g)' >= SkuTotal(g)
    /\ \A u \in User : PointTotal(u)' <= PointTotal(u)

\* A step that writes one order and moves what it holds to or from a column.
LEMMA RowMoves ==
    ASSUME TypeOK, TypeOK', NEW o \in OrderId, NEW r \in Order, order' = [order EXCEPT ![o] = r],
           UNCHANGED redeemed
    PROVE  /\ (\A g \in Goods : stock'[g] + Units(r, g) = stock[g] + Units(order[o], g))
                 => UnitsStay
           /\ (\A g \in Goods : skuStock'[g] + Skus(r, g) = skuStock[g] + Skus(order[o], g))
                 => SkusStay
           /\ (\A u \in User : balance'[u] + Cents(r, u) = balance[u] + Cents(order[o], u))
                 => CentsStay
           /\ (\A u \in User : points'[u] + Spent(r, u) = points[u] + Spent(order[o], u))
                 => PointsStay
<1>1. /\ \A g \in Goods : /\ stock[g] \in Nat /\ stock'[g] \in Nat
                          /\ skuStock[g] \in Nat /\ skuStock'[g] \in Nat
      /\ \A u \in User : /\ balance[u] \in Nat /\ balance'[u] \in Nat
                         /\ points[u] \in Nat /\ points'[u] \in Nat
  BY DEF TypeOK, Quantities
<1>2. /\ \A g \in Goods : /\ Units(r, g) \in Nat /\ Units(order[o], g) \in Nat
                          /\ Skus(r, g) \in Nat /\ Skus(order[o], g) \in Nat
      /\ \A u \in User : /\ Cents(r, u) \in Nat /\ Cents(order[o], u) \in Nat
                         /\ Spent(r, u) \in Nat /\ Spent(order[o], u) \in Nat
  BY RowShares, ShareTypes
<1>3. ASSUME NEW g \in Goods, stock'[g] + Units(r, g) = stock[g] + Units(order[o], g)
      PROVE  UnitTotal(g)' = UnitTotal(g)
  <2>1. UnitSum(g)' = UnitSum(g) + Units(r, g) - Units(order[o], g)
    BY GoodsOfRow
  <2>2. SwapUnits(g)' = SwapUnits(g) /\ SwapUnits(g) \in Nat /\ UnitSum(g) \in Nat
    BY SumsSame, SumTypes
  <2>3. /\ stock[g] \in Nat /\ stock'[g] \in Nat
        /\ Units(r, g) \in Nat /\ Units(order[o], g) \in Nat
    BY <1>1, <1>2
  <2>4. stock'[g] + UnitSum(g)' + SwapUnits(g)' = stock[g] + UnitSum(g) + SwapUnits(g)
    BY ONLY <1>3, <2>1, <2>2, <2>3
  <2> QED
    BY <2>4 DEF UnitTotal
<1>4. ASSUME NEW g \in Goods, skuStock'[g] + Skus(r, g) = skuStock[g] + Skus(order[o], g)
      PROVE  SkuTotal(g)' = SkuTotal(g)
  <2>1. SkuSum(g)' = SkuSum(g) + Skus(r, g) - Skus(order[o], g)
    BY GoodsOfRow
  <2>2. /\ SkuSum(g) \in Nat /\ skuStock[g] \in Nat /\ skuStock'[g] \in Nat
        /\ Skus(r, g) \in Nat /\ Skus(order[o], g) \in Nat
    BY <1>1, <1>2, SumTypes
  <2>3. skuStock'[g] + SkuSum(g)' = skuStock[g] + SkuSum(g)
    BY ONLY <1>4, <2>1, <2>2
  <2> QED
    BY <2>3 DEF SkuTotal
<1>5. ASSUME NEW u \in User, balance'[u] + Cents(r, u) = balance[u] + Cents(order[o], u)
      PROVE  CentTotal(u)' = CentTotal(u)
  <2>1. PaidSum(u)' = PaidSum(u) + Cents(r, u) - Cents(order[o], u)
    BY FundsOfRow
  <2>2. /\ PaidSum(u) \in Nat /\ balance[u] \in Nat /\ balance'[u] \in Nat
        /\ Cents(r, u) \in Nat /\ Cents(order[o], u) \in Nat
    BY <1>1, <1>2, SumTypes
  <2>3. balance'[u] + PaidSum(u)' = balance[u] + PaidSum(u)
    BY ONLY <1>5, <2>1, <2>2
  <2> QED
    BY <2>3 DEF CentTotal
<1>6. ASSUME NEW u \in User, points'[u] + Spent(r, u) = points[u] + Spent(order[o], u)
      PROVE  PointTotal(u)' = PointTotal(u)
  <2>1. PointSum(u)' = PointSum(u) + Spent(r, u) - Spent(order[o], u)
    BY FundsOfRow
  <2>2. SwapPoints(u)' = SwapPoints(u) /\ SwapPoints(u) \in Nat /\ PointSum(u) \in Nat
    BY SumsSame, SumTypes
  <2>3. /\ points[u] \in Nat /\ points'[u] \in Nat
        /\ Spent(r, u) \in Nat /\ Spent(order[o], u) \in Nat
    BY <1>1, <1>2
  <2>4. points'[u] + PointSum(u)' + SwapPoints(u)' = points[u] + PointSum(u) + SwapPoints(u)
    BY ONLY <1>6, <2>1, <2>2, <2>3
  <2> QED
    BY <2>4 DEF PointTotal
<1> QED
  BY <1>3, <1>4, <1>5, <1>6, Zenon DEF UnitsStay, SkusStay, CentsStay, PointsStay

\* The same for a step that restores more of a SKU than the order held.
LEMMA SkusMoveUp ==
    ASSUME TypeOK, TypeOK', NEW o \in OrderId, NEW r \in Order, order' = [order EXCEPT ![o] = r],
           NEW g \in Goods, skuStock'[g] + Skus(r, g) >= skuStock[g] + Skus(order[o], g)
    PROVE  SkuTotal(g)' >= SkuTotal(g)
<1>1. SkuSum(g)' = SkuSum(g) + Skus(r, g) - Skus(order[o], g)
  BY GoodsOfRow
<1>2. /\ SkuSum(g) \in Nat /\ skuStock[g] \in Nat /\ skuStock'[g] \in Nat
      /\ Skus(r, g) \in Nat /\ Skus(order[o], g) \in Nat
  BY SumTypes, RowShares, ShareTypes DEF TypeOK, Quantities
<1>3. skuStock'[g] + SkuSum(g)' >= skuStock[g] + SkuSum(g)
  BY ONLY <1>1, <1>2, skuStock'[g] + Skus(r, g) >= skuStock[g] + Skus(order[o], g)
<1> QED
  BY <1>3 DEF SkuTotal

TotalsAreNat ==
    /\ \A g \in Goods : SkuTotal(g) \in Nat
    /\ \A u \in User : PointTotal(u) \in Nat

LEMMA TotalTypes == TypeOK => TotalsAreNat
BY SumTypes DEF TotalsAreNat, SkuTotal, PointTotal, TypeOK, Quantities

LEMMA StayIsOneSided ==
    ASSUME TypeOK
    PROVE  /\ SkusStay => \A g \in Goods : SkuTotal(g)' >= SkuTotal(g)
           /\ PointsStay => \A u \in User : PointTotal(u)' <= PointTotal(u)
BY TotalTypes DEF TotalsAreNat, SkusStay, PointsStay

LEMMA NothingMoves ==
    /\ UNCHANGED <<stock, order, redeemed>> => UnitsStay
    /\ UNCHANGED <<skuStock, order>> => SkusStay
    /\ UNCHANGED <<balance, order>> => CentsStay
    /\ UNCHANGED <<points, order, redeemed>> => PointsStay
BY SumsSame DEF UnitsStay, SkusStay, CentsStay, PointsStay, UnitTotal, SkuTotal, CentTotal,
                PointTotal

LEMMA CreateKeeps ==
    ASSUME TypeOK, Unused, NEW u \in User, NEW k \in Key, NEW p \in Payment \union {0},
           order_create(u, k, p)
    PROVE  UnitsStay /\ SkusStay /\ CentsStay /\ PointsStay
<1>1. PICK r \in Order : Bought(u, r)
  BY CreateBuys
<1>2. /\ nextId \in OrderId /\ order[nextId] = NoOrder /\ TypeOK'
      /\ order' = [order EXCEPT ![nextId] = r] /\ UNCHANGED redeemed
  <2>1. nextId \in OrderId /\ UNCHANGED redeemed
    BY DEF order_create
  <2>2. order[nextId] = NoOrder
    BY <2>1 DEF Unused, TypeOK
  <2> QED
    BY <1>1, <2>1, <2>2, OrderCreateType DEF Bought
<1>3. /\ stock' = Minus(stock, Plus(cart[u], gifts[u]))
      /\ skuStock' = Minus(skuStock, Only(cart[u], spec[u]))
      /\ points' = [points EXCEPT ![u] = @ - sel[u].points]
      /\ balance' = [balance EXCEPT ![u] = @ - r.paid]
  BY <1>1, Zenon DEF order_create, Bought
<1>4. /\ r.user = u /\ r.status \in Alive /\ r.lines = cart[u] /\ r.gifts = gifts[u]
      /\ r.sku = spec[u] /\ r.points = sel[u].points
      /\ r.points \in Nat /\ r.paid \in Nat
  BY <1>1 DEF Bought, Alive, Settled, Order
<1>5. \A g \in Goods : Units(NoOrder, g) = 0 /\ Skus(NoOrder, g) = 0
  BY DEF NoOrder, Units, Skus, Alive, Settled
<1>6. \A v \in User : Cents(NoOrder, v) = 0 /\ Spent(NoOrder, v) = 0
  BY DEF NoOrder, Cents, Spent, Alive, Settled
<1>7. ASSUME NEW g \in Goods
      PROVE  /\ stock'[g] + Units(r, g) = stock[g] + Units(NoOrder, g)
             /\ skuStock'[g] + Skus(r, g) = skuStock[g] + Skus(NoOrder, g)
  <2>1. /\ cart[u][g] \in Nat /\ gifts[u][g] \in Nat /\ stock[g] \in Nat /\ skuStock[g] \in Nat
    BY DEF TypeOK, Quantities
  <2>2. /\ stock'[g] = stock[g] - (cart[u][g] + gifts[u][g])
        /\ skuStock'[g] = skuStock[g] - (IF g \in spec[u] THEN cart[u][g] ELSE 0)
    BY <1>3 DEF Minus, Plus, Only
  <2>3. Units(r, g) = cart[u][g] + gifts[u][g]
    BY <1>4 DEF Units
  <2>4. Skus(r, g) = IF g \in spec[u] THEN cart[u][g] ELSE 0
    BY <1>4 DEF Skus
  <2>5. Units(NoOrder, g) = 0 /\ Skus(NoOrder, g) = 0
    BY <1>5
  <2> QED
    BY ONLY <2>1, <2>2, <2>3, <2>4, <2>5
<1>8. ASSUME NEW v \in User
      PROVE  /\ balance'[v] + Cents(r, v) = balance[v] + Cents(NoOrder, v)
             /\ points'[v] + Spent(r, v) = points[v] + Spent(NoOrder, v)
  <2>1. balance[v] \in Nat /\ points[v] \in Nat
    BY DEF TypeOK
  <2>2. /\ balance'[v] = IF v = u THEN balance[v] - r.paid ELSE balance[v]
        /\ points'[v] = IF v = u THEN points[v] - r.points ELSE points[v]
    BY <1>3, <1>4 DEF TypeOK
  <2>3. /\ Cents(r, v) = IF v = u THEN r.paid ELSE 0
        /\ Spent(r, v) = IF v = u THEN r.points ELSE 0
    BY <1>4 DEF Cents, Spent
  <2>4. Cents(NoOrder, v) = 0 /\ Spent(NoOrder, v) = 0
    BY <1>6
  <2>5. r.points \in Nat /\ r.paid \in Nat
    BY <1>4
  <2> QED
    BY ONLY <2>1, <2>2, <2>3, <2>4, <2>5
<1> QED
  BY <1>2, <1>7, <1>8, RowMoves

LEMMA GroupBuyKeeps ==
    ASSUME TypeOK, Unused, NEW u \in User, NEW k \in Key, NEW g \in GroupGoods,
           NEW q \in 1..MaxQty, NEW p \in Payment, group_buy(u, k, g, q, p)
    PROVE  UnitsStay /\ SkusStay /\ CentsStay /\ PointsStay
<1> DEFINE line == [Empty EXCEPT ![g] = q]
           r == PlainOrder(u, k, p, line, Empty, GroupPrice[g] * q, ShippingFee, PayFee[p])
<1>1. /\ nextId \in OrderId /\ order[nextId] = NoOrder /\ TypeOK'
      /\ order' = [order EXCEPT ![nextId] = r] /\ UNCHANGED <<redeemed, skuStock, balance, points>>
      /\ stock' = Minus(stock, line)
  <2>1. /\ nextId \in OrderId /\ order' = [order EXCEPT ![nextId] = r]
        /\ UNCHANGED <<redeemed, skuStock, balance, points>> /\ stock' = Minus(stock, line)
    BY Zenon DEF group_buy, fundVars
  <2>2. order[nextId] = NoOrder
    BY <2>1 DEF Unused, TypeOK
  <2> QED
    BY <2>1, <2>2, GroupBuyType
<1>2. /\ r.status \in Alive /\ r.lines = line /\ r.gifts = Empty /\ r.sku = {}
      /\ r.points = 0 /\ r.paid = 0
  BY DEF PlainOrder, Alive
<1>3. q \in Nat /\ \A h \in Goods : line[h] \in Nat /\ Empty[h] = 0
  BY DEF Empty
<1> HIDE DEF line, r
<1>4. r \in Order
  <2>1. order'[nextId] = r
    BY <1>1 DEF TypeOK
  <2> QED
    BY <1>1, <2>1 DEF TypeOK
<1>5. ASSUME NEW h \in Goods
      PROVE  /\ stock'[h] + Units(r, h) = stock[h] + Units(NoOrder, h)
             /\ skuStock'[h] + Skus(r, h) = skuStock[h] + Skus(NoOrder, h)
  <2>1. stock[h] \in Nat /\ line[h] \in Nat /\ skuStock'[h] = skuStock[h]
    BY <1>1, <1>3 DEF TypeOK, Quantities
  <2>2. stock'[h] = stock[h] - line[h]
    BY <1>1 DEF Minus
  <2>3. Units(r, h) = line[h] + 0 /\ Skus(r, h) = 0
    BY <1>2, <1>3 DEF Units, Skus
  <2>4. Units(NoOrder, h) = 0 /\ Skus(NoOrder, h) = 0
    BY DEF NoOrder, Units, Skus, Alive, Settled
  <2> QED
    BY ONLY <2>1, <2>2, <2>3, <2>4
<1>6. \A v \in User : /\ Cents(r, v) = Cents(NoOrder, v) /\ balance'[v] = balance[v]
                      /\ Spent(r, v) = Spent(NoOrder, v) /\ points'[v] = points[v]
  BY <1>1, <1>2 DEF NoOrder, Cents, Spent, Alive, Settled
<1> QED
  BY <1>1, <1>4, <1>5, <1>6, RowMoves

\* What a step leaves of a row that stays alive.
LEMMA UntouchedKeeps ==
    ASSUME TypeOK, TypeOK', NEW o \in OrderId, NEW r \in Order, order' = [order EXCEPT ![o] = r],
           Untouched(order[o], r), UNCHANGED <<stock, skuStock, points, redeemed>>
    PROVE  /\ UnitsStay /\ SkusStay /\ PointsStay
           /\ r.paid = order[o].paid /\ UNCHANGED balance => CentsStay
<1>1. \A g \in Goods : Units(r, g) = Units(order[o], g) /\ Skus(r, g) = Skus(order[o], g)
  BY DEF Untouched, Units, Skus
<1>2. \A u \in User : /\ Spent(r, u) = Spent(order[o], u)
                      /\ r.paid = order[o].paid => Cents(r, u) = Cents(order[o], u)
  BY DEF Untouched, Spent, Cents
<1> QED
  BY <1>1, <1>2, RowMoves

LEMMA SurplusKeeps ==
    ASSUME TypeOK, NEW u \in User, NEW o \in OrderId, NEW c \in SurplusChoice \ {0},
           order_surplus(u, o, c)
    PROVE  UnitsStay /\ SkusStay /\ CentsStay /\ PointsStay
<1>1. PICK cents \in Nat, r \in Order :
          /\ order' = [order EXCEPT ![o] = r] /\ Untouched(order[o], r)
          /\ r.paid = order[o].paid + cents /\ r.logged = order[o].logged - cents
          /\ order[o].user = u /\ balance' = [balance EXCEPT ![u] = @ - cents]
  BY SurplusTouches
<1>2. TypeOK' /\ UNCHANGED <<stock, skuStock, points, redeemed>>
  BY SurplusType DEF order_surplus, goodsVars
<1>3. ASSUME NEW v \in User
      PROVE  balance'[v] + Cents(r, v) = balance[v] + Cents(order[o], v)
  <2>1. balance[v] \in Nat /\ order[o].paid \in Nat
    BY DEF TypeOK, Order
  <2>2. balance'[v] = IF v = u THEN balance[v] - cents ELSE balance[v]
    BY <1>1 DEF TypeOK
  <2>3. /\ Cents(r, v) = IF v = u THEN order[o].paid + cents ELSE 0
        /\ Cents(order[o], v) = IF v = u THEN order[o].paid ELSE 0
    BY <1>1 DEF Cents, Untouched
  <2> QED
    BY ONLY <2>1, <2>2, <2>3, cents \in Nat
<1> QED
  BY <1>1, <1>2, <1>3, UntouchedKeeps, RowMoves

LEMMA CancelKeeps ==
    ASSUME TypeOK, NEW u \in User, NEW o \in OrderId, order_cancel(u, o)
    PROVE  /\ UnitsStay /\ CentsStay /\ PointsStay
           /\ (\A g \in order[o].sku : order[o].gifts[g] = 0) => SkusStay
           /\ OneSided
<1>1. PICK r \in Order : order' = [order EXCEPT ![o] = r] /\ Dropped(order[o], r)
  BY CancelDrops
<1>2. /\ TypeOK' /\ UNCHANGED redeemed
      /\ order[o] \in Order /\ order[o].status = "pending_payment" /\ order[o].user = u
  BY CancelType, ZenonT(30) DEF order_cancel, Pending, TypeOK
<1>3. /\ stock' = Plus(stock, Plus(order[o].lines, order[o].gifts))
      /\ skuStock' = Plus(skuStock, Only(Plus(order[o].lines, order[o].gifts), order[o].sku))
      /\ points' = [points EXCEPT ![u] = @ + order[o].points]
      /\ balance' = [balance EXCEPT ![u] = @ + order[o].paid]
  BY Zenon DEF order_cancel
<1>4. ASSUME NEW g \in Goods
      PROVE  /\ stock'[g] + Units(r, g) = stock[g] + Units(order[o], g)
             /\ (g \in order[o].sku => order[o].gifts[g] = 0)
                   => skuStock'[g] + Skus(r, g) = skuStock[g] + Skus(order[o], g)
             /\ skuStock'[g] + Skus(r, g) >= skuStock[g] + Skus(order[o], g)
  <2>1. /\ order[o].lines[g] \in Nat /\ order[o].gifts[g] \in Nat
        /\ stock[g] \in Nat /\ skuStock[g] \in Nat
    BY <1>2, ShareTypes DEF TypeOK, Quantities
  <2>2. /\ stock'[g] = stock[g] + (order[o].lines[g] + order[o].gifts[g])
        /\ skuStock'[g] = skuStock[g] + (IF g \in order[o].sku
                                         THEN order[o].lines[g] + order[o].gifts[g] ELSE 0)
    BY <1>3 DEF Plus, Only
  <2>3. Units(r, g) = 0 /\ Skus(r, g) = 0
    BY <1>1 DEF Units, Skus, Dropped, Alive, Settled
  <2>4. /\ Units(order[o], g) = order[o].lines[g] + order[o].gifts[g]
        /\ Skus(order[o], g) = IF g \in order[o].sku THEN order[o].lines[g] ELSE 0
    BY <1>2 DEF Units, Skus, Alive
  <2> QED
    BY ONLY <2>1, <2>2, <2>3, <2>4
<1>5. ASSUME NEW v \in User
      PROVE  /\ balance'[v] + Cents(r, v) = balance[v] + Cents(order[o], v)
             /\ points'[v] + Spent(r, v) = points[v] + Spent(order[o], v)
  <2>1. /\ balance[v] \in Nat /\ points[v] \in Nat
        /\ order[o].paid \in Nat /\ order[o].points \in Nat
    BY <1>2 DEF TypeOK, Order
  <2>2. /\ balance'[v] = IF v = u THEN balance[v] + order[o].paid ELSE balance[v]
        /\ points'[v] = IF v = u THEN points[v] + order[o].points ELSE points[v]
    BY <1>3 DEF TypeOK
  <2>3. Cents(r, v) = 0 /\ Spent(r, v) = 0
    BY <1>1 DEF Cents, Spent, Dropped, Alive, Settled
  <2>4. /\ Cents(order[o], v) = IF v = u THEN order[o].paid ELSE 0
        /\ Spent(order[o], v) = IF v = u THEN order[o].points ELSE 0
    BY <1>2 DEF Cents, Spent, Alive
  <2> QED
    BY ONLY <2>1, <2>2, <2>3, <2>4
<1>6. (\A g \in order[o].sku : order[o].gifts[g] = 0) => SkusStay
  <2> SUFFICES ASSUME \A g \in order[o].sku : order[o].gifts[g] = 0 PROVE SkusStay
    OBVIOUS
  <2>1. \A g \in Goods : skuStock'[g] + Skus(r, g) = skuStock[g] + Skus(order[o], g)
    BY <1>4
  <2> QED
    BY <1>1, <1>2, <2>1, RowMoves
<1>7. UnitsStay /\ CentsStay /\ PointsStay
  BY <1>1, <1>2, <1>4, <1>5, RowMoves
<1>8. \A g \in Goods : SkuTotal(g)' >= SkuTotal(g)
  BY <1>1, <1>2, <1>4, SkusMoveUp
<1> QED
  BY <1>6, <1>7, <1>8, StayIsOneSided DEF OneSided

LEMMA MergeKeeps ==
    ASSUME TypeOK, Unused, NEW u \in User, NEW f \in OrderId, NEW t \in OrderId,
           order_merge(u, f, t)
    PROVE  /\ UnitsStay /\ SkusStay /\ CentsStay
           /\ order[f].points = 0 /\ order[t].points = 0 => PointsStay
           /\ OneSided
<1>1. Joined(u, f, t) /\ TypeOK'
  BY MergeJoins, MergeType
<1>2. UNCHANGED <<stock, skuStock, points, balance, redeemed>>
  BY DEF order_merge, goodsVars, fundVars
<1>3. /\ \A g \in Goods : UnitSum(g)' = UnitSum(g) /\ SkuSum(g)' = SkuSum(g)
                          /\ SwapUnits(g)' = SwapUnits(g)
      /\ \A v \in User : PaidSum(v)' = PaidSum(v) /\ SwapPoints(v)' = SwapPoints(v)
      /\ order[f].points = 0 /\ order[t].points = 0
            => \A v \in User : PointSum(v)' = PointSum(v)
  BY <1>1, <1>2, JoinedGoods, JoinedFunds, SumsSame
<1>4. ASSUME NEW v \in User PROVE PointTotal(v)' <= PointTotal(v)
  <2>1. PointSum(v)' <= PointSum(v) /\ SwapPoints(v)' = SwapPoints(v) /\ points'[v] = points[v]
    BY <1>1, <1>2, <1>3, JoinedFunds
  <2>2. points[v] \in Nat /\ PointSum(v) \in Nat /\ PointSum(v)' \in Int /\ SwapPoints(v) \in Nat
    BY <1>1, JoinedFunds, SumTypes DEF TypeOK
  <2> QED
    BY <2>1, <2>2 DEF PointTotal
<1>5. UnitsStay /\ SkusStay /\ CentsStay
  BY <1>2, <1>3 DEF UnitsStay, SkusStay, CentsStay, UnitTotal, SkuTotal, CentTotal
<1>6. order[f].points = 0 /\ order[t].points = 0 => PointsStay
  BY <1>2, <1>3 DEF PointsStay, PointTotal
<1> QED
  BY <1>4, <1>5, <1>6, StayIsOneSided DEF OneSided

LEMMA RedeemKeeps ==
    ASSUME TypeOK, NEW u \in User, NEW k \in Key, NEW g \in ExchangeGoods, NEW q \in 1..MaxQty,
           redeem(u, k, g, q)
    PROVE  UnitsStay /\ SkusStay /\ CentsStay /\ PointsStay
<1> DEFINE cost == PointPrice[g] * q
<1>1. /\ UNCHANGED <<skuStock, balance, order>> /\ g \in Goods /\ q \in Nat /\ cost \in Nat
      /\ stock' = [stock EXCEPT ![g] = @ - q]
      /\ points' = [points EXCEPT ![u] = @ - cost]
  BY CheckoutAssumption DEF redeem, orderVars
<1>2. ASSUME NEW h \in Goods PROVE UnitTotal(h)' = UnitTotal(h)
  <2>1. SwapUnits(h)' = SwapUnits(h) + (IF h = g THEN q ELSE 0)
    BY RedeemedSums
  <2>2. stock'[h] = IF h = g THEN stock[h] - q ELSE stock[h]
    BY <1>1 DEF TypeOK, Quantities
  <2>3. stock[h] \in Nat /\ q \in Nat /\ SwapUnits(h) \in Nat /\ UnitSum(h) \in Nat
    BY <1>1, SumTypes DEF TypeOK, Quantities
  <2>4. UnitSum(h)' = UnitSum(h)
    BY <1>1, SumsSame
  <2>5. stock'[h] + UnitSum(h)' + SwapUnits(h)' = stock[h] + UnitSum(h) + SwapUnits(h)
    BY ONLY <2>1, <2>2, <2>3, <2>4
  <2> QED
    BY <2>5 DEF UnitTotal
<1>3. ASSUME NEW v \in User PROVE PointTotal(v)' = PointTotal(v)
  <2>1. SwapPoints(v)' = SwapPoints(v) + (IF v = u THEN cost ELSE 0)
    BY RedeemedSums
  <2>2. cost \in Nat
    BY <1>1
  <2> HIDE DEF cost
  <2>3. points'[v] = IF v = u THEN points[v] - cost ELSE points[v]
    BY <1>1 DEF TypeOK
  <2>4. points[v] \in Nat /\ SwapPoints(v) \in Nat /\ PointSum(v) \in Nat
    BY SumTypes DEF TypeOK
  <2>5. PointSum(v)' = PointSum(v)
    BY <1>1, SumsSame
  <2>6. points'[v] + PointSum(v)' + SwapPoints(v)' = points[v] + PointSum(v) + SwapPoints(v)
    BY ONLY <2>1, <2>2, <2>3, <2>4, <2>5
  <2> QED
    BY <2>6 DEF PointTotal
<1>4. SkusStay /\ CentsStay
  BY <1>1, NothingMoves
<1> QED
  BY <1>2, <1>3, <1>4 DEF UnitsStay, PointsStay

-----------------------------------------------------------------------------
\* What order_cancel and order_merge rely on.
GiftsApart   == \A o \in OrderId : \A g \in order[o].sku : order[o].gifts[g] = 0
DiscountPaid == \A o \in OrderId :
                    order[o].status = "pending_payment" /\ order[o].discount = 0
                        => order[o].points = 0

Totals ==
    /\ UnitsStay /\ CentsStay
    /\ GiftsApart => SkusStay
    /\ DiscountPaid => PointsStay
    /\ OneSided

LEMMA CartStepMovesNothing ==
    ASSUME NEW u \in User, CartNext(u)
    PROVE  UNCHANGED <<stock, skuStock, points, balance, redeemed, bonus, order>>
BY DEF CartNext, cart_add, cart_update, cart_delete, clear, linked_buy, package, favourable,
       select, ReplaceCart, orderVars, fundVars, goodsVars

LEMMA StepKeepsTotals ==
    ASSUME TypeOK, Unused, [Next]_vars
    PROVE  Totals
<1>1. UNCHANGED <<stock, skuStock, points, balance, redeemed, order>> => Totals
  BY NothingMoves, StayIsOneSided, Zenon DEF Totals, OneSided
<1>2. ASSUME UnitsStay, SkusStay, CentsStay, PointsStay PROVE Totals
  BY <1>2, StayIsOneSided, Zenon DEF Totals, OneSided
<1>3. ASSUME NEW o \in OrderId, NEW r \in Order, TypeOK', order' = [order EXCEPT ![o] = r],
             Untouched(order[o], r), r.paid = order[o].paid,
             UNCHANGED <<stock, skuStock, points, balance, redeemed>>
      PROVE  Totals
  BY <1>3, UntouchedKeeps, <1>2
<1>4. ASSUME NEW u \in User, CartNext(u) PROVE Totals
  BY <1>1, <1>4, CartStepMovesNothing
<1>5. ASSUME NEW u \in User, NEW k \in Key, NEW p \in Payment \union {0}, order_create(u, k, p)
      PROVE  Totals
  BY <1>2, <1>5, CreateKeeps
<1>6. ASSUME NEW u \in User, NEW k \in Key, NEW g \in GroupGoods, NEW q \in 1..MaxQty,
             NEW p \in Payment, group_buy(u, k, g, q, p)
      PROVE  Totals
  BY <1>2, <1>6, GroupBuyKeeps
<1>7. ASSUME NEW u \in User, NEW o \in OrderId, order_cancel(u, o) PROVE Totals
  BY <1>7, CancelKeeps DEF Totals, GiftsApart
<1>8. ASSUME NEW u \in User, NEW o \in OrderId, order_return_to_cart(u, o) PROVE Totals
  BY <1>1, <1>8 DEF order_return_to_cart, goodsVars, fundVars, orderVars
<1>9. ASSUME NEW u \in User, NEW f \in OrderId, NEW t \in OrderId, order_merge(u, f, t)
      PROVE  Totals
  <2>1. DiscountPaid => order[f].points = 0 /\ order[t].points = 0
    BY <1>9 DEF DiscountPaid, order_merge, Mergeable, Pending
  <2> QED
    BY <1>9, <2>1, MergeKeeps DEF Totals
<1>10. ASSUME NEW u \in User, NEW o \in OrderId, NEW c \in SurplusChoice \ {0},
              order_surplus(u, o, c)
       PROVE  Totals
  BY <1>2, <1>10, SurplusKeeps
<1>11. ASSUME NEW u \in User, NEW o \in OrderId, NEW p \in Payment, order_payment_patch(u, o, p)
       PROVE  Totals
  <2>1. TypeOK' /\ UNCHANGED <<stock, skuStock, points, balance, redeemed>>
    BY <1>11, PatchType DEF order_payment_patch, goodsVars, fundVars
  <2> QED
    BY <1>3, <1>11, <2>1, PatchTouchesNothing
<1>12. ASSUME NEW u \in User, NEW o \in OrderId, ship(u, o) \/ order_received(u, o)
       PROVE  Totals
  <2>1. TypeOK' /\ UNCHANGED <<stock, skuStock, points, balance, redeemed>>
    <3>1. PICK from, to \in Status : Advance(u, o, from, to)
      BY <1>12 DEF ship, order_received, Status
    <3> QED
      BY <3>1, AdvanceType DEF Advance, goodsVars, fundVars
  <2> QED
    BY <1>3, <1>12, <2>1, AdvanceTouchesNothing
<1>13. ASSUME NEW o \in OrderId, payment_callback(o) PROVE Totals
  <2>1. TypeOK' /\ UNCHANGED <<stock, skuStock, points, balance, redeemed>>
    BY <1>13, CallbackType DEF payment_callback, goodsVars, fundVars
  <2> QED
    BY <1>3, <1>13, <2>1, CallbackTouchesNothing
<1>14. ASSUME NEW u \in User, NEW k \in Key, NEW g \in ExchangeGoods, NEW q \in 1..MaxQty,
              redeem(u, k, g, q)
       PROVE  Totals
  BY <1>2, <1>14, RedeemKeeps
<1>15. ASSUME NEW u \in User, NEW b \in Bonus, bonus_claim(u, b) PROVE Totals
  BY <1>1, <1>15 DEF bonus_claim, goodsVars, orderVars
<1>16. ASSUME UNCHANGED vars PROVE Totals
  BY <1>1, <1>16 DEF vars
<1>17. ASSUME NEW u \in User, OrderNext(u) PROVE Totals
  BY ONLY <1>5, <1>6, <1>7, <1>8, <1>9, <1>10, <1>11, <1>12, <1>17, Zenon DEF OrderNext
<1>18. ASSUME Next PROVE Totals
  BY ONLY <1>4, <1>13, <1>14, <1>15, <1>17, <1>18, Zenon DEF Next
<1> QED
  BY <1>16, <1>18

LEMMA InitTotals ==
    ASSUME Init
    PROVE  /\ \A g \in Goods : UnitTotal(g) = Stock0[g] /\ SkuTotal(g) = SkuStock0[g]
           /\ \A u \in User : CentTotal(u) = Balance0[u] /\ PointTotal(u) = Points0[u]
<1>1. \A o \in OrderId : order[o] = NoOrder
  BY DEF Init
<1>2. \A u \in User, k \in Key : redeemed[u][k] = Empty
  BY DEF Init
<1>3. ASSUME NEW g \in Goods PROVE UnitSum(g) = 0 /\ SkuSum(g) = 0 /\ SwapUnits(g) = 0
  <2>1. \A o \in OrderId : UnitsOf(g)[o] = 0
    BY <1>1 DEF UnitsOf, Live, NoOrder, Settled
  <2>2. \A o \in OrderId : SkusOf(g)[o] = 0
    BY <1>1 DEF SkusOf, Live, NoOrder, Settled
  <2>3. \A r \in User \X Key : Redeemed(g)[r] = 0
    BY <1>2 DEF Redeemed, Empty
  <2>4. UnitSum(g) = 0
    BY <2>1, FiniteTables, SumZero DEF UnitSum
  <2>5. SkuSum(g) = 0
    BY <2>2, FiniteTables, SumZero DEF SkuSum
  <2>6. SwapUnits(g) = 0
    <3> DEFINE f == Redeemed(g)
               S == User \X Key
    <3>1. IsFiniteSet(S) /\ \A r \in S : f[r] = 0
      BY <2>3, FiniteTables
    <3> HIDE DEF f, S
    <3>2. SumFunctionOnSet(f, S) = 0
      BY ONLY <3>1, SumZero
    <3> QED
      BY <3>2 DEF SwapUnits, f, S
  <2> QED
    BY <2>4, <2>5, <2>6
<1>4. ASSUME NEW u \in User PROVE PaidSum(u) = 0 /\ PointSum(u) = 0 /\ SwapPoints(u) = 0
  <2>1. \A o \in OrderId : PaidBy(u)[o] = 0
    BY <1>1 DEF PaidBy, Live, NoOrder, Settled
  <2>2. \A o \in OrderId : PointsBy(u)[o] = 0
    BY <1>1 DEF PointsBy, Live, NoOrder, Settled
  <2>3. PaidSum(u) = 0
    BY <2>1, FiniteTables, SumZero DEF PaidSum
  <2>4. PointSum(u) = 0
    BY <2>2, FiniteTables, SumZero DEF PointSum
  <2>5. SwapPoints(u) = 0
    <3> DEFINE f == RedeemedBy(u)
               S == Key \X Goods
    <3>1. ASSUME NEW r \in S PROVE f[r] = 0
      <4>1. PointPrice[r[2]] \in Nat /\ redeemed[u][r[1]][r[2]] = 0
        BY <1>2, CheckoutAssumption DEF Empty
      <4>2. f[r] = PointPrice[r[2]] * 0
        BY <4>1 DEF RedeemedBy
      <4>3. \A n \in Nat : n * 0 = 0
        OBVIOUS
      <4> QED
        BY <4>1, <4>2, <4>3
    <3>2. IsFiniteSet(S)
      BY FiniteTables
    <3> HIDE DEF f, S
    <3>3. SumFunctionOnSet(f, S) = 0
      BY ONLY <3>1, <3>2, SumZero
    <3> QED
      BY <3>3 DEF SwapPoints, f, S
  <2> QED
    BY <2>3, <2>4, <2>5
<1>5. /\ \A g \in Goods : stock[g] = Stock0[g] /\ Stock0[g] \in Nat
                          /\ skuStock[g] = SkuStock0[g] /\ SkuStock0[g] \in Nat
      /\ \A u \in User : balance[u] = Balance0[u] /\ Balance0[u] \in Nat
                         /\ points[u] = Points0[u] /\ Points0[u] \in Nat
  BY CheckoutAssumption DEF Init
<1> QED
  BY <1>3, <1>4, <1>5 DEF UnitTotal, SkuTotal, CentTotal, PointTotal

\* The properties in terms of the totals.
LEMMA TotalsExplain ==
    /\ StockConserved <=> \A g \in Goods : UnitTotal(g) = Stock0[g]
    /\ SkuConserved <=> \A g \in SkuGoods : SkuTotal(g) = SkuStock0[g]
    /\ PointsExplained <=> \A u \in User : PointTotal(u) = Points0[u]
BY DEF StockConserved, SkuConserved, PointsExplained, UnitTotal, SkuTotal, PointTotal, UnitSum,
       SkuSum, PointSum, SwapUnits, SwapPoints

LEMMA UnitsStayConserved ==
    /\ StockConserved /\ UnitsStay => StockConserved'
    /\ SkuConserved /\ SkusStay => SkuConserved'
    /\ PointsExplained /\ PointsStay => PointsExplained'
<1>1. /\ StockConserved' <=> \A g \in Goods : UnitTotal(g)' = Stock0[g]
      /\ SkuConserved' <=> \A g \in SkuGoods : SkuTotal(g)' = SkuStock0[g]
      /\ PointsExplained' <=> \A u \in User : PointTotal(u)' = Points0[u]
  BY DEF StockConserved, SkuConserved, PointsExplained, UnitTotal, SkuTotal, PointTotal, UnitSum,
         SkuSum, PointSum, SwapUnits, SwapPoints
<1>2. SkuGoods \subseteq Goods
  BY CheckoutAssumption
<1> QED
  BY <1>1, <1>2, TotalsExplain DEF UnitsStay, SkusStay, PointsStay

\* Every unit of stock is on the shelf, in an order that was neither cancelled
\* nor merged away, or redeemed (order.rs:172-273, 442, 707).
THEOREM NoUnitIsLost == Spec => []StockConserved
<1>1. Init => StockConserved
  BY InitTotals, TotalsExplain
<1>2. TypeOK /\ Unused /\ StockConserved /\ [Next]_vars => StockConserved'
  BY StepKeepsTotals, UnitsStayConserved DEF Totals
<1>3. OrderInv => TypeOK /\ Unused
  BY DEF OrderInv
<1> QED
  BY <1>1, <1>2, <1>3, OrderInvariant, PTL DEF Spec

-----------------------------------------------------------------------------
(* What a step does to the rows of the orders, one disjunct per kind.      *)

\* group_buy: an order without SKUs, gifts, points, bonus and balance payment.
Unpriced(u, r) ==
    /\ order' = [order EXCEPT ![nextId] = r]
    /\ r.status = "pending_payment" /\ r.user = u /\ r.gifts = Empty /\ r.sku = {}
    /\ r.paid = 0 /\ r.logged = 0 /\ r.points = 0 /\ r.bonus = Null
    /\ UNCHANGED bonus

\* order_cancel: the bonuses of order o are free again.
Freed(o) ==
    bonus' = [b \in Bonus |-> IF bonus[b].order = o /\ bonus[b].owner = order[o].user
                              THEN [bonus[b] EXCEPT !.order = 0] ELSE bonus[b]]

Claimed ==
    \E u \in User, b \in Bonus :
        bonus[b].owner = Null /\ bonus' = [bonus EXCEPT ![b].owner = u]

RowStep ==
    \/ UNCHANGED order /\ (UNCHANGED bonus \/ Claimed)
    \/ nextId \in OrderId /\ \E u \in User, r \in Order : Bought(u, r) \/ Unpriced(u, r)
    \/ \E o \in OrderId, r \in Order :
          /\ order' = [order EXCEPT ![o] = r]
          /\ \/ /\ Untouched(order[o], r) /\ UNCHANGED bonus
                /\ r.logged + r.paid = order[o].logged + order[o].paid
             \/ Dropped(order[o], r) /\ Freed(o)
    \/ \E u \in User, f \in OrderId, t \in OrderId : Joined(u, f, t)

LEMMA StepsAreRowSteps ==
    ASSUME TypeOK, Unused, [Next]_vars
    PROVE  RowStep
<1>1. UNCHANGED <<order, bonus>> => RowStep
  BY DEF RowStep
<1>2. ASSUME NEW o \in OrderId, NEW r \in Order, order' = [order EXCEPT ![o] = r],
             Untouched(order[o], r), r.paid = order[o].paid, r.logged = order[o].logged,
             UNCHANGED bonus
      PROVE  RowStep
  BY <1>2 DEF RowStep
<1>3. ASSUME NEW u \in User, CartNext(u) PROVE RowStep
  BY <1>1, <1>3, CartStepMovesNothing
<1>4. ASSUME NEW u \in User, NEW k \in Key, NEW p \in Payment \union {0}, order_create(u, k, p)
      PROVE  RowStep
  <2>1. nextId \in OrderId
    BY <1>4 DEF order_create
  <2> QED
    BY <1>4, <2>1, CreateBuys DEF RowStep
<1>5. ASSUME NEW u \in User, NEW k \in Key, NEW g \in GroupGoods, NEW q \in 1..MaxQty,
             NEW p \in Payment, group_buy(u, k, g, q, p)
      PROVE  RowStep
  <2> DEFINE r == PlainOrder(u, k, p, [Empty EXCEPT ![g] = q], Empty, GroupPrice[g] * q,
                             ShippingFee, PayFee[p])
  <2>1. /\ nextId \in OrderId /\ order' = [order EXCEPT ![nextId] = r] /\ TypeOK'
        /\ UNCHANGED bonus
    BY <1>5, GroupBuyType, Zenon DEF group_buy, fundVars
  <2>2. /\ r.status = "pending_payment" /\ r.user = u /\ r.gifts = Empty /\ r.sku = {}
        /\ r.paid = 0 /\ r.logged = 0 /\ r.points = 0 /\ r.bonus = Null
    BY DEF PlainOrder
  <2> HIDE DEF r
  <2>3. r \in Order
    <3>1. order'[nextId] = r
      BY <2>1 DEF TypeOK
    <3> QED
      BY <2>1, <3>1 DEF TypeOK
  <2>4. Unpriced(u, r)
    BY <2>1, <2>2 DEF Unpriced
  <2> QED
    BY <2>1, <2>3, <2>4 DEF RowStep
<1>6. ASSUME NEW u \in User, NEW o \in OrderId, order_cancel(u, o) PROVE RowStep
  <2>1. Freed(o)
    BY <1>6 DEF order_cancel, Freed, Pending
  <2> QED
    BY <1>6, <2>1, CancelDrops DEF RowStep
<1>7. ASSUME NEW u \in User, NEW o \in OrderId, order_return_to_cart(u, o) PROVE RowStep
  BY <1>1, <1>7 DEF order_return_to_cart, orderVars, fundVars
<1>8. ASSUME NEW u \in User, NEW f \in OrderId, NEW t \in OrderId, order_merge(u, f, t)
      PROVE  RowStep
  BY <1>8, MergeJoins DEF RowStep
<1>9. ASSUME NEW u \in User, NEW o \in OrderId, NEW c \in SurplusChoice \ {0},
             order_surplus(u, o, c)
      PROVE  RowStep
  <2>1. PICK cents \in Nat, r \in Order :
            /\ order' = [order EXCEPT ![o] = r] /\ Untouched(order[o], r)
            /\ r.paid = order[o].paid + cents /\ r.logged = order[o].logged - cents
    BY <1>9, SurplusTouches
  <2>4. UNCHANGED bonus
    BY <1>9 DEF order_surplus
  <2>2. order[o].paid \in Nat /\ order[o].logged \in Int
    BY DEF TypeOK, Order
  <2>3. r.logged + r.paid = order[o].logged + order[o].paid
    BY <2>1, <2>2
  <2> QED
    BY <2>1, <2>3, <2>4 DEF RowStep
<1>10. ASSUME NEW u \in User, NEW o \in OrderId, NEW p \in Payment, order_payment_patch(u, o, p)
       PROVE  RowStep
  BY <1>2, <1>10, PatchTouchesNothing DEF order_payment_patch, fundVars
<1>11. ASSUME NEW u \in User, NEW o \in OrderId, ship(u, o) \/ order_received(u, o)
       PROVE  RowStep
  BY <1>2, <1>11, AdvanceTouchesNothing DEF ship, order_received, Advance, fundVars
<1>12. ASSUME NEW o \in OrderId, payment_callback(o) PROVE RowStep
  BY <1>2, <1>12, CallbackTouchesNothing DEF payment_callback, fundVars
<1>13. ASSUME NEW u \in User, NEW k \in Key, NEW g \in ExchangeGoods, NEW q \in 1..MaxQty,
              redeem(u, k, g, q)
       PROVE  RowStep
  BY <1>1, <1>13 DEF redeem, orderVars
<1>14. ASSUME NEW u \in User, NEW b \in Bonus, bonus_claim(u, b) PROVE RowStep
  BY <1>14 DEF bonus_claim, orderVars, Claimed, RowStep
<1>15. ASSUME UNCHANGED vars PROVE RowStep
  BY <1>1, <1>15 DEF vars
<1>16. ASSUME NEW u \in User, OrderNext(u) PROVE RowStep
  BY ONLY <1>4, <1>5, <1>6, <1>7, <1>8, <1>9, <1>10, <1>11, <1>16, Zenon DEF OrderNext
<1>17. ASSUME Next PROVE RowStep
  BY ONLY <1>3, <1>12, <1>13, <1>14, <1>16, <1>17, Zenon DEF Next
<1> QED
  BY <1>15, <1>17

-----------------------------------------------------------------------------
(* The account log.                                                        *)

LogTrue(r) == r.logged = IF r.status \in Alive THEN -r.paid ELSE 0
Logged == \A o \in OrderId : LogTrue(order[o])

LEMMA LoggedStep == TypeOK /\ Unused /\ Logged /\ [Next]_vars => Logged'
<1> SUFFICES ASSUME TypeOK, Unused, Logged, [Next]_vars, NEW q \in OrderId
             PROVE  LogTrue(order'[q])
  BY DEF Logged, LogTrue
<1>1. RowStep
  BY StepsAreRowSteps
<1>2. /\ \A o \in OrderId : order[o] \in Order /\ order[o].paid \in Nat /\ order[o].logged \in Int
      /\ \A r \in Order : r.paid \in Nat /\ r.logged \in Int
  BY DEF TypeOK, Order
<1>3. \A o \in OrderId : LogTrue(order[o])
  BY DEF Logged
<1>4. CASE UNCHANGED order
  BY <1>3, <1>4
<1>5. ASSUME nextId \in OrderId, NEW u \in User, NEW r \in Order, Bought(u, r) \/ Unpriced(u, r)
      PROVE  LogTrue(order'[q])
  <2>1. LogTrue(r)
    BY <1>5, <1>2 DEF Bought, Unpriced, LogTrue, Alive, Settled
  <2>2. order'[q] = IF q = nextId THEN r ELSE order[q]
    BY <1>5 DEF Bought, Unpriced, TypeOK
  <2> QED
    BY <1>3, <2>1, <2>2
<1>6. ASSUME NEW o \in OrderId, NEW r \in Order, order' = [order EXCEPT ![o] = r],
             \/ Untouched(order[o], r) /\ r.logged + r.paid = order[o].logged + order[o].paid
             \/ Dropped(order[o], r)
      PROVE  LogTrue(order'[q])
  <2>1. LogTrue(r)
    <3>1. LogTrue(order[o]) /\ order[o].paid \in Nat /\ r.paid \in Nat /\ r.logged \in Int
      BY <1>2, <1>3
    <3>2. CASE Untouched(order[o], r) /\ r.logged + r.paid = order[o].logged + order[o].paid
      BY <3>1, <3>2 DEF LogTrue, Untouched
    <3>3. CASE Dropped(order[o], r)
      BY <3>1, <3>3 DEF LogTrue, Dropped, Alive, Settled
    <3> QED
      BY <1>6, <3>2, <3>3
  <2>2. order'[q] = IF q = o THEN r ELSE order[q]
    BY <1>6 DEF TypeOK
  <2> QED
    BY <1>3, <2>1, <2>2
<1>7. ASSUME NEW u \in User, NEW f \in OrderId, NEW t \in OrderId, Joined(u, f, t)
      PROVE  LogTrue(order'[q])
  <2>1. /\ order[f].paid = 0 /\ order[t].paid = 0 /\ LogTrue(order[f]) /\ LogTrue(order[t])
        /\ order'[f].logged = order[f].logged /\ order'[t].logged = order[t].logged
        /\ order'[f].status = "merged" /\ order'[t].status = "merged"
    BY <1>3, <1>7 DEF Joined, Mergeable
  <2>2. LogTrue(order'[f]) /\ LogTrue(order'[t])
    <3>1. order[f].logged = 0 /\ order[t].logged = 0
      <4>1. \A o \in OrderId : LogTrue(order[o]) => order[o].logged + order[o].paid = 0
                                                   \/ order[o].logged = 0
        BY <1>2 DEF LogTrue
      <4>2. \A x \in Int : x + 0 = 0 => x = 0
        OBVIOUS
      <4> QED
        BY <1>2, <2>1, <4>1, <4>2
    <3>2. "merged" \notin Alive
      BY DEF Alive, Settled
    <3> QED
      BY <2>1, <3>1, <3>2 DEF LogTrue
  <2>3. LogTrue(order'[nextId])
    <3>1. order'[nextId].paid = 0 /\ order'[nextId].logged = 0
      BY <1>7 DEF Joined
    <3>2. \A x, y \in Int : x + y = 0 => x = -y
      OBVIOUS
    <3>3. order'[nextId].logged + order'[nextId].paid = 0 /\ 0 \in Int
      BY <3>1
    <3>4. order'[nextId].logged = -order'[nextId].paid
      BY ONLY <3>1, <3>2, <3>3, Zenon
    <3> QED
      BY ONLY <3>1, <3>4, Zenon DEF LogTrue
  <2>4. q \notin {f, t, nextId} => order'[q] = order[q]
    BY <1>7 DEF Joined
  <2> QED
    BY <1>3, <2>2, <2>3, <2>4
<1> QED
  BY ONLY <1>1, <1>4, <1>5, <1>6, <1>7, Zenon DEF RowStep

\* The available balance of a user is what it was less what orders hold of it,
\* and the account log of an order sums to just that, through surplus payments
\* at the checkout and after it, cancellations and merges
\* (flow.rs:281-346, order.rs:497-520, 818-907).
THEOREM BalanceIsExplained == Spec => []BalanceExplained
<1> DEFINE Inv == Logged /\ \A u \in User : CentTotal(u) = Balance0[u]
<1>1. Init => Inv
  <2> SUFFICES ASSUME Init PROVE Inv
    OBVIOUS
  <2>1. \A o \in OrderId : LogTrue(order[o])
    BY DEF Init, LogTrue, NoOrder, Alive, Settled
  <2> QED
    BY <2>1, InitTotals DEF Logged
<1>2. TypeOK /\ Unused /\ Inv /\ [Next]_vars => Inv'
  <2> SUFFICES ASSUME TypeOK, Unused, Inv, [Next]_vars PROVE Inv'
    OBVIOUS
  <2>1. CentsStay /\ Logged'
    BY StepKeepsTotals, LoggedStep DEF Totals
  <2> QED
    BY <2>1 DEF CentsStay
<1>3. OrderInv => TypeOK /\ Unused
  BY DEF OrderInv
<1>4. Inv => BalanceExplained
  BY DEF Logged, LogTrue, BalanceExplained, CentTotal, PaidSum, Live, Alive
<1> QED
  BY <1>1, <1>2, <1>3, <1>4, OrderInvariant, PTL DEF Spec

-----------------------------------------------------------------------------
(* Gifts.                                                                  *)

\* What a step may make of the gifts of a cart and of its offer.
GiftsMove(v) ==
    \/ gifts'[v] = gifts[v] /\ offer'[v] = offer[v]
    \/ gifts'[v] = Empty
    \/ /\ offer'[v] = "gift" /\ gifts'[v] = Only(gifts'[v], GiftGoods)
       /\ SumFunctionOnSet(gifts'[v], Goods) <= GiftLimit

LEMMA GiftsOfStep ==
    ASSUME TypeOK, [Next]_vars, NEW v \in User
    PROVE  GiftsMove(v)
<1>1. UNCHANGED <<gifts, offer>> => GiftsMove(v)
  BY DEF GiftsMove
<1>2. gifts \in [User -> Quantities] /\ offer \in [User -> OfferKinds \union {"none"}]
  BY DEF TypeOK
<1>3. ASSUME NEW u \in User, NEW f, NEW kind, ReplaceCart(u, f, kind) PROVE GiftsMove(v)
  BY <1>2, <1>3 DEF ReplaceCart, GiftsMove
<1>4. ASSUME NEW u \in User, NEW kind \in OfferKinds, NEW f \in [Goods -> 0..GiftLimit],
             f = Only(f, GiftGoods), favourable(u, kind, f)
      PROVE  GiftsMove(v)
  <2>1. /\ offer' = [offer EXCEPT ![u] = kind] /\ gifts' = [gifts EXCEPT ![u] = f]
        /\ kind # "gift" => f = Empty
        /\ kind = "gift" => SumFunctionOnSet(f, Goods) <= GiftLimit
    BY <1>4 DEF favourable
  <2>2. /\ offer'[v] = IF v = u THEN kind ELSE offer[v]
        /\ gifts'[v] = IF v = u THEN f ELSE gifts[v]
    BY <1>2, <2>1
  <2> QED
    BY ONLY <1>4, <2>1, <2>2 DEF GiftsMove
<1>5. ASSUME NEW u \in User, CartNext(u) PROVE GiftsMove(v)
  <2>1. CASE \/ \E g \in Goods, q \in 1..MaxQty, s \in SUBSET SkuGoods : cart_add(u, g, q, s)
             \/ \E g \in Goods, q \in 1..MaxQty : cart_update(u, g, q)
             \/ \E g \in Goods : cart_delete(u, g)
             \/ \E row \in Selections(u) : select(u, row)
    BY <1>1, <2>1, Zenon DEF cart_add, cart_update, cart_delete, select, cartVars
  <2>2. CASE \/ clear(u) \/ package(u)
             \/ \E g \in Goods, q \in 1..MaxQty : linked_buy(u, g, q)
    BY <1>3, <2>2, Zenon DEF clear, package, linked_buy
  <2>3. CASE \E kind \in OfferKinds, f \in [Goods -> 0..GiftLimit] :
                (f = Only(f, GiftGoods)) /\ favourable(u, kind, f)
    BY ONLY <1>4, <2>3, u \in User, Zenon
  <2> QED
    BY ONLY <1>5, <2>1, <2>2, <2>3, Zenon DEF CartNext
<1>6. ASSUME NEW u \in User, OrderNext(u) PROVE GiftsMove(v)
  <2>1. CASE \E k \in Key, p \in Payment \union {0} : order_create(u, k, p)
    <3>1. gifts' = [gifts EXCEPT ![u] = Empty] /\ offer' = [offer EXCEPT ![u] = "none"]
      BY <2>1 DEF order_create
    <3> QED
      BY <1>2, <3>1 DEF GiftsMove
  <2>2. CASE ~\E k \in Key, p \in Payment \union {0} : order_create(u, k, p)
    BY <1>1, <1>6, <2>2, ZenonT(30)
       DEF OrderNext, group_buy, order_cancel, order_return_to_cart, order_merge, order_surplus,
           order_payment_patch, ship, order_received, Advance, cartVars
  <2> QED
    BY <2>1, <2>2
<1>7. CASE \/ \E o \in OrderId : payment_callback(o)
           \/ \E u \in User, k \in Key, g \in ExchangeGoods, q \in 1..MaxQty : redeem(u, k, g, q)
           \/ \E u \in User, b \in Bonus : bonus_claim(u, b)
  BY <1>1, <1>7, ZenonT(30) DEF payment_callback, redeem, bonus_claim, cartVars
<1>8. CASE UNCHANGED vars
  BY <1>1, <1>8 DEF vars
<1> QED
  BY <1>5, <1>6, <1>7, <1>8, Zenon DEF Next

\* The gifts of carts and orders come from the allow-list of the offer, the SKU
\* rows of orders from the goods with SKUs.
Given(f)  == \A g \in Goods : f[g] > 0 => g \in GiftGoods
GiftsKnown ==
    /\ \A u \in User : Given(gifts[u])
    /\ \A o \in OrderId : Given(order[o].gifts) /\ order[o].sku \subseteq SkuGoods

LEMMA GiftsKnownInit == Init => GiftsKnown
BY DEF Init, GiftsKnown, Given, NoOrder, Empty

LEMMA GiftsKnownStep == TypeOK /\ Unused /\ GiftsKnown /\ [Next]_vars => GiftsKnown'
<1> SUFFICES ASSUME TypeOK, Unused, GiftsKnown, [Next]_vars PROVE GiftsKnown'
  OBVIOUS
<1>1. Given(Empty)
  BY DEF Given, Empty
<1>2. ASSUME NEW u \in User PROVE Given(gifts'[u])
  <2>1. GiftsMove(u) /\ Given(gifts[u])
    BY GiftsOfStep DEF GiftsKnown
  <2>2. ASSUME NEW f, f = Only(f, GiftGoods) PROVE Given(f)
    BY <2>2 DEF Given, Only
  <2> QED
    BY <1>1, <2>1, <2>2 DEF GiftsMove
<1>3. ASSUME NEW q \in OrderId
      PROVE  Given(order'[q].gifts) /\ order'[q].sku \subseteq SkuGoods
  <2> DEFINE Good(r) == Given(r.gifts) /\ r.sku \subseteq SkuGoods
  <2>1. RowStep
    BY StepsAreRowSteps
  <2>2. \A o \in OrderId : Good(order[o])
    BY DEF GiftsKnown
  <2>3. ASSUME UNCHANGED order PROVE Good(order'[q])
    BY <2>2, <2>3
  <2>4. ASSUME nextId \in OrderId, NEW u \in User, NEW r \in Order,
               Bought(u, r) \/ Unpriced(u, r)
        PROVE  Good(order'[q])
    <3>1. Good(r)
      <4>1. Given(gifts[u]) /\ spec[u] \subseteq SkuGoods
        BY DEF GiftsKnown, TypeOK
      <4> QED
        BY <1>1, <2>4, <4>1 DEF Bought, Unpriced
    <3>2. order'[q] = IF q = nextId THEN r ELSE order[q]
      BY <2>4 DEF Bought, Unpriced, TypeOK
    <3> HIDE DEF Good
    <3> QED
      BY <2>2, <3>1, <3>2
  <2>5. ASSUME NEW o \in OrderId, NEW r \in Order, order' = [order EXCEPT ![o] = r],
               \/ Untouched(order[o], r) /\ r.logged + r.paid = order[o].logged + order[o].paid
               \/ Dropped(order[o], r)
        PROVE  Good(order'[q])
    <3>1. Good(r)
      BY <2>2, <2>5 DEF Untouched, Dropped
    <3>2. order'[q] = IF q = o THEN r ELSE order[q]
      BY <2>5 DEF TypeOK
    <3> HIDE DEF Good
    <3> QED
      BY <2>2, <3>1, <3>2
  <2>6. ASSUME NEW u \in User, NEW f \in OrderId, NEW t \in OrderId, Joined(u, f, t)
        PROVE  Good(order'[q])
    <3>1. \A g \in Goods : /\ order[f].gifts[g] \in Nat /\ order[t].gifts[g] \in Nat
                           /\ order[f].gifts[g] > 0 => g \in GiftGoods
                           /\ order[t].gifts[g] > 0 => g \in GiftGoods
      BY <2>2, RowShares, ShareTypes DEF Given
    <3>2. Given(order'[nextId].gifts)
      BY <2>6, <3>1 DEF Joined, Plus, Given
    <3>3. Good(order'[f]) /\ Good(order'[t]) /\ Good(order'[nextId])
      BY <1>1, <2>2, <2>6, <3>2 DEF Joined
    <3>4. q \notin {f, t, nextId} => order'[q] = order[q]
      BY <2>6 DEF Joined
    <3> HIDE DEF Good
    <3> QED
      BY <2>2, <3>3, <3>4
  <2> HIDE DEF Good
  <2>7. Good(order'[q])
    BY ONLY <2>1, <2>3, <2>4, <2>5, <2>6, Zenon DEF RowStep
  <2> QED
    BY <2>7 DEF Good
<1> QED
  BY <1>2, <1>3 DEF GiftsKnown, Given

\* Where no goods of the gift offer has SKUs, neither units nor SKU units are
\* oversold, lost or invented.  Without that hypothesis a cancelled order gives
\* back a SKU for each unit of a gift of the same goods (order.rs:485-496).
THEOREM GoodsAreConserved ==
    ASSUME SkuGoods \intersect GiftGoods = {}
    PROVE  Spec => []GoodsConserved
<1> DEFINE Inv == GiftsKnown /\ StockConserved /\ SkuConserved
<1>1. Init => Inv
  BY InitTotals, TotalsExplain, GiftsKnownInit, CheckoutAssumption
<1>2. TypeOK /\ Unused /\ Inv /\ [Next]_vars => Inv'
  <2> SUFFICES ASSUME TypeOK, Unused, Inv, [Next]_vars PROVE Inv'
    OBVIOUS
  <2>1. GiftsApart
    <3> SUFFICES ASSUME NEW o \in OrderId, NEW g \in order[o].sku PROVE order[o].gifts[g] = 0
      BY DEF GiftsApart
    <3>1. g \in Goods /\ g \notin GiftGoods /\ order[o].gifts[g] \in Nat
      BY CheckoutAssumption, RowShares, ShareTypes DEF GiftsKnown
    <3> QED
      BY <3>1 DEF GiftsKnown, Given
  <2>2. UnitsStay /\ SkusStay
    BY <2>1, StepKeepsTotals DEF Totals
  <2> QED
    BY <2>2, UnitsStayConserved, GiftsKnownStep
<1>3. OrderInv => TypeOK /\ Unused
  BY DEF OrderInv
<1>4. Inv => GoodsConserved
  BY DEF GoodsConserved
<1> QED
  BY <1>1, <1>2, <1>3, <1>4, OrderInvariant, PTL DEF Spec

\* How many gifts a cart or an order has.
GiftSum(f) == SumFunctionOnSet(f, Goods)

LEMMA GiftSums ==
    /\ \A f \in Quantities : GiftSum(f) \in Nat /\ \A g \in Goods : f[g] <= GiftSum(f)
    /\ GiftSum(Empty) = 0
    /\ \A f, h \in Quantities : GiftSum(f) = 0 /\ GiftSum(h) = 0 => GiftSum(Plus(f, h)) = 0
<1>1. IsFiniteSet(Goods)
  BY CheckoutAssumption
<1>2. ASSUME NEW f \in Quantities
      PROVE  GiftSum(f) \in Nat /\ \A g \in Goods : f[g] <= GiftSum(f)
  <2>1. \A g \in Goods : f[g] \in Nat
    BY DEF Quantities
  <2> QED
    BY <1>1, <2>1, SumNat DEF GiftSum
<1>3. GiftSum(Empty) = 0
  <2>1. \A g \in Goods : Empty[g] = 0
    BY DEF Empty
  <2> QED
    BY <1>1, <2>1, SumZero DEF GiftSum
<1>4. ASSUME NEW f \in Quantities, NEW h \in Quantities, GiftSum(f) = 0, GiftSum(h) = 0
      PROVE  GiftSum(Plus(f, h)) = 0
  <2>1. \A g \in Goods : f[g] \in Nat /\ h[g] \in Nat /\ f[g] <= 0 /\ h[g] <= 0
    BY <1>2, <1>4 DEF Quantities
  <2>2. \A g \in Goods : Plus(f, h)[g] = 0
    BY <2>1 DEF Plus
  <2> HIDE DEF Plus
  <2> QED
    BY <1>1, <2>2, SumZero DEF GiftSum
<1> QED
  BY <1>2, <1>3, <1>4

GiftOrder(r) == GiftSum(r.gifts) > 0 => r.offer = "gift" /\ GiftSum(r.gifts) <= GiftLimit
GiftInv ==
    /\ \A u \in User : /\ gifts[u] # Empty => offer[u] = "gift"
                       /\ GiftSum(gifts[u]) <= GiftLimit
    /\ \A o \in OrderId : GiftOrder(order[o])

LEMMA GiftInvStep == TypeOK /\ Unused /\ GiftInv /\ [Next]_vars => GiftInv'
<1> SUFFICES ASSUME TypeOK, Unused, GiftInv, [Next]_vars PROVE GiftInv'
  OBVIOUS
<1>1. ASSUME NEW u \in User
      PROVE  (gifts'[u] # Empty => offer'[u] = "gift") /\ GiftSum(gifts'[u]) <= GiftLimit
  <2>1. GiftsMove(u) /\ 0 <= GiftLimit
    BY GiftsOfStep, CheckoutAssumption
  <2> QED
    BY <2>1, GiftSums DEF GiftsMove, GiftInv, GiftSum
<1>2. ASSUME NEW q \in OrderId PROVE GiftOrder(order'[q])
  <2>1. RowStep
    BY StepsAreRowSteps
  <2>2. \A o \in OrderId : GiftOrder(order[o])
    BY DEF GiftInv
  <2>3. ASSUME UNCHANGED order PROVE GiftOrder(order'[q])
    BY <2>2, <2>3
  <2>4. ASSUME nextId \in OrderId, NEW u \in User, NEW r \in Order,
               Bought(u, r) \/ Unpriced(u, r)
        PROVE  GiftOrder(order'[q])
    <3>1. CASE Bought(u, r)
      <4>1. /\ r.gifts = gifts[u] /\ GiftSum(gifts[u]) <= GiftLimit
            /\ gifts[u] # Empty => offer[u] = "gift"
            /\ r.offer = IF offer[u] = "package" THEN "none" ELSE offer[u]
        BY <3>1 DEF Bought, GiftInv
      <4>2. GiftOrder(r)
        BY <4>1, GiftSums DEF GiftOrder
      <4>3. order'[q] = IF q = nextId THEN r ELSE order[q]
        BY <2>4, <3>1 DEF Bought, TypeOK
      <4> QED
        BY <2>2, <4>2, <4>3
    <3>2. CASE Unpriced(u, r)
      <4>1. GiftOrder(r)
        BY <3>2, GiftSums DEF Unpriced, GiftOrder
      <4>2. order'[q] = IF q = nextId THEN r ELSE order[q]
        BY <2>4, <3>2 DEF Unpriced, TypeOK
      <4> QED
        BY <2>2, <4>1, <4>2
    <3> QED
      BY <2>4, <3>1, <3>2
  <2>5. ASSUME NEW o \in OrderId, NEW r \in Order, order' = [order EXCEPT ![o] = r],
               \/ Untouched(order[o], r) /\ r.logged + r.paid = order[o].logged + order[o].paid
               \/ Dropped(order[o], r)
        PROVE  GiftOrder(order'[q])
    <3>1. r.gifts = order[o].gifts /\ r.offer = order[o].offer
      BY <2>5 DEF Untouched, Dropped
    <3>2. GiftOrder(r)
      BY <2>2, <3>1 DEF GiftOrder
    <3>3. order'[q] = IF q = o THEN r ELSE order[q]
      BY <2>5 DEF TypeOK
    <3> QED
      BY <2>2, <3>2, <3>3
  <2>6. ASSUME NEW u \in User, NEW f \in OrderId, NEW t \in OrderId, Joined(u, f, t)
        PROVE  GiftOrder(order'[q])
    <3>1. /\ order[f].gifts \in Quantities /\ order[t].gifts \in Quantities
          /\ order[f].offer = "none" /\ order[t].offer = "none"
          /\ GiftOrder(order[f]) /\ GiftOrder(order[t])
      BY <2>2, <2>6 DEF Joined, Mergeable, TypeOK, Order
    <3>2. GiftSum(order[f].gifts) = 0 /\ GiftSum(order[t].gifts) = 0
      BY <3>1, GiftSums DEF GiftOrder
    <3>3. /\ GiftSum(order'[f].gifts) = 0 /\ GiftSum(order'[t].gifts) = 0
          /\ GiftSum(order'[nextId].gifts) = 0
      BY <2>6, <3>1, <3>2, GiftSums DEF Joined
    <3>4. GiftOrder(order'[f]) /\ GiftOrder(order'[t]) /\ GiftOrder(order'[nextId])
      BY <3>3 DEF GiftOrder
    <3>5. q \notin {f, t, nextId} => order'[q] = order[q]
      BY <2>6 DEF Joined
    <3> QED
      BY <2>2, <3>4, <3>5
  <2> QED
    BY ONLY <2>1, <2>3, <2>4, <2>5, <2>6, Zenon DEF RowStep
<1> QED
  BY <1>1, <1>2 DEF GiftInv, GiftOrder, GiftSum

\* Gifts stay under a gift offer and within its limit, in the cart and in every
\* order (flow.rs:553-630, 719-826, order.rs:238-277), also where orders are merged
\* (order.rs:668-677).
THEOREM GiftsStayUnderOffer == Spec => []GiftsUnderOffer
<1>1. Init => GiftInv
  <2> SUFFICES ASSUME Init PROVE GiftInv
    OBVIOUS
  <2>1. /\ \A u \in User : gifts[u] = Empty
        /\ \A o \in OrderId : order[o].gifts = Empty
    BY DEF Init, NoOrder
  <2>2. 0 <= GiftLimit
    BY CheckoutAssumption
  <2> QED
    BY <2>1, <2>2, GiftSums DEF GiftInv, GiftOrder
<1>2. OrderInv => TypeOK /\ Unused
  BY DEF OrderInv
<1>3. GiftInv => GiftsUnderOffer
  BY DEF GiftInv, GiftOrder, GiftSum, GiftsUnderOffer
<1> QED
  BY <1>1, <1>2, <1>3, GiftInvStep, OrderInvariant, PTL DEF Spec

-----------------------------------------------------------------------------
(* Discounts, points and bonuses.                                          *)

\* The package is no dearer than its members.
NoMarkup == "package" \in Offers => BundlePrice <= Value(Bundle)

\* A bonus always gives a discount: it is worth something and so are the goods
\* it may be used on.
BonusesGive ==
    \A b \in Bonus : BonusMoney[b] > 0 /\ (BonusMin[b] > 0 \/ \A g \in Goods : Price[g] > 0)

OffersRun == \A u \in User : offer[u] \in Offers \union {"none"}

LEMMA OffersRunStep == TypeOK /\ OffersRun /\ [Next]_vars => OffersRun'
<1> SUFFICES ASSUME TypeOK, OffersRun, [Next]_vars PROVE OffersRun'
  OBVIOUS
<1>1. UNCHANGED offer => OffersRun'
  BY DEF OffersRun
<1>2. ASSUME NEW u \in User, NEW kind \in Offers \union {"none"},
             offer' = [offer EXCEPT ![u] = kind]
      PROVE  OffersRun'
  BY <1>2 DEF OffersRun, TypeOK
<1>3. ASSUME NEW u \in User, CartNext(u) PROVE OffersRun'
  <2>1. CASE \/ \E g \in Goods, q \in 1..MaxQty, s \in SUBSET SkuGoods : cart_add(u, g, q, s)
             \/ \E g \in Goods, q \in 1..MaxQty : cart_update(u, g, q)
             \/ \E g \in Goods : cart_delete(u, g)
             \/ \E row \in Selections(u) : select(u, row)
    BY <1>1, <2>1, Zenon DEF cart_add, cart_update, cart_delete, select, cartVars
  <2>2. CASE \/ clear(u) \/ package(u)
             \/ \E g \in Goods, q \in 1..MaxQty : linked_buy(u, g, q)
    <3>1. \E kind \in Offers \union {"none"} : offer' = [offer EXCEPT ![u] = kind]
      BY <2>2 DEF clear, package, linked_buy, ReplaceCart
    <3> QED
      BY <1>2, <3>1
  <2>3. CASE \E kind \in OfferKinds, f \in [Goods -> 0..GiftLimit] :
                (f = Only(f, GiftGoods)) /\ favourable(u, kind, f)
    <3>1. \E kind \in Offers : offer' = [offer EXCEPT ![u] = kind]
      BY <2>3 DEF favourable
    <3> QED
      BY <1>2, <3>1
  <2> QED
    BY ONLY <1>3, <2>1, <2>2, <2>3, Zenon DEF CartNext
<1>4. ASSUME NEW u \in User, OrderNext(u) PROVE OffersRun'
  <2>1. CASE \E k \in Key, p \in Payment \union {0} : order_create(u, k, p)
    <3>1. offer' = [offer EXCEPT ![u] = "none"]
      BY <2>1 DEF order_create
    <3> QED
      BY <1>2, <3>1
  <2>2. CASE ~\E k \in Key, p \in Payment \union {0} : order_create(u, k, p)
    BY <1>1, <1>4, <2>2, ZenonT(30)
       DEF OrderNext, group_buy, order_cancel, order_return_to_cart, order_merge, order_surplus,
           order_payment_patch, ship, order_received, Advance, cartVars
  <2> QED
    BY <2>1, <2>2
<1>5. CASE \/ \E o \in OrderId : payment_callback(o)
           \/ \E u \in User, k \in Key, g \in ExchangeGoods, q \in 1..MaxQty : redeem(u, k, g, q)
           \/ \E u \in User, b \in Bonus : bonus_claim(u, b)
  BY <1>1, <1>5, Zenon DEF payment_callback, redeem, bonus_claim, cartVars
<1>6. CASE UNCHANGED vars
  BY <1>1, <1>6 DEF vars
<1> QED
  BY <1>3, <1>4, <1>5, <1>6, Zenon DEF Next

\* A cart with goods that cost something is worth something.
LEMMA ValuePositive ==
    ASSUME NEW f \in Quantities, f # Empty, \A g \in Goods : Price[g] > 0
    PROVE  Value(f) > 0
<1> DEFINE w == [g \in Goods |-> Price[g] * f[g]]
<1>1. \A x, y \in Nat : x * y \in Nat /\ (x > 0 /\ y > 0 => x * y > 0)
  OBVIOUS
<1>2. \A g \in Goods : Price[g] \in Nat /\ f[g] \in Nat /\ w[g] = Price[g] * f[g]
  BY CheckoutAssumption DEF Quantities
<1>3. PICK g \in Goods : f[g] # 0
  BY <1>2 DEF Quantities, Empty
<1>4. \A h \in Goods : w[h] \in Nat
  BY <1>1, <1>2
<1>5. w[g] > 0
  <2>1. Price[g] > 0 /\ f[g] > 0 /\ Price[g] \in Nat /\ f[g] \in Nat /\ w[g] = Price[g] * f[g]
    BY <1>2, <1>3
  <2> HIDE DEF w
  <2> QED
    BY ONLY <1>1, <2>1
<1> HIDE DEF w
<1>6. SumFunctionOnSet(w, Goods) \in Nat /\ w[g] <= SumFunctionOnSet(w, Goods)
  BY <1>4, SumNat, CheckoutAssumption
<1>7. SumFunctionOnSet(w, Goods) > 0
  BY <1>4, <1>5, <1>6
<1> QED
  BY <1>7 DEF Value, w

\* An order without discount used no points and no bonus.
LEMMA NoDiscountNoFunds ==
    ASSUME TypeOK, OffersRun, NoMarkup, NEW u \in User, NEW r \in Order, Bought(u, r),
           r.discount = 0
    PROVE  r.points = 0 /\ (BonusesGive => r.bonus = Null)
<1> DEFINE goods == Value(cart[u])
           bd == BonusDiscount(u, goods)
           od == OfferDiscount(u, goods)
           pts == sel[u].points
<1>1. /\ goods \in Nat /\ Adjustable(u, goods) /\ r.points = pts /\ r.bonus = sel[u].bonus
      /\ cart[u] # Empty /\ Discount(u, goods) = 0
  BY DEF Bought
<1>2. /\ sel[u] \in Selection /\ pts \in Nat /\ sel[u].bonus \in Bonus \union {Null}
      /\ cart[u] \in Quantities /\ offer[u] \in Offers \union {"none"}
      /\ offer[u] \in OfferKinds \union {"none"}
  BY DEF TypeOK, Selection, OffersRun
<1>3. OfferHolds(u, goods) /\ pts <= goods - (bd + od)
  BY <1>1 DEF Adjustable, Combined
<1>4. /\ sel[u].bonus = Null => bd = 0
      /\ sel[u].bonus # Null => bd = Lesser(BonusMoney[sel[u].bonus], goods)
  BY DEF BonusDiscount
<1>5. bd \in Nat
  BY <1>1, <1>2, <1>4, CheckoutAssumption DEF Lesser
<1>6. od \in Nat
  <2>1. CASE offer[u] = "package"
    <3>1. cart[u] = Bundle /\ "package" \in Offers
      BY <1>2, <1>3, <2>1 DEF OfferHolds
    <3>2. BundlePrice <= goods /\ BundlePrice \in Nat
      BY <3>1, CheckoutAssumption DEF NoMarkup
    <3>3. od = goods - BundlePrice
      BY <2>1 DEF OfferDiscount
    <3> HIDE DEF goods, od
    <3> QED
      BY <1>1, <3>2, <3>3
  <2>2. CASE offer[u] = "cut"
    <3>1. od = Lesser(OfferCut, goods) /\ OfferCut \in Nat
      BY <2>2, CheckoutAssumption DEF OfferDiscount
    <3> QED
      BY <1>1, <3>1 DEF Lesser
  <2>3. CASE offer[u] \notin {"package", "cut"}
    BY <2>3 DEF OfferDiscount
  <2> QED
    BY <2>1, <2>2, <2>3
<1>7. Lesser(bd + od + pts, goods) = 0
  BY <1>1 DEF Discount, Combined
<1> HIDE DEF goods, bd, od, pts
<1>8. bd = 0 /\ pts = 0
  BY <1>1, <1>2, <1>3, <1>5, <1>6, <1>7 DEF Lesser
<1>9. ASSUME BonusesGive, sel[u].bonus # Null PROVE FALSE
  <2> DEFINE b == sel[u].bonus
  <2>1. b \in Bonus /\ BonusMoney[b] > 0 /\ BonusMoney[b] \in Nat /\ BonusMin[b] \in Nat
    BY <1>2, <1>9, CheckoutAssumption DEF BonusesGive
  <2>2. goods >= BonusMin[b]
    BY <1>1, <1>9 DEF Adjustable
  <2>3. goods > 0
    <3>1. CASE BonusMin[b] > 0
      <4> HIDE DEF b
      <4> QED
        BY <1>1, <2>1, <2>2, <3>1
    <3>2. CASE \A g \in Goods : Price[g] > 0
      BY <1>1, <1>2, <3>2, ValuePositive DEF goods
    <3> QED
      BY <1>9, <2>1, <3>1, <3>2 DEF BonusesGive
  <2>4. Lesser(BonusMoney[b], goods) > 0
    <3> HIDE DEF b
    <3> QED
      BY <1>1, <2>1, <2>3 DEF Lesser
  <2> QED
    BY <1>4, <1>8, <1>9, <2>4
<1> QED
  BY <1>1, <1>8, <1>9

\* What a pending order without discount has not used, and a merged one neither.
Undiscounted(r) == r.status = "pending_payment" /\ r.discount = 0
Bonusless(r) == Undiscounted(r) \/ r.status = "merged" => r.bonus = Null
BonusPaid == \A o \in OrderId : Bonusless(order[o])

LEMMA DiscountStep ==
    ASSUME NoMarkup
    PROVE  /\ TypeOK /\ Unused /\ OffersRun /\ DiscountPaid /\ [Next]_vars => DiscountPaid'
           /\ BonusesGive /\ TypeOK /\ Unused /\ OffersRun /\ BonusPaid /\ [Next]_vars => BonusPaid'
<1> DEFINE PointsFine(r) == Undiscounted(r) => r.points = 0
           BonusFine(r)  == Bonusless(r)
<1> SUFFICES ASSUME TypeOK, Unused, OffersRun, [Next]_vars, NEW q \in OrderId
             PROVE  /\ DiscountPaid => PointsFine(order'[q])
                    /\ BonusesGive /\ BonusPaid => BonusFine(order'[q])
  BY DEF DiscountPaid, BonusPaid, Undiscounted
<1> DEFINE Goal == /\ DiscountPaid => PointsFine(order'[q])
                   /\ BonusesGive /\ BonusPaid => BonusFine(order'[q])
<1>1. RowStep
  BY StepsAreRowSteps
<1>2. /\ DiscountPaid => \A o \in OrderId : PointsFine(order[o])
      /\ BonusPaid => \A o \in OrderId : BonusFine(order[o])
  BY DEF DiscountPaid, BonusPaid, Undiscounted
<1>3. ASSUME UNCHANGED order PROVE Goal
  BY <1>2, <1>3
<1>4. ASSUME nextId \in OrderId, NEW u \in User, NEW r \in Order, Bought(u, r) \/ Unpriced(u, r)
      PROVE  Goal
  <2>1. PointsFine(r) /\ (BonusesGive => BonusFine(r))
    BY <1>4, NoDiscountNoFunds DEF Bought, Unpriced, Undiscounted, Bonusless
  <2>2. order'[q] = IF q = nextId THEN r ELSE order[q]
    BY <1>4 DEF Bought, Unpriced, TypeOK
  <2> HIDE DEF PointsFine, BonusFine
  <2> QED
    BY <1>2, <2>1, <2>2
<1>5. ASSUME NEW o \in OrderId, NEW r \in Order, order' = [order EXCEPT ![o] = r],
             Untouched(order[o], r) \/ Dropped(order[o], r)
      PROVE  Goal
  <2>1. /\ PointsFine(order[o]) => PointsFine(r)
        /\ BonusFine(order[o]) => BonusFine(r)
    BY <1>5 DEF Untouched, Dropped, Undiscounted, Bonusless, Alive, Settled
  <2>2. order'[q] = IF q = o THEN r ELSE order[q]
    BY <1>5 DEF TypeOK
  <2> HIDE DEF PointsFine, BonusFine
  <2> QED
    BY <1>2, <2>1, <2>2
<1>6. ASSUME NEW u \in User, NEW f \in OrderId, NEW t \in OrderId, Joined(u, f, t)
      PROVE  Goal
  <2>1. \A o \in {f, t, nextId} : /\ PointsFine(order'[o])
                                  /\ BonusPaid => BonusFine(order'[o])
    BY <1>6 DEF Joined, Undiscounted, BonusPaid, Bonusless, Mergeable, Pending
  <2>2. q \notin {f, t, nextId} => order'[q] = order[q]
    BY <1>6 DEF Joined
  <2> HIDE DEF PointsFine, BonusFine
  <2> QED
    BY <1>2, <2>1, <2>2
<1> HIDE DEF Goal
<1>7. Goal
  BY ONLY <1>1, <1>3, <1>4, <1>5, <1>6, Zenon DEF RowStep
<1> QED
  BY <1>7 DEF Goal

\* Points are spent by a live order or a redemption or are still there, where no
\* package is a markup: an order that paid for a markup with points has discount
\* zero, and a merge forgets its points (order.rs:460-483, 668-680).
THEOREM PointsAreExplained ==
    ASSUME NoMarkup
    PROVE  Spec => []PointsExplained
<1> DEFINE Inv == OffersRun /\ DiscountPaid /\ PointsExplained
<1>1. Init => Inv
  <2> SUFFICES ASSUME Init PROVE Inv
    OBVIOUS
  <2>1. OffersRun /\ DiscountPaid
    BY DEF Init, OffersRun, DiscountPaid, NoOrder
  <2> QED
    BY <2>1, InitTotals, TotalsExplain
<1>2. TypeOK /\ Unused /\ Inv /\ [Next]_vars => Inv'
  <2> SUFFICES ASSUME TypeOK, Unused, Inv, [Next]_vars PROVE Inv'
    OBVIOUS
  <2>1. PointsStay
    BY StepKeepsTotals DEF Totals
  <2> QED
    BY <2>1, OffersRunStep, DiscountStep, UnitsStayConserved
<1>3. OrderInv => TypeOK /\ Unused
  BY DEF OrderInv
<1> QED
  BY <1>1, <1>2, <1>3, OrderInvariant, PTL DEF Spec

\* In every shop SKU units are not lost and points not invented, whatever the
\* package, the gifts and the mix of checkouts, merges, cancellations and
\* redemptions: a cancellation may restore a SKU for a gift that never drew on it
\* (order.rs:483-496), a merge may forget points (order.rs:668-680), and neither
\* can happen the other way round.
THEOREM SkusAndPointsErrOneWay ==
    Spec => [](/\ \A g \in Goods : SkuTotal(g) >= SkuStock0[g]
               /\ \A u \in User : PointTotal(u) <= Points0[u])
<1> DEFINE Inv == /\ \A g \in Goods : SkuTotal(g) >= SkuStock0[g]
                  /\ \A u \in User : PointTotal(u) <= Points0[u]
<1>1. TotalsAreNat /\ TypeOK'
         => /\ \A g \in Goods : SkuTotal(g)' \in Nat /\ SkuTotal(g) \in Nat
            /\ \A u \in User : PointTotal(u)' \in Nat /\ PointTotal(u) \in Nat
  <2>1. TypeOK' => TotalsAreNat'
    BY TotalTypes, PTL
  <2> QED
    BY <2>1 DEF TotalsAreNat
<1>2. /\ \A g \in Goods : SkuStock0[g] \in Nat
      /\ \A u \in User : Points0[u] \in Nat
  BY CheckoutAssumption
<1>3. Init => Inv
  BY <1>2, InitTotals
<1>4. TypeOK /\ TypeOK' /\ Unused /\ Inv /\ [Next]_vars => Inv'
  <2> SUFFICES ASSUME TypeOK, TypeOK', Unused, Inv, [Next]_vars PROVE Inv'
    OBVIOUS
  <2>1. OneSided
    BY StepKeepsTotals DEF Totals
  <2>2. TotalsAreNat
    BY TotalTypes
  <2>3. \A g \in Goods : SkuTotal(g)' >= SkuStock0[g]
    BY <1>1, <1>2, <2>1, <2>2 DEF OneSided
  <2>4. \A u \in User : PointTotal(u)' <= Points0[u]
    BY <1>1, <1>2, <2>1, <2>2 DEF OneSided
  <2> QED
    BY <2>3, <2>4
<1>5. OrderInv => TypeOK /\ Unused
  BY DEF OrderInv
<1> QED
  BY <1>3, <1>4, <1>5, OrderInvariant, PTL DEF Spec

\* Live orders have a user; who uses a bonus and which bonus an order uses agree.
Using == Alive \union {"merged"}
BonusOf(b) ==
    /\ bonus[b].order # 0 => /\ order[bonus[b].order].status \in Using
                             /\ order[bonus[b].order].bonus = b
                             /\ order[bonus[b].order].user = bonus[b].owner
    /\ \A o \in OrderId : order[o].status \in Alive /\ order[o].bonus = b => bonus[b].order = o
BonusInv ==
    /\ \A o \in OrderId : order[o].status \in Using => order[o].user \in User
    /\ \A b \in Bonus : BonusOf(b)

LEMMA BonusInvStep ==
    ASSUME TypeOK, Unused, BonusInv, [Next]_vars
    PROVE  BonusInv'
<1> DEFINE Goal == BonusInv'
<1>1. RowStep
  BY StepsAreRowSteps
<1>2. /\ 0 \notin OrderId /\ Null \notin User /\ Null \notin Bonus
      /\ \A b \in Bonus : bonus[b].order \in {0} \union OrderId
      /\ Alive \subseteq Using
  BY CheckoutAssumption DEF OrderId, TypeOK, Using
<1>3. /\ \A o \in OrderId : order[o].status \in Using => order[o].user \in User
      /\ \A b \in Bonus : bonus[b].order # 0 =>
             /\ order[bonus[b].order].status \in Using
             /\ order[bonus[b].order].bonus = b
             /\ order[bonus[b].order].user = bonus[b].owner
      /\ \A b \in Bonus, o \in OrderId :
             order[o].status \in Alive /\ order[o].bonus = b => bonus[b].order = o
  BY DEF BonusInv, BonusOf
<1>4. nextId \in OrderId => order[nextId].status \notin Using
  BY DEF Unused, NoOrder, Using, Alive, Settled, TypeOK
<1>5. ASSUME \A o \in OrderId : order'[o].status \in Using => order'[o].user \in User,
             \A b \in Bonus : bonus'[b].order # 0 =>
                 /\ order'[bonus'[b].order].status \in Using
                 /\ order'[bonus'[b].order].bonus = b
                 /\ order'[bonus'[b].order].user = bonus'[b].owner,
             \A b \in Bonus, o \in OrderId :
                 order'[o].status \in Alive /\ order'[o].bonus = b => bonus'[b].order = o
      PROVE  Goal
  BY <1>5 DEF BonusInv, BonusOf, Using, Alive, Settled
<1> HIDE DEF Goal
<1>6. ASSUME UNCHANGED order, UNCHANGED bonus \/ Claimed PROVE Goal
  <2>1. CASE UNCHANGED bonus
    BY ONLY <1>2, <1>3, <1>5, <1>6, <2>1
  <2>2. CASE Claimed
    <3>1. PICK u \in User, c \in Bonus :
              bonus[c].owner = Null /\ bonus' = [bonus EXCEPT ![c].owner = u]
      BY <2>2 DEF Claimed
    <3>2. \A b \in Bonus : /\ bonus'[b].order = bonus[b].order
                           /\ b # c => bonus'[b].owner = bonus[b].owner
      BY <3>1 DEF TypeOK
    <3>3. bonus[c].order = 0
      BY <1>2, <1>3, <3>1
    <3> QED
      BY ONLY <1>3, <1>5, <1>6, <3>2, <3>3
  <2> QED
    BY <1>6, <2>1, <2>2
<1>7. ASSUME nextId \in OrderId, NEW u \in User, NEW r \in Order, Bought(u, r)
      PROVE  Goal
  <2>1. /\ order'[nextId] = r /\ \A o \in OrderId \ {nextId} : order'[o] = order[o]
        /\ r.user = u
    BY <1>7 DEF Bought, TypeOK
  <2>2. CASE r.bonus = Null
    <3>1. bonus' = bonus
      BY <1>7, <2>2 DEF Bought
    <3> QED
      BY ONLY <1>2, <1>3, <1>4, <1>5, <1>7, <2>1, <2>2, <3>1
  <2>3. CASE r.bonus # Null
    <3> DEFINE c == r.bonus
    <3>1. c \in Bonus
      BY <1>7, <2>3 DEF Order
    <3>2. bonus[c].order = 0 /\ bonus[c].owner = u
      BY <1>7, <2>3 DEF Bought, Adjustable, BonusUsable
    <3>3. r.status \in Alive
      BY <1>7 DEF Bought, Alive, Settled
    <3>4. /\ bonus'[c].order = nextId /\ bonus'[c].owner = u
          /\ \A b \in Bonus \ {c} : bonus'[b] = bonus[b]
      BY <1>7, <2>3, <3>1, <3>2 DEF Bought, TypeOK
    <3> QED
      BY ONLY <1>2, <1>3, <1>4, <1>5, <1>7, <2>1, <3>1, <3>2, <3>3, <3>4
  <2> QED
    BY <2>2, <2>3
<1>8. ASSUME nextId \in OrderId, NEW u \in User, NEW r \in Order, Unpriced(u, r)
      PROVE  Goal
  <2>1. /\ order'[nextId] = r /\ \A o \in OrderId \ {nextId} : order'[o] = order[o]
        /\ r.user = u /\ r.bonus = Null /\ bonus' = bonus
    BY <1>8 DEF Unpriced, TypeOK
  <2> QED
    BY ONLY <1>2, <1>3, <1>4, <1>5, <1>8, <2>1
<1>9. ASSUME NEW o \in OrderId, NEW r \in Order, order' = [order EXCEPT ![o] = r],
             Untouched(order[o], r), UNCHANGED bonus
      PROVE  Goal
  <2>1. /\ order'[o] = r /\ \A q \in OrderId \ {o} : order'[q] = order[q]
        /\ r.user = order[o].user /\ r.bonus = order[o].bonus
        /\ r.status \in Alive /\ order[o].status \in Alive
    BY <1>9 DEF Untouched, TypeOK
  <2> QED
    BY ONLY <1>2, <1>3, <1>5, <1>9, <2>1
<1>10. ASSUME NEW o \in OrderId, NEW r \in Order, order' = [order EXCEPT ![o] = r],
              Dropped(order[o], r), Freed(o)
       PROVE  Goal
  <2>1. /\ order'[o] = r /\ \A q \in OrderId \ {o} : order'[q] = order[q]
        /\ r.status \notin Using /\ order[o].status \in Alive
    BY <1>10 DEF Dropped, TypeOK, Using, Alive, Settled
  <2>2. \A b \in Bonus : /\ bonus[b].order = o => bonus'[b].order = 0
                         /\ bonus[b].order # o => bonus'[b] = bonus[b]
    <3> SUFFICES ASSUME NEW b \in Bonus
                 PROVE  /\ bonus[b].order = o => bonus'[b].order = 0
                        /\ bonus[b].order # o => bonus'[b] = bonus[b]
      OBVIOUS
    <3>1. bonus'[b] = IF bonus[b].order = o /\ bonus[b].owner = order[o].user
                      THEN [bonus[b] EXCEPT !.order = 0] ELSE bonus[b]
      BY <1>10 DEF Freed
    <3>2. bonus[b].order = o => bonus[b].owner = order[o].user
      BY <1>2, <1>3
    <3> QED
      BY <3>1, <3>2 DEF TypeOK
  <2> QED
    BY ONLY <1>2, <1>3, <1>5, <1>10, <2>1, <2>2
<1>11. ASSUME NEW u \in User, NEW f \in OrderId, NEW t \in OrderId, Joined(u, f, t)
       PROVE  Goal
  <2>1. /\ nextId \in OrderId
        /\ \A q \in OrderId \ {f, t, nextId} : order'[q] = order[q]
        /\ order'[nextId].user = u /\ order'[nextId].bonus = Null /\ UNCHANGED bonus
        /\ \A q \in {f, t} : /\ order'[q].status \in Using \ Alive
                             /\ order[q].status \in Using
                             /\ order'[q].user = order[q].user
                             /\ order'[q].bonus = order[q].bonus
    BY <1>11 DEF Joined, Mergeable, Pending, Using, Alive, Settled
  <2>2. \A o \in OrderId : order'[o].status \in Using => order'[o].user \in User
    BY ONLY <1>3, <1>11, <2>1
  <2>3. \A b \in Bonus : bonus[b].order # 0 =>
            /\ order'[bonus[b].order].status \in Using
            /\ order'[bonus[b].order].bonus = b
            /\ order'[bonus[b].order].user = bonus[b].owner
    BY ONLY <1>2, <1>3, <1>4, <2>1
  <2>4. \A b \in Bonus, o \in OrderId :
            order'[o].status \in Alive /\ order'[o].bonus = b => bonus[b].order = o
    BY ONLY <1>2, <1>3, <2>1
  <2> QED
    BY ONLY <1>5, <2>1, <2>2, <2>3, <2>4
<1>12. Goal
  BY ONLY <1>1, <1>6, <1>7, <1>8, <1>9, <1>10, <1>11, Zenon DEF RowStep
<1> QED
  BY <1>12 DEF Goal

\* Which order holds a bonus, in every shop: no two live orders use it, and an
\* order it is booked on is one of its owner that uses it and is live or was
\* merged away.  In particular a cancellation always frees it (order.rs:466-475)
\* and no checkout takes a bonus that another order holds (flow.rs:228-247).
THEOREM NoBonusIsUsedTwice ==
    Spec => [](\A b \in Bonus :
                  /\ \A o \in OrderId : Live(o) /\ order[o].bonus = b => bonus[b].order = o
                  /\ bonus[b].order # 0 =>
                        /\ Live(bonus[b].order) \/ order[bonus[b].order].status = "merged"
                        /\ order[bonus[b].order].bonus = b
                        /\ order[bonus[b].order].user = bonus[b].owner)
<1>1. Init => BonusInv
  BY DEF Init, BonusInv, BonusOf, NoOrder, Using, Alive, Settled
<1>2. TypeOK /\ Unused /\ BonusInv /\ [Next]_vars => BonusInv'
  BY BonusInvStep
<1>3. OrderInv => TypeOK /\ Unused
  BY DEF OrderInv
<1>4. BonusInv =>
        \A b \in Bonus :
           /\ \A o \in OrderId : Live(o) /\ order[o].bonus = b => bonus[b].order = o
           /\ bonus[b].order # 0 =>
                 /\ Live(bonus[b].order) \/ order[bonus[b].order].status = "merged"
                 /\ order[bonus[b].order].bonus = b
                 /\ order[bonus[b].order].user = bonus[b].owner
  BY DEF BonusInv, BonusOf, Live, Using, Alive
<1> QED
  BY <1>1, <1>2, <1>3, <1>4, OrderInvariant, PTL DEF Spec

\* A bonus is used by exactly the live order that got its discount, where no
\* package is a markup and every bonus gives a discount: an order that used a
\* bonus without gaining anything may be merged, and the bonus is then neither
\* on an order nor free (flow.rs:201-279, order.rs:460-483, 668-680).
THEOREM BonusesAreUsedOnce ==
    ASSUME NoMarkup, BonusesGive
    PROVE  Spec => []BonusUsedOnce
<1> DEFINE Inv == OffersRun /\ BonusPaid /\ BonusInv
<1>1. Init => Inv
  BY DEF Init, OffersRun, BonusPaid, BonusInv, BonusOf, NoOrder, Undiscounted, Bonusless, Using,
         Alive, Settled
<1>2. TypeOK /\ Unused /\ Inv /\ [Next]_vars => Inv'
  <2> SUFFICES ASSUME TypeOK, Unused, Inv, [Next]_vars PROVE Inv'
    OBVIOUS
  <2> QED
    BY OffersRunStep, DiscountStep, BonusInvStep
<1>3. OrderInv => TypeOK /\ Unused
  BY DEF OrderInv
<1>4. TypeOK /\ Inv => BonusUsedOnce
  <2> SUFFICES ASSUME TypeOK, Inv, NEW b \in Bonus, bonus[b].order # 0
               PROVE  Live(bonus[b].order)
    BY DEF BonusInv, BonusOf, BonusUsedOnce, Live, Alive
  <2>1. bonus[b].order \in OrderId /\ b # Null
    BY CheckoutAssumption DEF TypeOK
  <2> QED
    BY <2>1 DEF BonusInv, BonusOf, BonusPaid, Bonusless, Live, Using, Alive
<1> QED
  BY <1>1, <1>2, <1>3, <1>4, OrderInvariant, PTL DEF Spec
=============================================================================
