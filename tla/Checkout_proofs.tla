--------------------------- MODULE Checkout_proofs ---------------------------
(***************************************************************************)
(* Theorems about module Checkout, for every shop, whose handlers run one  *)
(* after the other: all of them on SQLite, and on MySQL all but the ones   *)
(* the header of Checkout names.  Settlement_proofs has payments, merges   *)
(* and cancellations that overlap.                                         *)
(***************************************************************************)
EXTENDS Checkout, TLAPS

\* The helpers on quantities stay within the quantities.
LEMMA QuantityTypes ==
    /\ Empty \in Quantities
    /\ \A f, h \in Quantities : Plus(f, h) \in Quantities
    /\ \A f, h \in Quantities : AtMost(h, f) => Minus(f, h) \in Quantities
    /\ \A f \in Quantities : \A S : Only(f, S) \in Quantities
    /\ \A f \in Quantities, g \in Goods, q \in Nat : [f EXCEPT ![g] = q] \in Quantities
BY DEF Quantities, Empty, Plus, Minus, AtMost, Only

LEMMA NoOrderType == NoOrder \in Order
BY QuantityTypes, CheckoutAssumption DEF NoOrder, Order, Status, OfferKinds

\* Updating fields of an order, one at a time.
LEMMA FieldTypes ==
    ASSUME NEW r \in Order
    PROVE  /\ \A v \in Status : [r EXCEPT !.status = v] \in Order
           /\ \A v \in Quantities : [r EXCEPT !.lines = v] \in Order
           /\ \A v \in Quantities : [r EXCEPT !.gifts = v] \in Order
           /\ \A v \in Payment : [r EXCEPT !.pay = v] \in Order
           /\ \A v \in Nat : [r EXCEPT !.payFee = v] \in Order
           /\ \A v \in Int : [r EXCEPT !.amount = v] \in Order
           /\ \A v \in Nat : [r EXCEPT !.paid = v] \in Order
           /\ \A v \in Int : [r EXCEPT !.logged = v] \in Order
           /\ \A v \in Int : [r EXCEPT !.channel = v] \in Order
BY DEF Order

LEMMA InitType == Init => TypeOK
BY QuantityTypes, NoOrderType, CheckoutAssumption
   DEF Init, TypeOK, EmptySel, Selection, OfferKinds, Quantities, OrderId

LEMMA CartStepType ==
    ASSUME TypeOK, NEW u \in User, CartNext(u)
    PROVE  TypeOK'
<1> USE CheckoutAssumption, QuantityTypes
<1> USE DEF TypeOK, goodsVars, cartVars, fundVars, orderVars
<1>1. ASSUME NEW g \in Goods, NEW q \in 1..MaxQty, NEW s \in SUBSET SkuGoods, cart_add(u, g, q, s)
      PROVE  TypeOK'
  BY <1>1 DEF cart_add, Quantities
<1>2. ASSUME NEW g \in Goods, NEW q \in 1..MaxQty, cart_update(u, g, q)
      PROVE  TypeOK'
  BY <1>2 DEF cart_update, Quantities
<1>3. ASSUME NEW g \in Goods, cart_delete(u, g) PROVE TypeOK'
  BY <1>3 DEF cart_delete, Quantities
<1>4. ASSUME NEW f \in Quantities, NEW kind \in OfferKinds \union {"none"}, ReplaceCart(u, f, kind)
      PROVE  TypeOK'
  BY <1>4 DEF ReplaceCart
<1>5. CASE clear(u)
  BY <1>4, <1>5 DEF clear
<1>6. ASSUME NEW g \in Goods, NEW q \in 1..MaxQty, linked_buy(u, g, q) PROVE TypeOK'
  <2>1. q \in Nat /\ [Empty EXCEPT ![g] = q] \in Quantities
    OBVIOUS
  <2> QED
    BY <1>4, <1>6, <2>1 DEF linked_buy
<1>7. CASE package(u)
  BY <1>4, <1>7 DEF package, OfferKinds, Quantities
<1>8. ASSUME NEW kind \in OfferKinds, NEW f \in [Goods -> 0..GiftLimit], favourable(u, kind, f)
      PROVE  TypeOK'
  <2>1. f \in Quantities
    BY DEF Quantities
  <2> QED
    BY <1>8, <2>1 DEF favourable
<1>9. ASSUME NEW row \in Selection, select(u, row) PROVE TypeOK'
  BY <1>9 DEF select
<1>10. Selections(u) \subseteq Selection
  <2>1. sel[u] \in Selection
    OBVIOUS
  <2>2. /\ \A p \in Payment : [sel[u] EXCEPT !.pay = p] \in Selection
        /\ \A v \in Packs \union {Null} : [sel[u] EXCEPT !.pack = v] \in Selection
        /\ \A v \in PointChoice : [sel[u] EXCEPT !.points = v] \in Selection
        /\ \A v \in SurplusChoice : [sel[u] EXCEPT !.surplus = v] \in Selection
        /\ \A b \in Bonus \union {Null} : [sel[u] EXCEPT !.bonus = b] \in Selection
    BY <2>1 DEF Selection
  <2> HIDE DEF Selection
  <2> QED
    BY ONLY <2>2, Zenon DEF Selections
<1> HIDE DEF TypeOK, goodsVars, cartVars, fundVars, orderVars
<1>11. CASE \/ \E g \in Goods, q \in 1..MaxQty, s \in SUBSET SkuGoods : cart_add(u, g, q, s)
            \/ \E g \in Goods, q \in 1..MaxQty : cart_update(u, g, q)
            \/ \E g \in Goods : cart_delete(u, g)
            \/ clear(u)
            \/ \E g \in Goods, q \in 1..MaxQty : linked_buy(u, g, q)
            \/ package(u)
  BY ONLY <1>11, <1>1, <1>2, <1>3, <1>5, <1>6, <1>7, Zenon
<1>12. CASE \/ \E kind \in OfferKinds, f \in [Goods -> 0..GiftLimit] :
                  (f = Only(f, GiftGoods)) /\ favourable(u, kind, f)
            \/ \E row \in Selections(u) : select(u, row)
  BY ONLY <1>12, <1>8, <1>9, <1>10, Zenon
<1> QED
  BY ONLY <1>11, <1>12, CartNext(u), Zenon DEF CartNext
LEMMA DiscountParts ==
    ASSUME TypeOK, NEW u \in User, NEW goods \in Nat
    PROVE  /\ BonusDiscount(u, goods) \in Int /\ OfferDiscount(u, goods) \in Int
           /\ sel[u].points \in Nat
<1>1. sel[u] \in Selection /\ offer[u] \in OfferKinds \union {"none"}
  BY DEF TypeOK
<1>2. BonusDiscount(u, goods) \in Int
  BY <1>1, CheckoutAssumption DEF BonusDiscount, Selection, Lesser
<1>3. OfferDiscount(u, goods) \in Int
  BY <1>1, CheckoutAssumption DEF OfferDiscount, Lesser, OfferKinds
<1> QED
  BY <1>1, <1>2, <1>3 DEF Selection

LEMMA DiscountType ==
    ASSUME TypeOK, NEW u \in User, NEW goods \in Nat
    PROVE  Discount(u, goods) \in Int
BY DiscountParts DEF Discount, Combined, Lesser

\* The row order_create writes, by the values its LETs give.
NewOrder(u, k, pay, goods, amount, disc, paid) ==
    [status |-> IF paid = amount THEN "paid" ELSE "pending_payment",
     user |-> u, key |-> k,
     pay |-> pay, lines |-> cart[u], gifts |-> gifts[u],
     sku |-> spec[u], goods |-> goods, ship |-> ShippingFee,
     payFee |-> PayFee[pay], amount |-> amount, discount |-> disc,
     offer |-> IF offer[u] = "package" THEN "none" ELSE offer[u],
     points |-> sel[u].points, bonus |-> sel[u].bonus,
     paid |-> paid, logged |-> -paid, channel |-> 0]

LEMMA NewOrderType ==
    ASSUME TypeOK, NEW u \in User, NEW k \in Key,
           NEW pay \in Payment, NEW goods \in Nat, NEW amount \in Nat, NEW disc \in Int,
           NEW paid \in Nat
    PROVE  NewOrder(u, k, pay, goods, amount, disc, paid) \in Order
<1>1. /\ sel[u] \in Selection /\ offer[u] \in OfferKinds \union {"none"}
      /\ cart[u] \in Quantities /\ gifts[u] \in Quantities /\ spec[u] \in SUBSET Goods
  BY CheckoutAssumption DEF TypeOK
<1>2. sel[u].points \in Nat /\ sel[u].bonus \in Bonus \union {Null}
  BY <1>1 DEF Selection
<1>3. PayFee[pay] \in Nat /\ ShippingFee \in Nat /\ -paid \in Int
  BY CheckoutAssumption
<1>4. (IF offer[u] = "package" THEN "none" ELSE offer[u]) \in OfferKinds \union {"none"}
  BY <1>1
<1>5. (IF paid = amount THEN "paid" ELSE "pending_payment") \in Status
  BY DEF Status
<1> QED
  BY <1>1, <1>2, <1>3, <1>4, <1>5 DEF NewOrder, Order

LEMMA OrderCreateFacts ==
    ASSUME TypeOK, NEW u \in User, NEW k \in Key, NEW p \in Payment \union {0},
           order_create(u, k, p)
    PROVE  \E goods \in Nat, amount \in Nat, disc \in Int, paid \in Nat, pay \in Payment :
              /\ goods = Value(cart[u]) /\ disc = Discount(u, goods)
              /\ paid <= balance[u]
              /\ order' = [order EXCEPT ![nextId] =
                               NewOrder(u, k, pay, goods, amount, disc, paid)]
              /\ balance' = [balance EXCEPT ![u] = @ - paid]
<1> DEFINE goods  == Value(cart[u])
           pay    == Filled(u, p)
           disc   == Discount(u, goods)
           amount == goods + ShippingFee + PayFee[pay] + Extra(u) - disc
           paid   == Lesser(sel[u].surplus, amount)
<1>1. goods \in Nat /\ amount \in Nat /\ pay \in Payment
  BY CheckoutAssumption DEF order_create, Money
<1>2. disc \in Int /\ goods = Value(cart[u]) /\ disc = Discount(u, goods)
  BY <1>1, DiscountType
<1>3. sel[u].surplus \in Nat
  BY DEF TypeOK, Selection
<1>4. paid \in Nat
  BY <1>1, <1>3 DEF Lesser
<1>5. /\ paid <= balance[u]
      /\ order' = [order EXCEPT ![nextId] = NewOrder(u, k, pay, goods, amount, disc, paid)]
      /\ balance' = [balance EXCEPT ![u] = @ - paid]
  BY DEF order_create, NewOrder
<1> QED
  <2> HIDE DEF goods, pay, disc, amount, paid
  <2> QED
    BY <1>1, <1>2, <1>4, <1>5

LEMMA OrderCreateType ==
    ASSUME TypeOK, NEW u \in User, NEW k \in Key, NEW p \in Payment \union {0},
           order_create(u, k, p)
    PROVE  TypeOK'
<1>1. nextId \in OrderId /\ nextId' \in Nat
  BY DEF order_create, TypeOK, OrderId
<1>2. PICK goods \in Nat, amount \in Nat, disc \in Int, paid \in Nat, pay \in Payment :
          /\ goods = Value(cart[u]) /\ disc = Discount(u, goods)
          /\ paid <= balance[u]
          /\ order' = [order EXCEPT ![nextId] = NewOrder(u, k, pay, goods, amount, disc, paid)]
          /\ balance' = [balance EXCEPT ![u] = @ - paid]
  BY OrderCreateFacts, Zenon
<1>3. order' \in [OrderId -> Order]
  BY <1>1, <1>2, NewOrderType DEF TypeOK
<1>4. balance' \in [User -> Nat]
  BY <1>2 DEF TypeOK
<1>5. stock' \in Quantities /\ skuStock' \in Quantities
  BY QuantityTypes DEF order_create, TypeOK, Sellable
<1>6. points' \in [User -> Nat]
  <2>1. sel[u].points \in Nat /\ sel[u].points <= points[u]
    BY DEF order_create, Adjustable, TypeOK, Selection
  <2> QED
    BY <2>1 DEF order_create, TypeOK
<1>7. bonus' \in [Bonus -> [owner : User \union {Null}, order : {0} \union OrderId]]
  BY <1>1, ZenonT(30) DEF order_create, TypeOK, Selection
<1>8. sel' \in [User -> Selection]
  BY CheckoutAssumption DEF order_create, TypeOK, EmptySel, Selection
<1>9. /\ cart' \in [User -> Quantities] /\ gifts' \in [User -> Quantities]
      /\ spec' \in [User -> SUBSET SkuGoods] /\ offer' \in [User -> OfferKinds \union {"none"}]
      /\ redeemed' \in [User -> [Key -> Quantities]]
  BY QuantityTypes DEF order_create, TypeOK
<1> QED
  BY <1>1, <1>3, <1>4, <1>5, <1>6, <1>7, <1>8, <1>9 DEF TypeOK

LEMMA PlainOrderType ==
    ASSUME NEW u \in User, NEW k \in Key \union {Null}, NEW p \in Payment \union {0},
           NEW lines \in Quantities, NEW given \in Quantities,
           NEW goods \in Nat, NEW fee \in Nat, NEW payFee \in Nat
    PROVE  PlainOrder(u, k, p, lines, given, goods, fee, payFee) \in Order
BY DEF PlainOrder, Order, Status

LEMMA GroupBuyType ==
    ASSUME TypeOK, NEW u \in User, NEW k \in Key, NEW g \in GroupGoods, NEW q \in 1..MaxQty,
           NEW p \in Payment, group_buy(u, k, g, q, p)
    PROVE  TypeOK'
<1> DEFINE goods == GroupPrice[g] * q
           line  == [Empty EXCEPT ![g] = q]
<1>1. g \in Goods /\ q \in Nat /\ GroupPrice[g] \in Nat /\ PayFee[p] \in Nat
      /\ ShippingFee \in Nat
  BY CheckoutAssumption
<1>2. goods \in Nat
  BY <1>1
<1>3. line \in Quantities /\ Empty \in Quantities
  BY <1>1, QuantityTypes
<1>4. AtMost(line, stock)
  BY <1>1 DEF group_buy, AtMost, Empty, TypeOK, Quantities
<1>5. stock' \in Quantities
  BY <1>3, <1>4, QuantityTypes DEF group_buy, TypeOK
<1>6. nextId \in OrderId /\ nextId' \in Nat
  BY DEF group_buy, TypeOK
<1>7. PlainOrder(u, k, p, line, Empty, goods, ShippingFee, PayFee[p]) \in Order
  BY <1>1, <1>2, <1>3, PlainOrderType
<1>8. order' \in [OrderId -> Order]
  BY <1>6, <1>7 DEF group_buy, TypeOK
<1> QED
  BY <1>5, <1>6, <1>8 DEF group_buy, TypeOK, cartVars, fundVars

LEMMA CancelType ==
    ASSUME TypeOK, NEW u \in User, NEW o \in OrderId, order_cancel(u, o)
    PROVE  TypeOK'
<1>1. order[o] \in Order
  BY DEF TypeOK
<1>2. /\ order[o].lines \in Quantities /\ order[o].gifts \in Quantities
      /\ order[o].points \in Nat /\ order[o].paid \in Nat /\ order[o].logged \in Int
  BY <1>1 DEF Order
<1>3. stock' \in Quantities /\ skuStock' \in Quantities
  BY <1>2, QuantityTypes DEF order_cancel, TypeOK
<1>4. points' \in [User -> Nat] /\ balance' \in [User -> Nat]
  BY <1>2 DEF order_cancel, TypeOK
<1>5. bonus' \in [Bonus -> [owner : User \union {Null}, order : {0} \union OrderId]]
  BY DEF order_cancel, TypeOK
<1>6. [order[o] EXCEPT !.status = "cancelled", !.logged = @ + order[o].paid] \in Order
  <2> DEFINE r == [order[o] EXCEPT !.status = "cancelled"]
  <2>1. r \in Order
    BY <1>1, FieldTypes DEF Status
  <2>2. order[o].logged + order[o].paid \in Int
    BY <1>2
  <2> HIDE DEF r
  <2>3. [r EXCEPT !.logged = order[o].logged + order[o].paid] \in Order
    BY <2>1, <2>2, FieldTypes, Zenon
  <2> QED
    BY <2>3, Zenon DEF r
<1>7. order' = [order EXCEPT ![o] =
                   [order[o] EXCEPT !.status = "cancelled", !.logged = @ + order[o].paid]]
  BY DEF order_cancel, TypeOK
<1>8. order' \in [OrderId -> Order]
  BY <1>6, <1>7 DEF TypeOK
<1> QED
  BY <1>3, <1>4, <1>5, <1>8 DEF order_cancel, TypeOK, cartVars

LEMMA ReturnType ==
    ASSUME TypeOK, NEW u \in User, NEW o \in OrderId, order_return_to_cart(u, o)
    PROVE  TypeOK'
<1>1. order[o].lines \in Quantities /\ order[o].gifts \in Quantities
  BY DEF TypeOK, Order
<1>2. Plus(order[o].lines, order[o].gifts) \in Quantities
  BY <1>1, QuantityTypes
<1>3. cart[u] \in Quantities
  BY DEF TypeOK
<1>4. cart' \in [User -> Quantities]
  BY <1>2, <1>3 DEF order_return_to_cart, TypeOK, Quantities, Lesser
<1> QED
  BY <1>4 DEF order_return_to_cart, TypeOK, goodsVars, fundVars, orderVars

LEMMA OrderUpdate ==
    ASSUME TypeOK, NEW o \in OrderId, NEW r \in Order, order' = [order EXCEPT ![o] = r],
           UNCHANGED <<stock, skuStock, cart, spec, sel, offer, gifts, points, balance,
                       bonus, redeemed, nextId>>
    PROVE  TypeOK'
BY DEF TypeOK

LEMMA MergeType ==
    ASSUME TypeOK, NEW u \in User, NEW f \in OrderId, NEW t \in OrderId, order_merge(u, f, t)
    PROVE  TypeOK'
<1> DEFINE r1 == [order[f] EXCEPT !.status = "merged"]
           r2 == [r1 EXCEPT !.lines = Empty]
           r3 == [r2 EXCEPT !.gifts = Empty]
           s3 == [order[t] EXCEPT !.status = "merged"]
           new == PlainOrder(u, Null, order[f].pay, Plus(order[f].lines, order[t].lines),
                             Plus(order[f].gifts, order[t].gifts),
                             order[f].goods + order[t].goods, order[f].ship + order[t].ship,
                             order[f].payFee + order[t].payFee)
<1>1. order[f] \in Order /\ order[t] \in Order
  BY DEF TypeOK
<1>2. r1 \in Order /\ s3 \in Order
  BY <1>1, FieldTypes DEF Status
<1>3. r2 \in Order
  <2> HIDE DEF r1
  <2> QED
    BY <1>2, QuantityTypes, FieldTypes, Zenon
<1>4. r3 \in Order
  <2> HIDE DEF r2
  <2> QED
    BY <1>3, QuantityTypes, FieldTypes, Zenon
<1>5. new \in Order
  <2>1. \A o \in {f, t} :
           /\ order[o].goods \in Nat /\ order[o].ship \in Nat /\ order[o].payFee \in Nat
           /\ order[o].lines \in Quantities /\ order[o].gifts \in Quantities
           /\ order[o].pay \in Payment \union {0}
    BY <1>1 DEF Order
  <2>2. /\ Plus(order[f].lines, order[t].lines) \in Quantities
        /\ Plus(order[f].gifts, order[t].gifts) \in Quantities
    BY <2>1, QuantityTypes
  <2>3. /\ order[f].goods + order[t].goods \in Nat /\ order[f].ship + order[t].ship \in Nat
        /\ order[f].payFee + order[t].payFee \in Nat
    BY <2>1
  <2>4. order[f].pay \in Payment \union {0} /\ Null \in Key \union {Null}
    BY <2>1
  <2> QED
    BY <2>2, <2>3, <2>4, PlainOrderType, Zenon
<1>6. nextId \in OrderId /\ f # t /\ nextId' \in Nat
  BY DEF order_merge, TypeOK
<1>7. order' = [order EXCEPT ![f] = r3, ![t].status = "merged", ![nextId] = new]
  BY Zenon DEF order_merge
<1>8. order' = [[[order EXCEPT ![f] = r3] EXCEPT ![t] = s3] EXCEPT ![nextId] = new]
  <2> HIDE DEF r3, new
  <2> QED
    BY <1>6, <1>7 DEF TypeOK
<1>9. order' \in [OrderId -> Order]
  <2> HIDE DEF r3, new, s3
  <2> QED
    BY <1>2, <1>4, <1>5, <1>6, <1>8 DEF TypeOK
<1> QED
  BY <1>6, <1>9 DEF order_merge, TypeOK, cartVars, goodsVars, fundVars

\* What order_surplus does to the row of the order.
SurplusRow(o, cents) ==
    [order[o] EXCEPT !.paid = order[o].paid + cents, !.logged = order[o].logged - cents,
                     !.status = IF cents = order[o].amount - order[o].paid
                                THEN "paid" ELSE "pending_payment"]

LEMMA SurplusFacts ==
    ASSUME TypeOK, NEW u \in User, NEW o \in OrderId, NEW c \in SurplusChoice \ {0},
           order_surplus(u, o, c)
    PROVE  \E cents \in Nat, r \in Order :
              /\ cents <= balance[u] /\ balance' = [balance EXCEPT ![u] = @ - cents]
              /\ order' = [order EXCEPT ![o] = r]
              /\ r = SurplusRow(o, cents)
<1> DEFINE rest  == order[o].amount - order[o].paid
           cents == Lesser(c, rest)
           r1 == [order[o] EXCEPT !.paid = order[o].paid + cents]
           r2 == [r1 EXCEPT !.logged = order[o].logged - cents]
           st == IF cents = rest THEN "paid" ELSE "pending_payment"
           r3 == [r2 EXCEPT !.status = st]
<1>1. order[o] \in Order
  BY DEF TypeOK
<1>2. order[o].amount \in Int /\ order[o].paid \in Nat /\ order[o].logged \in Int
      /\ order[o].status \in Status
  BY <1>1 DEF Order
<1>3. c \in Nat /\ rest > 0
  BY CheckoutAssumption DEF order_surplus
<1>4. cents \in Nat
  BY <1>2, <1>3 DEF Lesser
<1>5. r1 \in Order
  <2>1. order[o].paid + cents \in Nat
    BY <1>2, <1>4
  <2> QED
    BY <1>1, <2>1, FieldTypes, Zenon
<1>6. order[o].logged - cents \in Int /\ st \in Status
  BY <1>2, <1>4 DEF Status
<1>7. r2 \in Order
  <2> HIDE DEF r1, cents
  <2> QED
    BY <1>5, <1>6, FieldTypes, Zenon
<1>8. r3 \in Order
  <2> HIDE DEF r2, st
  <2> QED
    BY <1>6, <1>7, FieldTypes, Zenon
<1>9. r3 = SurplusRow(o, cents)
  BY DEF SurplusRow
<1>10. /\ cents <= balance[u] /\ balance' = [balance EXCEPT ![u] = @ - cents]
       /\ order' = [order EXCEPT ![o] = r3]
  BY Zenon DEF order_surplus
<1> QED
  <2> HIDE DEF cents, r3
  <2> QED
    BY <1>4, <1>8, <1>9, <1>10

LEMMA SurplusType ==
    ASSUME TypeOK, NEW u \in User, NEW o \in OrderId, NEW c \in SurplusChoice \ {0},
           order_surplus(u, o, c)
    PROVE  TypeOK'
<1>1. PICK cents \in Nat, r \in Order :
          /\ cents <= balance[u] /\ balance' = [balance EXCEPT ![u] = @ - cents]
          /\ order' = [order EXCEPT ![o] = r]
  BY SurplusFacts
<1> QED
  BY <1>1 DEF order_surplus, TypeOK, cartVars, goodsVars

LEMMA PatchType ==
    ASSUME TypeOK, NEW u \in User, NEW o \in OrderId, NEW p \in Payment,
           order_payment_patch(u, o, p)
    PROVE  TypeOK'
<1> DEFINE r1 == [order[o] EXCEPT !.pay = p]
           r2 == [r1 EXCEPT !.payFee = PayFee[p]]
           amount == order[o].amount - order[o].payFee + PayFee[p]
           r3 == [r2 EXCEPT !.amount = amount]
<1>1. order[o] \in Order
  BY DEF TypeOK
<1>2. order[o].amount \in Int /\ order[o].payFee \in Nat /\ PayFee[p] \in Nat
  BY <1>1, CheckoutAssumption DEF Order
<1>3. r1 \in Order
  BY <1>1, FieldTypes
<1>4. r2 \in Order
  <2> HIDE DEF r1
  <2> QED
    BY <1>2, <1>3, FieldTypes, Zenon
<1>5. amount \in Int
  BY <1>2
<1>6. r3 \in Order
  <2> HIDE DEF r2, amount
  <2> QED
    BY <1>4, <1>5, FieldTypes, Zenon
<1>7. order' = [order EXCEPT ![o] = r3]
  BY Zenon DEF order_payment_patch
<1> HIDE DEF r3
<1> QED
  BY <1>6, <1>7, OrderUpdate
     DEF order_payment_patch, cartVars, goodsVars, fundVars

LEMMA CallbackType ==
    ASSUME TypeOK, NEW o \in OrderId, payment_callback(o)
    PROVE  TypeOK'
<1> DEFINE r1 == [order[o] EXCEPT !.status = "paid"]
           rest == order[o].amount - order[o].paid
           r2 == [r1 EXCEPT !.channel = rest]
<1>1. order[o] \in Order
  BY DEF TypeOK
<1>2. r1 \in Order
  BY <1>1, FieldTypes DEF Status
<1>3. rest \in Int
  BY <1>1 DEF Order
<1>4. r2 \in Order
  <2> HIDE DEF r1, rest
  <2> QED
    BY <1>2, <1>3, FieldTypes, Zenon
<1>5. order' = [order EXCEPT ![o] = r2]
  BY DEF payment_callback, TypeOK
<1> HIDE DEF r2
<1> QED
  BY <1>4, <1>5, OrderUpdate DEF payment_callback, cartVars, goodsVars, fundVars

LEMMA AdvanceType ==
    ASSUME TypeOK, NEW u \in User, NEW o \in OrderId, NEW from, NEW to \in Status,
           Advance(u, o, from, to)
    PROVE  TypeOK'
<1> DEFINE r == [order[o] EXCEPT !.status = to]
<1>1. r \in Order
  BY FieldTypes DEF TypeOK
<1>2. order' = [order EXCEPT ![o] = r]
  BY DEF Advance, TypeOK
<1> HIDE DEF r
<1> QED
  BY <1>1, <1>2, OrderUpdate DEF Advance, cartVars, goodsVars, fundVars

LEMMA RedeemType ==
    ASSUME TypeOK, NEW u \in User, NEW k \in Key, NEW g \in ExchangeGoods, NEW q \in 1..MaxQty,
           redeem(u, k, g, q)
    PROVE  TypeOK'
<1> DEFINE cost == PointPrice[g] * q
<1>1. g \in Goods /\ q \in Nat /\ PointPrice[g] \in Nat
  BY CheckoutAssumption
<1>2. cost \in Nat
  BY <1>1
<1>3. cost <= points[u] /\ points' = [points EXCEPT ![u] = @ - cost] /\ q <= stock[g]
      /\ stock' = [stock EXCEPT ![g] = @ - q]
      /\ redeemed' = [redeemed EXCEPT ![u][k] = [Empty EXCEPT ![g] = q]]
  BY DEF redeem
<1> HIDE DEF cost
<1>4. points' \in [User -> Nat]
  BY <1>2, <1>3 DEF TypeOK
<1>5. stock' \in Quantities
  BY <1>1, <1>3 DEF TypeOK, Quantities
<1>6. redeemed' \in [User -> [Key -> Quantities]]
  BY <1>1, <1>3, QuantityTypes DEF TypeOK
<1> QED
  BY <1>4, <1>5, <1>6 DEF redeem, TypeOK, cartVars, orderVars

LEMMA ClaimType ==
    ASSUME TypeOK, NEW u \in User, NEW b \in Bonus, bonus_claim(u, b)
    PROVE  TypeOK'
BY DEF bonus_claim, TypeOK, cartVars, goodsVars, orderVars

LEMMA OrderStepType ==
    ASSUME TypeOK, NEW u \in User, OrderNext(u)
    PROVE  TypeOK'
<1>1. CASE \E k \in Key, p \in Payment \union {0} : order_create(u, k, p)
  BY <1>1, OrderCreateType
<1>2. CASE \E k \in Key, g \in GroupGoods, q \in 1..MaxQty, p \in Payment :
              group_buy(u, k, g, q, p)
  BY <1>2, GroupBuyType
<1>3. ASSUME NEW o \in OrderId,
             \/ order_cancel(u, o)
             \/ order_return_to_cart(u, o)
             \/ \E t \in OrderId : order_merge(u, o, t)
             \/ \E c \in SurplusChoice \ {0} : order_surplus(u, o, c)
             \/ \E p \in Payment : order_payment_patch(u, o, p)
             \/ ship(u, o)
             \/ order_received(u, o)
      PROVE  TypeOK'
  <2>1. ship(u, o) \/ order_received(u, o) => TypeOK'
    BY AdvanceType DEF ship, order_received, Status
  <2> QED
    BY <1>3, <2>1, CancelType, ReturnType, MergeType, SurplusType, PatchType
<1> QED
  BY <1>1, <1>2, <1>3 DEF OrderNext

LEMMA StepType == TypeOK /\ [Next]_vars => TypeOK'
<1> SUFFICES ASSUME TypeOK, [Next]_vars PROVE TypeOK'
  OBVIOUS
<1>1. CASE UNCHANGED vars
  BY <1>1 DEF TypeOK, vars
<1>2. CASE \E u \in User : CartNext(u) \/ OrderNext(u)
  BY <1>2, CartStepType, OrderStepType
<1>3. CASE \E o \in OrderId : payment_callback(o)
  BY <1>3, CallbackType
<1>4. CASE \E u \in User, k \in Key, g \in ExchangeGoods, q \in 1..MaxQty : redeem(u, k, g, q)
  BY <1>4, RedeemType
<1>5. CASE \E u \in User, b \in Bonus : bonus_claim(u, b)
  BY <1>5, ClaimType
<1> QED
  BY <1>1, <1>2, <1>3, <1>4, <1>5 DEF Next

\* No stock, SKU stock, point or balance column goes below zero and every row
\* keeps its type: nothing is oversold or overspent, whoever competes for it
\* (the conditional UPDATEs of order.rs:172-273 and flow.rs:284-321).
THEOREM TypeCorrect == Spec => []TypeOK
BY InitType, StepType, PTL DEF Spec

-----------------------------------------------------------------------------
(* What a step does to the rows of ecs_order_info.                         *)

\* A row an order starts with.
Fresh(r) ==
    /\ r.channel = 0
    /\ r.status = "pending_payment" \/ (r.status = "paid" /\ r.paid = r.amount)

\* What a step may make of the row of an order.
Kept(r, s) ==
    /\ s.user = r.user /\ s.key = r.key
    /\ \/ s = r
       \/ /\ r.status = "pending_payment"
          /\ s.status \in {"pending_payment", "cancelled", "merged"} /\ s.channel = r.channel
       \/ /\ r.status = "pending_payment" /\ s.status = "paid"
          /\ s.paid + s.channel = s.amount
       \/ /\ <<r.status, s.status>> \in {<<"paid", "shipped">>, <<"shipped", "received">>}
          /\ s = [r EXCEPT !.status = s.status]

\* Ids are handed out in order.
Unused == \A o \in OrderId : o >= nextId => order[o] = NoOrder

OrderInv == TypeOK /\ Unused /\ PaidInFull /\ OneOrderPerKey

\* A step keeps every row but the one of the order it may create, whose key is
\* new for its user.
OrderStep ==
    \/ nextId' = nextId /\ \A o \in OrderId : Kept(order[o], order'[o])
    \/ /\ nextId \in OrderId /\ nextId' = nextId + 1
       /\ Fresh(order'[nextId])
       /\ order'[nextId].key # Null => ~KeyUsed(order'[nextId].user, order'[nextId].key)
       /\ \A o \in OrderId \ {nextId} : Kept(order[o], order'[o])

LEMMA SameRows == UNCHANGED <<order, nextId>> => OrderStep
BY DEF OrderStep, Kept

LEMMA ChangedRow ==
    ASSUME TypeOK, NEW o \in OrderId, NEW r, order' = [order EXCEPT ![o] = r],
           Kept(order[o], r), nextId' = nextId
    PROVE  OrderStep
<1>1. \A q \in OrderId : order'[q] = IF q = o THEN r ELSE order[q]
  BY DEF TypeOK
<1>2. \A q \in OrderId : Kept(order[q], order'[q])
  BY <1>1 DEF Kept
<1> QED
  BY <1>2 DEF OrderStep

LEMMA CreatedRow ==
    ASSUME TypeOK, NEW r, order' = [order EXCEPT ![nextId] = r], nextId \in OrderId,
           nextId' = nextId + 1, Fresh(r), r.key # Null => ~KeyUsed(r.user, r.key)
    PROVE  OrderStep
<1>1. order'[nextId] = r /\ \A q \in OrderId \ {nextId} : order'[q] = order[q]
  BY DEF TypeOK
<1>2. \A q \in OrderId \ {nextId} : Kept(order[q], order'[q])
  BY <1>1 DEF Kept
<1> QED
  BY <1>1, <1>2 DEF OrderStep

LEMMA CreateSteps ==
    ASSUME TypeOK, NEW u \in User, NEW k \in Key
    PROVE  /\ \A p \in Payment \union {0} : order_create(u, k, p) => OrderStep
           /\ \A g \in GroupGoods, q \in 1..MaxQty, p \in Payment :
                 group_buy(u, k, g, q, p) => OrderStep
<1>1. ASSUME NEW p \in Payment \union {0}, order_create(u, k, p) PROVE OrderStep
  <2>1. PICK goods \in Nat, amount \in Nat, disc \in Int, paid \in Nat, pay \in Payment :
            order' = [order EXCEPT ![nextId] = NewOrder(u, k, pay, goods, amount, disc, paid)]
    BY <1>1, OrderCreateFacts
  <2> DEFINE r == NewOrder(u, k, pay, goods, amount, disc, paid)
  <2>2. Fresh(r) /\ r.user = u /\ r.key = k
    BY DEF Fresh, NewOrder
  <2>3. nextId \in OrderId /\ nextId' = nextId + 1 /\ ~KeyUsed(u, k)
    BY <1>1 DEF order_create
  <2> HIDE DEF r
  <2> QED
    BY <2>1, <2>2, <2>3, CreatedRow DEF r
<1>2. ASSUME NEW g \in GroupGoods, NEW q \in 1..MaxQty, NEW p \in Payment,
             group_buy(u, k, g, q, p)
      PROVE  OrderStep
  <2> DEFINE r == PlainOrder(u, k, p, [Empty EXCEPT ![g] = q], Empty, GroupPrice[g] * q,
                             ShippingFee, PayFee[p])
  <2>1. Fresh(r) /\ r.user = u /\ r.key = k
    BY DEF Fresh, PlainOrder
  <2>2. /\ nextId \in OrderId /\ nextId' = nextId + 1 /\ ~KeyUsed(u, k)
        /\ order' = [order EXCEPT ![nextId] = r]
    BY <1>2, Zenon DEF group_buy
  <2> HIDE DEF r
  <2> QED
    BY <2>1, <2>2, CreatedRow
<1> QED
  BY <1>1, <1>2

LEMMA CancelStep ==
    ASSUME TypeOK, NEW u \in User, NEW o \in OrderId, order_cancel(u, o)
    PROVE  OrderStep
<1> DEFINE r == [order[o] EXCEPT !.status = "cancelled", !.logged = @ + order[o].paid]
<1>1. order[o] \in Order /\ order[o].status = "pending_payment" /\ nextId' = nextId
  BY DEF order_cancel, Pending, TypeOK
<1>2. /\ r.user = order[o].user /\ r.key = order[o].key /\ r.channel = order[o].channel
      /\ r.status = "cancelled"
  BY <1>1 DEF Order
<1>3. Kept(order[o], r)
  BY <1>1, <1>2 DEF Kept
<1>4. order' = [order EXCEPT ![o] = r]
  BY DEF order_cancel, TypeOK
<1> HIDE DEF r
<1> QED
  BY <1>1, <1>3, <1>4, ChangedRow

LEMMA MergeStep ==
    ASSUME TypeOK, Unused, NEW u \in User, NEW f \in OrderId, NEW t \in OrderId,
           order_merge(u, f, t)
    PROVE  OrderStep
<1> DEFINE rf  == [order[f] EXCEPT !.status = "merged", !.lines = Empty, !.gifts = Empty]
           rt  == [order[t] EXCEPT !.status = "merged"]
           new == PlainOrder(u, Null, order[f].pay, Plus(order[f].lines, order[t].lines),
                             Plus(order[f].gifts, order[t].gifts),
                             order[f].goods + order[t].goods, order[f].ship + order[t].ship,
                             order[f].payFee + order[t].payFee)
<1>1. /\ nextId \in OrderId /\ nextId' = nextId + 1 /\ f # t
      /\ order[f].status = "pending_payment" /\ order[t].status = "pending_payment"
  BY DEF order_merge, Mergeable, Pending
<1>2. f # nextId /\ t # nextId
  <2>1. order[nextId].status = "none"
    BY <1>1 DEF Unused, NoOrder, TypeOK
  <2> QED
    BY <1>1, <2>1
<1>3. order[f] \in Order /\ order[t] \in Order
  BY DEF TypeOK
<1>4. Kept(order[f], rf) /\ Kept(order[t], rt)
  <2>1. /\ rf.user = order[f].user /\ rf.key = order[f].key /\ rf.channel = order[f].channel
        /\ rf.status = "merged"
    BY <1>3 DEF Order
  <2>2. /\ rt.user = order[t].user /\ rt.key = order[t].key /\ rt.channel = order[t].channel
        /\ rt.status = "merged"
    BY <1>3 DEF Order
  <2> QED
    BY <1>1, <2>1, <2>2 DEF Kept
<1>5. Fresh(new) /\ new.key = Null
  BY DEF Fresh, PlainOrder
<1>6. order' = [order EXCEPT ![f] = rf, ![t].status = "merged", ![nextId] = new]
  BY Zenon DEF order_merge
<1>7. /\ order'[f] = rf /\ order'[t] = rt /\ order'[nextId] = new
      /\ \A q \in OrderId \ {f, t, nextId} : order'[q] = order[q]
  <2> HIDE DEF rf, new
  <2> QED
    BY <1>1, <1>2, <1>6 DEF TypeOK
<1>8. \A q \in OrderId \ {nextId} : Kept(order[q], order'[q])
  <2> HIDE DEF rf, rt, new
  <2>1. \A r : Kept(r, r)
    BY DEF Kept
  <2> QED
    BY <1>4, <1>7, <2>1
<1> QED
  <2> HIDE DEF new
  <2> QED
    BY <1>1, <1>5, <1>7, <1>8 DEF OrderStep

LEMMA SurplusStep ==
    ASSUME TypeOK, PaidInFull, NEW u \in User, NEW o \in OrderId,
           NEW c \in SurplusChoice \ {0}, order_surplus(u, o, c)
    PROVE  OrderStep
<1>1. PICK cents \in Nat, r \in Order :
          /\ order' = [order EXCEPT ![o] = r]
          /\ r = SurplusRow(o, cents)
  BY SurplusFacts
<1>2. order[o] \in Order /\ order[o].status = "pending_payment" /\ nextId' = nextId
  BY DEF order_surplus, Pending, TypeOK
<1>3. order[o].channel = 0 /\ order[o].amount \in Int /\ order[o].paid \in Nat
  BY <1>2 DEF PaidInFull, Settled, Order
<1>4. /\ r.user = order[o].user /\ r.key = order[o].key /\ r.channel = 0
      /\ r.amount = order[o].amount /\ r.paid = order[o].paid + cents
      /\ r.status = IF cents = order[o].amount - order[o].paid
                    THEN "paid" ELSE "pending_payment"
  BY <1>1, <1>2, <1>3 DEF Order, SurplusRow
<1>5. Kept(order[o], r)
  BY <1>2, <1>3, <1>4 DEF Kept
<1> QED
  BY <1>1, <1>2, <1>5, ChangedRow

LEMMA PatchStep ==
    ASSUME TypeOK, NEW u \in User, NEW o \in OrderId, NEW p \in Payment,
           order_payment_patch(u, o, p)
    PROVE  OrderStep
<1> DEFINE r == [order[o] EXCEPT !.pay = p, !.payFee = PayFee[p],
                    !.amount = order[o].amount - order[o].payFee + PayFee[p]]
<1>1. order[o] \in Order /\ order[o].status = "pending_payment" /\ nextId' = nextId
  BY DEF order_payment_patch, Pending, TypeOK
<1>2. /\ r.user = order[o].user /\ r.key = order[o].key /\ r.channel = order[o].channel
      /\ r.status = order[o].status
  BY <1>1 DEF Order
<1>3. Kept(order[o], r)
  BY <1>1, <1>2 DEF Kept
<1>4. order' = [order EXCEPT ![o] = r]
  BY Zenon DEF order_payment_patch
<1> HIDE DEF r
<1> QED
  BY <1>1, <1>3, <1>4, ChangedRow

LEMMA CallbackStep ==
    ASSUME TypeOK, NEW o \in OrderId, payment_callback(o)
    PROVE  OrderStep
<1> DEFINE rest == order[o].amount - order[o].paid
           r == [order[o] EXCEPT !.status = "paid", !.channel = rest]
<1>1. order[o] \in Order /\ order[o].status = "pending_payment" /\ nextId' = nextId
  BY DEF payment_callback, TypeOK
<1>2. order[o].amount \in Int /\ order[o].paid \in Nat
  BY <1>1 DEF Order
<1>3. /\ r.user = order[o].user /\ r.key = order[o].key /\ r.channel = rest
      /\ r.status = "paid" /\ r.paid = order[o].paid /\ r.amount = order[o].amount
  BY <1>1 DEF Order
<1>4. Kept(order[o], r)
  BY <1>1, <1>2, <1>3 DEF Kept
<1>5. order' = [order EXCEPT ![o] = r]
  BY DEF payment_callback, TypeOK
<1> HIDE DEF r
<1> QED
  BY <1>1, <1>4, <1>5, ChangedRow

LEMMA AdvanceStep ==
    ASSUME TypeOK, NEW u \in User, NEW o \in OrderId, ship(u, o) \/ order_received(u, o)
    PROVE  OrderStep
<1>1. PICK from, to : /\ <<from, to>> \in {<<"paid", "shipped">>, <<"shipped", "received">>}
                      /\ Advance(u, o, from, to)
  BY DEF ship, order_received
<1> DEFINE r == [order[o] EXCEPT !.status = to]
<1>2. order[o] \in Order /\ order[o].status = from /\ nextId' = nextId
  BY <1>1 DEF Advance, TypeOK
<1>3. r.user = order[o].user /\ r.key = order[o].key /\ r.status = to
  BY <1>2 DEF Order
<1>4. Kept(order[o], r)
  BY <1>1, <1>2, <1>3 DEF Kept
<1>5. order' = [order EXCEPT ![o] = r]
  BY <1>1 DEF Advance, TypeOK
<1> HIDE DEF r
<1> QED
  BY <1>2, <1>4, <1>5, ChangedRow

\* Every other handler leaves the orders alone.
LEMMA CartStepsKeepOrders ==
    ASSUME NEW u \in User, CartNext(u)
    PROVE  UNCHANGED <<order, nextId>>
BY DEF CartNext, cart_add, cart_update, cart_delete, clear, linked_buy, package, favourable,
       select, ReplaceCart, orderVars

LEMMA StepsAreOrderSteps == TypeOK /\ Unused /\ PaidInFull /\ [Next]_vars => OrderStep
<1> SUFFICES ASSUME TypeOK, Unused, PaidInFull, [Next]_vars PROVE OrderStep
  OBVIOUS
<1>1. CASE UNCHANGED vars
  BY <1>1, SameRows DEF vars
<1>2. ASSUME NEW u \in User, CartNext(u) PROVE OrderStep
  BY <1>2, CartStepsKeepOrders, SameRows
<1>3. ASSUME NEW u \in User, OrderNext(u) PROVE OrderStep
  <2>1. CASE \E k \in Key, p \in Payment \union {0} : order_create(u, k, p)
    BY <2>1, CreateSteps
  <2>2. CASE \E k \in Key, g \in GroupGoods, q \in 1..MaxQty, p \in Payment :
                group_buy(u, k, g, q, p)
    BY <2>2, CreateSteps
  <2>3. ASSUME NEW o \in OrderId,
               \/ order_cancel(u, o)
               \/ order_return_to_cart(u, o)
               \/ \E t \in OrderId : order_merge(u, o, t)
               \/ \E c \in SurplusChoice \ {0} : order_surplus(u, o, c)
               \/ \E p \in Payment : order_payment_patch(u, o, p)
               \/ ship(u, o)
               \/ order_received(u, o)
        PROVE  OrderStep
    <3>1. order_return_to_cart(u, o) => OrderStep
      BY SameRows DEF order_return_to_cart, orderVars
    <3> QED
      BY <2>3, <3>1, CancelStep, MergeStep, SurplusStep, PatchStep, AdvanceStep
  <2> QED
    BY <1>3, <2>1, <2>2, <2>3 DEF OrderNext
<1>4. CASE \E o \in OrderId : payment_callback(o)
  BY <1>4, CallbackStep
<1>5. CASE \E u \in User, k \in Key, g \in ExchangeGoods, q \in 1..MaxQty : redeem(u, k, g, q)
  BY <1>5, SameRows DEF redeem, orderVars
<1>6. CASE \E u \in User, b \in Bonus : bonus_claim(u, b)
  BY <1>6, SameRows DEF bonus_claim, orderVars
<1> QED
  BY <1>1, <1>2, <1>3, <1>4, <1>5, <1>6 DEF Next

LEMMA OrderInvInit == Init => OrderInv
BY InitType DEF Init, OrderInv, Unused, PaidInFull, OneOrderPerKey, NoOrder, Settled

LEMMA UnusedStep == OrderInv /\ TypeOK' /\ OrderStep => Unused'
<1> SUFFICES ASSUME OrderInv, TypeOK', OrderStep, NEW o \in OrderId, o >= nextId'
             PROVE  order'[o] = NoOrder
  BY DEF Unused
<1>1. o \in Int /\ nextId \in Nat
  BY DEF OrderInv, TypeOK, OrderId
<1>2. o >= nextId /\ (nextId' = nextId + 1 => o # nextId)
  BY <1>1 DEF OrderStep
<1>3. order[o] = NoOrder
  BY <1>2 DEF OrderInv, Unused
<1>4. Kept(order[o], order'[o])
  BY <1>2 DEF OrderStep
<1> QED
  BY <1>3, <1>4 DEF Kept, NoOrder

LEMMA PaidInFullStep == OrderInv /\ TypeOK' /\ OrderStep => PaidInFull'
<1> SUFFICES ASSUME OrderInv, TypeOK', OrderStep, NEW o \in OrderId
             PROVE  IF order'[o].status \in Settled
                    THEN order'[o].paid + order'[o].channel = order'[o].amount
                    ELSE order'[o].channel = 0
  BY DEF PaidInFull, Settled
<1>1. order[o] \in Order /\ order'[o] \in Order
  BY DEF OrderInv, TypeOK
<1>2. /\ order[o].status \in Settled => order[o].paid + order[o].channel = order[o].amount
      /\ order[o].status \notin Settled => order[o].channel = 0
  BY DEF OrderInv, PaidInFull
<1>3. CASE Kept(order[o], order'[o])
  <2>1. CASE order'[o] = order[o]
    BY <1>2, <2>1
  <2>2. CASE /\ order[o].status = "pending_payment"
             /\ order'[o].status \in {"pending_payment", "cancelled", "merged"}
             /\ order'[o].channel = order[o].channel
    BY <1>2, <2>2 DEF Settled
  <2>3. CASE /\ order'[o].status = "paid"
             /\ order'[o].paid + order'[o].channel = order'[o].amount
    BY <2>3 DEF Settled
  <2>4. CASE /\ <<order[o].status, order'[o].status>>
                    \in {<<"paid", "shipped">>, <<"shipped", "received">>}
             /\ order'[o] = [order[o] EXCEPT !.status = order'[o].status]
    <3>1. order[o].status \in Settled /\ order'[o].status \in Settled
      BY <2>4 DEF Settled
    <3>2. /\ order'[o].paid = order[o].paid /\ order'[o].channel = order[o].channel
          /\ order'[o].amount = order[o].amount
      BY <1>1, <2>4 DEF Order
    <3> QED
      BY <1>2, <3>1, <3>2
  <2> QED
    BY <1>3, <2>1, <2>2, <2>3, <2>4 DEF Kept
<1>4. CASE Fresh(order'[o])
  BY <1>1, <1>4 DEF Fresh, Settled, Order
<1> QED
  BY <1>3, <1>4 DEF OrderStep

LEMMA OneOrderPerKeyStep == OrderInv /\ TypeOK' /\ OrderStep => OneOrderPerKey'
<1> SUFFICES ASSUME OrderInv, TypeOK', OrderStep,
                    NEW o \in OrderId, NEW p \in OrderId,
                    order'[o].key # Null, order'[o].key = order'[p].key,
                    order'[o].user = order'[p].user, o # p
             PROVE  FALSE
  BY DEF OneOrderPerKey
<1>1. \A q \in OrderId : Kept(order[q], order'[q]) =>
                             order'[q].key = order[q].key /\ order'[q].user = order[q].user
  BY DEF Kept
<1>2. CASE \A q \in OrderId : Kept(order[q], order'[q])
  BY <1>1, <1>2 DEF OrderInv, OneOrderPerKey
<1>3. CASE /\ nextId \in OrderId
           /\ order'[nextId].key # Null => ~KeyUsed(order'[nextId].user, order'[nextId].key)
           /\ \A q \in OrderId \ {nextId} : Kept(order[q], order'[q])
  <2>1. CASE o # nextId /\ p # nextId
    <3>1. /\ order'[o].key = order[o].key /\ order'[o].user = order[o].user
          /\ order'[p].key = order[p].key /\ order'[p].user = order[p].user
      BY <1>1, <1>3, <2>1
    <3> QED
      BY <3>1 DEF OrderInv, OneOrderPerKey
  <2>2. ASSUME NEW q \in OrderId \ {nextId},
               order'[q].key = order'[nextId].key, order'[q].user = order'[nextId].user,
               order'[nextId].key # Null
        PROVE  FALSE
    BY <1>1, <1>3, <2>2 DEF KeyUsed
  <2> QED
    BY <2>1, <2>2
<1> QED
  BY <1>2, <1>3 DEF OrderStep

LEMMA OrderInvStep == OrderInv /\ [Next]_vars => OrderInv'
<1> SUFFICES ASSUME OrderInv, [Next]_vars PROVE OrderInv'
  OBVIOUS
<1>1. TypeOK' /\ OrderStep
  BY StepType, StepsAreOrderSteps DEF OrderInv
<1> QED
  BY <1>1, UnusedStep, PaidInFullStep, OneOrderPerKeyStep DEF OrderInv

LEMMA OrderInvariant == Spec => []OrderInv
BY OrderInvInit, OrderInvStep, PTL DEF Spec

\* An order is paid, shipped or received exactly when the balance and the
\* provider together paid its amount, and provider money is booked on no other
\* order, in whichever order surplus, payment method, callback and shipping come
\* (order.rs:818-973, payment.rs:34-165).  Payments that overlap are in
\* Settlement_proofs, ExactlyPaid and NeverUnderpaid.
THEOREM MoneyMatches == Spec => []PaidInFull
<1>1. OrderInv => PaidInFull
  BY DEF OrderInv
<1> QED
  BY <1>1, OrderInvariant, PTL

\* A user's idempotency key never names two orders, across checkout and group
\* buy and whatever became of the first one (order.rs:78-332,
\* marketing_write.rs:214-373).
THEOREM KeysNameOneOrder == Spec => []OneOrderPerKey
<1>1. OrderInv => OneOrderPerKey
  BY DEF OrderInv
<1> QED
  BY <1>1, OrderInvariant, PTL

\* One after the other, no handler changes an order that left pending_payment,
\* its lines, gifts, points and bonus included, but for the walk paid -> shipped
\* -> received (order.rs:424-569, 641-973, mock.rs:70-87, payment.rs:102-155).
\* On SQLite nothing overlaps more than that; what a merge may overwrite on MySQL
\* is in Settlement_proofs, MergeAloneOverwrites.
THEOREM ClosedOrdersStayClosed == Spec => ClosedStaysClosed
<1>1. ASSUME OrderInv, [Next]_vars, NEW o \in OrderId,
             order[o].status \notin {"none", "pending_payment"}, order'[o] # order[o]
      PROVE  /\ <<order[o].status, order'[o].status>> \in
                    {<<"paid", "shipped">>, <<"shipped", "received">>}
             /\ order'[o] = [order[o] EXCEPT !.status = order'[o].status]
  <2>1. OrderStep
    BY <1>1, StepsAreOrderSteps DEF OrderInv
  <2>2. o # nextId
    BY <1>1 DEF OrderInv, Unused, NoOrder, TypeOK
  <2>3. Kept(order[o], order'[o])
    BY <2>1, <2>2 DEF OrderStep
  <2> QED
    BY <1>1, <2>3 DEF Kept
<1>2. OrderInv /\ [Next]_vars =>
        [\A o \in OrderId :
            order[o].status \notin {"none", "pending_payment"} /\ order'[o] # order[o] =>
                /\ <<order[o].status, order'[o].status>> \in
                       {<<"paid", "shipped">>, <<"shipped", "received">>}
                /\ order'[o] = [order[o] EXCEPT !.status = order'[o].status]]_vars
  BY <1>1
<1> QED
  BY <1>2, OrderInvariant, PTL DEF Spec, ClosedStaysClosed

-----------------------------------------------------------------------------
(* The SKU rows of a cart.                                                 *)

LEMMA SpecFollowsCartStep == TypeOK /\ SpecFollowsCart /\ [Next]_vars => SpecFollowsCart'
<1> SUFFICES ASSUME TypeOK, SpecFollowsCart, [Next]_vars PROVE SpecFollowsCart'
  OBVIOUS
<1>1. UNCHANGED <<cart, spec>> => SpecFollowsCart'
  BY DEF SpecFollowsCart
<1>2. /\ cart \in [User -> [Goods -> Nat]] /\ spec \in [User -> SUBSET Goods]
      /\ stock \in [Goods -> Nat]
  BY CheckoutAssumption DEF TypeOK, Quantities
<1>3. ASSUME NEW u \in User, CartNext(u) PROVE SpecFollowsCart'
  <2>1. ASSUME NEW g \in Goods, NEW q \in 1..MaxQty, NEW s \in SUBSET SkuGoods,
               cart_add(u, g, q, s)
        PROVE  SpecFollowsCart'
    BY <1>2, <2>1 DEF cart_add, SpecFollowsCart
  <2>2. ASSUME NEW g \in Goods, NEW q \in 1..MaxQty, cart_update(u, g, q)
        PROVE  SpecFollowsCart'
    BY <1>2, <2>2 DEF cart_update, SpecFollowsCart
  <2>3. ASSUME NEW g \in Goods, cart_delete(u, g) PROVE SpecFollowsCart'
    BY <1>2, <2>3 DEF cart_delete, SpecFollowsCart
  <2>4. ASSUME NEW f, NEW kind, ReplaceCart(u, f, kind) PROVE SpecFollowsCart'
    BY <1>2, <2>4 DEF ReplaceCart, SpecFollowsCart
  <2>5. CASE \/ clear(u) \/ package(u)
             \/ \E g \in Goods, q \in 1..MaxQty : linked_buy(u, g, q)
    BY <2>4, <2>5, Zenon DEF clear, package, linked_buy
  <2>6. CASE \/ \E kind \in OfferKinds, f \in [Goods -> 0..GiftLimit] :
                   (f = Only(f, GiftGoods)) /\ favourable(u, kind, f)
             \/ \E row \in Selections(u) : select(u, row)
    BY <1>1, <2>6, Zenon DEF favourable, select, cartVars
  <2>7. CASE \/ \E g \in Goods, q \in 1..MaxQty, s \in SUBSET SkuGoods : cart_add(u, g, q, s)
             \/ \E g \in Goods, q \in 1..MaxQty : cart_update(u, g, q)
             \/ \E g \in Goods : cart_delete(u, g)
    BY ONLY <2>1, <2>2, <2>3, <2>7, Zenon
  <2> QED
    BY ONLY <1>3, <2>5, <2>6, <2>7, Zenon DEF CartNext
<1>4. ASSUME NEW u \in User, OrderNext(u) PROVE SpecFollowsCart'
  <2>1. ASSUME NEW k \in Key, NEW p \in Payment \union {0}, order_create(u, k, p)
        PROVE  SpecFollowsCart'
    BY <1>2, <2>1 DEF order_create, SpecFollowsCart
  <2>2. ASSUME NEW o \in OrderId, order_return_to_cart(u, o) PROVE SpecFollowsCart'
    <3>1. /\ order[o].lines \in [Goods -> Nat] /\ order[o].gifts \in [Goods -> Nat]
      BY DEF TypeOK, Order, Quantities
    <3>2. Plus(order[o].lines, order[o].gifts) \in [Goods -> Nat]
      BY <3>1 DEF Plus
    <3>3. \A g \in Goods : cart[u][g] > 0 => cart'[u][g] > 0
      BY <1>2, <2>2, <3>2 DEF order_return_to_cart, Lesser
    <3>4. \A v \in User \ {u} : cart'[v] = cart[v]
      BY <1>2, <2>2 DEF order_return_to_cart
    <3>5. UNCHANGED spec
      BY <2>2 DEF order_return_to_cart
    <3> QED
      BY <1>2, <3>3, <3>4, <3>5 DEF SpecFollowsCart
  <2>3. ASSUME NEW o \in OrderId,
               \/ order_cancel(u, o)
               \/ \E t \in OrderId : order_merge(u, o, t)
               \/ \E c \in SurplusChoice \ {0} : order_surplus(u, o, c)
               \/ \E p \in Payment : order_payment_patch(u, o, p)
               \/ ship(u, o)
               \/ order_received(u, o)
        PROVE  SpecFollowsCart'
    BY <1>1, <2>3, Zenon DEF order_cancel, order_merge, order_surplus, order_payment_patch, ship,
                             order_received, Advance, cartVars
  <2>4. ASSUME NEW k \in Key, NEW g \in GroupGoods, NEW q \in 1..MaxQty, NEW p \in Payment,
               group_buy(u, k, g, q, p)
        PROVE  SpecFollowsCart'
    BY <1>1, <2>4, Zenon DEF group_buy, cartVars
  <2> QED
    BY ONLY <1>4, <2>1, <2>2, <2>3, <2>4, Zenon DEF OrderNext
<1>5. CASE \E o \in OrderId : payment_callback(o)
  BY <1>1, <1>5, Zenon DEF payment_callback, cartVars
<1>6. CASE \E u \in User, k \in Key, g \in ExchangeGoods, q \in 1..MaxQty : redeem(u, k, g, q)
  BY <1>1, <1>6, Zenon DEF redeem, cartVars
<1>7. CASE \E u \in User, b \in Bonus : bonus_claim(u, b)
  BY <1>1, <1>7, Zenon DEF bonus_claim, cartVars
<1>8. CASE UNCHANGED vars
  BY <1>1, <1>8 DEF vars
<1> QED
  BY <1>3, <1>4, <1>5, <1>6, <1>7, <1>8 DEF Next

\* The SKU a user chose never outlives its cart line, through every way to fill,
\* replace, empty and check out a cart (cart.rs:34-269, flow.rs:15-476,
\* order.rs:78-332, 572-632).
THEOREM SkuChoicesHaveLines == Spec => []SpecFollowsCart
<1>1. Init => SpecFollowsCart
  BY DEF Init, SpecFollowsCart
<1> QED
  BY <1>1, SpecFollowsCartStep, TypeCorrect, PTL DEF Spec
-----------------------------------------------------------------------------
(* Checkout implements Collection.                                         *)

\* The amount of an order is at least its goods less the discount plus its fees
\* (a wrapping, which merging forgets, comes on top), and never negative.
Billed(r) ==
    /\ r.discount <= r.goods
    /\ r.goods - r.discount + r.ship + r.payFee <= r.amount
BilledInv == \A o \in OrderId : Billed(order[o])

\* What the steps make of a row, as far as money is concerned.
Placed(r) ==
    /\ Billed(r) /\ r.paid <= r.amount /\ r.channel = 0
    /\ \/ r.paid = r.amount /\ r.status = "paid"
       \/ r.paid < r.amount /\ r.status = "pending_payment"
       \/ r.paid = 0 /\ r.status = "pending_payment"
SameBill(r, s) == /\ s.goods = r.goods /\ s.discount = r.discount /\ s.ship = r.ship
                  /\ s.payFee = r.payFee /\ s.amount = r.amount
Collected(r, s) ==
    /\ SameBill(r, s) /\ r.status = "pending_payment"
    /\ r.paid < s.paid + s.channel /\ s.paid + s.channel <= r.amount
    /\ s.status = IF s.paid + s.channel = r.amount THEN "paid" ELSE "pending_payment"
Repriced(r, s) ==
    /\ r.status = "pending_payment" /\ s.status = "pending_payment"
    /\ s.paid = r.paid /\ s.channel = r.channel
    /\ Billed(r) => Billed(s)
Cancelled(r, s) ==
    SameBill(r, s) /\ r.status = "pending_payment" /\ s.status = "cancelled"
Moved(r, s) ==
    /\ SameBill(r, s) /\ r.status \in Settled /\ s.status \in Settled
    /\ s.paid = r.paid /\ s.channel = r.channel
MergedRows(f, t, rf, rt, new) ==
    /\ order' = [order EXCEPT ![f] = rf, ![t] = rt, ![nextId] = new]
    /\ SameBill(order[f], rf) /\ rf.status = "merged"
    /\ SameBill(order[t], rt) /\ rt.status = "merged"
    /\ new.status = "pending_payment" /\ new.paid = 0 /\ new.channel = 0
    /\ new.discount = 0 /\ new.goods = order[f].goods + order[t].goods
    /\ new.ship = order[f].ship + order[t].ship
    /\ new.payFee = order[f].payFee + order[t].payFee
    /\ new.amount = new.goods + new.ship + new.payFee
Merged(f, t) ==
    \E u \in User :
        /\ nextId \in OrderId /\ f # t /\ Mergeable(u, f) /\ Mergeable(u, t)
        /\ \E rf, rt, new \in Order : MergedRows(f, t, rf, rt, new)

MoneyStep ==
    \/ UNCHANGED order
    \/ nextId \in OrderId /\ \E r \in Order : Placed(r) /\ order' = [order EXCEPT ![nextId] = r]
    \/ \E o \in OrderId, r \in Order :
          /\ order' = [order EXCEPT ![o] = r]
          /\ \/ Collected(order[o], r) \/ Repriced(order[o], r)
             \/ Cancelled(order[o], r) \/ Moved(order[o], r)
    \/ \E f, t \in OrderId : Merged(f, t)

LEMMA CreatePlaces ==
    ASSUME TypeOK, NEW u \in User, NEW k \in Key, NEW p \in Payment \union {0},
           order_create(u, k, p)
    PROVE  MoneyStep
<1> DEFINE goods  == Value(cart[u])
           pay    == Filled(u, p)
           disc   == Discount(u, goods)
           amount == goods + ShippingFee + PayFee[pay] + Extra(u) - disc
           paid   == Lesser(sel[u].surplus, amount)
           r      == NewOrder(u, k, pay, goods, amount, disc, paid)
<1>1. goods \in Nat /\ amount \in Nat /\ pay \in Payment
  BY CheckoutAssumption DEF order_create, Money
<1>2. disc \in Int /\ disc <= goods
  <2>1. disc \in Int
    BY <1>1, DiscountType
  <2>2. BonusDiscount(u, goods) \in Int /\ OfferDiscount(u, goods) \in Int /\ sel[u].points \in Int
    BY <1>1, DiscountParts
  <2> HIDE DEF goods
  <2> QED
    BY <1>1, <2>1, <2>2 DEF Discount, Combined, Lesser
<1>3. Extra(u) \in Nat /\ sel[u].surplus \in Nat
  BY CheckoutAssumption DEF TypeOK, Selection, Extra
<1>4. PayFee[pay] \in Nat /\ ShippingFee \in Nat
  BY <1>1, CheckoutAssumption
<1>5. paid \in Nat /\ paid <= amount
  BY <1>1, <1>3 DEF Lesser
<1>6. order' = [order EXCEPT ![nextId] = r] /\ nextId \in OrderId
  BY DEF order_create, NewOrder
<1> HIDE DEF goods, pay, disc, paid
<1>7. goods - disc + ShippingFee + PayFee[pay] <= amount
  BY <1>1, <1>2, <1>3, <1>4
<1> HIDE DEF amount
<1>8. r \in Order
  BY <1>1, <1>2, <1>5, NewOrderType
<1>9. /\ r.goods = goods /\ r.discount = disc /\ r.ship = ShippingFee /\ r.payFee = PayFee[pay]
      /\ r.amount = amount /\ r.paid = paid /\ r.channel = 0
      /\ r.status = IF paid = amount THEN "paid" ELSE "pending_payment"
  BY DEF NewOrder
<1>10. Placed(r)
  <2> HIDE DEF r
  <2> QED
    BY <1>1, <1>2, <1>5, <1>7, <1>9 DEF Placed, Billed
<1> HIDE DEF r
<1> QED
  BY <1>6, <1>8, <1>10 DEF MoneyStep

LEMMA GroupBuyPlaces ==
    ASSUME TypeOK, NEW u \in User, NEW k \in Key, NEW g \in GroupGoods, NEW q \in 1..MaxQty,
           NEW p \in Payment, group_buy(u, k, g, q, p)
    PROVE  MoneyStep
<1> DEFINE goods == GroupPrice[g] * q
           r == PlainOrder(u, k, p, [Empty EXCEPT ![g] = q], Empty, goods,
                           ShippingFee, PayFee[p])
<1>1. g \in Goods /\ q \in Nat /\ GroupPrice[g] \in Nat /\ PayFee[p] \in Nat
      /\ ShippingFee \in Nat
  BY CheckoutAssumption
<1>2. goods \in Nat /\ goods + ShippingFee + PayFee[p] \in Nat
  BY <1>1
<1>3. nextId \in OrderId /\ order' = [order EXCEPT ![nextId] = r]
  BY Zenon DEF group_buy
<1>4. /\ r.goods = goods /\ r.discount = 0 /\ r.ship = ShippingFee /\ r.payFee = PayFee[p]
      /\ r.amount = goods + ShippingFee + PayFee[p] /\ r.paid = 0 /\ r.channel = 0
      /\ r.status = "pending_payment"
  BY DEF PlainOrder
<1>5. r \in Order
  <2>1. [Empty EXCEPT ![g] = q] \in Quantities /\ Empty \in Quantities
    BY <1>1, QuantityTypes
  <2> HIDE DEF goods
  <2> QED
    BY <1>1, <1>2, <2>1, PlainOrderType
<1> HIDE DEF r, goods
<1>6. Placed(r)
  BY <1>1, <1>2, <1>4 DEF Placed, Billed
<1> QED
  BY <1>3, <1>5, <1>6 DEF MoneyStep

LEMMA CancelCloses ==
    ASSUME TypeOK, NEW u \in User, NEW o \in OrderId, order_cancel(u, o)
    PROVE  MoneyStep
<1> DEFINE r == [order[o] EXCEPT !.status = "cancelled", !.logged = @ + order[o].paid]
<1>1. order[o] \in Order /\ order[o].status = "pending_payment"
  BY DEF order_cancel, Pending, TypeOK
<1>2. SameBill(order[o], r) /\ r.status = "cancelled"
  BY <1>1 DEF Order, SameBill
<1>3. order' = [order EXCEPT ![o] = r]
  BY DEF order_cancel, TypeOK
<1>4. Cancelled(order[o], r)
  BY <1>1, <1>2 DEF Cancelled
<1> HIDE DEF r
<1>5. r \in Order
  BY <1>3, CancelType DEF TypeOK
<1> QED
  BY <1>3, <1>4, <1>5 DEF MoneyStep

LEMMA FreshId ==
    ASSUME TypeOK, Unused, nextId \in OrderId
    PROVE  order[nextId] = NoOrder
BY DEF Unused, TypeOK

LEMMA MergeMerges ==
    ASSUME TypeOK, Unused, NEW u \in User, NEW f \in OrderId, NEW t \in OrderId, order_merge(u, f, t)
    PROVE  MoneyStep
<1> DEFINE rf  == [order[f] EXCEPT !.status = "merged", !.lines = Empty, !.gifts = Empty]
           rt  == [order[t] EXCEPT !.status = "merged"]
           new == PlainOrder(u, Null, order[f].pay, Plus(order[f].lines, order[t].lines),
                             Plus(order[f].gifts, order[t].gifts),
                             order[f].goods + order[t].goods, order[f].ship + order[t].ship,
                             order[f].payFee + order[t].payFee)
<1>1. nextId \in OrderId /\ f # t /\ Mergeable(u, f) /\ Mergeable(u, t)
  BY DEF order_merge
<1>2. order[f] \in Order /\ order[t] \in Order
  BY DEF TypeOK
<1>3. /\ SameBill(order[f], rf) /\ rf.status = "merged"
      /\ SameBill(order[t], rt) /\ rt.status = "merged"
  BY <1>2 DEF Order, SameBill
<1>4. /\ new.status = "pending_payment" /\ new.paid = 0 /\ new.channel = 0
      /\ new.discount = 0 /\ new.goods = order[f].goods + order[t].goods
      /\ new.ship = order[f].ship + order[t].ship
      /\ new.payFee = order[f].payFee + order[t].payFee
      /\ new.amount = new.goods + new.ship + new.payFee
  BY DEF PlainOrder
<1>5. order' = [order EXCEPT ![f] = rf, ![t].status = "merged", ![nextId] = new]
  BY Zenon DEF order_merge
<1>6. order' = [order EXCEPT ![f] = rf, ![t] = rt, ![nextId] = new]
  <2> HIDE DEF rf, new
  <2> QED
    BY <1>1, <1>5 DEF TypeOK
<1> HIDE DEF rf, rt, new
<1>7. rf \in Order /\ rt \in Order /\ new \in Order
  <2>1. f # nextId /\ t # nextId
    BY <1>1, FreshId DEF Mergeable, Pending, NoOrder
  <2>2. order'[f] = rf /\ order'[t] = rt /\ order'[nextId] = new
    BY <1>1, <1>6, <2>1 DEF TypeOK
  <2> QED
    BY <1>1, <2>2, MergeType DEF TypeOK
<1>8. Merged(f, t)
  BY <1>1, <1>3, <1>4, <1>6, <1>7 DEF Merged, MergedRows
<1> QED
  BY <1>8 DEF MoneyStep

LEMMA SurplusCollects ==
    ASSUME TypeOK, PaidInFull, NEW u \in User, NEW o \in OrderId,
           NEW c \in SurplusChoice \ {0}, order_surplus(u, o, c)
    PROVE  MoneyStep
<1> DEFINE rest == order[o].amount - order[o].paid
           cents == Lesser(c, rest)
           r == SurplusRow(o, cents)
<1>1. order[o] \in Order /\ order[o].status = "pending_payment" /\ rest > 0
  BY DEF order_surplus, Pending, TypeOK
<1>2. order[o].channel = 0 /\ order[o].amount \in Int /\ order[o].paid \in Nat
  BY <1>1 DEF PaidInFull, Settled, Order
<1>3. cents \in Int /\ 0 < cents /\ cents <= rest
  <2>1. c \in Nat /\ c # 0
    BY CheckoutAssumption
  <2> HIDE DEF rest
  <2>2. rest \in Int
    BY <1>2 DEF rest
  <2> QED
    BY <1>1, <2>1, <2>2 DEF Lesser
<1>4. /\ SameBill(order[o], r) /\ r.paid = order[o].paid + cents /\ r.channel = 0
      /\ r.status = IF cents = rest THEN "paid" ELSE "pending_payment"
  BY <1>1, <1>2 DEF Order, SurplusRow, SameBill
<1>5. order' = [order EXCEPT ![o] = r]
  BY Zenon DEF order_surplus, SurplusRow
<1> HIDE DEF r, cents
<1>6. Collected(order[o], r)
  BY <1>1, <1>2, <1>3, <1>4 DEF Collected
<1>7. r \in Order
  BY <1>5, SurplusType DEF TypeOK
<1> QED
  BY <1>5, <1>6, <1>7 DEF MoneyStep

LEMMA CallbackCollects ==
    ASSUME TypeOK, NEW o \in OrderId, payment_callback(o)
    PROVE  MoneyStep
<1> DEFINE rest == order[o].amount - order[o].paid
           r == [order[o] EXCEPT !.status = "paid", !.channel = rest]
<1>1. order[o] \in Order /\ order[o].status = "pending_payment" /\ rest > 0
  BY DEF payment_callback, TypeOK
<1>2. order[o].amount \in Int /\ order[o].paid \in Nat
  BY <1>1 DEF Order
<1>3. /\ SameBill(order[o], r) /\ r.paid = order[o].paid /\ r.channel = rest
      /\ r.status = "paid"
  BY <1>1 DEF Order, SameBill
<1>4. order' = [order EXCEPT ![o] = r]
  BY DEF payment_callback, TypeOK
<1> HIDE DEF r
<1>5. Collected(order[o], r)
  BY <1>1, <1>2, <1>3 DEF Collected
<1>6. r \in Order
  BY <1>4, CallbackType DEF TypeOK
<1> QED
  BY <1>4, <1>5, <1>6 DEF MoneyStep

LEMMA PatchReprices ==
    ASSUME TypeOK, NEW u \in User, NEW o \in OrderId, NEW p \in Payment,
           order_payment_patch(u, o, p)
    PROVE  MoneyStep
<1> DEFINE r == [order[o] EXCEPT !.pay = p, !.payFee = PayFee[p],
                    !.amount = order[o].amount - order[o].payFee + PayFee[p]]
<1>1. order[o] \in Order /\ order[o].status = "pending_payment"
  BY DEF order_payment_patch, Pending, TypeOK
<1>2. /\ order[o].amount \in Int /\ order[o].payFee \in Nat /\ order[o].goods \in Nat
      /\ order[o].discount \in Int /\ order[o].ship \in Nat /\ PayFee[p] \in Nat
  BY <1>1, CheckoutAssumption DEF Order
<1>3. /\ r.status = order[o].status /\ r.paid = order[o].paid /\ r.channel = order[o].channel
      /\ r.goods = order[o].goods /\ r.discount = order[o].discount /\ r.ship = order[o].ship
      /\ r.payFee = PayFee[p] /\ r.amount = order[o].amount - order[o].payFee + PayFee[p]
  BY <1>1 DEF Order
<1>4. order' = [order EXCEPT ![o] = r]
  BY Zenon DEF order_payment_patch
<1> HIDE DEF r
<1>5. Repriced(order[o], r)
  BY <1>1, <1>2, <1>3 DEF Repriced, Billed
<1>6. r \in Order
  BY <1>4, PatchType DEF TypeOK
<1> QED
  BY <1>4, <1>5, <1>6 DEF MoneyStep

LEMMA AdvanceMoves ==
    ASSUME TypeOK, NEW u \in User, NEW o \in OrderId, ship(u, o) \/ order_received(u, o)
    PROVE  MoneyStep
<1>1. PICK from, to : /\ <<from, to>> \in {<<"paid", "shipped">>, <<"shipped", "received">>}
                      /\ Advance(u, o, from, to)
  BY DEF ship, order_received
<1> DEFINE r == [order[o] EXCEPT !.status = to]
<1>2. order[o] \in Order /\ order[o].status = from
  BY <1>1 DEF Advance, TypeOK
<1>3. /\ SameBill(order[o], r) /\ r.status = to /\ r.paid = order[o].paid
      /\ r.channel = order[o].channel
  BY <1>2 DEF Order, SameBill
<1>4. order' = [order EXCEPT ![o] = r]
  BY <1>1 DEF Advance, TypeOK
<1>5. r \in Order
  BY <1>1, <1>2, FieldTypes DEF Status
<1> HIDE DEF r
<1>6. Moved(order[o], r)
  BY <1>1, <1>2, <1>3 DEF Moved, Settled
<1> QED
  BY <1>4, <1>5, <1>6 DEF MoneyStep

LEMMA StepsAreMoneySteps == OrderInv /\ [Next]_vars => MoneyStep
<1> SUFFICES ASSUME OrderInv, [Next]_vars PROVE MoneyStep
  OBVIOUS
<1>0. TypeOK /\ Unused /\ PaidInFull
  BY DEF OrderInv
<1>1. UNCHANGED <<order, nextId>> => MoneyStep
  BY DEF MoneyStep
<1>2. ASSUME NEW u \in User, CartNext(u) PROVE MoneyStep
  BY <1>1, <1>2, CartStepsKeepOrders
<1>3. ASSUME NEW u \in User, OrderNext(u) PROVE MoneyStep
  <2>1. CASE \E k \in Key, p \in Payment \union {0} : order_create(u, k, p)
    BY <1>0, <2>1, CreatePlaces
  <2>2. CASE \E k \in Key, g \in GroupGoods, q \in 1..MaxQty, p \in Payment :
                group_buy(u, k, g, q, p)
    BY <1>0, <2>2, GroupBuyPlaces
  <2>3. ASSUME NEW o \in OrderId,
               \/ order_cancel(u, o)
               \/ order_return_to_cart(u, o)
               \/ \E t \in OrderId : order_merge(u, o, t)
               \/ \E c \in SurplusChoice \ {0} : order_surplus(u, o, c)
               \/ \E p \in Payment : order_payment_patch(u, o, p)
               \/ ship(u, o)
               \/ order_received(u, o)
        PROVE  MoneyStep
    <3>1. order_return_to_cart(u, o) => MoneyStep
      BY <1>1 DEF order_return_to_cart, orderVars
    <3> QED
      BY <1>0, <2>3, <3>1, CancelCloses, MergeMerges, SurplusCollects, PatchReprices, AdvanceMoves
  <2> QED
    BY <1>3, <2>1, <2>2, <2>3 DEF OrderNext
<1>4. CASE \E o \in OrderId : payment_callback(o)
  BY <1>0, <1>4, CallbackCollects
<1>5. CASE \E u \in User, k \in Key, g \in ExchangeGoods, q \in 1..MaxQty : redeem(u, k, g, q)
  BY <1>1, <1>5 DEF redeem, orderVars
<1>6. CASE \E u \in User, b \in Bonus : bonus_claim(u, b)
  BY <1>1, <1>6 DEF bonus_claim, orderVars
<1>7. CASE UNCHANGED vars
  BY <1>1, <1>7 DEF vars
<1> QED
  BY <1>2, <1>3, <1>4, <1>5, <1>6, <1>7 DEF Next

LEMMA BilledStep == OrderInv /\ BilledInv /\ MoneyStep => BilledInv'
<1> SUFFICES ASSUME OrderInv, BilledInv, MoneyStep PROVE BilledInv'
  OBVIOUS
<1>0. TypeOK /\ Unused /\ order \in [OrderId -> Order] /\ \A o \in OrderId : Billed(order[o])
  BY DEF OrderInv, TypeOK, BilledInv
<1>1. CASE UNCHANGED order
  BY <1>0, <1>1 DEF BilledInv
<1>2. ASSUME NEW o \in OrderId, NEW r \in Order, order' = [order EXCEPT ![o] = r], Billed(r)
      PROVE  BilledInv'
  <2>1. \A q \in OrderId : order'[q] = IF q = o THEN r ELSE order[q]
    BY <1>0, <1>2
  <2> QED
    BY <1>0, <1>2, <2>1 DEF BilledInv
<1>3. CASE nextId \in OrderId /\ \E r \in Order : Placed(r) /\ order' = [order EXCEPT ![nextId] = r]
  BY <1>2, <1>3 DEF Placed
<1>4. ASSUME NEW o \in OrderId, NEW r \in Order, order' = [order EXCEPT ![o] = r],
             \/ Collected(order[o], r) \/ Repriced(order[o], r)
             \/ Cancelled(order[o], r) \/ Moved(order[o], r)
      PROVE  BilledInv'
  <2>1. SameBill(order[o], r) => Billed(r)
    BY <1>0 DEF SameBill, Billed
  <2>2. Billed(r)
    BY <1>0, <1>4, <2>1 DEF Collected, Repriced, Cancelled, Moved
  <2> QED
    BY <1>2, <1>4, <2>2
<1>5. ASSUME NEW f \in OrderId, NEW t \in OrderId, Merged(f, t) PROVE BilledInv'
  <2>1. PICK rf \in Order, rt \in Order, new \in Order :
              /\ order' = [order EXCEPT ![f] = rf, ![t] = rt, ![nextId] = new]
              /\ SameBill(order[f], rf) /\ SameBill(order[t], rt)
              /\ new.discount = 0 /\ new.amount = new.goods + new.ship + new.payFee
    BY <1>5 DEF Merged, MergedRows
  <2>2. \A q \in OrderId : order'[q] \in {rf, rt, new, order[q]}
    BY <1>0, <2>1
  <2>3. Billed(rf) /\ Billed(rt)
    BY <1>0, <2>1 DEF SameBill, Billed
  <2>4. new.goods \in Nat /\ new.ship \in Nat /\ new.payFee \in Nat
    BY DEF Order
  <2>5. Billed(new)
    BY <2>1, <2>4 DEF Billed
  <2> QED
    BY <1>0, <2>2, <2>3, <2>5 DEF BilledInv
<1> QED
  BY <1>1, <1>3, <1>4, <1>5 DEF MoneyStep


\* Stage and money of one row.
StageOf(r) == CASE r.status = "none" -> "none"
                [] r.status = "pending_payment" -> "due"
                [] r.status \in Settled -> "settled"
                [] OTHER -> "closed"
GotOf(r) == IF r.status \in Settled \union {"pending_payment"} THEN r.paid + r.channel ELSE 0

Mapping ==
    /\ Stage \in [OrderId -> {"none", "due", "settled", "closed"}]
    /\ Charged \in [OrderId -> Nat] /\ Gathered \in [OrderId -> Nat]
    /\ \A o \in OrderId : /\ Stage[o] = StageOf(order[o])
                          /\ Charged[o] = order[o].amount
                          /\ Gathered[o] = GotOf(order[o])

LEMMA Mapped == OrderInv /\ BilledInv => Mapping
<1> SUFFICES ASSUME TypeOK, PaidInFull, BilledInv PROVE Mapping
  BY DEF OrderInv
<1>1. ASSUME NEW o \in OrderId PROVE order[o].amount \in Nat /\ GotOf(order[o]) \in Nat
  <2>1. order[o] \in Order
    BY DEF TypeOK
  <2>2. /\ order[o].amount \in Int /\ order[o].goods \in Nat /\ order[o].discount \in Int
        /\ order[o].ship \in Nat /\ order[o].payFee \in Nat /\ order[o].paid \in Nat
        /\ order[o].channel \in Int
    BY <2>1 DEF Order
  <2>3. order[o].amount \in Nat
    BY <2>2 DEF BilledInv, Billed
  <2>4. /\ order[o].status \in Settled => order[o].paid + order[o].channel = order[o].amount
        /\ order[o].status \notin Settled => order[o].channel = 0
    BY DEF PaidInFull
  <2> QED
    BY <2>2, <2>3, <2>4 DEF GotOf
<1>2. \A o \in OrderId : /\ Stage[o] = StageOf(order[o])
                         /\ StageOf(order[o]) \in {"none", "due", "settled", "closed"}
  BY DEF Stage, StageOf
<1>3. \A o \in OrderId : Gathered[o] = GotOf(order[o]) /\ Charged[o] = order[o].amount
  BY DEF Gathered, GotOf, Live, Charged
<1> QED
  BY <1>1, <1>2, <1>3 DEF Mapping, Stage, Gathered, Charged

LEMMA MappedNext == OrderInv' /\ BilledInv' => Mapping'
BY Mapped, PTL

LEMMA CollectInit == Init => Collecting!Init
<1> SUFFICES ASSUME Init PROVE Collecting!Init
  OBVIOUS
<1>1. \A o \in OrderId : /\ order[o].status = "none" /\ order[o].amount = 0
  BY DEF Init, NoOrder
<1>2. Stage \in [OrderId -> {"none", "due"}]
  <2>1. Stage = [o \in OrderId |-> "none"]
    BY <1>1 DEF Stage, Settled
  <2> QED
    BY <2>1
<1>3. Charged \in [OrderId -> Nat]
  BY <1>1 DEF Charged
<1>4. Gathered = [o \in OrderId |-> 0]
  BY <1>1 DEF Gathered, Live, Settled
<1> QED
  BY <1>2, <1>3, <1>4 DEF Collecting!Init

LEMMA CollectStep ==
    ASSUME OrderInv, OrderInv', BilledInv, BilledInv', MoneyStep
    PROVE  Collecting!Next \/ UNCHANGED <<Stage, Charged, Gathered>>
<1> DEFINE Maps(st, ch, ga, ord) ==
              /\ st \in [OrderId -> {"none", "due", "settled", "closed"}]
              /\ ch \in [OrderId -> Nat] /\ ga \in [OrderId -> Nat]
              /\ \A o \in OrderId : /\ st[o] = StageOf(ord[o]) /\ ch[o] = ord[o].amount
                                    /\ ga[o] = GotOf(ord[o])
<1>1. Maps(Stage, Charged, Gathered, order) /\ Maps(Stage', Charged', Gathered', order')
  BY Mapped, MappedNext DEF Mapping
<1>2. /\ TypeOK /\ Unused /\ order \in [OrderId -> Order] /\ order' \in [OrderId -> Order]
      /\ PaidInFull /\ PaidInFull'
  BY DEF OrderInv, TypeOK
<1>3. ASSUME NEW S, \A q \in OrderId \ S : order'[q] = order[q]
      PROVE  /\ Collecting!Others(Charged, S) /\ Collecting!Others(Gathered, S)
             /\ \A q \in OrderId \ S : Stage'[q] = Stage[q]
  BY <1>1, <1>3 DEF Collecting!Others
<1>4. CASE UNCHANGED order
  BY <1>4 DEF Stage, Charged, Gathered, Live
<1>5. ASSUME NEW r \in Order, nextId \in OrderId, Placed(r),
             order' = [order EXCEPT ![nextId] = r]
      PROVE  Collecting!Next
  <2>1. order'[nextId] = r /\ \A q \in OrderId \ {nextId} : order'[q] = order[q]
    BY <1>2, <1>5
  <2>2. Stage[nextId] = "none"
    <3>1. order[nextId] = NoOrder
      BY <1>2, <1>5, FreshId
    <3>2. NoOrder.status = "none"
      BY DEF NoOrder
    <3> QED
      BY <1>1, <1>5, <3>1, <3>2 DEF StageOf, Settled
  <2>3. r.paid \in Nat /\ r.channel = 0 /\ r.amount \in Int
    BY <1>5 DEF Order, Placed
  <2>4. /\ Gathered'[nextId] = r.paid /\ Charged'[nextId] = r.amount
        /\ Gathered'[nextId] <= Charged'[nextId]
    BY <1>1, <1>5, <2>1, <2>3 DEF Placed, GotOf, Settled
  <2>5. \/ Stage'[nextId] = IF Gathered'[nextId] = Charged'[nextId] THEN "settled" ELSE "due"
        \/ Gathered'[nextId] = 0 /\ Stage'[nextId] = "due"
    BY <1>1, <1>5, <2>1, <2>4 DEF Placed, StageOf, Settled
  <2>6. Stage' = [Stage EXCEPT ![nextId] = Stage'[nextId]]
    BY <1>1, <1>3, <1>5, <2>1
  <2>7. Stage'[nextId] # "none"
    BY <2>5
  <2>8. Collecting!Place(nextId)
    BY <1>1, <1>3, <1>5, <2>1, <2>2, <2>4, <2>5, <2>6, <2>7
       DEF Collecting!Place, Collecting!Reached
  <2> QED
    BY <1>5, <2>8 DEF Collecting!Next
<1>6. ASSUME NEW o \in OrderId, NEW r \in Order, order' = [order EXCEPT ![o] = r],
             \/ Collected(order[o], r) \/ Repriced(order[o], r)
             \/ Cancelled(order[o], r) \/ Moved(order[o], r)
      PROVE  Collecting!Next \/ UNCHANGED <<Stage, Charged, Gathered>>
  <2>1. order'[o] = r /\ \A q \in OrderId \ {o} : order'[q] = order[q]
    BY <1>2, <1>6
  <2>2. /\ Collecting!Others(Charged, {o}) /\ Collecting!Others(Gathered, {o})
        /\ \A q \in OrderId \ {o} : Stage'[q] = Stage[q]
    BY <1>3, <2>1
  <2>3. Stage' = [Stage EXCEPT ![o] = Stage'[o]]
    BY <1>1, <2>2
  <2>4. Gathered' = [Gathered EXCEPT ![o] = Gathered'[o]]
    BY <1>1, <2>2 DEF Collecting!Others
  <2>5. Charged'[o] = Charged[o] => UNCHANGED Charged
    BY <1>1, <2>2 DEF Collecting!Others
  <2>6. order[o].status = "pending_payment" =>
            Stage[o] = "due" /\ Gathered[o] = order[o].paid /\ order[o].channel = 0
    <3>1. order[o].status = "pending_payment" => order[o].channel = 0
      BY <1>2 DEF PaidInFull, Settled
    <3>2. order[o].paid \in Nat
      BY <1>2 DEF Order
    <3> QED
      BY <1>1, <3>1, <3>2 DEF StageOf, GotOf, Settled
  <2>7. CASE Collected(order[o], r)
    <3>1. /\ Charged'[o] = Charged[o] /\ Gathered'[o] = r.paid + r.channel
          /\ Stage'[o] = IF Gathered'[o] = Charged[o] THEN "settled" ELSE "due"
      BY <1>1, <2>1, <2>7 DEF Collected, SameBill, StageOf, GotOf, Settled
    <3>2. Gathered[o] < Gathered'[o] /\ Gathered'[o] <= Charged[o]
      BY <1>1, <2>6, <2>7, <3>1 DEF Collected
    <3>3. Collecting!Collect(o)
      BY <1>1, <2>2, <2>3, <2>5, <2>6, <2>7, <3>1, <3>2
         DEF Collected, Collecting!Collect, Collecting!Reached
    <3> QED
      BY <3>3 DEF Collecting!Next
  <2>8. CASE Repriced(order[o], r)
    <3>1. Stage'[o] = Stage[o] /\ Gathered'[o] = Gathered[o] /\ Stage[o] = "due"
      BY <1>1, <2>1, <2>6, <2>8 DEF Repriced, StageOf, GotOf, Settled
    <3>2. Stage' = Stage /\ Gathered' = Gathered
      BY <1>1, <2>3, <2>4, <3>1
    <3>3. Collecting!Reprice(o)
      BY <1>1, <2>2, <3>1, <3>2 DEF Collecting!Reprice
    <3> QED
      BY <3>3 DEF Collecting!Next
  <2>9. CASE Cancelled(order[o], r)
    <3>1. Stage'[o] = "closed" /\ Gathered'[o] = 0 /\ Charged'[o] = Charged[o]
      BY <1>1, <2>1, <2>9 DEF Cancelled, SameBill, StageOf, GotOf, Settled
    <3>2. Collecting!Close(o)
      BY <2>3, <2>4, <2>5, <2>6, <2>9, <3>1 DEF Cancelled, Collecting!Close
    <3> QED
      BY <3>2 DEF Collecting!Next
  <2>10. CASE Moved(order[o], r)
    <3>1. Stage'[o] = Stage[o] /\ Gathered'[o] = Gathered[o] /\ Charged'[o] = Charged[o]
      BY <1>1, <2>1, <2>10 DEF Moved, SameBill, StageOf, GotOf, Settled
    <3> QED
      BY <1>1, <2>3, <2>4, <2>5, <3>1
  <2> QED
    BY <1>6, <2>7, <2>8, <2>9, <2>10
<1>7. ASSUME NEW f \in OrderId, NEW t \in OrderId, Merged(f, t) PROVE Collecting!Next
  <2>0. PICK u \in User :
              /\ nextId \in OrderId /\ f # t /\ Mergeable(u, f) /\ Mergeable(u, t)
              /\ \E rf, rt, new \in Order : MergedRows(f, t, rf, rt, new)
    BY <1>7 DEF Merged
  <2>1. PICK rf \in Order, rt \in Order, new \in Order :
              /\ order' = [order EXCEPT ![f] = rf, ![t] = rt, ![nextId] = new]
              /\ SameBill(order[f], rf) /\ rf.status = "merged"
              /\ SameBill(order[t], rt) /\ rt.status = "merged"
              /\ new.status = "pending_payment" /\ new.paid = 0 /\ new.channel = 0
              /\ new.goods = order[f].goods + order[t].goods
              /\ new.ship = order[f].ship + order[t].ship
              /\ new.payFee = order[f].payFee + order[t].payFee
              /\ new.amount = new.goods + new.ship + new.payFee
    BY <2>0 DEF MergedRows
  <2>2. \A o \in {f, t} : /\ order[o].status = "pending_payment" /\ order[o].discount = 0
                          /\ order[o].paid = 0 /\ order[o].channel = 0
    <3>1. \A o \in {f, t} : /\ order[o].status = "pending_payment" /\ order[o].discount = 0
                            /\ order[o].paid = 0
      BY <2>0 DEF Mergeable, Pending
    <3>2. \A o \in {f, t} : order[o].channel = 0
      BY <1>2, <3>1 DEF PaidInFull, Settled
    <3> QED
      BY <3>1, <3>2
  <2>3. nextId # f /\ nextId # t /\ Stage[nextId] = "none" /\ Gathered[nextId] = 0
    <3>1. order[nextId] = NoOrder
      BY <1>2, <2>0, FreshId
    <3>2. NoOrder.status = "none"
      BY DEF NoOrder
    <3> QED
      BY <1>1, <2>0, <2>2, <3>1, <3>2 DEF StageOf, GotOf, Settled
  <2>4. /\ order'[f] = rf /\ order'[t] = rt /\ order'[nextId] = new
        /\ \A q \in OrderId \ {f, t, nextId} : order'[q] = order[q]
    BY <1>2, <2>0, <2>1, <2>3
  <2>5. \A q \in OrderId \ {f, t, nextId} :
            Stage'[q] = Stage[q] /\ Charged'[q] = Charged[q] /\ Gathered'[q] = Gathered[q]
    BY <1>1, <2>4
  <2>6. /\ \A o \in {f, t} : /\ Stage[o] = "due" /\ Gathered[o] = 0
                             /\ Stage'[o] = "closed" /\ Gathered'[o] = 0
                             /\ Charged'[o] = Charged[o]
        /\ Stage'[nextId] = "due" /\ Gathered'[nextId] = 0
    BY <1>1, <2>0, <2>1, <2>2, <2>4 DEF StageOf, GotOf, Settled, SameBill
  <2>7. /\ Stage' = [Stage EXCEPT ![f] = "closed", ![t] = "closed", ![nextId] = "due"]
        /\ UNCHANGED Gathered
    BY <1>1, <2>0, <2>3, <2>5, <2>6
  <2>8. Charged'[nextId] <= Charged[f] + Charged[t]
    <3>1. \A o \in {f, t} : order[o].goods \in Nat /\ order[o].ship \in Nat
                            /\ order[o].payFee \in Nat /\ order[o].amount \in Int
      BY <1>2 DEF Order
    <3>2. \A o \in {f, t} : order[o].goods + order[o].ship + order[o].payFee <= order[o].amount
      BY <2>2, <3>1 DEF BilledInv, Billed
    <3>3. Charged[f] = order[f].amount /\ Charged[t] = order[t].amount
          /\ Charged'[nextId] = new.goods + new.ship + new.payFee
      BY <1>1, <2>0, <2>1, <2>4
    <3> QED
      BY <2>1, <3>1, <3>2, <3>3
  <2>9. Collecting!Others(Charged, {nextId})
    BY <2>5, <2>6 DEF Collecting!Others
  <2>10. Collecting!Merge(f, t)
    BY <1>1, <2>0, <2>3, <2>6, <2>7, <2>8, <2>9 DEF Collecting!Merge
  <2> QED
    BY <2>10 DEF Collecting!Next
<1> QED
  BY <1>4, <1>5, <1>6, <1>7 DEF MoneyStep

LEMMA BilledInvariant == Spec => []BilledInv
<1>1. Init => BilledInv
  BY DEF Init, BilledInv, Billed, NoOrder
<1>2. OrderInv /\ BilledInv /\ [Next]_vars => BilledInv'
  BY StepsAreMoneySteps, BilledStep
<1> QED
  BY <1>1, <1>2, OrderInvariant, PTL DEF Spec

\* Every order of every shop is placed, repriced, merged, collected for and closed as
\* Collection allows: whatever discounts, wrappings, fee changes, partial payments,
\* merges and cancellations come, an order leaves pending_payment settled with exactly
\* its price, or closed and keeping nothing (order.rs:78-332, 424-569, 641-973,
\* payment.rs:34-165).  For handlers that overlap on SQLite see SettlementCollects.
THEOREM CheckoutCollects == Spec => ImplementsCollection
<1>1. OrderInv /\ OrderInv' /\ BilledInv /\ BilledInv' /\ [Next]_vars =>
          [Collecting!Next]_(Collecting!vars)
  <2> SUFFICES ASSUME OrderInv, OrderInv', BilledInv, BilledInv', [Next]_vars
               PROVE  Collecting!Next \/ UNCHANGED <<Stage, Charged, Gathered>>
    BY DEF Collecting!vars
  <2> QED
    BY StepsAreMoneySteps, CollectStep
<1> QED
  BY <1>1, CollectInit, OrderInvariant, BilledInvariant, PTL
     DEF Spec, ImplementsCollection, Collecting!Spec
=============================================================================
