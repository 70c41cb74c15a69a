------------------------------ MODULE Checkout ------------------------------
(***************************************************************************)
(* Cart, checkout selection and the life of an order: order.rs, flow.rs,   *)
(* cart.rs and the handlers of account.rs, marketing_write.rs and mock.rs  *)
(* that move the same rows.                                                *)
(*                                                                         *)
(* Every handler is one step here: it runs in one transaction, and one     *)
(* that fails rolls back and is no step.  On SQLite the code runs them so, *)
(* as a transaction whose snapshot was overtaken cannot write.  On MySQL   *)
(* the row lock of the user (db::lock_user) and conditional UPDATEs of the *)
(* rows that users share (ecs_goods, ecs_products) do it for all but these *)
(* handlers, which are split into their steps elsewhere: the payment       *)
(* callback, which takes no user lock, and the payments, fee changes and   *)
(* merges it overlaps, in module Settlement; order_create, which reads     *)
(* the selection before it locks, in module Basket; the purchase of an     *)
(* auction or snatch in module Wallet.  What is said of orders below is    *)
(* said of the handlers one after the other, and Settlement says what of   *)
(* it fails on MySQL.                                                      *)
(***************************************************************************)
EXTENDS Integers, FiniteSetsExt

CONSTANTS
    User, Goods, Bonus,
    Packs,          \* wrappings (ecs_pack; a greeting card works the same)
    Key,            \* values of the Idempotency-Key header
    Payment,        \* enabled payment methods; 0 means "not given"
    Null,
    SkuGoods,       \* goods that have a row in ecs_products
    GiftGoods,      \* allow-list of the gift offer (act_type 0)
    ExchangeGoods,  \* goods that can be bought with points
    GroupGoods,     \* goods of a running group buy
    Offers,         \* the offers that are running
    Bundle,         \* [Goods -> Nat]: the members of the package
    Price, GroupPrice, PointPrice, Stock0, SkuStock0,   \* [Goods -> Nat]
    PayFee, PackFee,            \* [Payment -> Nat], [Packs -> Nat]
    BonusMoney, BonusMin,                               \* [Bonus -> Nat]
    Points0, Balance0,                                  \* [User -> Nat]
    ShippingFee, BundlePrice, OfferCut, OfferMin, GiftLimit,
    PointChoice, SurplusChoice,     \* what a user may enter in a selection
    MaxQty,         \* largest quantity of one cart line (999 in the code)
    MaxMoney,       \* bound of the checked i64 arithmetic on amounts
    MaxOrder        \* bound on the number of orders of a behaviour

OfferKinds == {"package", "cut", "gift"}

ASSUME CheckoutAssumption ==
    /\ IsFiniteSet(User) /\ IsFiniteSet(Goods) /\ IsFiniteSet(Key)
    /\ 0 \notin Payment /\ Null \notin User \union Key \union Bonus \union Packs
    /\ SkuGoods \subseteq Goods /\ GiftGoods \subseteq Goods
    /\ ExchangeGoods \subseteq Goods /\ GroupGoods \subseteq Goods
    /\ Offers \subseteq OfferKinds
    /\ {Bundle, Price, GroupPrice, PointPrice, Stock0, SkuStock0} \subseteq [Goods -> Nat]
    /\ PayFee \in [Payment -> Nat] /\ PackFee \in [Packs -> Nat]
    /\ {BonusMoney, BonusMin} \subseteq [Bonus -> Nat]
    /\ {Points0, Balance0} \subseteq [User -> Nat]
    /\ {ShippingFee, BundlePrice, OfferCut, OfferMin, GiftLimit} \subseteq Nat
    /\ PointChoice \subseteq Nat /\ SurplusChoice \subseteq Nat
    /\ MaxQty \in Nat /\ MaxMoney \in Nat /\ MaxOrder \in Nat

VARIABLES
    stock,      \* ecs_goods.goods_number
    skuStock,   \* ecs_products.product_number
    cart,       \* ecs_cart: cart[u][g], 0 when there is no row
    spec,       \* ecs_cart_spec: the goods for which u chose the SKU
    sel,        \* ecs_checkout_selection (no row = every field zero)
    offer,      \* ecs_cart_offer
    gifts,      \* ecs_cart_gift
    points,     \* ecs_users.pay_points
    balance,    \* ecs_account_balance.available_cents
    bonus,      \* ecs_user_bonus: owner and order_id
    redeemed,   \* ecs_redemption, by user and key
    order,      \* ecs_order_info and the rows of other tables that hang on it
    nextId      \* AUTOINCREMENT of ecs_order_info

vars == <<stock, skuStock, cart, spec, sel, offer, gifts, points, balance,
          bonus, redeemed, order, nextId>>
goodsVars == <<stock, skuStock>>
cartVars  == <<cart, spec, offer, gifts>>
fundVars  == <<points, balance, bonus, redeemed>>
orderVars == <<order, nextId>>

OrderId == 1..MaxOrder
Money   == 0..MaxMoney
Empty   == [g \in Goods |-> 0]
EmptySel == [pay |-> 0, pack |-> Null, points |-> 0, bonus |-> Null, surplus |-> 0]

Plus(f, h)    == [g \in Goods |-> f[g] + h[g]]
Minus(f, h)   == [g \in Goods |-> f[g] - h[g]]
AtMost_unchecked(f, h) == DOMAIN f = DOMAIN h      \* mutant: UPDATE without its condition
AtMost(f, h)  == \A g \in Goods : f[g] <= h[g]
Only(f, S)    == [g \in Goods |-> IF g \in S THEN f[g] ELSE 0]
Value(f)      == SumFunctionOnSet([g \in Goods |-> Price[g] * f[g]], Goods)
Lesser(a, b)  == IF a <= b THEN a ELSE b

\* No row yet.  lines and gifts are ecs_order_goods, sku is ecs_order_spec,
\* discount, points and bonus come from ecs_checkout_audit, paid is
\* ecs_order_balance_payment, logged the sum of the order's ecs_account_log
\* rows, channel the sum of its ecs_pay_log rows.
NoOrder == [status |-> "none", user |-> Null, key |-> Null,
            pay |-> 0, lines |-> Empty, gifts |-> Empty, sku |-> {},
            goods |-> 0, ship |-> 0, payFee |-> 0, amount |-> 0,
            discount |-> 0, offer |-> "none", points |-> 0, bonus |-> Null,
            paid |-> 0, logged |-> 0, channel |-> 0]

Pending_any(u, o) == order[o].user = u              \* mutant: whatever the status
Pending(u, o) == order[o].status = "pending_payment" /\ order[o].user = u
KeyUsed_pending(u, k) ==                            \* mutant: looks at open orders only
    \E o \in OrderId : Pending(u, o) /\ order[o].key = k
KeyUsed(u, k) == \E o \in OrderId : order[o].user = u /\ order[o].key = k
-----------------------------------------------------------------------------
Init ==
    /\ stock = Stock0 /\ skuStock = SkuStock0
    /\ cart = [u \in User |-> Empty]
    /\ spec = [u \in User |-> {}]
    /\ sel = [u \in User |-> EmptySel]
    /\ offer = [u \in User |-> "none"]
    /\ gifts = [u \in User |-> Empty]
    /\ points = Points0 /\ balance = Balance0
    /\ bonus = [b \in Bonus |-> [owner |-> Null, order |-> 0]]
    /\ redeemed = [u \in User |-> [k \in Key |-> Empty]]
    /\ order = [o \in OrderId |-> NoOrder]
    /\ nextId = 1
-----------------------------------------------------------------------------
(* The cart.                                                               *)

\* pricing::unit: what a cart line must satisfy before it gets a price.
Sellable(f, S) ==
    /\ \A g \in Goods : f[g] <= MaxQty
    /\ AtMost(f, stock)
    /\ AtMost(Only(f, S), skuStock)

\* POST /me/cart.  A second SKU of goods already in the cart is refused.
cart_add(u, g, q, s) ==
    LET line == [Empty EXCEPT ![g] = cart[u][g] + q]
    IN  /\ s \subseteq {g} \intersect SkuGoods
        /\ Sellable(line, s)
        /\ cart[u][g] > 0 => spec[u] \intersect {g} = s
        /\ cart' = [cart EXCEPT ![u][g] = @ + q]
        /\ spec' = [spec EXCEPT ![u] = (@ \ {g}) \union s]
        /\ UNCHANGED <<offer, gifts, sel, goodsVars, fundVars, orderVars>>

\* PATCH /me/cart/{id} by a client that holds the current version.
cart_update(u, g, q) ==
    /\ cart[u][g] > 0
    /\ Sellable([Empty EXCEPT ![g] = q], spec[u])
    /\ cart' = [cart EXCEPT ![u][g] = q]
    /\ UNCHANGED <<spec, offer, gifts, sel, goodsVars, fundVars, orderVars>>

\* Mutant: the SKU row outlives its line.
cart_delete_keepsSpec(u, g) ==
    /\ cart[u][g] > 0
    /\ cart' = [cart EXCEPT ![u][g] = 0]
    /\ UNCHANGED <<spec, offer, gifts, sel, goodsVars, fundVars, orderVars>>

\* DELETE /me/cart/{id}, or the line moves to the favourites (flow::collect); the
\* offer and the gifts chosen for the cart stay.
cart_delete(u, g) ==
    /\ cart[u][g] > 0
    /\ cart' = [cart EXCEPT ![u][g] = 0]
    /\ spec' = [spec EXCEPT ![u] = @ \ {g}]
    /\ UNCHANGED <<offer, gifts, sel, goodsVars, fundVars, orderVars>>

\* Mutant: the gifts outlive the offer.
ReplaceCart_keepsGifts(u, f, kind) ==
    /\ cart' = [cart EXCEPT ![u] = f]
    /\ spec' = [spec EXCEPT ![u] = {}]
    /\ offer' = [offer EXCEPT ![u] = kind]
    /\ UNCHANGED <<gifts, sel, goodsVars, fundVars, orderVars>>

\* Replace the whole cart, as clear, linked_buy and package do.
ReplaceCart(u, f, kind) ==
    /\ cart' = [cart EXCEPT ![u] = f]
    /\ spec' = [spec EXCEPT ![u] = {}]
    /\ offer' = [offer EXCEPT ![u] = kind]
    /\ gifts' = [gifts EXCEPT ![u] = Empty]
    /\ UNCHANGED <<sel, goodsVars, fundVars, orderVars>>

clear(u) == ReplaceCart(u, Empty, "none")

\* link_buy: the cart becomes one line of g.
linked_buy(u, g, q) ==
    /\ q <= stock[g]
    /\ ReplaceCart(u, [Empty EXCEPT ![g] = q], "none")

\* The cart becomes the members of the package, without SKUs.
package(u) ==
    /\ "package" \in Offers
    /\ Bundle # Empty /\ AtMost(Bundle, stock)
    /\ ReplaceCart(u, Bundle, "package")

\* Choose a favourable activity.  Only the gift offer (sync_gifts) takes gifts.
favourable(u, kind, f) ==
    /\ kind \in Offers \ {"package"}
    /\ IF kind = "gift"
       THEN /\ GiftLimit > 0
            /\ SumFunctionOnSet(f, Goods) <= GiftLimit
            /\ \A g \in Goods : f[g] <= Lesser(MaxQty, stock[g])
       ELSE f = Empty
    /\ offer' = [offer EXCEPT ![u] = kind]
    /\ gifts' = [gifts EXCEPT ![u] = f]
    /\ UNCHANGED <<cart, spec, sel, goodsVars, fundVars, orderVars>>

\* PATCH /checkout/selection/:field; nothing is validated before the order.
Selections(u) ==
    {[sel[u] EXCEPT !.pay = p] : p \in Payment}
    \union {[sel[u] EXCEPT !.pack = v] : v \in Packs \union {Null}}
    \union {[sel[u] EXCEPT !.points = v] : v \in PointChoice}
    \union {[sel[u] EXCEPT !.surplus = v] : v \in SurplusChoice}
    \union {[sel[u] EXCEPT !.bonus = b] : b \in Bonus \union {Null}}

select(u, row) ==
    /\ sel' = [sel EXCEPT ![u] = row]
    /\ UNCHANGED <<cartVars, goodsVars, fundVars, orderVars>>
-----------------------------------------------------------------------------
(* Creating an order.                                                      *)

\* A payment method missing from the body is filled in from the selection.
Filled(u, p) == IF p = 0 THEN sel[u].pay ELSE p

BonusUsable_again(u, b) == bonus[b].owner = u       \* mutant: used or not
BonusUsable(u, b) == bonus[b].owner = u /\ bonus[b].order = 0

\* flow::offer_discount on goods worth `goods` (the package may be a markup).
OfferHolds(u, goods) ==
    CASE offer[u] = "package" -> cart[u] = Bundle
      [] offer[u] \in {"cut", "gift"} -> goods >= OfferMin
      [] OTHER -> TRUE

OfferDiscount(u, goods) ==
    CASE offer[u] = "package" -> goods - BundlePrice
      [] offer[u] = "cut" -> Lesser(OfferCut, goods)
      [] OTHER -> 0

BonusDiscount(u, goods) ==
    IF sel[u].bonus = Null THEN 0 ELSE Lesser(BonusMoney[sel[u].bonus], goods)

Combined(u, goods) == BonusDiscount(u, goods) + OfferDiscount(u, goods)
Discount(u, goods) == Lesser(Combined(u, goods) + sel[u].points, goods)
Extra(u) == IF sel[u].pack = Null THEN 0 ELSE PackFee[sel[u].pack]

\* flow::adjustments: the checks on points, bonus and offer.
Adjustable(u, goods) ==
    /\ OfferHolds(u, goods)
    /\ sel[u].bonus # Null => /\ BonusUsable(u, sel[u].bonus)
                              /\ goods >= BonusMin[sel[u].bonus]
    /\ sel[u].points <= goods - Combined(u, goods)
    /\ sel[u].points <= points[u]

\* POST /orders with a key the user has not used: stock is taken for the cart
\* and the gifts, flow::apply spends points, bonus and balance, and the cart,
\* its offer, its gifts and the selection are consumed.
order_create(u, k, p) ==
    LET goods  == Value(cart[u])
        take   == Plus(cart[u], gifts[u])
        skus   == Only(cart[u], spec[u])
        amount == goods + ShippingFee + PayFee[Filled(u, p)] + Extra(u) - Discount(u, goods)
        paid   == Lesser(sel[u].surplus, amount)
    IN  /\ nextId \in OrderId
        /\ ~KeyUsed(u, k)
        /\ Filled(u, p) \in Payment
        /\ cart[u] # Empty /\ Sellable(cart[u], spec[u])
        /\ AtMost(take, stock)
        /\ goods \in Money
        /\ Adjustable(u, goods)
        /\ amount \in Money
        /\ paid <= balance[u]
        /\ stock' = Minus(stock, take)
        /\ skuStock' = Minus(skuStock, skus)
        /\ points' = [points EXCEPT ![u] = @ - sel[u].points]
        /\ bonus' = IF sel[u].bonus = Null THEN bonus
                    ELSE [bonus EXCEPT ![sel[u].bonus].order = nextId]
        /\ balance' = [balance EXCEPT ![u] = @ - paid]
        /\ order' = [order EXCEPT ![nextId] =
               [status |-> IF paid = amount THEN "paid" ELSE "pending_payment",
                user |-> u, key |-> k,
                pay |-> Filled(u, p), lines |-> cart[u], gifts |-> gifts[u],
                sku |-> spec[u], goods |-> goods, ship |-> ShippingFee,
                payFee |-> PayFee[Filled(u, p)], amount |-> amount,
                discount |-> Discount(u, goods),
                offer |-> IF offer[u] = "package" THEN "none" ELSE offer[u],
                points |-> sel[u].points, bonus |-> sel[u].bonus,
                paid |-> paid, logged |-> -paid, channel |-> 0]]
        /\ nextId' = nextId + 1
        /\ cart' = [cart EXCEPT ![u] = Empty]
        /\ spec' = [spec EXCEPT ![u] = {}]
        /\ sel' = [sel EXCEPT ![u] = EmptySel]
        /\ offer' = [offer EXCEPT ![u] = "none"]
        /\ gifts' = [gifts EXCEPT ![u] = Empty]
        /\ UNCHANGED redeemed

\* A pending order without SKUs, discount, offer or balance payment.
PlainOrder(u, k, p, lines, given, goods, fee, payFee) ==
    [status |-> "pending_payment", user |-> u, key |-> k,
     pay |-> p, lines |-> lines, gifts |-> given, sku |-> {},
     goods |-> goods, ship |-> fee, payFee |-> payFee, amount |-> goods + fee + payFee,
     discount |-> 0, offer |-> "none", points |-> 0, bonus |-> Null,
     paid |-> 0, logged |-> 0, channel |-> 0]

\* POST /promotions/{id}/orders for a running group buy (act_type 1).
group_buy(u, k, g, q, p) ==
    LET goods == GroupPrice[g] * q
        line  == [Empty EXCEPT ![g] = q]
    IN  /\ nextId \in OrderId
        /\ ~KeyUsed(u, k)
        /\ goods + ShippingFee + PayFee[p] \in Money
        /\ q <= stock[g]
        /\ stock' = Minus(stock, line)
        /\ order' = [order EXCEPT ![nextId] =
               PlainOrder(u, k, p, line, Empty, goods, ShippingFee, PayFee[p])]
        /\ nextId' = nextId + 1
        /\ UNCHANGED <<skuStock, cartVars, sel, fundVars>>
-----------------------------------------------------------------------------
(* What a user may still do with a pending order.                          *)

\* POST /me/orders/{id}/cancel: stock, SKU stock, points, bonus and balance go
\* back.  The SKU rows come from a join of ecs_order_spec and ecs_order_goods
\* on the goods, which also meets a gift line of the same goods.
order_cancel(u, o) ==
    LET back == Plus(order[o].lines, order[o].gifts)
    IN  /\ Pending(u, o)
        /\ stock' = Plus(stock, back)
        /\ skuStock' = Plus(skuStock, Only(back, order[o].sku))
        /\ points' = [points EXCEPT ![u] = @ + order[o].points]
        /\ bonus' = [b \in Bonus |-> IF bonus[b].order = o /\ bonus[b].owner = u
                                     THEN [bonus[b] EXCEPT !.order = 0] ELSE bonus[b]]
        /\ balance' = [balance EXCEPT ![u] = @ + order[o].paid]
        /\ order' = [order EXCEPT ![o].status = "cancelled",
                                  ![o].logged = @ + order[o].paid]
        /\ UNCHANGED <<cartVars, sel, redeemed, nextId>>

\* POST /me/orders/{id}/cart, whatever the status of the order.
order_return_to_cart(u, o) ==
    LET back == Plus(order[o].lines, order[o].gifts)
        adds(g) == back[g] > 0 /\ stock[g] > 0
    IN  /\ order[o].user = u
        /\ \E g \in Goods : adds(g)
        /\ cart' = [cart EXCEPT ![u] = [g \in Goods |->
                        IF adds(g) THEN Lesser(cart[u][g] + back[g], stock[g])
                        ELSE cart[u][g]]]
        /\ UNCHANGED <<spec, offer, gifts, sel, goodsVars, fundVars, orderVars>>

\* POST /me/orders/merge: the lines of f move to a new order, those of t are
\* copied to it, and its amount is summed anew from goods and fees.  The orders
\* are read by plain SELECTs and become merged by UPDATEs without a condition
\* (order.rs:655-680, 763-774): module Settlement has what comes in between.
Mergeable_withSku(u, o) ==                          \* mutant: forgets ecs_order_spec
    /\ Pending(u, o) /\ order[o].discount = 0
    /\ order[o].offer = "none" /\ order[o].paid = 0

Mergeable(u, o) ==
    /\ Pending(u, o)
    /\ order[o].discount = 0 /\ order[o].sku = {}
    /\ order[o].offer = "none" /\ order[o].paid = 0

order_merge(u, f, t) ==
    LET goods  == order[f].goods + order[t].goods
        fee    == order[f].ship + order[t].ship
        payFee == order[f].payFee + order[t].payFee
    IN  /\ nextId \in OrderId
        /\ f # t /\ Mergeable(u, f) /\ Mergeable(u, t)
        /\ order' = [order EXCEPT
               ![f] = [@ EXCEPT !.status = "merged", !.lines = Empty, !.gifts = Empty],
               ![t].status = "merged",
               ![nextId] = PlainOrder(u, Null, order[f].pay,
                   Plus(order[f].lines, order[t].lines),
                   Plus(order[f].gifts, order[t].gifts), goods, fee, payFee)]
        /\ nextId' = nextId + 1
        /\ UNCHANGED <<cartVars, sel, goodsVars, fundVars>>

\* Mutant: no account log row.
order_surplus_unlogged(u, o, c) ==
    LET rest == order[o].amount - order[o].paid
        cents == Lesser(c, rest)
    IN  /\ Pending(u, o) /\ rest > 0 /\ cents <= balance[u]
        /\ balance' = [balance EXCEPT ![u] = @ - cents]
        /\ order' = [order EXCEPT ![o] = [@ EXCEPT
               !.paid = order[o].paid + cents,
               !.status = IF cents = rest THEN "paid" ELSE "pending_payment"]]
        /\ UNCHANGED <<cartVars, sel, goodsVars, points, bonus, redeemed, nextId>>

\* PATCH /me/orders/{id}/surplus: pay c cents of the rest from the balance.
order_surplus(u, o, c) ==
    LET rest == order[o].amount - order[o].paid
        cents == Lesser(c, rest)
    IN  /\ Pending(u, o)
        /\ rest > 0 /\ cents <= balance[u]
        /\ balance' = [balance EXCEPT ![u] = @ - cents]
        /\ order' = [order EXCEPT ![o] = [@ EXCEPT
               !.paid = order[o].paid + cents, !.logged = order[o].logged - cents,
               !.status = IF cents = rest THEN "paid" ELSE "pending_payment"]]
        /\ UNCHANGED <<cartVars, sel, goodsVars, points, bonus, redeemed, nextId>>

\* PATCH /me/orders/{id}/payment: the fee of the old method is replaced.
order_payment_patch(u, o, p) ==
    /\ Pending(u, o)
    /\ order[o].pay # p
    /\ order' = [order EXCEPT ![o] = [@ EXCEPT
           !.pay = p, !.payFee = PayFee[p],
           !.amount = order[o].amount - order[o].payFee + PayFee[p]]]
    /\ UNCHANGED <<cartVars, sel, goodsVars, fundVars, nextId>>
-----------------------------------------------------------------------------
(* Payment, shipping and the other users of points, stock and bonuses.     *)

\* Mutant: collects the amount whatever the balance paid of it.
payment_callback_full(o) ==
    /\ order[o].status = "pending_payment"
    /\ order' = [order EXCEPT ![o].status = "paid", ![o].channel = order[o].amount]
    /\ UNCHANGED <<cartVars, sel, goodsVars, fundVars, nextId>>

\* A provider's notification that the rest of o was collected.
payment_callback(o) ==
    LET rest == order[o].amount - order[o].paid
    IN  /\ order[o].status = "pending_payment"
        /\ rest > 0
        /\ order' = [order EXCEPT ![o].status = "paid", ![o].channel = rest]
        /\ UNCHANGED <<cartVars, sel, goodsVars, fundVars, nextId>>

\* Mutant: moves an order on that is in another status.
Advance_fromAny(u, o, from, to) ==
    /\ order[o].status # "none" /\ order[o].user = u
    /\ order' = [order EXCEPT ![o].status = to]
    /\ UNCHANGED <<cartVars, sel, goodsVars, fundVars, nextId>>

Advance(u, o, from, to) ==
    /\ order[o].status = from /\ order[o].user = u
    /\ order' = [order EXCEPT ![o].status = to]
    /\ UNCHANGED <<cartVars, sel, goodsVars, fundVars, nextId>>

ship(u, o) == Advance(u, o, "paid", "shipped")
order_received(u, o) == Advance(u, o, "shipped", "received")

\* Mutant: forgets the idempotency key.
redeem_again(u, k, g, q) ==
    LET cost == PointPrice[g] * q
    IN  /\ 0 < cost /\ cost <= points[u] /\ q <= stock[g]
        /\ points' = [points EXCEPT ![u] = @ - cost]
        /\ stock' = [stock EXCEPT ![g] = @ - q]
        /\ redeemed' = [redeemed EXCEPT ![u][k] = [Empty EXCEPT ![g] = q]]
        /\ UNCHANGED <<skuStock, cartVars, sel, balance, bonus, orderVars>>

\* POST /exchange-goods/{id}/redemptions with a key not used for one before.
redeem(u, k, g, q) ==
    LET cost == PointPrice[g] * q
    IN  /\ redeemed[u][k] = Empty
        /\ 0 < cost /\ cost <= points[u]
        /\ q <= stock[g]
        /\ points' = [points EXCEPT ![u] = @ - cost]
        /\ stock' = [stock EXCEPT ![g] = @ - q]
        /\ redeemed' = [redeemed EXCEPT ![u][k] = [Empty EXCEPT ![g] = q]]
        /\ UNCHANGED <<skuStock, cartVars, sel, balance, bonus, orderVars>>

\* Mutant: a claimed bonus can be claimed again.
bonus_claim_again(u, b) ==
    /\ bonus' = [bonus EXCEPT ![b].owner = u]
    /\ UNCHANGED <<cartVars, sel, goodsVars, points, balance, redeemed, orderVars>>

\* POST /me/bonuses/claim: the first user to enter the number owns the bonus.
bonus_claim(u, b) ==
    /\ bonus[b].owner = Null
    /\ bonus' = [bonus EXCEPT ![b].owner = u]
    /\ UNCHANGED <<cartVars, sel, goodsVars, points, balance, redeemed, orderVars>>
-----------------------------------------------------------------------------
CartNext(u) ==
    \/ \E g \in Goods, q \in 1..MaxQty, s \in SUBSET SkuGoods : cart_add(u, g, q, s)
    \/ \E g \in Goods, q \in 1..MaxQty : cart_update(u, g, q)
    \/ \E g \in Goods : cart_delete(u, g)
    \/ clear(u)
    \/ \E g \in Goods, q \in 1..MaxQty : linked_buy(u, g, q)
    \/ package(u)
    \/ \E kind \in OfferKinds, f \in [Goods -> 0..GiftLimit] :
           (f = Only(f, GiftGoods)) /\ favourable(u, kind, f)
    \/ \E row \in Selections(u) : select(u, row)

OrderNext(u) ==
    \/ \E k \in Key, p \in Payment \union {0} : order_create(u, k, p)
    \/ \E k \in Key, g \in GroupGoods, q \in 1..MaxQty, p \in Payment :
           group_buy(u, k, g, q, p)
    \/ \E o \in OrderId :
           \/ order_cancel(u, o)
           \/ order_return_to_cart(u, o)
           \/ \E t \in OrderId : order_merge(u, o, t)
           \/ \E c \in SurplusChoice \ {0} : order_surplus(u, o, c)
           \/ \E p \in Payment : order_payment_patch(u, o, p)
           \/ ship(u, o)
           \/ order_received(u, o)

Next ==
    \/ \E u \in User : CartNext(u) \/ OrderNext(u)
    \/ \E o \in OrderId : payment_callback(o)
    \/ \E u \in User, k \in Key, g \in ExchangeGoods, q \in 1..MaxQty : redeem(u, k, g, q)
    \/ \E u \in User, b \in Bonus : bonus_claim(u, b)

Spec == Init /\ [][Next]_vars
-----------------------------------------------------------------------------
(* Properties.                                                             *)

Status == {"none", "pending_payment", "paid", "shipped", "received", "cancelled", "merged"}
Settled == {"paid", "shipped", "received"}
Live(o) == order[o].status \in Settled \union {"pending_payment"}

Quantities == [Goods -> Nat]
Selection == [pay : Payment \union {0}, pack : Packs \union {Null}, points : Nat,
              bonus : Bonus \union {Null}, surplus : Nat]
Order == [status : Status, user : User \union {Null}, key : Key \union {Null},
          pay : Payment \union {0}, lines : Quantities, gifts : Quantities,
          sku : SUBSET Goods, goods : Nat, ship : Nat, payFee : Nat, amount : Int,
          discount : Int, offer : OfferKinds \union {"none"}, points : Nat,
          bonus : Bonus \union {Null}, paid : Nat, logged : Int, channel : Int]

\* The rows have their types.  In particular no stock, SKU stock, point or
\* balance column ever goes below zero, whatever mix of checkouts, gifts, group
\* buys and redemptions competes for it: nothing is oversold or overspent.
TypeOK ==
    /\ stock \in Quantities /\ skuStock \in Quantities
    /\ cart \in [User -> Quantities] /\ gifts \in [User -> Quantities]
    /\ spec \in [User -> SUBSET SkuGoods]
    /\ sel \in [User -> Selection]
    /\ offer \in [User -> OfferKinds \union {"none"}]
    /\ points \in [User -> Nat] /\ balance \in [User -> Nat]
    /\ bonus \in [Bonus -> [owner : User \union {Null}, order : {0} \union OrderId]]
    /\ redeemed \in [User -> [Key -> Quantities]]
    /\ order \in [OrderId -> Order]
    /\ nextId \in Nat

\* What each order holds: units of g, units of the SKU of g, cents of the balance
\* of u and points of u; and what redemptions got and cost.
UnitsOf(g) == [o \in OrderId |-> IF Live(o) THEN order[o].lines[g] + order[o].gifts[g] ELSE 0]
SkusOf(g) == [o \in OrderId |-> IF Live(o) /\ g \in order[o].sku THEN order[o].lines[g] ELSE 0]
PaidBy(u) == [o \in OrderId |-> IF Live(o) /\ order[o].user = u THEN order[o].paid ELSE 0]
PointsBy(u) == [o \in OrderId |-> IF Live(o) /\ order[o].user = u THEN order[o].points ELSE 0]
Redeemed(g) == [r \in User \X Key |-> redeemed[r[1]][r[2]][g]]
RedeemedBy(u) == [r \in Key \X Goods |-> PointPrice[r[2]] * redeemed[u][r[1]][r[2]]]

\* Every unit of stock is on the shelf, in a line or gift of an order that was
\* neither cancelled nor merged away, or redeemed: creating, merging and
\* cancelling orders neither loses nor invents goods (order.rs:172-273, 442, 707).
StockConserved ==
    \A g \in Goods :
        stock[g] + SumFunctionOnSet(UnitsOf(g), OrderId)
                 + SumFunctionOnSet(Redeemed(g), User \X Key) = Stock0[g]

\* The same for SKU rows, which only cart lines with a SKU draw on.
SkuConserved ==
    \A g \in SkuGoods :
        skuStock[g] + SumFunctionOnSet(SkusOf(g), OrderId) = SkuStock0[g]

\* Nothing of a goods is oversold, lost or invented, neither its units nor those of
\* its SKUs, which different statements take and restore (order.rs:449-496).
GoodsConserved == StockConserved /\ SkuConserved

\* A SKU choice never outlives its cart line, so that it cannot attach itself
\* to goods put in the cart later (order_return_to_cart writes no ecs_cart_spec).
SpecFollowsCart == \A u \in User : \A g \in spec[u] : cart[u][g] > 0

\* Gifts wait in a cart, and are given with an order, only under a gift offer
\* and never more than it allows, however offers, packages and carts are
\* exchanged before the checkout and orders merged after it.
GiftsUnderOffer ==
    /\ \A u \in User : gifts[u] # Empty => offer[u] = "gift"
    /\ \A o \in OrderId :
          LET given == SumFunctionOnSet(order[o].gifts, Goods)
          IN  given > 0 => order[o].offer = "gift" /\ given <= GiftLimit

\* An order is paid, shipped or received exactly when what the balance and the
\* provider paid is its amount; before that no provider money is booked on it.
\* (Of payments that overlap, module Settlement says the same as PaidExact.)
PaidInFull ==
    \A o \in OrderId :
        IF order[o].status \in Settled
        THEN order[o].paid + order[o].channel = order[o].amount
        ELSE order[o].channel = 0

\* The balance of a user is what it was, less what orders that were not
\* cancelled have taken; the account log of an order says the same.
BalanceExplained ==
    /\ \A o \in OrderId : order[o].logged = IF Live(o) THEN -order[o].paid ELSE 0
    /\ \A u \in User :
          balance[u] + SumFunctionOnSet(PaidBy(u), OrderId) = Balance0[u]

\* Points are spent by a live order or a redemption or are still there:
\* cancelling gives them back once (order.rs:457-475).
PointsExplained ==
    \A u \in User :
        points[u] + SumFunctionOnSet(PointsBy(u), OrderId)
                  + SumFunctionOnSet(RedeemedBy(u), Key \X Goods) = Points0[u]

\* A bonus is used exactly by the live order that got its discount.
BonusUsedOnce ==
    \A b \in Bonus :
        /\ bonus[b].order # 0 => /\ Live(bonus[b].order)
                                 /\ order[bonus[b].order].bonus = b
                                 /\ order[bonus[b].order].user = bonus[b].owner
        /\ \A o \in OrderId : Live(o) /\ order[o].bonus = b => bonus[b].order = o

\* An idempotency key names at most one order of a user, across checkout and
\* group buy.
OneOrderPerKey ==
    \A o, p \in OrderId :
        order[o].key # Null /\ order[o].key = order[p].key /\ order[o].user = order[p].user
            => o = p

\* Once an order has left pending_payment none of the handlers of this module,
\* one after the other, changes anything of it, its gifts, points, lines and
\* bonus included, but for the walk paid -> shipped -> received.  (Of handlers
\* that overlap see FinalStays and OnlyMergeOverwrites in module Settlement.)
ClosedStaysClosed ==
    [][\A o \in OrderId :
          order[o].status \notin {"none", "pending_payment"} /\ order'[o] # order[o] =>
              /\ <<order[o].status, order'[o].status>> \in
                     {<<"paid", "shipped">>, <<"shipped", "received">>}
              /\ order'[o] = [order[o] EXCEPT !.status = order'[o].status]]_vars
-----------------------------------------------------------------------------
\* The collection of the money of the orders, without carts and goods.
Stage == [o \in OrderId |-> CASE order[o].status = "none" -> "none"
                              [] order[o].status = "pending_payment" -> "due"
                              [] order[o].status \in Settled -> "settled"
                              [] OTHER -> "closed"]
Charged == [o \in OrderId |-> order[o].amount]
Gathered == [o \in OrderId |-> IF Live(o) THEN order[o].paid + order[o].channel ELSE 0]

Collecting == INSTANCE Collection
              WITH Order <- OrderId, state <- Stage, price <- Charged, got <- Gathered

\* Checkout, merging, fee changes, payments, shipping and cancellation place,
\* replace, reprice, collect and close orders only as Collection allows: an order
\* leaves pending_payment for exactly its amount, gives back what it gathered, or
\* is merged into one that asks no more than the two did (order.rs:700-760).  (Of
\* handlers that overlap, module Settlement shows the same on SQLite.)
ImplementsCollection == Collecting!Spec
-----------------------------------------------------------------------------
(* What documents and comments say and the code does not do.               *)

\* docs/03_api_contract.md:183: the same user, key and request body replays the
\* same result.  The handler recognises a replay by the fingerprint of the body
\* it has filled in from the selection (order.rs:84-109), so filling in the same
\* body after the checkout must give what it gave before.
ReplayRecognised ==
    [][\A u \in User, k \in Key, p \in Payment \union {0} :
          order_create(u, k, p) => Filled(u, p)' = Filled(u, p)]_vars
=============================================================================
