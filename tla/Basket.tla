------------------------------- MODULE Basket -------------------------------
(***************************************************************************)
(* The cart of one user who is signed in at several clients at once        *)
(* (cart.rs, flow.rs, order.rs, pricing.rs).                               *)
(*                                                                         *)
(* Module Checkout has the cart of a client that always knows its current  *)
(* rows.  Here clients act on what they were shown: a cart line with its   *)
(* version, or a quote, while other requests of the user, other users and  *)
(* the shop change the rows.  A handler that locks the user is one step; a *)
(* request that reads before it locks (order_create), and a client that    *)
(* uses a response later, are several, kept in `job`.                      *)
(* Of the selection only payment and wrapping are kept, and the other      *)
(* adjustments of the amount are module Checkout's.                        *)
(***************************************************************************)
EXTENDS Pricing

CONSTANTS
    Client,
    Goods, SkuGoods,
    Payment,        \* enabled payment methods; 0 means "not given"
    Packs, Null,
    PriceRows,      \* what the shop may have configured, promotions not running
    PayFee, PackFee, ShippingFee,
    Bundle,         \* quantities of the members of the package
    MaxQty,         \* largest quantity of one line that is priced (999)
    MaxStock, MaxRec, MaxVersion    \* bounds of counters

ASSUME BasketAssumption ==
    /\ PriceRows \subseteq PriceRow /\ \A r \in PriceRows : Keyed(r)
    /\ IsFiniteSet(Goods) /\ SkuGoods \subseteq Goods
    /\ 0 \notin Payment /\ Null \notin Goods \union Packs \union Int
    /\ PayFee \in [Payment -> Nat] /\ PackFee \in [Packs -> Nat] /\ ShippingFee \in Nat
    /\ DOMAIN Bundle \subseteq Goods /\ Bundle \in [DOMAIN Bundle -> Nat \ {0}]
    /\ {MaxQty, MaxStock, MaxRec, MaxVersion} \subseteq Nat

VARIABLES
    price,      \* the price row of each product for this user
    stock,      \* ecs_goods.goods_number
    line,       \* ecs_cart: rec_id, goods_number and version of a product's row
    nextRec,    \* AUTOINCREMENT of ecs_cart
    spec,       \* ecs_cart_spec: the goods for which the SKU is chosen
    sel,        \* ecs_checkout_selection
    order,      \* the last order: its lines and (a history) how much more it
                \* charges than its client was quoted
    job         \* what each client was shown or has read

vars == <<price, stock, line, nextRec, spec, sel, order, job>>

NoLine   == [rec |-> 0, qty |-> 0, version |-> 0]
EmptySel == [pay |-> 0, pack |-> Null]
NoLines  == [g \in Goods |-> NoLine]
Idle     == [op |-> "idle", goods |-> Null, seen |-> NoLine, asked |-> 0, pay |-> 0,
             quote |-> Null]
NoOrder  == [lines |-> <<>>, over |-> 0]

Init ==
    /\ price \in [Goods -> PriceRows]
    /\ stock = [g \in Goods |-> MaxStock]
    /\ line = NoLines /\ nextRec = 1
    /\ spec = {}
    /\ sel = EmptySel
    /\ order = NoOrder
    /\ job = [c \in Client |-> Idle]
-----------------------------------------------------------------------------
Lesser(a, b) == IF a <= b THEN a ELSE b

InCart == {g \in Goods : line[g].rec # 0}

\* A quote is worth something until a row it was computed from changes.
Overtaken(j) == IF j.op = "quoted" THEN Idle ELSE [j EXCEPT !.quote = Null]
SomebodyWrites == job' = [c \in Client |-> Overtaken(job[c])]
Writes(c) == job' = [[d \in Client |-> Overtaken(job[d])] EXCEPT ![c] = Idle]

\* pricing::unit accepts q units of g (the stock of its SKU is module Checkout's).
Accepted(g, q, skus) ==
    /\ q \in 1..MaxQty /\ q <= stock[g]
    /\ Priced(price[g], q, g \in skus)

\* pricing::cart: one line that has no price fails the request.
CartAccepted == \A g \in InCart : Accepted(g, line[g].qty, spec)

LinePrice(g) == Unit(price[g], line[g].qty, g \in spec)

\* The rec_ids of rows that are inserted together, in some order.
RecIds(new) ==
    {ids \in [new -> nextRec..(nextRec + Cardinality(new) - 1)] :
        \A g, h \in new : ids[g] = ids[h] => g = h}

Bumped_kept(l, q) == [l EXCEPT !.qty = q]   \* mutant: the version stays
Bumped(l, q) == [rec |-> l.rec, qty |-> q, version |-> l.version + 1]

\* INSERT INTO ecs_cart ... ON CONFLICT DO UPDATE: the goods of f get these
\* quantities, the other rows are those of `rest`.
Put(f, rest) ==
    LET new == {g \in DOMAIN f : rest[g] = NoLine}
    IN  /\ \A g \in DOMAIN f \ new : rest[g].version < MaxVersion
        /\ nextRec + Cardinality(new) - 1 <= MaxRec
        /\ nextRec' = nextRec + Cardinality(new)
        /\ \E ids \in RecIds(new) :
              line' = [g \in Goods |->
                  IF g \in new THEN [rec |-> ids[g], qty |-> f[g], version |-> 1]
                  ELSE IF g \in DOMAIN f THEN Bumped(rest[g], f[g]) ELSE rest[g]]
-----------------------------------------------------------------------------
(* Requests about the cart, from any client.                               *)

\* POST /me/cart.
cart_add(g, q, s) ==
    LET total == line[g].qty + q
    IN  /\ s \subseteq {g} \intersect SkuGoods
        /\ Accepted(g, total, s)
        /\ g \in InCart => spec \intersect {g} = s
        /\ Put([h \in {g} |-> total], line)
        /\ spec' = (spec \ {g}) \union s
        /\ SomebodyWrites
        /\ UNCHANGED <<price, stock, sel, order>>

\* GET /me/cart: the client is shown a line.
cart_list(c, g) ==
    /\ job[c] = Idle /\ g \in InCart
    /\ CartAccepted
    /\ job' = [job EXCEPT ![c].op = "shown", ![c].goods = g, ![c].seen = line[g]]
    /\ UNCHANGED <<price, stock, line, nextRec, spec, sel, order>>

\* PATCH /me/cart/{id} with the version it was shown.
cart_update(c, q) ==
    \E g \in InCart :
        /\ job[c].op = "shown"
        /\ line[g].rec = job[c].seen.rec /\ line[g].version = job[c].seen.version
        /\ line[g].version < MaxVersion
        /\ Accepted(g, q, spec)
        /\ line' = [line EXCEPT ![g] = Bumped(@, q)]
        /\ Writes(c)
        /\ UNCHANGED <<price, stock, nextRec, spec, sel, order>>

\* Mutant: the SKU row outlives its line.
cart_delete_keepsSpec(g) ==
    /\ g \in InCart
    /\ line' = [line EXCEPT ![g] = NoLine]
    /\ SomebodyWrites
    /\ UNCHANGED <<price, stock, nextRec, spec, sel, order>>

\* DELETE /me/cart/{id}, or the line moves to the favourites (flow::collect).
cart_delete(g) ==
    /\ g \in InCart
    /\ line' = [line EXCEPT ![g] = NoLine]
    /\ spec' = spec \ {g}
    /\ SomebodyWrites
    /\ UNCHANGED <<price, stock, nextRec, sel, order>>

\* clear, linked_buy and package replace all lines.
ReplaceCart(f) ==
    /\ \A g \in DOMAIN f : f[g] \in 1..MaxQty /\ f[g] <= stock[g]
    /\ Put(f, NoLines)
    /\ spec' = {}
    /\ SomebodyWrites
    /\ UNCHANGED <<price, stock, sel, order>>

clear == ReplaceCart(<<>>)
linked_buy(g, q) == ReplaceCart([h \in {g} |-> q])
package == Bundle # <<>> /\ ReplaceCart(Bundle)

\* POST /me/orders/{id}/cart for the last order: its lines again, as far as the
\* stock goes.
order_return_to_cart ==
    LET sold == {g \in DOMAIN order.lines : stock[g] > 0}
        addable(g) == Lesser(order.lines[g], stock[g])
    IN  /\ sold # {}
        /\ Put([g \in sold |-> Lesser(line[g].qty + addable(g), stock[g])], line)
        /\ SomebodyWrites
        /\ UNCHANGED <<price, stock, spec, sel, order>>

\* PATCH /checkout/selection/:field.
select(row) ==
    /\ row \in {[sel EXCEPT !.pay = p] : p \in Payment}
               \union {[sel EXCEPT !.pack = k] : k \in Packs \union {Null}}
    /\ sel' = row
    /\ SomebodyWrites
    /\ UNCHANGED <<price, stock, line, nextRec, spec, order>>
-----------------------------------------------------------------------------
(* Quote and order.                                                        *)

\* A payment method missing from the body is filled in from the selection.
Filled(p) == IF p = 0 THEN sel.pay ELSE p

Extra == IF sel.pack = Null THEN 0 ELSE PackFee[sel.pack]
Subtotal(g) == LinePrice(g) * line[g].qty

\* checkout_quote: the amount shown to the client.
QuoteAmount(p) == SumFunctionOnSet([g \in InCart |-> Subtotal(g)], InCart)
                      + ShippingFee + PayFee[p] + Extra

\* order_create: the amount charged.
OrderAmount_base(p) ==                      \* mutant: shop_price of the goods row
    SumFunctionOnSet([g \in InCart |-> price[g].shop * line[g].qty], InCart)
        + ShippingFee + PayFee[p] + Extra
OrderAmount(p) == SumFunctionOnSet([g \in InCart |-> Subtotal(g)], InCart)
                      + ShippingFee + PayFee[p] + Extra

\* POST /checkout/quote.  Its SELECTs are not in one transaction; a quote a write
\* falls into is worth as little as one a write comes after, so one step is enough.
checkout_quote(c, p) ==
    /\ job[c] = Idle
    /\ InCart # {} /\ CartAccepted
    /\ Filled(p) \in Payment
    /\ job' = [job EXCEPT ![c].op = "quoted", ![c].asked = p,
                          ![c].quote = QuoteAmount(Filled(p))]
    /\ UNCHANGED <<price, stock, line, nextRec, spec, sel, order>>

\* POST /orders fills in the payment method before it locks the user ...
order_create_begins(c, p) ==
    /\ job[c].op \in {"idle", "quoted"}
    /\ job[c].op = "quoted" => p = job[c].asked
    /\ job' = [job EXCEPT ![c].op = "ordering", ![c].asked = 0, ![c].pay = Filled(p)]
    /\ UNCHANGED <<price, stock, line, nextRec, spec, sel, order>>

\* ... and then reads and consumes the cart and the selection.
order_create(c) ==
    /\ job[c].op = "ordering"
    /\ job[c].pay \in Payment
    /\ InCart # {} /\ CartAccepted
    /\ stock' = [g \in Goods |-> stock[g] - line[g].qty]
    /\ order' = [lines |-> [g \in InCart |-> line[g].qty],
                 over |-> IF job[c].quote = Null THEN 0
                          ELSE OrderAmount(job[c].pay) - job[c].quote]
    /\ line' = NoLines /\ spec' = {} /\ sel' = EmptySel
    /\ Writes(c)
    /\ UNCHANGED <<price, nextRec>>

\* A client forgets what it was shown, or its request fails.
leave(c) ==
    /\ job[c] # Idle
    /\ job' = [job EXCEPT ![c] = Idle]
    /\ UNCHANGED <<price, stock, line, nextRec, spec, sel, order>>
-----------------------------------------------------------------------------
(* What others do.                                                         *)

\* Orders and cancellations of others, and of this user.
others(g, n) ==
    /\ stock' = [stock EXCEPT ![g] = n]
    /\ UNCHANGED <<price, line, nextRec, spec, sel, order, job>>

\* The time of a promotion starts or ends.
promotion(g) ==
    /\ price' = [price EXCEPT ![g].running = ~@]
    /\ SomebodyWrites
    /\ UNCHANGED <<stock, line, nextRec, spec, sel, order>>

CartNext ==
    \/ \E g \in Goods, q \in 1..MaxQty : linked_buy(g, q) \/ \E s \in SUBSET {g} : cart_add(g, q, s)
    \/ \E g \in Goods : cart_delete(g)
    \/ clear \/ package \/ order_return_to_cart
    \/ \E p \in Payment \union {0}, k \in Packs \union {Null} : select([pay |-> p, pack |-> k])

ClientNext(c) ==
    \/ \E g \in Goods : cart_list(c, g)
    \/ \E q \in 1..MaxQty : cart_update(c, q)
    \/ \E p \in Payment \union {0} : checkout_quote(c, p) \/ order_create_begins(c, p)
    \/ order_create(c) \/ leave(c)

OthersNext == \E g \in Goods : promotion(g) \/ \E n \in 0..MaxStock : others(g, n)

Next == CartNext \/ OthersNext \/ \E c \in Client : ClientNext(c)

Spec == Init /\ [][Next]_vars
-----------------------------------------------------------------------------
(* Properties.                                                             *)

\* The rows have their types; rec_ids are given once, and only goods in the cart
\* have a chosen SKU.
TypeOK ==
    /\ price \in [Goods -> PriceRow]
    /\ stock \in [Goods -> 0..MaxStock]
    /\ line \in [Goods -> [rec : Nat, qty : Nat, version : Nat]]
    /\ nextRec \in Nat \ {0}
    /\ \A g \in Goods : line[g] = NoLine \/ /\ line[g].rec \in 1..(nextRec - 1)
                                             /\ line[g].version > 0
    /\ \A g, h \in InCart : line[g].rec = line[h].rec => g = h
    /\ spec \subseteq InCart \intersect SkuGoods
    /\ sel \in [pay : Payment \union {0}, pack : Packs \union {Null}]
    /\ DOMAIN order.lines \subseteq Goods
    /\ \A g \in DOMAIN order.lines : order.lines[g] \in Nat

\* A PATCH that is accepted replaces exactly what its client was shown: a row
\* with the rec_id and the version it holds is the same product in the same
\* quantity, whatever was added, removed, ordered or returned in between
\* (cart.rs:34-35, 193-223).
VersionTellsLine ==
    \A c \in Client, g \in InCart :
        /\ job[c].op = "shown"
        /\ line[g].rec = job[c].seen.rec /\ line[g].version = job[c].seen.version
        => g = job[c].goods /\ line[g].qty = job[c].seen.qty

\* An order charges what its client was quoted unless cart, selection or prices
\* changed in between (docs/14_mysql_promotions_legacy_payment_design.md:8:
\* quote and order apply the same rules).
QuoteIsOrder == order.over = 0
-----------------------------------------------------------------------------
(* What documents and comments say and the code does not do.               *)

\* The base prices that are compared if a member price replaces the rank discount.
Replacing(r, q) ==
    (IF MemberPrice(r) = {} THEN {RankDiscounted(r)} ELSE MemberPrice(r))
        \union {p \in VolumePrice(r, q) : p >= 0} \union PromotePrice(r)

\* docs/14_mysql_promotions_legacy_payment_design.md:22 and pricing.rs:50: the price
\* configured for a rank takes precedence over the rank's discount, and then the
\* lowest of it, the tier and the promotion is the base price of a cart line.
MemberPriceFirst ==
    \A g \in InCart :
        LinePrice(g) = Min(Replacing(price[g], line[g].qty))
                           + (IF g \in spec THEN price[g].attr ELSE 0)
=============================================================================
