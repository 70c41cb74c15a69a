# A TLA+ model of rust_ecshop

rust_ecshop is the server of a shop: an axum HTTP API over one SQL database
(SQLite or MySQL through rbatis).  All state is in the database.  A request is a
handler that opens a transaction, usually takes the write lock of its user
(`db::lock_user`), reads, writes (mostly through conditional UPDATEs) and commits; an
early return drops the transaction, which rolls back.  Payment providers call
the server too, repeat themselves, and are not signed-in users.

The modules here model what happens to goods, prices, orders, money, sessions, mailed
tokens and the counters of public pages.  TLC checks them on small shops; the theorems of
the modules ending in `_proofs` hold for every shop and are checked by TLAPS.

## Inventory

Paths are below `src/rust_ecshop_server/src/http/routes/` unless given in full.

| Component | State | Operations | Talks to | Hard parts, and what makes it correct |
| --- | --- | --- | --- | --- |
| Cart (`cart.rs`, `flow.rs`) | `ecs_cart`, `ecs_cart_spec` | add, update, delete, collect, clear, linked buy, package | pricing, stock (read only) | a SKU row must not outlive its line; gifts must not outlive their offer; two clients act on versions of a line they saw before |
| Selection and offers (`flow.rs`) | `ecs_checkout_selection`, `ecs_cart_offer`, `ecs_cart_gift`, `ecs_checkout_audit` | select, favourable, sync_gifts, bonus, adjustments, apply | orders call `adjustments` and `apply` inside their transaction | the selection is not validated before the order, and the cart changes after the offer was chosen |
| Orders (`order.rs`) | `ecs_order_info`, `ecs_order_goods`, `ecs_order_spec`, `ecs_order_balance_payment` | create, cancel, merge, return to cart, surplus, payment method, received | stock, points, bonus, balance | users compete for stock; what was taken comes back exactly once; an order is settled when exactly its amount arrived; a merge writes without a condition what it has read before |
| Payments (`payment.rs`) | `ecs_pay_log`, `ecs_payment_intent` | callback, intent creation, settlement of chinabank and alipay notifications | orders and balance, without the user lock | repeated, late and overlapping notifications; snapshots overtaken by other transactions |
| Account (`account.rs`, `compat.rs`, `mock.rs`) | `ecs_account_balance`, `ecs_account_log`, `ecs_user_account`, `ecs_account_payment_intent`, `ecs_users.pay_points` | deposit, withdrawal, their cancellation and payment, conversion of points | bids freeze money in the same row | frozen money has two owners; a deposit is credited once |
| Promotions (`marketing_write.rs`) | `ecs_promotion_bid`, `ecs_promotion_claim`, `ecs_goods_activity`, `ecs_redemption` | bid, group_buy (group buy, auction, snatch), redeem | other users' balance rows, stock, orders | the outbid user's money, the winner at the moment of the purchase |
| Bonuses (`account.rs`, `flow.rs`) | `ecs_user_bonus` | claim, use, release | orders | claimed by one user, used by one order |
| Transactions (`rust_ecshop_infra/src/db.rs`) | `ecs_user_write_lock` | begin, commit, rollback, lock_user | everything above | MySQL reads a snapshot (REPEATABLE READ) and writes current rows; a SQLite transaction whose snapshot was overtaken cannot write |
| Identity (`auth.rs`, `account.rs`, `../auth.rs`) | `ecs_sessions`, password hash, e-mail and reset tokens | register, login, logout, password change and reset, confirmations | every handler through the bearer token | a login that overlaps a password change; tokens used twice or for an address that changed |
| Pricing (`pricing.rs`) | none; reads `ecs_goods`, `ecs_member_price`, `ecs_volume_price`, `ecs_user_rank` | unit price, stock and SKU checks | cart, quote, orders | which price wins at the boundary of a tier or a promotion; quote and order must agree |
| Public pages (`marketing.rs`, `widgets.rs`, the newsletter part of `account.rs`) | `ecs_vote*`, `ecs_ad`, `ecs_adsense`, `ecs_email_list`, `ecs_email_outbox` | vote, click, subscribe, unsubscribe and their confirmation | the mailbox | no user lock: ballots of one address overlap; mails are confirmed late and out of order |
| Addresses, favourites, bookings (`account.rs`) | one row per operation | insert, update, delete | orders copy the text of an address | not modelled |
| Catalogue, content, community, compatibility URLs | read-mostly tables | queries, independent inserts | nothing above reads what they write | not modelled |
| Domain, cryptography, dialect, server shell, scripts | none | conversion, hashing, SQL translation, start-up | | not modelled |

`PROJECT.json` lists every component with its status, and under `hazards` every
line at which this code is hard to test.

## Plan

The order puts first what moves goods and money.

1. `Checkout`: cart, selection, orders, redemptions. *Done*; `Checkout_proofs` has the
   order table, `CheckoutLedger_proofs` what is added up over it.
2. `Settlement`: the payment handlers split into snapshot and write, and
   `Collection`, the abstract specification that it and `Checkout` implement. *Done*, with
   its proofs.
3. `Wallet`: deposits, withdrawals, bids and purchases. *Done*, with its proofs.
4. `Identity`: sessions against password changes and resets on both databases,
   and the one-time tokens.  *Done*, with its proofs.
5. `Pricing`: the unit price, and whether a member price takes precedence as the
   documents say.  *Done*, with its proof and a violation run.
6. `Basket`: two clients of one user who act on the versions and quotes they were
   shown.  *Done*, with its proofs.
7. `Visitors`: votes, clicks and newsletter tokens.  *Done*, with its proofs.
8. What remains true where an invariant fails (on MySQL, or in a shop that breaks a
   hypothesis), as theorems beside the violation runs, which say what does not hold.  *Done*
   for `Settlement` (merges included), `Wallet`, `Basket` and the totals of `Checkout`.
9. `Locks`: the order in which transactions take row locks on MySQL (stock of
   lines, then of gifts; balance rows of other users), deadlocks and their rollback.
10. That every pending order can still be paid or cancelled (see "What the models
    show about the code").

## Modules

| Module | Contents |
| --- | --- |
| `Checkout` | cart, checkout and the life of an order |
| `Checkout_proofs` | theorems about the order table, the cart and the types of `Checkout`, and that it implements `Collection` |
| `CheckoutLedger_proofs` | theorems about stock, balance, points, bonuses and gifts against the orders |
| `MCCheckout` | small shops for TLC |
| `MCOrders` | a shop with everything an order may combine, in parts that TLC can finish |
| `Settlement` | the money of a pending order, step by step, on either database |
| `Collection` | what collecting money promises, without carts, goods and transactions |
| `Settlement_proofs` | theorems about `Settlement`, and that it implements `Collection` |
| `MCSettlement` | one order of one customer, or two that may be merged, for TLC |
| `Wallet` | balance, frozen money, points, bids and purchases |
| `Wallet_proofs` | theorems about `Wallet` |
| `MCWallet` | two users and two activities for TLC |
| `AccountTables` | the tables of accounts, sessions and mailed tokens, and what they promise |
| `Identity` | the handlers that change these tables, step by step, on either database |
| `Identity_proofs` | theorems about `Identity` |
| `Pricing` | the price of one unit, as operators on a price row |
| `Basket` | the cart under several clients: rec_ids, versions, prices, quotes |
| `Basket_proofs` | theorems about `Basket` and `Pricing` |
| `VisitorTables` | the tables of votes, clicks and the newsletter list, and what they promise |
| `Visitors` | the handlers that change these tables, step by step, on either database |
| `Visitors_proofs` | theorems about `Visitors` |
| `MCStorefront` | two clients of a cart, two visitors, and one account with two requests at a time, for TLC |
| `SumLemmas` | sums over finite sets, for the proofs |

The component modules do not compose into one: each has the rows it
needs of the others in the abstraction that suits its question.  `Checkout` has
the payment callback and the merge as one step each and no transactions; `Settlement` has the
money of orders only, with transactions; `Wallet` has the balance without orders; `Basket`
has the cart of `Checkout` once more, with less in it but with clients whose knowledge is
old, and is built on the operators of `Pricing`.  `Identity` and `Visitors` share no row with
them, since a session only names the user of a request.  `Checkout`, `Settlement` and `Wallet` meet in `ecs_account_balance`, which all change by relative, conditional
UPDATEs (`available_cents = available_cents - ? ... AND available_cents >= ?`),
so that none relies on the others leaving it alone.

### Checkout

One action per handler, one handler after the other.  On SQLite that is what the code
does: a transaction that another commit has overtaken cannot write, so a handler that
commits has the effect of its writes on the rows it has read.  On MySQL a handler reads a
snapshot, and it is one step only if what it writes does not depend on something read that
another transaction may change meanwhile.  The row lock of the user, taken before anything but
constants is read, keeps the user's other requests away, and rows that users share
(`goods_number`, `product_number`, an unclaimed bonus) are written by conditional UPDATEs
whose row count is checked.  These handlers are not covered by that argument:

* the payment callback (and `settle_intent`) takes no user lock;
* `order_surplus`, `order_payment_patch` and `order_merge` take the lock, but decide by what
  they have read of an order that a callback may pay meanwhile.  `order_merge` is the
  worst of them: it reads both orders by plain SELECTs (order.rs:655-680) and makes them
  merged by UPDATEs without a condition or a look at the row count (order.rs:763-774);
* `order_create` reads the selection's payment method just before it takes the lock;
* the purchase of an auction or snatch is judged by a snapshot older than its lock.

The first two are split into their steps in `Settlement`, the third in `Basket`, the last in
`Wallet`.  What `Checkout` says of such orders (`PaidInFull`, `ClosedStaysClosed`,
`ImplementsCollection`) is said of handlers that do not overlap; `Settlement` says how much of it
is true of those that do (`PaidExact`, `FinalStays`, `OnlyMergeOverwrites` and its own
`ImplementsCollection`).

| State | Tables |
| --- | --- |
| `stock`, `skuStock` | `ecs_goods.goods_number`, `ecs_products.product_number` |
| `cart`, `spec` | `ecs_cart` (quantity of each goods), `ecs_cart_spec` (goods bought by SKU) |
| `sel`, `offer`, `gifts` | `ecs_checkout_selection`, `ecs_cart_offer`, `ecs_cart_gift` |
| `points`, `balance`, `bonus`, `redeemed` | `pay_points`, `available_cents`, `ecs_user_bonus`, `ecs_redemption` |
| `order`, `nextId` | `ecs_order_info` and the rows of other tables that hang on an order |

Actions carry the names of the handlers.  `ReplaceCart` is the body that `clear`,
`linked_buy` and `package` share, `Advance` that of `mock::ship` and
`order_received`.

Abstractions: prices and fees are constants of a shop (prices that change are in
`Basket`); a goods has at
most one SKU; wrapping stands for wrapping and greeting card; shipping fee is one
constant; addresses, notes and invoices are left out; offers are running or not.
Amounts are exact integers of cents bounded by `MaxMoney`, which stands for the
checked i64 arithmetic.

### Settlement and Collection

A handler is `begin`, which takes the snapshot its SELECTs see, and a second
step named after the handler that does its writes and commits.  Between the two
any other transaction may commit.

* On MySQL the second step uses what the snapshot said for its decisions and
  what the rows are now for its UPDATE conditions, as REPEATABLE READ does.
* On SQLite a write needs `fresh`: a transaction that another commit has overtaken
  gets SQLITE_BUSY_SNAPSHOT, fails and rolls back.  `lock_user` is itself a write, so
  that a user's handler excludes every other writer from there on (`Alone`).

Handlers of users take the user lock before they read; those of providers do not,
which is where the two databases differ.  `surplus`, `payment_patch`, `SettlePays` and
`order_merge` do not act on the row count of their UPDATE of the order, and the model keeps
this.  In the first three the status changes only if it was pending, and the rest is
written anyway; `order_merge` has no condition at all and makes merged whatever the
two orders have become.  `order_cancel` begins with its conditional UPDATE, so that it
is one step.

Some order numbers are free at first (`Placings`): a merged order takes one of them, and asks
for the amounts of both.  Goods, gifts, discounts and SKU lines, on which a merge is
refused too, are in `Checkout`.

Jobs record the request, the order, the intent and the log row they read, whether
the intent had expired, and `fresh`.  A provider may notify at any time, under any
trade number and amount.  Signatures are ideal: a notification that arrives is
authentic.  What happens to an order after it is paid is in `Checkout` only.

`Collection` says what collecting money is for: a due order gathers money until it
has exactly its price, and is settled then and only then; a closed one keeps nothing; two
orders that have gathered nothing may be merged into one that asks no more than both.  Two modules
implement it.  `Settlement` does on SQLite, though its steps overlap; `state` is read from the
status, `price` from the amount and `got` from the balance payment and the pay log rows.  On MySQL it
does not, as runs `MCSettlement_overpaid` and `MCSettlement_merged` show.  `Checkout` does in whole orders: there orders are also
placed (by checkout or group buy, settled at once if the balance pays them), `got` is what
balance and provider paid, and everything that carts, goods, points and gifts do is a stutter.  Both
theorems together say that, on SQLite, the one-step callbacks and merges of `Checkout` and the two-step ones of
`Settlement` promise the same about an order's money.

### Wallet

`available`, `frozen` and `log` are `ecs_account_balance` and the sums of
`ecs_account_log`; `request` is a row of `ecs_user_account` with its payment intent;
`bids`, `finished`, `claim` and `over` are the activities.  Handlers are one step for the
reason given under Checkout; `bid` takes the lock of the activity first.
`group_buy` is two steps: it reads the idempotency key, which fixes its
MySQL snapshot, before it takes the lock of the activity.  The order it then writes
is in `Checkout`; that it may fail for a reason of its own is `rollback`.

### Identity

`hash`, `email`, `validated` are columns of `ecs_users`, `verified` is
`ecs_email_verified_users`, `session` is `ecs_sessions`, `verifyRow` and `resetRow` are the
unconsumed rows of the two token tables, `outbox` is `ecs_email_outbox`.  A salted hash is never made
twice, so passwords are numbers; a session remembers the one its login verified, and
`accepted` counts how often a mailed token was accepted, for the properties.  The tables and
their properties stand in `AccountTables`, so that the theorems and the run speak of the same
ones; `request` is what a handler at work has read.

Handlers that decide by what they have read are two steps as in Settlement (`login_begins`
and `login`, and so on); `authenticate` is the bearer lookup that precedes the handler of a
signed-in user, so that its session may be revoked before it runs.  `backend` is a variable
that never changes: one run covers both databases.  A session expires (`expire`) and a mailed token
lapses (`lapse`) at any moment.  Random tokens and hashes are ideal.

On MySQL a login that has verified the old password may open its session after the change revoked
all others; no row of the two transactions conflicts.  `SessionsMatchPassword` therefore
speaks of SQLite only, and no run shows the trace on MySQL.

### Pricing and Basket

A price row holds what `pricing::unit` reads about one product for one user: shop price,
rank discount, member price, tiers, promotion and the surcharge of a SKU.  `Unit` is the
lowest candidate plus the surcharge, `Priced` its refusals.  `Keyed` says what the primary keys
of `ecs_member_price` and `ecs_volume_price` guarantee.  Prices are exact cents.  `MemberPriceFirst`
is what docs/14 and pricing.rs:50 say of it; the code does something else (see the last section).

`Basket` is one user signed in at several clients.  `line` holds `rec_id`, quantity and
version of the `ecs_cart` row of a product, `nextRec` the AUTOINCREMENT, `spec`, `sel` and
`stock` what they hold in `Checkout`, `order.lines` the order that may be returned to the cart.
`job` is what a client knows: the line `cart_list` showed it, the amount `checkout_quote` told
it, or the payment method its `POST /orders` has read.

* `cart_update` is PATCH with the rec_id and version the client was shown; in between,
  other clients may change, delete, order or return the line.
* `order_create` is two steps: the payment method is read before the user lock is taken
  (`order_create_begins`), everything else under it.
* `checkout_quote` is one step although its SELECTs are not in one transaction: a quote that
  a write falls into is worth as little as one that a write comes after, and both are
  forgotten by `Overtaken`.
* `promotion` is the shop's clock; `others` is what orders and cancellations of other users
  do to the stock.

`order.over` is a history: by how much the order charged more than its client was quoted,
if nothing the quote rests on changed.  Offers, bonuses, points and gifts are in `Checkout` only.

### Visitors

`ballot`, `optionCount`, `voteCount` are the tables of a vote, `clickCount` and `adsense`
those of an advertisement, `list` a row of `ecs_email_list` with its pending action and
token, `mailed` the outbox.  These handlers lock no user.  One whose SELECT decides about its
writes is two steps as in Settlement; the UNIQUE index of `ecs_vote_log` is the condition
`NotLogged` of the second.  `ballot` keeps the options voted for and `uses` how often a token was
accepted, both for the properties only.  `backend` never changes.  The tables and their two
properties stand in `VisitorTables`, so that the theorems and the run speak of the same ones.

### MCOrders and MCStorefront

Two MC modules have a variable `part`, chosen initially, that says what a behaviour is about, so
that one shop is enough and TLC can finish it.

`MCOrders` is one shop in which an order may combine everything.  In part `gifts` one user
has the gift offer, a reduction, SKU lines and merging, and pays with neither bonus nor balance; in part `money`
packages, points, a bonus, the balance, two methods and redemptions; in part `bonus` two users
claim and use one bonus, also with wrapping.  `Gifting`, `Paying` and `Claiming` are bounds on
the states of a part, not on what a handler does.

`MCStorefront` is the cart, the public pages and an account.  `Basket`, `Visitors` and `Identity`
share no row, so that their product says nothing the parts do not.  The parts are the cart under
one price row in which every rule matters; votes and clicks; the newsletter with two addresses; and
one account with two requests at a time.  `UpToNames` is the view TLC compares states by: only the
tables of the part, and of clients, requests and bearer tokens, which can be exchanged, how many
are in which state.

## Runs

Each run ends within three minutes with two workers.  Deadlock is not checked:
every model has finitely many orders, keys, intents, bids, rec_ids or tokens, and really stops
when they are used up.

| Run | States | Instance | What it shows |
| --- | --- | --- | --- |
| `MCCheckout_stock` | 523 k | two users, one goods with two units, one of them by SKU, three orders so that two can merge, one redemption, group buys | no unit of goods or SKU is oversold, lost or invented, a SKU row does not outlive its line, keys name one order; refinement of `Collection` with merging |
| `MCOrders_parts` | 379 k | two users, two goods; a gift offer, a reduction and a package of price 1 for goods of 3, SKU lines, wrapping; one point, which may be redeemed too, one bonus, balance 2, a method with a fee and one without; three orders with gifts, of which one is a merge, else two | goods with gifts, SKUs and merging; gifts only under their offer; an order is settled exactly when its amount arrived; points, bonus and balance are explained by live orders, redemptions and the log, also where two users want the bonus; closed orders stay closed |
| `MCCheckout_replay` | - | one order | a repeated checkout is not recognised (violated) |
| `MCSettlement_sqlite` | 813 k | one order, two intents, two methods, two channels, two trade numbers; or two orders that may be merged into a third, one intent, one channel (`Narrow`) | exact collection, refinement of `Collection`, consumed once, ok means paid and stays ok, a closed order stays closed |
| `MCSettlement_mysql` | 34 k | one order paid in parts, two intents, one channel; or two orders that may be merged, one intent (`Narrow`); `PartLiveSpec` | what the locks keep even with overtaken snapshots: one open intent, balance, and that a merge alone overwrites; a repeated callback or settlement is served |
| `MCSettlement_overpaid` | - | MySQL, a callback and a balance payment | collected twice (violated) |
| `MCSettlement_kept` | - | MySQL, a settlement and a cancellation | money booked on a cancelled order (violated) |
| `MCSettlement_merged` | - | MySQL, a callback and a merge of two orders | a paid order becomes merged (`FinalStays` violated) |
| `MCWallet_funds` | 1.44 M | two users, two requests, an auction whose last step is cut at the end price, a snatch, three bids | money is conserved, frozen money and the log are explained, only the winner buys |
| `MCWallet_stale_winner` | - | MySQL, a purchase older than the last bid | the outbid user buys (violated) |
| `MCStorefront_pages` | 940 k | two clients, a goods with a SKU, two units and quantities, three rec_ids, two versions, two payment methods; two visitors, two options, three clicks, two newsletter addresses with three mails; one account with two addresses, two requests at a time, two sessions, two mails, three passwords; both databases | an accepted PATCH replaces what its client saw, an order charges what was quoted; votes and clicks add up, the newsletter list follows confirmed mails; tokens are accepted once, an address is verified by its own token, passwords are replaced knowingly, sessions match the password (SQLite) |
| `MCStorefront_member` | - | the same, with a member price above the discount of the rank | the discounted price is charged (`MemberPriceFirst` violated) |

Bounds.  Hazards here are about two actors and one row, or one actor and a few
steps: two users or two channels are enough for each race between two
transactions, three for none of the code (no handler looks at more than one
foreign row).  Two units of stock are the least that can be both shared and
exhausted; three orders the least in which one is a merge of two.  Amounts of 1 to 3 cents suffice
because amounts are only added, subtracted and compared.  `MaxOrder`,
`MaxQty`, `MaxMoney`, `MaxBids`, `MaxHash`, `MaxStock`, `MaxRec`, `MaxVersion`, `MaxMail` and
`MaxClicks` bound counters; only `MaxQty` (999) and `MaxMoney` (i64) exist in the code.
A line needs three rec_ids and two versions to be deleted, ordered and returned with the
version somebody remembers; two quantities are enough to stand on both sides of a tier.  Sets of interchangeable model values are
symmetric where the properties are safety properties; two intents are used in one order (`Intents`), which
comes to the same, and only one of them is ever too late.
`StockNext`, `PartNext`, `Narrow`, `Intents` and `Few` are the bounds that the MC modules put on the states of
a behaviour; within them every action of the modules still happens.
One user is enough for the accounts of `MCStorefront_pages`: the handlers touch only rows of their user,
but for the uniqueness of addresses; `Few` allows one expiry, of a session or a mail, and three sessions
and mails together.

Each property has a mutant in `PROJECT.json`: a definition of the module with a plausible
mistake that makes TLC report the property.  Mutated forms stand just before the
definition they replace.

### Fairness

Only `LiveSpec` of `Settlement`, with the bounds of run `MCSettlement_mysql` `PartLiveSpec`, states fairness: the server runs a notification's transaction to its
end (weakly fair), because a handler is a future the runtime polls to completion and a
lock wait ends when its holder commits.  That a provider repeats its
notification until it is answered is not of the server, so it is an assumption inside the
property (`CallbacksRepeat`, `SettlementsRepeat`); it is strong fairness, because the
channel is taken by other notifications again and again.  Nothing obliges users to act.

## Theorems

Every invariant and action property of a passing run is stated by a theorem for all values of
the constants; only the two liveness properties are not.  Some theorems state more than any run
does, where the property itself is false on MySQL or in some shops.  Each theorem stands on the
assumption of its module (`CheckoutAssumption` and so on): constants have their types, `Null` is
nobody's name, and the sets that are summed over (users, goods, keys, orders, requests,
activities) are finite.  Nothing is assumed about prices, fees or bounds beyond being natural
numbers (what is due and what is paid at once: positive).  Three kinds of hypotheses are written into a theorem where it is false without them:

* `Backend = "sqlite"`: that a transaction which writes has read the rows as they are.  On MySQL
  it may not have, and the violation runs show what becomes of `PaidExact`, `NothingBookedUnpaid`,
  `FinalStays` and `WinnerClaims`.  What is proved without it holds on both databases.
* About the data of the shop, which the code does not check: `NoMarkup` (a package
  costs no more than its goods), `BonusesGive` (a bonus is worth something, and so are
  the goods it is used on), that the gift offer has no goods with SKUs, and that no member price is
  negative or above the discounted one.  A shop without one
  of them loses points, bonuses or SKU units or asks for another price than documented (see the last section); the
  shops of the passing runs satisfy them, but for the member price, which only `MemberPriceFirst` is about.
* About the configuration, for two theorems that hold on both databases: no payment intents (`Intent = {}`:
  neither chinabank nor alipay is configured), or payment methods that cost the same (`SameFee`).

That the hypotheses are needed was checked with TLC on variants of the shops: `PaidExact`, `NothingBookedUnpaid`,
`ConsumedOnce`, `OkIsPaid`, `FrozenExplained` and (with two auctions) `LogExplains` are violated on MySQL,
`PointsExplained` and `BonusUsedOnce` with a package dearer than its goods, the SKU part of `GoodsConserved` with
a gift of SKU goods, `PaidEnough` on MySQL with two fees, `MemberPriceFirst` with a dearer member price.  For each of them a weaker theorem says what is left.

### Checkout: the order table

| Theorem of `Checkout_proofs` | States |
| --- | --- |
| `TypeCorrect` | `Spec => []TypeOK`; in particular stock, SKU stock, points and balances are natural numbers |
| `MoneyMatches` | `Spec => []PaidInFull` |
| `KeysNameOneOrder` | `Spec => []OneOrderPerKey` |
| `ClosedOrdersStayClosed` | `Spec => ClosedStaysClosed` (of handlers one after the other) |
| `SkuChoicesHaveLines` | `Spec => []SpecFollowsCart` |
| `CheckoutCollects` | `Spec => ImplementsCollection`: the refinement of `Collection` |

`TypeOK` is inductive; its interesting cases are the subtractions, where the
guard of the conditional UPDATE is what keeps the column natural, and the merge,
which changes three rows.  `PaidInFull` and `OneOrderPerKey` are not inductive:
a created order could overwrite one that exists.  The strengthening `OrderInv`
adds `Unused`, that rows from `nextId` on are empty.  Instead of treating each
conjunct under each action, `OrderStep` describes what any action may do to the
order table: keep a row, change a row of its user in a way that
`Kept` allows, or fill the row `nextId` with a `Fresh` order under a key not used
before.  One lemma per action shows that it is an `OrderStep`, and one per invariant
that an `OrderStep` preserves it.  `ClosedStaysClosed` follows from the same cases,
`SpecFollowsCart` from the cart actions alone.  These theorems are about handlers that run one after
the other; for the money of orders whose handlers overlap, read the theorems of `Settlement_proofs` instead.

`CheckoutCollects` describes the steps in the same style once more, by what they do to amounts, payments and
states (`MoneyStep`); each case is a step of `Collection` or, where nothing of these changes, a
stutter.  That a merged order asks no more than its two is not tested by the code, which adds up goods and fees of both
anew.  It holds because of the invariant `BilledInv`, that a row's amount covers its goods less its discount plus
its fees, and because only orders without discount are merged; what merging forgets, the wrapping, makes the new order cheaper.

### Checkout: what adds up

| Theorem of `CheckoutLedger_proofs` | States | For shops with |
| --- | --- | --- |
| `NoUnitIsLost` | `Spec => []StockConserved` | |
| `GoodsAreConserved` | `Spec => []GoodsConserved`, units and SKU units | gifts without SKUs |
| `BalanceIsExplained` | `Spec => []BalanceExplained` | |
| `PointsAreExplained` | `Spec => []PointsExplained` | `NoMarkup` |
| `BonusesAreUsedOnce` | `Spec => []BonusUsedOnce` | `NoMarkup`, `BonusesGive` |
| `GiftsStayUnderOffer` | `Spec => []GiftsUnderOffer` | |
| `SkusAndPointsErrOneWay` | SKU units on the shelf and in live orders are never fewer, points left, on live orders and redeemed never more, than at the opening | |
| `NoBonusIsUsedTwice` | no two live orders use a bonus, and a bonus is booked only on an order of its owner that uses it and is live or merged | |

For each quantity there is a total (`UnitTotal`, `SkuTotal`, `CentTotal`, `PointTotal`):
what is left plus what the rows of live orders and the redemptions hold.  The
invariants say that the totals are what the shop opened with; the proof is that no step
changes a total (`StepKeepsTotals`), which is stronger, needs no induction of its own, and fails exactly
where the code does.  What the handlers do to rows is put into a few effects
first: an order is `Bought` with the cart or `Unpriced` (a group buy), a row is
`Untouched` as far as the sums see it, `Dropped` by a cancellation, or two rows are `Joined` by a merge.
A merge keeps units because it moves the lines of one row to the other; it keeps points only if neither row had any,
since it does not carry them over, and this is where `DiscountPaid` (a pending order without
discount has used no points) and hence `NoMarkup` come in.  SKU units survive a cancellation only
if no gift of the order is of goods bought by SKU (`GiftsApart`), which `GiftsKnown` ensures.

Without these hypotheses the totals still move one way only (`OneSided`): a cancellation may restore too many SKU
units and a merge may forget points, but no step loses a SKU unit or makes a point.  Hence
`SkusAndPointsErrOneWay`: the shop's errors cost its customers points and show SKU stock that is not there; they never lose
a SKU unit or let points be spent twice.  (`stock` is exact in every shop, so that the surplus sells no more units of a
goods than there are.)  Likewise a bonus may stay booked on a merged order, and then is lost to its owner, but is never used twice.

`RowStep` says what a step does to one row, its log and the bonuses.  `Logged` (the account log of an order is
minus what it has paid, zero once it is dead) then explains the balance; `BonusInv` relates
the two tables of bonuses in both directions, since no bonus may be used by an order that its own row does not
name, and holds in every shop; `BonusesAreUsedOnce` adds that with its hypotheses no row of a merged order is named; `GiftInv` bounds the gifts of a cart as well as those of orders, since
an order takes them over.

### Settlement and Collection

| Theorem of `Settlement_proofs` | States | On |
| --- | --- | --- |
| `SettlementTypes` | `Spec => []TypeOK`, and rows name orders that exist | both |
| `OneIntentOpen` | `Spec => []OneOpenIntent` | both |
| `MergeAloneOverwrites` | `Spec => OnlyMergeOverwrites` | both |
| `NothingFinalChanges` | `Spec => FinalStays` | SQLite |
| `BalanceIsKept` | `Spec => []BalanceKept` | both |
| `ExactlyPaid` | `Spec => [](PaidExact /\ NothingBookedUnpaid)` | SQLite |
| `NothingUnpaidIsBooked` | `Spec => []NothingBookedUnpaid` | SQLite |
| `IntentConsumedOnce` | `Spec => []ConsumedOnce` | SQLite |
| `OkIsTrue` | `Spec => []OkIsPaid`; a notification that was told ok is told so again | SQLite |
| `SettlementCollects` | `Spec => ImplementsCollection`: the refinement of `Collection` | SQLite |
| `OkIsBooked` | every trade number told ok is booked on its order, every consumed intent has a booking of its order and cents | both |
| `CallbacksBookOnce` | at most one booking of an order, and only of one that is paid or merged away, if there are no payment intents | both |
| `NeverUnderpaid` | `Spec => []PaidEnough`: a paid order got at least its amount, if all payment methods cost the same | both |

`Typed` adds to the types whose request a job is and that rows name existing orders.  `JobSteps` then says
once for all actions what a step may do to a job: it is `Begun` on a new snapshot, or
`Kept` with what it has read, and fresh only if the step wrote no row.
That gives `FreshSees`, the heart of the argument: a transaction that is still allowed to write has read the rows as
they are.  With it, each handler's write, which tests what it has read, is one of seven
effects on what the tables hold (`PartPaid`, `Repriced`, `Closed`, `Merged`, `Opened`, `Expires`, `Books` with or without
`Consumes`); `SqliteWrites` shows that there is no other.  `Inv` adds what the effects preserve:
`Collected` (`PaidExact` and `NothingBookedUnpaid`, neither inductive without the other, since a booking is only
exact if nothing was booked before), `ConsumedOnce`, `SeenStays` (a log row or a consumed
intent that was read is final, so that even a stale reader answers truly) and that every answer ok
is matched by a row (`Answered`).  `NothingFinalChanges` is read off the effects: each of them changes only orders
that are pending, a merge included, because it may write only if the orders are still what it has read.

For the refinement, `got` is a sum over the rows of `log` that name an order, and `Amounts` (an order asks for at
least its fee, and the balance has paid nothing for one that was merged) keeps prices natural.  `RefineStep` maps `PartPaid` and `Books` to the
collecting step of `Collection`, `Repriced`, `Closed` and `Merged` to its `Reprice`, `Close` and `Merge`, and all else to a stutter; it
needs `Collected`: a due order has gathered what its balance has paid, a closed one nothing, and a booking is
exactly the rest of the price.

What holds on both databases rests on row locks and conditions of UPDATEs only.  `OneIntentOpen` is
inductive with the types.  `OrderSteps` says what a handler may do to an order and its balance money, and
`OrdersLocked` that while a user's transaction holds the lock, an order it has read as not cancelled is
not cancelled.  `BalanceIsKept` follows, and `MergeAloneOverwrites`: every UPDATE of the order table but the
two of `order_merge` has the status in its condition, so that a merge alone can write over an order that
is no longer pending; thanks to the lock it is not a cancelled or merged one, but it may be
a paid one, and run `MCSettlement_merged` shows that it happens.

The last three theorems say how far MySQL can go wrong.  `OkIsBooked` needs `Shown`, that what a transaction has
read of consumed intents and pay log rows is final; so the provider's money is never forgotten, only booked on an
order that did not need it, or that a merge has closed since.  `CallbacksBookOnce` (by `BookedIsPaid`) says which of the
errors need an intent: `payment_callback` rolls back when its UPDATE of the order meets no row, so that without
intents even on MySQL each booking pays its order, and only a merge takes that from it again; money booked on a cancelled order,
or twice on one, comes from `settle_intent`.  `NeverUnderpaid` shows that the errors of `MCSettlement_overpaid` are
against the customer: while methods cost the same a transaction has read no lower amount and no more paid than there is
(`ReadsStand`), and who saw less paid collects too much, never too little.  A merged order carries the fees of both
(`FeesStand`), so that a new method makes it cheaper and never dearer.

### Wallet

| Theorem of `Wallet_proofs` | States | On |
| --- | --- | --- |
| `WalletTypes` | `Spec => []TypeOK`; no balance becomes negative | both |
| `BidsAlwaysRise` | `Spec => []BidsRise` | both |
| `MoneyIsConserved` | `Spec => []MoneyConserved` | both |
| `WinnersClaim` | `Spec => []WinnerClaims` | SQLite |
| `FrozenMoneyExplained` | `Spec => [](FrozenExplained /\ LogExplains)` | SQLite |
| `LogIsTrue` | `Spec => []LogExplains` | SQLite |
| `ClaimsWereWon` | an activity is bought after its end, by a user who had won it with its first bids up to some moment | both |

`BidsRise` needs `TopFinishes`: a bid that reached the end price has ended the auction, so that no bid
can follow it that would be cut to the same price.  For `MoneyConserved` each step keeps the money of every
user (`Balanced`), where a request counts if it is paid and a bid by its costs; the step
that moves two users' rows is the auction bid.

`WinnerClaims` rests on `SnapshotTrue`: on SQLite a purchase is the only transaction at work from its lock on, so that the
bids it judges are the bids there are.  `FrozenExplained` needs `WinnerClaims` in turn: the deposit a purchase releases
is that of its buyer only if the buyer leads.  And the log is true although
what is logged for the outbid user is computed and not read, because the explanation of the frozen money
shows that the refund is frozen when the UPDATE takes it.

On MySQL the purchase may judge older bids, but no others: `SnapshotPast` says that the bids of a snapshot are the first
bids of the activity, since bids are only added at the end (`BidsAreAdded`).  `ClaimsWereWon` follows, and says that
the hazard of `MCWallet_stale_winner` is the whole of it.

### Identity

| Theorem of `Identity_proofs` | States |
| --- | --- |
| `IdentityTypes` | `Spec => []AccountsTyped` |
| `SessionsFollowPasswords` | `Spec => []SessionsMatchPassword` (which speaks of SQLite) |
| `VerifiedAddresses` | `Spec => []VerifiedIsCurrent` |
| `TokensWorkOnce` | `Spec => []TokenUsedOnce` |
| `PasswordsAreReplacedKnowingly` | `Spec => ReplacedKnowingly` |

They hold for any number of users, requests, sessions and mails, on both databases.  `IdentityInv` strengthens the four invariants together: a token in a
row was sent for the purpose and to the user of the row and is unused (`RowsSent`), a verification in force went to the
present address (`Current`), who is not registered owns nothing (`Registered`), and a login
nobody overtook has verified the hash of the present (`JobsKnown`).  One lemma per
handler keeps the tables, `ReadKeeps` what the others have read.  `RowsSent` is what makes a token work once on MySQL too: the
condition of the consuming UPDATE is on the row of the present, and a token is mailed before
it is stored and never stored again.

### Basket and Pricing

| Theorem of `Basket_proofs` | States |
| --- | --- |
| `BasketTypes` | `Spec => []TypeOK`: types, rec_ids given once, SKU choices only for goods in the cart |
| `VersionsTell` | `Spec => []VersionTellsLine` |
| `MemberPriceUnlessDearer` | `Spec => []MemberPriceFirst`, if no member price is negative or above the discounted one |
| `QuotesAreCharged` | `Spec => []QuoteIsOrder` |

`BasketAssumption` adds that the configured price rows respect their primary keys.
What a client was shown may be about a row that is gone, so the
invariant must speak of every row that could still match it: `SeenOK` says that the
rec_id shown was given already (it is below `nextRec`), and that a row which has it now is
the same product, has a version at least as large, and the same quantity if the version is
equal.  It is kept because a step either leaves a row, or bumps its version, or deletes it, or gives it
a rec_id not used before (`LineStep`, shown for each action), and because clients learn
only rows that exist (`JobStep`).  `PutLines` covers the insertion of several rows in any order.

`MemberPriceUnlessDearer` says what is left of the documents' rule: `NoDearerMember`, a lemma about the operators of
`Pricing`, shows that leaving the rank-discounted price among the candidates does not change their least element if the
member price is no dearer, and a promotion that starts or ends does not touch either.

`QuotesAreCharged` needs `QuotesCurrent`, that a quote nothing has overtaken is what the cart would cost
now: every action that changes a price, the cart or the selection forgets the quotes (`WritesEndQuotes`), the
others change nothing the amount is computed from (`SameAmounts`).

### Visitors

| Theorem of `Visitors_proofs` | States |
| --- | --- |
| `CountersAgree` | `Spec => []CountersAddUp` |
| `ListedOnlyByConsent` | `Spec => ListedByConsent` |

Both hold on both databases.  `Counted` adds the types that sums need; that a ballot is counted once
although two requests of one address overlap is the UNIQUE index (`NotLogged`) at work.  `TokensSent` says
that the token of a row is the last mail to its address, for the pending action, and unused.  `MCStorefront` checks the
same two formulas of `VisitorTables` in its product with `Basket`; `TablesAssumption` (addresses and pages are
finite) is what the sums need.

### Sums

Totals are `SumFunctionOnSet` of the community modules, which is a fold and recursive underneath.
`SumLemmas` proves what the proofs need of it: that it is the one function that satisfies the obvious
recursion on finite sets (`AdderExists`, `AdderUnique`, `SumIsAdder`), and from this how a sum changes with its
set and with one or three of its terms (`SumInsert`, `SumRemove`, `SumUpdate`, `SumThree`), that it is
an integer or a natural number, and when two sums are equal.  The inductions are over sets given as
constants, by the well-foundedness of strict inclusion of finite sets (`SetInduction`, `NumberInduction`).

### Model-checked only

`CallbackServed` and `SettleServed` (run `MCSettlement_mysql`): liveness under fairness is out of the prover's reach, as
are statements about what is enabled.  The largest instances on which TLC tried the weaker theorems for MySQL
are not among the runs.  That the six disagreements of the next section occur is shown by TLC's
counterexamples, not proved.  The relation between modules that share `ecs_account_balance` is argued
under Modules, not checked.


## What the models show about the code

Violation runs, with the lines in `findings` of `PROJECT.json`:

* `MCCheckout_replay`: a checkout without `payment_id` takes it from the selection
  before it computes the fingerprint, and consumes the selection; the same request
  again is refused as a different one.
* `MCSettlement_overpaid`: on MySQL a callback and a balance payment both collect the rest.
* `MCSettlement_kept`: on MySQL a rejected settlement commits its pay log row and the consumed
  intent.  The provider that repeats it is then told ok.
* `MCSettlement_merged`: on MySQL a merge reads two pending orders, a callback pays one of them and is answered ok,
  and the merge makes it merged all the same.  The provider's money stays on an order that is closed, and the
  new order asks for all of it again.
* `MCStorefront_member`: docs/14_mysql_promotions_legacy_payment_design.md:22 and pricing.rs:50 say that a member price
  takes precedence over the rank discount; the code takes the lower of the two.
* `MCWallet_stale_winner`: on MySQL a purchase may be judged by bids older than the
  lock it holds.

Also met while modelling, and kept in the models as the code has it:

* Cancelling an order with a SKU line and a gift of the same goods restores the SKU stock for
  both (`order_cancel`).  The passing runs give away goods without SKUs.
* More generally the join of `ecs_order_spec` and `ecs_order_goods` (order.rs:485) restores the SKU stock
  once for each order line of the goods, while the comment at order.rs:442 speaks of exactly once.
* pricing.rs:64 says "Lowest configured price whose tier is reached"; the query takes the price of the largest tier
  reached, which is the same only if prices fall with the quantity (`VolumePrice`).
* On MySQL a login that overlaps a password change may leave a session of the old password (see Identity); the
  documents say that all sessions are revoked.
* A selection changed between order.rs:84-99 and the user lock is consumed unused: the order
  has the payment method of the older selection (`order_create_begins`).
* One cart line that exceeds the stock or 999 units makes the cart and every quote
  unreadable (409) until it is deleted; returning an order to the cart can exceed 999.
* `booking_create` recognises duplicates by the text "UNIQUE" of SQLite's message; MySQL's is
  another one, so that a duplicate is an internal error there.
* Changing to a payment method without a fee may leave a pending order whose amount the balance
  has paid already; only cancelling ends it (`order_payment_patch`).
* A bonus and an offer that together exceed the goods refuse the checkout (`Adjustable`).
* Orders with points and a package that costs more than its goods may be merged, and their points do not
  come back when the merged order is cancelled (`Mergeable`).  A bonus that gained nothing (worth 0, or
  used on goods of price 0) is lost in the same way: the order has discount 0, so that it may be merged
  (flow.rs:201-279, order.rs:668-680).  TLC finds both when a shop has such a package or bonus; the shops of the runs
  have neither, which the theorems about points and bonuses state as hypotheses.
* On MySQL an overlapping delivery overwrites a consumed intent with expired (`SettleExpires`).
* On MySQL a stale purchase takes the deposit of its buyer out of frozen money that was given back when the buyer was outbid,
  so that money of a withdrawal under review or of another auction is released instead, and the deposit of the last
  bidder stays frozen (`group_buy`; `FrozenExplained`, and with two auctions `LogExplains`, are violated there).

## Not modelled

Everything with status `not_modelled` in `PROJECT.json`, with its reason: reads (goods, listings, content,
widgets, feeds), independent inserts and deletes of rows nothing else reads (addresses, favourites, bookings,
comments, messages, tags, history), conversion and formatting, cryptography, SQL translation, start-up.  Within the modelled
parts: text fields, order listings and address changes, parsing and verifying notifications, rounding of cents in the database,
deadlocks that MySQL breaks by a rollback (a rollback is a step only where a request can be
left half done).
