------------------------------ MODULE Pricing -------------------------------
(***************************************************************************)
(* The price of one unit (pricing.rs), shared by price quote, cart,        *)
(* checkout quote and order.                                               *)
(*                                                                         *)
(* A price row is what pricing::unit reads about one product for one user: *)
(*   shop      shop_price                                                  *)
(*   ranked    the user has a membership rank                              *)
(*   percent   discount_percent of that rank (100 if it has no row)        *)
(*   member    the user_price of that rank, a set of at most one price     *)
(*   tiers     ecs_volume_price: pairs of a quantity and a price           *)
(*   promo     promote_price                                               *)
(*   running   is_promote = 1 and now is within the promotion's dates      *)
(*   attr      attr_price of the attributes of its SKU                     *)
(* All prices are cents.                                                   *)
(***************************************************************************)
EXTENDS Integers, FiniteSetsExt

PriceRow == [shop : Nat, ranked : BOOLEAN, percent : Int, member : SUBSET Int,
             tiers : SUBSET (Nat \X Int), promo : Int, running : BOOLEAN, attr : Int]

\* One member price of a rank, one price of a tier: the primary keys.
Keyed(r) ==
    /\ \A p, s \in r.member : p = s
    /\ \A t, u \in r.tiers : t[1] = u[1] => t = u

\* rank_discounted: the division drops fractions of a cent.
RankDiscounted(r) == IF r.ranked THEN (r.shop * r.percent) \div 100 ELSE r.shop

\* member_price: without a rank there is none.
MemberPrice(r) == IF r.ranked THEN r.member ELSE {}

\* The tiers a quantity reaches.
Reached(r, q) == {t \in r.tiers : t[1] <= q}

\* volume_price: the price of the largest tier that is reached.
VolumePrice(r, q) ==
    {t[2] : t \in {t \in Reached(r, q) : \A s \in Reached(r, q) : s[1] <= t[1]}}

\* promote_price: a price of zero is no promotion.
PromotePrice(r) == IF r.running /\ r.promo > 0 THEN {r.promo} ELSE {}

\* The candidates of pricing::unit; configured prices below zero are ignored.
Candidates(r, q) ==
    {RankDiscounted(r)}
        \union {p \in MemberPrice(r) \union VolumePrice(r, q) : p >= 0}
        \union PromotePrice(r)

\* pricing::unit: the lowest candidate and the surcharge of the chosen SKU.
Unit(r, q, sku) == Min(Candidates(r, q)) + (IF sku THEN r.attr ELSE 0)

\* Its refusals: a percentage out of range and a price below zero.
Priced(r, q, sku) ==
    /\ r.ranked => r.percent \in 0..100
    /\ Unit(r, q, sku) >= 0
=============================================================================
