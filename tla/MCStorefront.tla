---------------------------- MODULE MCStorefront ----------------------------
(***************************************************************************)
(* The cart of a user (Basket with Pricing), the pages for visitors        *)
(* (Visitors) and the accounts (Identity) share no table and no lock, so   *)
(* that a step of one neither helps nor hinders the others; `part` says    *)
(* which of them a behaviour is about, and the others rest.                *)
(***************************************************************************)
EXTENDS Basket, VisitorTables, AccountTables, TLC

CONSTANTS
    CanMulti, MaxClicks,
    u1, c1, c2, g1, p1, p2, w1, i1, i2, o1, o2, r1, r2, e1, e2, a1, a2, t1, t2, m1, m2

VARIABLES part, visit

visitVars == <<voteVars, adVars, listVars, visit>>
restVars  == <<userVars, session, tokenVars, request>>

V == INSTANCE Visitors WITH job <- visit
A == INSTANCE Identity

\* 10 % off for the rank, a member price above that, a tier and a promotion.
Rows ==
    {[shop |-> 5, ranked |-> TRUE, percent |-> 90, member |-> {6},
      tiers |-> {<<2, 2>>}, promo |-> 3, running |-> FALSE, attr |-> 1]}

VisitsOf == [counters |-> {"vote", "click"}, newsletter |-> {"subscribe", "unsubscribe"}]

PartInit ==
    /\ part \in {"cart", "counters", "newsletter", "accounts"}
    /\ Init /\ V!Init /\ A!Init
    /\ part = "cart" => backend = "sqlite"

\* Bounds of an account: sessions, mails, and what expires of them.
Few ==
    /\ Cardinality(expired \union {t \in Token : session[t].old}) <= 1
    /\ Cardinality({t \in Token : session[t] # A!NoSession}
                   \union {m \in Mail : outbox[m] # A!Unsent}) <= 3

PartNext ==
    \/ part = "cart" /\ Next /\ UNCHANGED <<part, visitVars, accountVars>>
    \/ part \in {"counters", "newsletter"} /\ V!Next /\ UNCHANGED <<part, vars, restVars>>
       /\ \A r \in Request : visit'[r].op \in VisitsOf[part] \union {"idle"}
    \/ part = "accounts" /\ A!Next /\ UNCHANGED <<part, vars, visitVars>>
       /\ (email[u1] = None => email'[u1] \in {None, a1})
       /\ (outbox'[m2] # A!Unsent => outbox'[m1] # A!Unsent)
       /\ Few'

PartSpec == PartInit /\ [][PartNext]_<<part, vars, visitVars, accountVars>>

\* The tables of a behaviour's part.  Clients, requests and bearer tokens can be
\* exchanged (as a1 and a2, and m1 and m2, before they are first used), so it is
\* enough to know what is how often.
HowOften(f) == {<<v, Cardinality({x \in DOMAIN f : f[x] = v})>> : v \in {f[x] : x \in DOMAIN f}}
UpToNames ==
    CASE part = "cart" ->
             <<part, price, stock, line, nextRec, spec, sel, order, HowOften(job)>>
      [] part = "accounts" ->
             <<part, backend, userVars, HowOften(session), tokenVars, HowOften(request)>>
      [] OTHER -> <<part, backend, voteVars, adVars, listVars, HowOften(visit)>>

FreeAndDear == p1 :> 0 @@ p2 :> 1
OneForPack  == w1 :> 1
OneOfG1     == g1 :> 1
=============================================================================
