--------------------------- MODULE VisitorTables ---------------------------
(***************************************************************************)
(* The tables that visitors change without signing in: the vote, the       *)
(* clicks of an advertisement and the newsletter list with the mails sent  *)
(* for it, and what they promise.  Module Visitors changes them.           *)
(***************************************************************************)
EXTENDS Naturals, FiniteSetsExt

CONSTANTS
    Ip,             \* addresses of the visitors' sockets
    Option,         \* options of the vote
    Referer,        \* pages with the advertisement
    Email,
    MaxMail         \* bound on the mails of a behaviour

ASSUME TablesAssumption == IsFiniteSet(Ip) /\ IsFiniteSet(Referer) /\ MaxMail \in Nat

VARIABLES
    ballot,         \* ecs_vote_log: who voted (and, a history, for what)
    optionCount,    \* ecs_vote_option.option_count
    voteCount,      \* ecs_vote.vote_count
    clickCount,     \* ecs_ad.click_count
    adsense,        \* ecs_adsense.clicks by referer
    list,           \* ecs_email_list: status, pending_action and its token
    mailed,         \* ecs_email_outbox: the sequence of mails with their tokens
    lapsed,         \* mails whose token has expired
    uses            \* how often the token of a mail was accepted

voteVars == <<ballot, optionCount, voteCount>>
adVars   == <<clickCount, adsense>>
listVars == <<list, mailed, lapsed, uses>>

\* The totals are the sums of their parts: an address is counted once, however
\* many of its ballots overlap, for exactly the options of its ballot, and every
\* click is counted for one page (marketing.rs:319, widgets.rs:63).
CountersAddUp ==
    /\ voteCount = Cardinality({i \in Ip : ballot[i] # {}})
    /\ \A o \in Option : optionCount[o] = Cardinality({i \in Ip : o \in ballot[i]})
    /\ clickCount = SumFunctionOnSet(adsense, Referer)

\* docs/03_api_contract.md:207: an address is listed or removed only by the last
\* token mailed to this very address, sent for this very action, unexpired and
\* not used before, however requests and confirmations overlap.
ListedByConsent ==
    [][\A a \in Email : list'[a].status # list[a].status =>
          \E m \in DOMAIN mailed :
              /\ mailed[m] = [to |-> a,
                     kind |-> IF list'[a].status = 1 THEN "subscribe" ELSE "unsubscribe"]
              /\ \A n \in DOMAIN mailed : n > m => mailed[n].to # a
              /\ uses[m] = 0 /\ uses'[m] = 1 /\ m \notin lapsed]_listVars
=============================================================================
