------------------------------ MODULE Visitors ------------------------------
(***************************************************************************)
(* What visitors change without signing in: a vote (marketing.rs), the     *)
(* clicks of an advertisement (widgets.rs) and the newsletter list         *)
(* (account.rs).                                                           *)
(*                                                                         *)
(* There is no user to lock.  A handler whose SELECT decides about its     *)
(* writes is two steps: the action ending in _begins takes the snapshot,   *)
(* the one named after the handler writes and commits.  MySQL lets other   *)
(* transactions commit in between, and only a UNIQUE index stops it; on    *)
(* SQLite the write of an overtaken snapshot fails.                        *)
(***************************************************************************)
EXTENDS VisitorTables, Sequences

CONSTANTS
    Request,        \* requests the server handles at the same time
    CanMulti,       \* can_multi = 1: a ballot may have several options
    Null,
    MaxClicks       \* bound of a counter

VARIABLES
    backend,        \* the database of this server
    job             \* what each request has read

vars == <<backend, voteVars, adVars, listVars, job>>

Actions == {"subscribe", "unsubscribe"}
MailId  == 1..MaxMail
NoRow   == [known |-> FALSE, status |-> 0, token |-> 0, pending |-> ""]
Idle    == [op |-> "idle", ip |-> Null, options |-> {}, email |-> Null, known |-> FALSE,
            fresh |-> TRUE]

Init ==
    /\ backend \in {"sqlite", "mysql"}
    /\ ballot = [i \in Ip |-> {}]
    /\ optionCount = [o \in Option |-> 0] /\ voteCount = 0
    /\ clickCount = 0 /\ adsense = [r \in Referer |-> 0]
    /\ list = [a \in Email |-> NoRow]
    /\ mailed = <<>>
    /\ lapsed = {}
    /\ uses = [m \in MailId |-> 0]
    /\ job = [c \in Request |-> Idle]
-----------------------------------------------------------------------------
Begin(c, j) ==
    /\ job[c] = Idle
    /\ job' = [job EXCEPT ![c] = j]
    /\ UNCHANGED <<backend, voteVars, adVars, listVars>>

MayWrite(c) == backend = "sqlite" => job[c].fresh

\* A commit: every other open snapshot is overtaken.
Overtaken(j) == [j EXCEPT !.fresh = j = Idle]
Commit(c) ==
    /\ job' = [[d \in Request |-> Overtaken(job[d])] EXCEPT ![c] = Idle]
    /\ UNCHANGED backend
CommitAtOnce ==
    /\ job' = [d \in Request |-> Overtaken(job[d])]
    /\ UNCHANGED backend
-----------------------------------------------------------------------------
(* The vote.                                                               *)

\* POST /votes/{id}/responses checks the options and that this address has no
\* row in ecs_vote_log ...
vote_respond_begins(c, i, S) ==
    /\ S # {} /\ (Cardinality(S) > 1 => CanMulti)
    /\ ballot[i] = {}
    /\ Begin(c, [Idle EXCEPT !.op = "vote", !.ip = i, !.options = S])

NotLogged_unindexed(i) == TRUE              \* mutant: no UNIQUE(vote_id, ip_address)
NotLogged(i) == ballot[i] = {}

\* ... and inserts one, which the UNIQUE index may refuse, and counts.
vote_respond(c) ==
    LET j == job[c]
    IN  /\ j.op = "vote" /\ MayWrite(c)
        /\ NotLogged(j.ip)
        /\ ballot' = [ballot EXCEPT ![j.ip] = j.options]
        /\ optionCount' = [o \in Option |->
               IF o \in j.options THEN optionCount[o] + 1 ELSE optionCount[o]]
        /\ voteCount' = voteCount + 1
        /\ Commit(c)
        /\ UNCHANGED <<adVars, listVars>>
-----------------------------------------------------------------------------
(* The advertisement.                                                      *)

\* POST /ads/{id}/click finds the advertisement enabled ...
ad_click_begins(c) == Begin(c, [Idle EXCEPT !.op = "click"])

\* ... and counts the click in two tables.
ad_click(c, r) ==
    /\ job[c].op = "click" /\ MayWrite(c)
    /\ clickCount < MaxClicks
    /\ clickCount' = clickCount + 1
    /\ adsense' = [adsense EXCEPT ![r] = @ + 1]
    /\ Commit(c)
    /\ UNCHANGED <<voteVars, listVars>>
-----------------------------------------------------------------------------
(* The newsletter.                                                         *)

\* POST or DELETE /newsletter-subscriptions reads the row of the address; if it
\* has the wanted status already, nothing changes ...
newsletter_action_begins(c, a, action) ==
    /\ ~(list[a].known /\ list[a].status = IF action = "subscribe" THEN 1 ELSE 0)
    /\ Begin(c, [Idle EXCEPT !.op = action, !.email = a, !.known = list[a].known])

\* ... and updates or inserts it with a new token, which it mails.
newsletter_action(c) ==
    LET j == job[c]
    IN  /\ j.op \in Actions /\ MayWrite(c)
        /\ Len(mailed) < MaxMail
        /\ ~j.known => ~list[j.email].known
        /\ mailed' = Append(mailed, [kind |-> j.op, to |-> j.email])
        /\ list' = [list EXCEPT ![j.email] =
               [@ EXCEPT !.known = TRUE, !.token = Len(mailed'), !.pending = j.op]]
        /\ Commit(c)
        /\ UNCHANGED <<voteVars, adVars, lapsed, uses>>

Confirmable_any(a, m, action) ==            \* mutant: pending_action is not compared
    list[a].token = m /\ m \notin lapsed
Confirmable(a, m, action) ==
    list[a].token = m /\ list[a].pending = action /\ m \notin lapsed

\* POST /newsletter-subscriptions/confirm and /newsletter-unsubscriptions/confirm:
\* one conditional UPDATE.
newsletter_confirm(a, m, action) ==
    /\ Confirmable(a, m, action)
    /\ list' = [list EXCEPT ![a] =
           [NoRow EXCEPT !.known = TRUE,
                         !.status = IF action = "subscribe" THEN 1 ELSE 0]]
    /\ uses' = [uses EXCEPT ![m] = @ + 1]
    /\ CommitAtOnce
    /\ UNCHANGED <<voteVars, adVars, mailed, lapsed>>

\* A day passes after a mail.
lapse(m) ==
    /\ m \notin lapsed
    /\ lapsed' = lapsed \union {m}
    /\ UNCHANGED <<backend, voteVars, adVars, list, mailed, uses, job>>

\* A request fails or is left: its transaction rolls back.
rollback(c) ==
    /\ job[c] # Idle
    /\ job' = [job EXCEPT ![c] = Idle]
    /\ UNCHANGED <<backend, voteVars, adVars, listVars>>

RequestNext(c) ==
    \/ \E i \in Ip, S \in SUBSET Option : vote_respond_begins(c, i, S)
    \/ vote_respond(c)
    \/ ad_click_begins(c) \/ \E r \in Referer : ad_click(c, r)
    \/ \E a \in Email, action \in Actions : newsletter_action_begins(c, a, action)
    \/ newsletter_action(c)
    \/ rollback(c)

Next ==
    \/ \E c \in Request : RequestNext(c)
    \/ \E m \in DOMAIN mailed : \/ lapse(m)
                                \/ \E a \in Email, action \in Actions :
                                      newsletter_confirm(a, m, action)

Spec == Init /\ [][Next]_vars
=============================================================================
