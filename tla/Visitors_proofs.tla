---------------------------- MODULE Visitors_proofs ----------------------------
(***************************************************************************)
(* Theorems about module Visitors, for any number of requests, addresses,  *)
(* options, pages and mails, on either database.                           *)
(***************************************************************************)
EXTENDS Visitors, SumLemmas

ListRow == [known : BOOLEAN, status : {0, 1}, token : Nat, pending : Actions \union {""}]

\* What a request has read about what it was asked for.
JobsOK ==
    /\ job = [c \in Request |-> job[c]]
    /\ \A c \in Request :
          /\ job[c].op = "vote" => /\ job[c].ip \in Ip
                                   /\ job[c].options \in SUBSET Option /\ job[c].options # {}
          /\ job[c].op \in Actions => job[c].email \in Email

\* The counters of the vote and of the advertisement.
Counted ==
    /\ ballot \in [Ip -> SUBSET Option]
    /\ optionCount = [o \in Option |-> optionCount[o]]
    /\ adsense \in [Referer -> Nat]
    /\ CountersAddUp

\* The token in a row of the list is that of the last mail to its address, for its
\* pending action, and nobody has used it.
TokensSent ==
    /\ list \in [Email -> ListRow]
    /\ mailed \in Seq([kind : Actions, to : Email]) /\ Len(mailed) <= MaxMail
    /\ uses \in [MailId -> Nat]
    /\ \A m \in MailId : m > Len(mailed) => uses[m] = 0
    /\ \A a \in Email : list[a].token # 0 =>
          LET m == list[a].token
          IN  /\ m \in 1..Len(mailed)
              /\ mailed[m].kind = list[a].pending /\ mailed[m].to = a
              /\ \A n \in 1..Len(mailed) : n > m => mailed[n].to # a
              /\ uses[m] = 0

VisitorsInv == JobsOK /\ Counted /\ TokensSent

LEMMA InitInv ==
    ASSUME Init
    PROVE  VisitorsInv
<1>1. JobsOK
  BY DEF Init, JobsOK, Idle, Actions
<1>2. Counted
  <2>1. Cardinality({i \in Ip : ballot[i] # {}}) = 0
    <3>1. {i \in Ip : ballot[i] # {}} = {}
      BY DEF Init
    <3> QED
      BY <3>1, FS_EmptySet
  <2>2. \A o \in Option : Cardinality({i \in Ip : o \in ballot[i]}) = 0
    <3>1. \A o \in Option : {i \in Ip : o \in ballot[i]} = {}
      BY DEF Init
    <3> QED
      BY <3>1, FS_EmptySet
  <2>3. SumFunctionOnSet(adsense, Referer) = 0
    <3>1. \A r \in Referer : adsense[r] = 0
      BY DEF Init
    <3> QED
      BY <3>1, SumZero, TablesAssumption
  <2> QED
    BY <2>1, <2>2, <2>3 DEF Init, Counted, CountersAddUp
<1>3. TokensSent
  <2>1. NoRow \in ListRow /\ NoRow.token = 0
    BY DEF NoRow, ListRow
  <2>2. mailed = <<>> /\ mailed \in Seq([kind : Actions, to : Email]) /\ Len(mailed) = 0
    BY DEF Init
  <2>3. /\ \A a \in Email : list[a] = NoRow
        /\ list \in [Email -> ListRow]
    BY <2>1 DEF Init
  <2>4. uses \in [MailId -> Nat] /\ \A m \in MailId : uses[m] = 0
    BY DEF Init
  <2> QED
    BY <2>1, <2>2, <2>3, <2>4, TablesAssumption DEF TokensSent
<1> QED
  BY <1>1, <1>2, <1>3 DEF VisitorsInv

-----------------------------------------------------------------------------
(* The requests.                                                           *)

\* Every step leaves a request with what it was asked for, or idle.
LEMMA JobStep ==
    ASSUME JobsOK,
           \/ \E c \in Request : Commit(c) \/ rollback(c)
           \/ CommitAtOnce
           \/ UNCHANGED job
    PROVE  JobsOK'
<1>1. Idle.op = "idle" /\ "idle" \notin Actions /\ "idle" # "vote"
  BY DEF Idle, Actions
<1>2. /\ job' = [d \in Request |-> job'[d]]
      /\ \A d \in Request : job'[d] \in {Idle, job[d], Overtaken(job[d])}
  BY DEF JobsOK, Commit, CommitAtOnce, rollback
<1>3. \A d \in Request : /\ Overtaken(job[d]).op = job[d].op
                         /\ Overtaken(job[d]).ip = job[d].ip
                         /\ Overtaken(job[d]).options = job[d].options
                         /\ Overtaken(job[d]).email = job[d].email
  BY DEF Overtaken
<1> QED
  BY <1>1, <1>2, <1>3 DEF JobsOK

LEMMA BeginKeeps ==
    ASSUME VisitorsInv, NEW c \in Request, NEW j, Begin(c, j),
           j.op = "vote" => j.ip \in Ip /\ j.options \in SUBSET Option /\ j.options # {},
           j.op \in Actions => j.email \in Email
    PROVE  VisitorsInv'
<1>1. /\ job' = [job EXCEPT ![c] = j]
      /\ UNCHANGED <<ballot, optionCount, voteCount, clickCount, adsense, list, mailed, lapsed,
                     uses>>
  BY DEF Begin, voteVars, adVars, listVars
<1>2. JobsOK'
  BY <1>1 DEF VisitorsInv, JobsOK
<1>3. Counted' /\ TokensSent'
  BY <1>1 DEF VisitorsInv, Counted, CountersAddUp, TokensSent
<1> QED
  BY <1>2, <1>3 DEF VisitorsInv

\* A ballot is logged for an address without one, and counted.
LEMMA VoteKeeps ==
    ASSUME VisitorsInv, NEW c \in Request, vote_respond(c)
    PROVE  VisitorsInv'
<1> DEFINE i == job[c].ip
           S == job[c].options
<1>1. /\ job[c].op = "vote" /\ ballot[i] = {}
      /\ ballot' = [ballot EXCEPT ![i] = S]
      /\ optionCount' = [o \in Option |->
             IF o \in S THEN optionCount[o] + 1 ELSE optionCount[o]]
      /\ voteCount' = voteCount + 1
      /\ Commit(c)
      /\ UNCHANGED <<clickCount, adsense, list, mailed, lapsed, uses>>
  BY DEF vote_respond, NotLogged, adVars, listVars
<1>2. JobsOK /\ Counted /\ TokensSent
  BY DEF VisitorsInv
<1>3. i \in Ip /\ S \in SUBSET Option /\ S # {}
  BY <1>1, <1>2 DEF JobsOK
<1> HIDE DEF i, S
<1>4. JobsOK'
  BY <1>1, <1>2, JobStep
<1>5. TokensSent'
  BY <1>1, <1>2 DEF TokensSent
<1>6. /\ ballot' \in [Ip -> SUBSET Option]
      /\ \A k \in Ip : ballot'[k] = IF k = i THEN S ELSE ballot[k]
  BY <1>1, <1>2, <1>3 DEF Counted
<1>7. ASSUME NEW T \in SUBSET Ip, i \notin T
      PROVE  Cardinality(T \union {i}) = Cardinality(T) + 1
  <2>1. IsFiniteSet(T)
    BY FS_Subset, TablesAssumption
  <2> QED
    BY <1>7, <2>1, FS_AddElement
<1>8. voteCount' = Cardinality({k \in Ip : ballot'[k] # {}})
  <2> DEFINE T == {k \in Ip : ballot[k] # {}}
  <2>1. {k \in Ip : ballot'[k] # {}} = T \union {i}
    BY <1>3, <1>6
  <2>2. T \in SUBSET Ip /\ i \notin T
    BY <1>1
  <2>3. voteCount = Cardinality(T)
    BY <1>2 DEF Counted, CountersAddUp
  <2> HIDE DEF T
  <2> QED
    BY <1>1, <1>7, <2>1, <2>2, <2>3
<1>9. ASSUME NEW o \in Option
      PROVE  optionCount'[o] = Cardinality({k \in Ip : o \in ballot'[k]})
  <2> DEFINE T == {k \in Ip : o \in ballot[k]}
  <2>1. optionCount[o] = Cardinality(T)
    BY <1>2 DEF Counted, CountersAddUp
  <2>2. T \in SUBSET Ip /\ i \notin T
    BY <1>1
  <2>3. CASE o \in S
    <3>1. {k \in Ip : o \in ballot'[k]} = T \union {i}
      BY <1>3, <1>6, <2>3
    <3>2. optionCount'[o] = optionCount[o] + 1
      BY <1>1, <2>3
    <3> HIDE DEF T
    <3> QED
      BY <1>7, <2>1, <2>2, <3>1, <3>2
  <2>4. CASE o \notin S
    <3>1. {k \in Ip : o \in ballot'[k]} = T
      BY <1>1, <1>6, <2>4
    <3>2. optionCount'[o] = optionCount[o]
      BY <1>1, <2>4
    <3> HIDE DEF T
    <3> QED
      BY <2>1, <3>1, <3>2
  <2> QED
    BY <2>3, <2>4
<1>10. optionCount' = [o \in Option |-> optionCount'[o]]
  BY <1>1
<1>11. Counted'
  BY <1>1, <1>2, <1>6, <1>8, <1>9, <1>10 DEF Counted, CountersAddUp
<1> QED
  BY <1>4, <1>5, <1>11 DEF VisitorsInv

\* A click is counted in both tables.
LEMMA ClickKeeps ==
    ASSUME VisitorsInv, NEW c \in Request, NEW r \in Referer, ad_click(c, r)
    PROVE  VisitorsInv'
<1>1. /\ clickCount' = clickCount + 1
      /\ adsense' = [adsense EXCEPT ![r] = @ + 1]
      /\ Commit(c)
      /\ UNCHANGED <<ballot, optionCount, voteCount, list, mailed, lapsed, uses>>
  BY DEF ad_click, voteVars, listVars
<1>2. JobsOK /\ Counted /\ TokensSent
  BY DEF VisitorsInv
<1>3. JobsOK'
  BY <1>1, <1>2, JobStep
<1>4. TokensSent'
  BY <1>1, <1>2 DEF TokensSent
<1>5. adsense \in [Referer -> Nat] /\ clickCount = SumFunctionOnSet(adsense, Referer)
  BY <1>2 DEF Counted, CountersAddUp
<1>6. /\ adsense' \in [Referer -> Nat] /\ adsense'[r] = adsense[r] + 1
      /\ \A x \in Referer \ {r} : adsense'[x] = adsense[x]
      /\ \A x \in Referer : adsense[x] \in Int
      /\ adsense'[r] \in Int /\ adsense[r] \in Int
  BY <1>1, <1>5
<1>7. IsFiniteSet(Referer)
  BY TablesAssumption
<1>8. SumFunctionOnSet(adsense', Referer)
         = SumFunctionOnSet(adsense, Referer) + adsense'[r] - adsense[r]
  BY <1>6, <1>7, SumUpdate
<1>9. SumFunctionOnSet(adsense, Referer) \in Int
  BY <1>6, <1>7, SumInt
<1>10. clickCount' = SumFunctionOnSet(adsense', Referer)
  BY ONLY <1>1, <1>5, <1>6, <1>8, <1>9
<1>11. Counted'
  BY <1>1, <1>2, <1>6, <1>10 DEF Counted, CountersAddUp
<1> QED
  BY <1>3, <1>4, <1>11 DEF VisitorsInv

\* The new token replaces the one before it.
LEMMA NewsletterKeeps ==
    ASSUME VisitorsInv, NEW c \in Request, newsletter_action(c)
    PROVE  VisitorsInv'
<1> DEFINE a == job[c].email
           op == job[c].op
           N == Len(mailed) + 1
<1>1. /\ op \in Actions /\ Len(mailed) < MaxMail
      /\ mailed' = Append(mailed, [kind |-> op, to |-> a])
      /\ list' = [list EXCEPT ![a] =
             [@ EXCEPT !.known = TRUE, !.token = Len(mailed'), !.pending = op]]
      /\ Commit(c)
      /\ UNCHANGED <<ballot, optionCount, voteCount, clickCount, adsense, lapsed, uses>>
  BY DEF newsletter_action, voteVars, adVars
<1>2. JobsOK /\ Counted /\ TokensSent
  BY DEF VisitorsInv
<1>3. a \in Email /\ MaxMail \in Nat
  BY <1>1, <1>2, TablesAssumption DEF JobsOK
<1> HIDE DEF a, op
<1>4. JobsOK'
  BY <1>1, <1>2, JobStep
<1>5. Counted'
  BY <1>1, <1>2 DEF Counted, CountersAddUp
<1>6. /\ mailed' \in Seq([kind : Actions, to : Email]) /\ Len(mailed') = N
      /\ N \in MailId /\ N \in Nat /\ N > 0 /\ N <= MaxMail
      /\ mailed'[N].kind = op /\ mailed'[N].to = a
      /\ \A n \in 1..Len(mailed) : mailed'[n] = mailed[n]
  <2>1. mailed \in Seq([kind : Actions, to : Email]) /\ Len(mailed) \in Nat
    BY <1>2 DEF TokensSent
  <2>2. [kind |-> op, to |-> a] \in [kind : Actions, to : Email]
    BY <1>1, <1>3
  <2> QED
    BY <1>1, <1>3, <2>1, <2>2 DEF MailId
<1>7. Len(mailed) \in Nat /\ N = Len(mailed) + 1
  BY <1>2 DEF TokensSent
<1> HIDE DEF N
<1>8. /\ list' \in [Email -> ListRow]
      /\ list'[a].token = N /\ list'[a].pending = op
      /\ \A b \in Email \ {a} : list'[b] = list[b]
  <2> DEFINE row == [list[a] EXCEPT !.known = TRUE, !.token = N, !.pending = op]
  <2>1. list[a] \in ListRow /\ list \in [Email -> ListRow]
    BY <1>2, <1>3 DEF TokensSent
  <2>2. row \in ListRow /\ row.token = N /\ row.pending = op
    BY <1>1, <1>6, <2>1 DEF ListRow
  <2>3. list' = [list EXCEPT ![a] = row]
    BY <1>1, <1>6
  <2> HIDE DEF row
  <2> QED
    BY <1>3, <2>1, <2>2, <2>3
<1>9. uses' \in [MailId -> Nat] /\ \A m \in MailId : m > N => uses'[m] = 0
  BY <1>1, <1>2, <1>7 DEF TokensSent, MailId
<1>10. uses'[N] = 0
  BY <1>1, <1>2, <1>6, <1>7 DEF TokensSent
<1>11. ASSUME NEW b \in Email, list'[b].token # 0
       PROVE  LET m == list'[b].token
              IN  /\ m \in 1..N
                  /\ mailed'[m].kind = list'[b].pending /\ mailed'[m].to = b
                  /\ \A n \in 1..N : n > m => mailed'[n].to # b
                  /\ uses'[m] = 0
  <2>1. CASE b = a
    BY <2>1, <1>6, <1>8, <1>10
  <2>2. CASE b # a
    <3> DEFINE m == list[b].token
    <3>1. list'[b] = list[b] /\ m # 0
      BY <1>8, <1>11, <2>2
    <3>2. /\ m \in 1..Len(mailed)
          /\ mailed[m].kind = list[b].pending /\ mailed[m].to = b
          /\ \A n \in 1..Len(mailed) : n > m => mailed[n].to # b
          /\ uses[m] = 0
      BY <1>2, <3>1 DEF TokensSent
    <3> HIDE DEF m
    <3>3. m \in 1..N /\ mailed'[m] = mailed[m] /\ uses' = uses
      BY <1>1, <1>6, <1>7, <3>2
    <3>4. ASSUME NEW n \in 1..N, n > m PROVE mailed'[n].to # b
      BY <1>6, <1>7, <2>2, <3>2, <3>4
    <3> QED
      BY <3>1, <3>2, <3>3, <3>4 DEF m
  <2> QED
    BY <2>1, <2>2
<1>12. TokensSent'
  BY <1>6, <1>8, <1>9, <1>11 DEF TokensSent
<1> QED
  BY <1>4, <1>5, <1>12 DEF VisitorsInv

\* A token is taken off its row when it is used.
LEMMA ConfirmKeeps ==
    ASSUME VisitorsInv, NEW m \in DOMAIN mailed, NEW a \in Email,
           NEW action \in Actions, newsletter_confirm(a, m, action)
    PROVE  VisitorsInv'
<1> DEFINE row == [NoRow EXCEPT !.known = TRUE,
                                !.status = IF action = "subscribe" THEN 1 ELSE 0]
<1>1. /\ list[a].token = m
      /\ list' = [list EXCEPT ![a] = row]
      /\ uses' = [uses EXCEPT ![m] = @ + 1]
      /\ CommitAtOnce
      /\ UNCHANGED <<ballot, optionCount, voteCount, clickCount, adsense, mailed, lapsed>>
  BY DEF newsletter_confirm, Confirmable, voteVars, adVars
<1>2. JobsOK /\ Counted /\ TokensSent /\ MaxMail \in Nat
  BY TablesAssumption DEF VisitorsInv
<1>3. row \in ListRow /\ row.token = 0
  BY DEF NoRow, ListRow
<1> HIDE DEF row
<1>4. JobsOK'
  BY <1>1, <1>2, JobStep
<1>5. Counted'
  BY <1>1, <1>2 DEF Counted, CountersAddUp
<1>6. m \in 1..Len(mailed) /\ m # 0 /\ Len(mailed) \in Nat /\ m \in MailId
  BY <1>2 DEF TokensSent, MailId
<1>7. mailed[m].to = a
  BY <1>1, <1>2, <1>6 DEF TokensSent
<1>8. /\ list' \in [Email -> ListRow] /\ list'[a].token = 0
      /\ \A b \in Email \ {a} : list'[b] = list[b]
      /\ uses' \in [MailId -> Nat] /\ \A n \in MailId \ {m} : uses'[n] = uses[n]
  BY <1>1, <1>2, <1>3, <1>6 DEF TokensSent
<1>9. ASSUME NEW b \in Email, list'[b].token # 0
      PROVE  LET n == list'[b].token
             IN  /\ n \in 1..Len(mailed)
                 /\ mailed[n].kind = list'[b].pending /\ mailed[n].to = b
                 /\ \A k \in 1..Len(mailed) : k > n => mailed[k].to # b
                 /\ uses'[n] = 0
  <2>1. b # a /\ list'[b] = list[b]
    BY <1>8, <1>9
  <2>2. list[b].token # m /\ list[b].token \in MailId
    BY <1>2, <1>7, <1>9, <2>1 DEF TokensSent, MailId
  <2> QED
    BY <1>2, <1>8, <1>9, <2>1, <2>2 DEF TokensSent
<1>10. \A n \in MailId : n > Len(mailed) => uses'[n] = 0
  BY <1>2, <1>6, <1>8 DEF TokensSent
<1>11. TokensSent'
  BY <1>1, <1>2, <1>8, <1>9, <1>10 DEF TokensSent
<1> QED
  BY <1>4, <1>5, <1>11 DEF VisitorsInv

LEMMA StepInv ==
    ASSUME VisitorsInv, [Next]_vars
    PROVE  VisitorsInv'
<1>1. Idle.op = "idle" /\ "idle" \notin Actions /\ "click" \notin Actions /\ "vote" \notin Actions
  BY DEF Idle, Actions
<1>2. ASSUME NEW c \in Request, NEW i \in Ip, NEW S \in SUBSET Option,
             vote_respond_begins(c, i, S)
      PROVE  VisitorsInv'
  <2> DEFINE j == [Idle EXCEPT !.op = "vote", !.ip = i, !.options = S]
  <2>1. S # {} /\ Begin(c, j)
    BY <1>2 DEF vote_respond_begins
  <2>2. j.op = "vote" /\ j.ip = i /\ j.options = S
    BY DEF Idle
  <2> HIDE DEF j
  <2> QED
    BY <1>1, <2>1, <2>2, BeginKeeps
<1>3. ASSUME NEW c \in Request, ad_click_begins(c) PROVE VisitorsInv'
  <2> DEFINE j == [Idle EXCEPT !.op = "click"]
  <2>1. Begin(c, j) /\ j.op = "click"
    BY <1>3 DEF ad_click_begins, Idle
  <2> HIDE DEF j
  <2> QED
    BY <1>1, <2>1, BeginKeeps
<1>4. ASSUME NEW c \in Request, NEW a \in Email, NEW action \in Actions,
             newsletter_action_begins(c, a, action)
      PROVE  VisitorsInv'
  <2> DEFINE j == [Idle EXCEPT !.op = action, !.email = a, !.known = list[a].known]
  <2>1. Begin(c, j)
    BY <1>4 DEF newsletter_action_begins
  <2>2. j.op = action /\ j.email = a
    BY DEF Idle
  <2> HIDE DEF j
  <2> QED
    BY <1>1, <2>1, <2>2, BeginKeeps
<1>5. ASSUME UNCHANGED <<voteVars, adVars, list, mailed, uses>>, JobsOK' PROVE VisitorsInv'
  BY <1>5 DEF VisitorsInv, Counted, CountersAddUp, TokensSent, voteVars, adVars
<1>6. ASSUME NEW c \in Request, rollback(c) PROVE VisitorsInv'
  <2>1. JobsOK'
    BY <1>6, JobStep DEF VisitorsInv
  <2> QED
    BY <1>5, <1>6, <2>1 DEF rollback, listVars
<1>7. ASSUME NEW m \in DOMAIN mailed, lapse(m) PROVE VisitorsInv'
  <2>1. JobsOK'
    BY <1>7, JobStep DEF VisitorsInv, lapse
  <2> QED
    BY <1>5, <1>7, <2>1 DEF lapse
<1>8. CASE UNCHANGED vars
  <2>1. JobsOK'
    BY <1>8, JobStep DEF VisitorsInv, vars
  <2> QED
    BY <1>5, <1>8, <2>1 DEF vars, voteVars, adVars, listVars
<1>9. ASSUME NEW c \in Request, RequestNext(c) PROVE VisitorsInv'
  BY <1>2, <1>3, <1>4, <1>6, <1>9, VoteKeeps, ClickKeeps, NewsletterKeeps DEF RequestNext
<1> QED
  BY <1>7, <1>8, <1>9, ConfirmKeeps DEF Next

-----------------------------------------------------------------------------
(* Theorems.                                                               *)

\* marketing.rs:319, widgets.rs:63: the totals of the vote and of the clicks are
\* the sums of their parts, also where ballots of one address overlap.
THEOREM CountersAgree == Spec => []CountersAddUp
<1>1. Init => VisitorsInv
  BY InitInv
<1>2. VisitorsInv /\ [Next]_vars => VisitorsInv'
  BY StepInv
<1>3. VisitorsInv => CountersAddUp
  BY DEF VisitorsInv, Counted
<1> QED
  BY <1>1, <1>2, <1>3, PTL DEF Spec

\* The status of an address changes only where its token is confirmed.
LEMMA StepConsents ==
    ASSUME VisitorsInv, [Next]_vars, NEW a \in Email,
           list'[a].status # list[a].status
    PROVE  \E m \in DOMAIN mailed :
              /\ mailed[m] = [to |-> a,
                     kind |-> IF list'[a].status = 1 THEN "subscribe" ELSE "unsubscribe"]
              /\ \A n \in DOMAIN mailed : n > m => mailed[n].to # a
              /\ uses[m] = 0 /\ uses'[m] = 1 /\ m \notin lapsed
<1>1. TokensSent
  BY DEF VisitorsInv
<1>2. UNCHANGED list => FALSE
  OBVIOUS
<1>3. ASSUME NEW c \in Request, newsletter_action(c) PROVE FALSE
  <2>1. list' = [list EXCEPT ![job[c].email] =
           [@ EXCEPT !.known = TRUE, !.token = Len(mailed'), !.pending = job[c].op]]
    BY <1>3 DEF newsletter_action
  <2>2. list[a] \in ListRow /\ list \in [Email -> ListRow]
    BY <1>1 DEF TokensSent
  <2>3. list'[a] = list[a] \/ list'[a] = [list[a] EXCEPT !.known = TRUE, !.token = Len(mailed'),
                                                        !.pending = job[c].op]
    BY <2>1, <2>2
  <2>4. list'[a].status = list[a].status
    BY <2>2, <2>3 DEF ListRow
  <2> QED
    BY <2>4
<1>4. ASSUME NEW c \in Request, RequestNext(c) PROVE FALSE
  BY <1>2, <1>3, <1>4 DEF RequestNext, vote_respond_begins, vote_respond, ad_click_begins,
     ad_click, newsletter_action_begins, rollback, Begin, listVars
<1>5. PICK m \in DOMAIN mailed, b \in Email, action \in Actions :
         newsletter_confirm(b, m, action)
  BY <1>2, <1>4 DEF Next, lapse, vars, listVars
<1>6. /\ list[b].token = m /\ list[b].pending = action /\ m \notin lapsed
      /\ list' = [list EXCEPT ![b] =
             [NoRow EXCEPT !.known = TRUE,
                           !.status = IF action = "subscribe" THEN 1 ELSE 0]]
      /\ uses' = [uses EXCEPT ![m] = @ + 1]
  BY <1>5 DEF newsletter_confirm, Confirmable
<1>7. b = a
  BY <1>1, <1>6 DEF TokensSent
<1>8. list'[a].status = IF action = "subscribe" THEN 1 ELSE 0
  BY <1>1, <1>6, <1>7 DEF TokensSent, NoRow
<1>9. DOMAIN mailed = 1..Len(mailed) /\ m \in 1..Len(mailed) /\ Len(mailed) \in Nat
  BY <1>1 DEF TokensSent
<1>10. /\ mailed[m].kind = action /\ mailed[m].to = a
       /\ \A n \in 1..Len(mailed) : n > m => mailed[n].to # a
       /\ uses[m] = 0
  BY <1>1, <1>6, <1>7, <1>9 DEF TokensSent
<1>11. uses'[m] = 1
  <2>1. m \in MailId
    BY <1>1, <1>9, TablesAssumption DEF TokensSent, MailId
  <2> QED
    BY <1>1, <1>6, <1>10, <2>1 DEF TokensSent
<1>12. mailed[m] = [kind |-> action, to |-> a]
  <2> DEFINE R == [kind : Actions, to : Email]
  <2>1. mailed \in Seq(R)
    BY <1>1 DEF TokensSent
  <2> HIDE DEF R
  <2>2. mailed[m] \in R
    BY ONLY <1>9, <2>1
  <2>3. mailed[m] \in [kind : Actions, to : Email]
    BY <2>2 DEF R
  <2> QED
    BY ONLY <1>10, <2>3
<1>13. action = IF list'[a].status = 1 THEN "subscribe" ELSE "unsubscribe"
  BY <1>5, <1>8 DEF Actions
<1> QED
  BY <1>6, <1>9, <1>10, <1>11, <1>12, <1>13

\* docs/03_api_contract.md:207: an address is listed or removed only by the last
\* token mailed to it, for this action, unexpired and unused.
THEOREM ListedOnlyByConsent == Spec => ListedByConsent
<1>1. Init => VisitorsInv
  BY InitInv
<1>2. VisitorsInv /\ [Next]_vars => VisitorsInv'
  BY StepInv
<1>3. VisitorsInv /\ [Next]_vars =>
        [\A a \in Email : list'[a].status # list[a].status =>
          \E m \in DOMAIN mailed :
              /\ mailed[m] = [to |-> a,
                     kind |-> IF list'[a].status = 1 THEN "subscribe" ELSE "unsubscribe"]
              /\ \A n \in DOMAIN mailed : n > m => mailed[n].to # a
              /\ uses[m] = 0 /\ uses'[m] = 1 /\ m \notin lapsed]_listVars
  BY StepConsents
<1> QED
  BY <1>1, <1>2, <1>3, PTL DEF Spec, ListedByConsent
=============================================================================
