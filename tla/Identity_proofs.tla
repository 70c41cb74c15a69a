---------------------------- MODULE Identity_proofs ----------------------------
(***************************************************************************)
(* Theorems about module Identity, for any number of users, requests,      *)
(* sessions and mails, on either database.                                 *)
(***************************************************************************)
EXTENDS Identity, TLAPS

\* What a request has read is about a registered user, and a login that nobody
\* overtook has verified the hash of the present.
JobKnown(j) ==
    /\ j.op # "idle" => j.user \in User /\ hash[j.user] # 0
    /\ j.op \in {"verify", "reset"} => j.mail \in Mail
    /\ j.op = "login" /\ j.fresh => j.hash = hash[j.user]
JobsKnown == \A c \in Request : JobKnown(request[c])

\* Who is not registered has nothing.
Registered ==
    /\ \A u \in User : /\ hash[u] < nextHash
                       /\ hash[u] = 0 => /\ email[u] = None /\ verifyRow[u] = None
                                         /\ resetRow[u] = None /\ u \notin validated
    /\ \A t \in Token : session[t].user # None => hash[session[t].user] # 0

\* The token in a row was mailed to the user of the row, for the purpose of the
\* row, and nobody has used it.
RowsSent ==
    /\ \A u \in User, m \in Mail :
          /\ verifyRow[u] = m => outbox[m].kind = "verify" /\ outbox[m].user = u /\ accepted[m] = 0
          /\ resetRow[u] = m => outbox[m].kind = "reset" /\ outbox[m].user = u /\ accepted[m] = 0
    /\ \A m \in Mail : accepted[m] <= 1 /\ (accepted[m] > 0 => outbox[m] # Unsent)

\* A verification token in force went to the address of the present.
Current ==
    /\ \A u \in User, m \in Mail : verifyRow[u] = m => outbox[m].to = email[u]
    /\ VerifiedIsCurrent

Tables == AccountsTyped /\ Registered /\ RowsSent /\ Current /\ SessionsMatchPassword

\* What the steps rely on.
IdentityInv == Tables /\ JobsKnown

LEMMA RowTypes ==
    /\ NoSession \in SessionRow /\ Unsent \in Sent /\ Idle \in Job
    /\ NoSession.user = None /\ Unsent.kind = "none" /\ Idle.op = "idle"
BY AccountsAssumption DEF NoSession, Unsent, Idle, SessionRow, Sent, Job, Hashes

LEMMA InitInv == Init => IdentityInv
<1> SUFFICES ASSUME Init PROVE IdentityInv
  OBVIOUS
<1>1. AccountsTyped
  BY RowTypes, AccountsAssumption DEF Init, AccountsTyped, Hashes
<1>2. Registered /\ RowsSent /\ Current /\ SessionsMatchPassword
  BY RowTypes, AccountsAssumption
     DEF Init, Registered, RowsSent, Current, VerifiedIsCurrent, SessionsMatchPassword
<1>3. JobsKnown
  BY RowTypes DEF Init, JobsKnown, JobKnown, Idle
<1> QED
  BY <1>1, <1>2, <1>3 DEF IdentityInv, Tables

-----------------------------------------------------------------------------
(* The requests.                                                           *)

\* A request that begins or ends leaves every table alone.
LEMMA BeginKeeps ==
    ASSUME IdentityInv, NEW c \in Request, NEW j \in Job, Begin(c, j), JobKnown(j)
    PROVE  IdentityInv'
<1>1. /\ UNCHANGED <<backend, hash, nextHash, email, validated, verified, session, verifyRow,
                     resetRow, outbox, expired, accepted>>
      /\ request' = [request EXCEPT ![c] = j]
  BY DEF Begin, userVars, tokenVars
<1>2. AccountsTyped'
  BY <1>1 DEF IdentityInv, Tables, AccountsTyped
<1>3. Registered' /\ RowsSent' /\ Current' /\ SessionsMatchPassword'
  BY <1>1 DEF IdentityInv, Tables, Registered, RowsSent, Current, VerifiedIsCurrent,
              SessionsMatchPassword
<1>4. JobsKnown'
  BY <1>1 DEF IdentityInv, Tables, AccountsTyped, JobsKnown, JobKnown
<1> QED
  BY <1>2, <1>3, <1>4 DEF IdentityInv, Tables

\* A commit ends one request and overtakes the others; users stay registered.
LEMMA CommitKeeps ==
    ASSUME IdentityInv, NEW c \in Request, Commit(c),
           \A u \in User : hash[u] # 0 => hash'[u] # 0
    PROVE  request' \in [Request -> Job] /\ JobsKnown'
<1>1. request' = [d \in Request |-> IF d = c THEN Idle
                               ELSE [request[d] EXCEPT !.fresh = request[d] = Idle]]
  BY DEF Commit
<1>2. ASSUME NEW d \in Request
      PROVE  /\ request'[d] \in Job
             /\ request'[d].op # "idle" => request'[d].user \in User /\ hash'[request'[d].user] # 0
             /\ request'[d].op \in {"verify", "reset"} => request'[d].mail \in Mail
             /\ request'[d].op = "login" => ~request'[d].fresh
  <2>1. CASE d = c
    BY <1>1, <2>1, RowTypes
  <2>2. CASE d # c
    <3>1. request[d] \in Job /\ JobKnown(request[d])
      BY DEF IdentityInv, Tables, AccountsTyped, JobsKnown
    <3>2. request'[d] = [request[d] EXCEPT !.fresh = (request[d] = Idle)]
      BY <1>1, <2>2
    <3>3. (request[d] = Idle) \in BOOLEAN
      OBVIOUS
    <3>4. request'[d] \in Job
      BY <3>1, <3>2, <3>3 DEF Job
    <3>5. /\ request'[d].op = request[d].op /\ request'[d].user = request[d].user
          /\ request'[d].mail = request[d].mail
      BY <3>1, <3>2 DEF Job
    <3>6. request'[d].op = "login" => ~request'[d].fresh
      <4>1. request'[d].fresh = (request[d] = Idle)
        BY <3>1, <3>2 DEF Job
      <4>2. request[d].op = "login" => request[d] # Idle
        BY RowTypes
      <4> QED
        BY <3>5, <4>1, <4>2
    <3> QED
      BY <3>1, <3>4, <3>5, <3>6 DEF JobKnown
  <2> QED
    BY <2>1, <2>2
<1>3. request' \in [Request -> Job]
  <2>1. \A d \in Request : request'[d] \in Job
    BY <1>2
  <2> QED
    BY <1>1, <2>1
<1> QED
  BY <1>2, <1>3 DEF JobsKnown, JobKnown

-----------------------------------------------------------------------------
(* The handlers that commit.                                               *)

LEMMA RegisterKeeps ==
    ASSUME IdentityInv, NEW c \in Request, NEW u \in User, NEW a \in Address, NEW t \in Token,
           register(c, u, a, t)
    PROVE  IdentityInv'
<1>1. /\ hash[u] = 0 /\ nextHash <= MaxHash
      /\ hash' = [hash EXCEPT ![u] = nextHash] /\ nextHash' = nextHash + 1
      /\ email' = [email EXCEPT ![u] = a]
      /\ session[t] = NoSession
      /\ session' = [session EXCEPT ![t] = [user |-> u, hash |-> nextHash, old |-> FALSE]]
      /\ UNCHANGED <<backend, validated, verified, verifyRow, resetRow, outbox, expired, accepted>>
      /\ Commit(c)
  BY DEF register, Open, Commit, tokenVars
<1>2. /\ AccountsTyped /\ Registered /\ RowsSent /\ Current /\ SessionsMatchPassword
      /\ nextHash \in Nat /\ nextHash # 0 /\ nextHash \in Hashes
  BY <1>1, AccountsAssumption DEF IdentityInv, Tables, AccountsTyped, Hashes
<1>3. \A v \in User : /\ hash'[v] = IF v = u THEN nextHash ELSE hash[v]
                      /\ email'[v] = IF v = u THEN a ELSE email[v]
  BY <1>1, <1>2 DEF AccountsTyped
<1>4. request' \in [Request -> Job] /\ JobsKnown'
  BY <1>1, <1>2, <1>3, CommitKeeps
<1>5. AccountsTyped'
  BY <1>1, <1>2, <1>4, AccountsAssumption DEF AccountsTyped, Hashes, SessionRow
<1>6. \A s \in Token : session'[s] = IF s = t THEN [user |-> u, hash |-> nextHash, old |-> FALSE]
                                     ELSE session[s]
  BY <1>1, <1>2 DEF AccountsTyped
<1>7. Registered'
  BY <1>1, <1>2, <1>3, <1>6, AccountsAssumption DEF Registered, AccountsTyped, Hashes, SessionRow
<1>8. RowsSent'
  BY <1>1, <1>2 DEF RowsSent
<1>9. Current'
  <2>1. u \notin validated /\ verifyRow[u] = None
    BY <1>1, <1>2 DEF Registered
  <2>2. None \notin Mail
    BY AccountsAssumption
  <2> QED
    BY <1>1, <1>2, <1>3, <2>1, <2>2 DEF Current, VerifiedIsCurrent, AccountsTyped
<1>10. SessionsMatchPassword'
  BY <1>1, <1>2, <1>3, <1>6 DEF SessionsMatchPassword, Registered, AccountsTyped, SessionRow
<1> QED
  BY <1>4, <1>5, <1>7, <1>8, <1>9, <1>10 DEF IdentityInv, Tables

\* Steps that write sessions only.
LEMMA SessionKeeps ==
    ASSUME IdentityInv, NEW t \in Token, NEW s \in SessionRow,
           session' = [session EXCEPT ![t] = s],
           s.user # None => /\ hash[s.user] # 0
                            /\ backend = "sqlite" => s.hash = hash[s.user],
           UNCHANGED <<backend, userVars, tokenVars>>,
           UNCHANGED request \/ \E c \in Request : Commit(c)
    PROVE  IdentityInv'
<1>1. /\ AccountsTyped /\ Registered /\ RowsSent /\ Current /\ SessionsMatchPassword /\ JobsKnown
      /\ UNCHANGED <<backend, hash, nextHash, email, validated, verified, verifyRow, resetRow,
                     outbox, expired, accepted>>
  BY DEF IdentityInv, Tables, userVars, tokenVars
<1>2. request' \in [Request -> Job] /\ JobsKnown'
  <2>1. CASE UNCHANGED request
    BY <1>1, <2>1 DEF AccountsTyped, JobsKnown, JobKnown
  <2>2. CASE \E c \in Request : Commit(c)
    BY <1>1, <2>2, CommitKeeps
  <2> QED
    BY <2>1, <2>2
<1>3. AccountsTyped'
  BY <1>1, <1>2 DEF AccountsTyped
<1>4. \A q \in Token : session'[q] = IF q = t THEN s ELSE session[q]
  BY <1>1 DEF AccountsTyped
<1>5. Registered' /\ SessionsMatchPassword'
  BY <1>1, <1>4 DEF Registered, SessionsMatchPassword
<1>6. RowsSent' /\ Current'
  BY <1>1 DEF RowsSent, Current, VerifiedIsCurrent
<1> QED
  BY <1>2, <1>3, <1>5, <1>6 DEF IdentityInv, Tables

LEMMA LoginKeeps ==
    ASSUME IdentityInv, NEW c \in Request, NEW t \in Token, login(c, t)
    PROVE  IdentityInv'
<1> DEFINE s == [user |-> request[c].user, hash |-> request[c].hash, old |-> FALSE]
<1>1. /\ request[c] \in Job /\ JobKnown(request[c]) /\ request[c].op = "login"
      /\ backend = "sqlite" => request[c].fresh
      /\ session' = [session EXCEPT ![t] = s] /\ Commit(c)
      /\ UNCHANGED <<backend, userVars, tokenVars>>
  BY DEF login, MayWrite, Open, Commit, IdentityInv, Tables, AccountsTyped, JobsKnown
<1>2. request[c].user \in User /\ hash[request[c].user] # 0 /\ request[c].hash \in Hashes
  BY <1>1 DEF JobKnown, Job
<1>3. s \in SessionRow /\ s.user = request[c].user /\ s.hash = request[c].hash
  BY <1>2 DEF SessionRow
<1>4. backend = "sqlite" => s.hash = hash[s.user]
  BY <1>1, <1>3 DEF JobKnown
<1> HIDE DEF s
<1> QED
  BY <1>1, <1>2, <1>3, <1>4, SessionKeeps

LEMMA LogoutKeeps ==
    ASSUME IdentityInv, NEW c \in Request, NEW t \in Token, logout(c, t)
    PROVE  IdentityInv'
BY RowTypes, SessionKeeps DEF logout, Commit

LEMMA ExpireKeeps ==
    ASSUME IdentityInv, NEW t \in Token, expire(t)
    PROVE  IdentityInv'
<1> DEFINE s == [session[t] EXCEPT !.old = TRUE]
<1>1. session[t] \in SessionRow /\ Registered /\ SessionsMatchPassword
  BY DEF IdentityInv, Tables, AccountsTyped
<1>2. s \in SessionRow /\ s.user = session[t].user /\ s.hash = session[t].hash
  BY <1>1 DEF SessionRow
<1>3. s.user # None => hash[s.user] # 0 /\ (backend = "sqlite" => s.hash = hash[s.user])
  BY <1>1, <1>2 DEF Registered, SessionsMatchPassword
<1>4. /\ session' = [session EXCEPT ![t] = s] /\ UNCHANGED <<backend, userVars, tokenVars>>
      /\ UNCHANGED request
  BY DEF expire, IdentityInv, Tables, AccountsTyped
<1> HIDE DEF s
<1> QED
  BY <1>2, <1>3, <1>4, SessionKeeps

\* A new password: all sessions of the user are gone.
LEMMA SetHashKeeps ==
    ASSUME IdentityInv, NEW u \in User, SetHash(u), hash[u] # 0, UNCHANGED backend
    PROVE  /\ hash' \in [User -> Hashes] /\ nextHash' \in 1..(MaxHash + 1)
           /\ session' \in [Token -> SessionRow] /\ SessionsMatchPassword'
           /\ \A v \in User : /\ v # u => hash'[v] = hash[v]
                              /\ hash'[v] < nextHash' /\ (hash[v] # 0 <=> hash'[v] # 0)
           /\ \A t \in Token : session'[t].user # None => hash'[session'[t].user] # 0
<1>1. /\ nextHash <= MaxHash /\ hash' = [hash EXCEPT ![u] = nextHash]
      /\ nextHash' = nextHash + 1 /\ session' = Revoked(u)
  BY DEF SetHash
<1>2. AccountsTyped /\ Registered /\ SessionsMatchPassword /\ MaxHash \in Nat
  BY AccountsAssumption DEF IdentityInv, Tables
<1>3. /\ nextHash \in Nat /\ nextHash # 0 /\ nextHash \in Hashes
      /\ nextHash' \in 1..(MaxHash + 1)
  BY <1>1, <1>2 DEF AccountsTyped, Hashes
<1>4. \A v \in User : hash'[v] = IF v = u THEN nextHash ELSE hash[v]
  BY <1>1, <1>2 DEF AccountsTyped
<1>5. \A t \in Token : /\ session'[t] = IF session[t].user = u THEN NoSession ELSE session[t]
                       /\ session'[t] \in SessionRow
  BY <1>1, <1>2, RowTypes DEF Revoked, AccountsTyped
<1>6. hash' \in [User -> Hashes] /\ session' \in [Token -> SessionRow]
  BY <1>1, <1>2, <1>3, <1>5 DEF AccountsTyped, Revoked
<1>7. \A v \in User : hash'[v] < nextHash' /\ (hash[v] # 0 <=> hash'[v] # 0)
  BY <1>1, <1>2, <1>3, <1>4 DEF Registered, AccountsTyped, Hashes
<1>8. ASSUME NEW t \in Token, session'[t].user # None
      PROVE  /\ session'[t] = session[t] /\ session[t].user \in User
             /\ session[t].user # u
  BY <1>2, <1>5, <1>8, RowTypes DEF AccountsTyped, SessionRow
<1>9. \A t \in Token : session'[t].user # None => hash'[session'[t].user] # 0
  BY <1>2, <1>4, <1>8 DEF Registered
<1>10. SessionsMatchPassword'
  BY <1>2, <1>4, <1>8 DEF SessionsMatchPassword
<1> QED
  BY <1>3, <1>4, <1>6, <1>7, <1>9, <1>10

\* A user, a new address and no verification of it.
LEMMA MePatchKeeps ==
    ASSUME IdentityInv, NEW c \in Request, NEW a \in Address, me_patch(c, a)
    PROVE  IdentityInv'
<1> DEFINE u == request[c].user
<1>1. /\ request[c].op = "authenticated"
      /\ email' = [email EXCEPT ![u] = a]
      /\ validated' = validated \ {u} /\ verified' = verified \ {u}
      /\ verifyRow' = [verifyRow EXCEPT ![u] = None]
      /\ Commit(c)
      /\ UNCHANGED <<backend, hash, nextHash, session, resetRow, outbox, expired, accepted>>
  BY DEF me_patch, Commit
<1>2. /\ AccountsTyped /\ Registered /\ RowsSent /\ Current /\ SessionsMatchPassword
      /\ u \in User /\ hash[u] # 0
  BY <1>1 DEF IdentityInv, Tables, JobsKnown, JobKnown
<1> HIDE DEF u
<1>3. request' \in [Request -> Job] /\ JobsKnown'
  BY <1>1, CommitKeeps
<1>4. \A v \in User : /\ email'[v] = IF v = u THEN a ELSE email[v]
                      /\ verifyRow'[v] = IF v = u THEN None ELSE verifyRow[v]
  BY <1>1, <1>2 DEF AccountsTyped
<1>5. AccountsTyped'
  BY <1>1, <1>2, <1>3 DEF AccountsTyped
<1>6. None \notin Mail
  BY AccountsAssumption
<1>7. Registered' /\ RowsSent' /\ SessionsMatchPassword'
  BY <1>1, <1>2, <1>4, <1>6 DEF Registered, RowsSent, SessionsMatchPassword
<1>8. Current'
  BY <1>1, <1>2, <1>4, <1>6 DEF Current, VerifiedIsCurrent, AccountsTyped
<1> QED
  BY <1>3, <1>5, <1>7, <1>8 DEF IdentityInv, Tables

LEMMA PasswordPatchKeeps ==
    ASSUME IdentityInv, NEW c \in Request, me_password_patch(c)
    PROVE  IdentityInv'
<1> DEFINE u == request[c].user
<1>1. /\ request[c].op = "password" /\ SetHash(u) /\ Commit(c)
      /\ UNCHANGED <<backend, email, validated, verified, verifyRow, resetRow, outbox, expired,
                     accepted>>
  BY DEF me_password_patch, Commit, tokenVars
<1>2. /\ AccountsTyped /\ Registered /\ RowsSent /\ Current
      /\ u \in User /\ hash[u] # 0
  BY <1>1 DEF IdentityInv, Tables, JobsKnown, JobKnown
<1> HIDE DEF u
<1>3. /\ hash' \in [User -> Hashes] /\ nextHash' \in 1..(MaxHash + 1)
      /\ session' \in [Token -> SessionRow] /\ SessionsMatchPassword'
      /\ \A v \in User : hash'[v] < nextHash' /\ (hash[v] # 0 <=> hash'[v] # 0)
      /\ \A t \in Token : session'[t].user # None => hash'[session'[t].user] # 0
  BY <1>1, <1>2, SetHashKeeps
<1>4. request' \in [Request -> Job] /\ JobsKnown'
  BY <1>1, <1>3, CommitKeeps
<1>5. AccountsTyped'
  BY <1>1, <1>2, <1>3, <1>4 DEF AccountsTyped
<1>6. Registered' /\ RowsSent' /\ Current'
  BY <1>1, <1>2, <1>3 DEF Registered, RowsSent, Current, VerifiedIsCurrent
<1> QED
  BY <1>3, <1>4, <1>5, <1>6 DEF IdentityInv, Tables

-----------------------------------------------------------------------------
(* Mails and their confirmation.                                           *)

\* Nothing refers to a token that has not been sent.
LEMMA UnsentIsFresh ==
    ASSUME IdentityInv, NEW m \in Mail, outbox[m] = Unsent
    PROVE  /\ accepted[m] = 0
           /\ \A u \in User : verifyRow[u] # m /\ resetRow[u] # m
BY RowTypes DEF IdentityInv, Tables, RowsSent, AccountsTyped

\* What a new mail leaves as it was.
LEMMA SendKeeps ==
    ASSUME IdentityInv, NEW m \in Mail, NEW kind \in {"verify", "reset"}, NEW u \in User,
           NEW a \in Address \union {None}, Send(m, kind, u, a)
    PROVE  /\ outbox' \in [Mail -> Sent]
           /\ outbox'[m] = [kind |-> kind, user |-> u, to |-> a]
           /\ \A n \in Mail : n # m => outbox'[n] = outbox[n]
           /\ \A n \in Mail : outbox[n] # Unsent => outbox'[n] # Unsent
BY DEF Send, IdentityInv, Tables, AccountsTyped, Sent


LEMMA VerificationRequestKeeps ==
    ASSUME IdentityInv, NEW c \in Request, NEW m \in Mail, email_verification_request(c, m)
    PROVE  IdentityInv'
<1> DEFINE u == request[c].user
<1>1. /\ request[c].op = "authenticated"
      /\ outbox[m] = Unsent /\ Send(m, "verify", u, email[u])
      /\ verifyRow' = [verifyRow EXCEPT ![u] = m]
      /\ Commit(c)
      /\ UNCHANGED <<backend, hash, nextHash, email, validated, verified, session, resetRow,
                     expired, accepted>>
  BY DEF email_verification_request, Commit, userVars, Send
<1>2. /\ AccountsTyped /\ Registered /\ RowsSent /\ Current /\ SessionsMatchPassword
      /\ u \in User /\ hash[u] # 0 /\ email[u] \in Address \union {None}
  BY <1>1 DEF IdentityInv, Tables, JobsKnown, JobKnown, AccountsTyped
<1> HIDE DEF u
<1>3. request' \in [Request -> Job] /\ JobsKnown'
  BY <1>1, CommitKeeps
<1>4. /\ outbox' \in [Mail -> Sent]
      /\ outbox'[m] = [kind |-> "verify", user |-> u, to |-> email[u]]
      /\ \A n \in Mail : n # m => outbox'[n] = outbox[n]
      /\ \A n \in Mail : outbox[n] # Unsent => outbox'[n] # Unsent
  BY <1>1, <1>2, SendKeeps
<1>5. accepted[m] = 0 /\ \A v \in User : verifyRow[v] # m /\ resetRow[v] # m
  BY <1>1, UnsentIsFresh
<1>6. \A v \in User : verifyRow'[v] = IF v = u THEN m ELSE verifyRow[v]
  BY <1>1, <1>2 DEF AccountsTyped
<1>7. AccountsTyped'
  BY <1>1, <1>2, <1>3, <1>4 DEF AccountsTyped
<1>8. Registered' /\ SessionsMatchPassword'
  BY <1>1, <1>2, <1>6 DEF Registered, SessionsMatchPassword
<1>9. RowsSent'
  <2>1. ASSUME NEW v \in User, NEW n \in Mail
        PROVE  /\ verifyRow'[v] = n => outbox'[n].kind = "verify" /\ outbox'[n].user = v
                                       /\ accepted'[n] = 0
               /\ resetRow'[v] = n => outbox'[n].kind = "reset" /\ outbox'[n].user = v
                                      /\ accepted'[n] = 0
    BY <1>1, <1>2, <1>4, <1>5, <1>6 DEF RowsSent
  <2>2. \A n \in Mail : accepted'[n] <= 1 /\ (accepted'[n] > 0 => outbox'[n] # Unsent)
    BY <1>1, <1>2, <1>4 DEF RowsSent
  <2> QED
    BY <2>1, <2>2 DEF RowsSent
<1>10. Current'
  <2>1. \A v \in User, n \in Mail : verifyRow'[v] = n => outbox'[n].to = email'[v]
    BY <1>1, <1>2, <1>4, <1>5, <1>6 DEF Current
  <2>2. VerifiedIsCurrent'
    <3>1. ASSUME NEW v \in validated
          PROVE  \E n \in Mail : /\ accepted[n] > 0
                                 /\ outbox'[n] = [kind |-> "verify", user |-> v, to |-> email[v]]
      <4>1. PICK n \in Mail : /\ accepted[n] > 0
                              /\ outbox[n] = [kind |-> "verify", user |-> v, to |-> email[v]]
        BY <1>2 DEF Current, VerifiedIsCurrent
      <4>2. n # m
        BY <1>5, <4>1
      <4> QED
        BY <1>4, <4>1, <4>2
    <3> QED
      BY <1>1, <3>1 DEF VerifiedIsCurrent
  <2> QED
    BY <2>1, <2>2 DEF Current
<1> QED
  BY <1>3, <1>7, <1>8, <1>9, <1>10 DEF IdentityInv, Tables

LEMMA ResetRequestKeeps ==
    ASSUME IdentityInv, NEW c \in Request, NEW m \in Mail, password_reset_request(c, m)
    PROVE  IdentityInv'
<1> DEFINE u == request[c].user
           a == request[c].to
<1>1. /\ request[c].op = "reset_request"
      /\ outbox[m] = Unsent /\ Send(m, "reset", u, a)
      /\ resetRow' = [resetRow EXCEPT ![u] = m]
      /\ Commit(c)
      /\ UNCHANGED <<backend, hash, nextHash, email, validated, verified, session, verifyRow,
                     expired, accepted>>
  BY DEF password_reset_request, Commit, userVars, Send
<1>2. /\ AccountsTyped /\ Registered /\ RowsSent /\ Current /\ SessionsMatchPassword
      /\ u \in User /\ hash[u] # 0 /\ a \in Address \union {None}
  BY <1>1 DEF IdentityInv, Tables, JobsKnown, JobKnown, AccountsTyped, Job
<1> HIDE DEF u, a
<1>3. request' \in [Request -> Job] /\ JobsKnown'
  BY <1>1, CommitKeeps
<1>4. /\ outbox' \in [Mail -> Sent]
      /\ outbox'[m] = [kind |-> "reset", user |-> u, to |-> a]
      /\ \A n \in Mail : n # m => outbox'[n] = outbox[n]
      /\ \A n \in Mail : outbox[n] # Unsent => outbox'[n] # Unsent
  BY <1>1, <1>2, SendKeeps
<1>5. accepted[m] = 0 /\ \A v \in User : verifyRow[v] # m /\ resetRow[v] # m
  BY <1>1, UnsentIsFresh
<1>6. \A v \in User : resetRow'[v] = IF v = u THEN m ELSE resetRow[v]
  BY <1>1, <1>2 DEF AccountsTyped
<1>7. AccountsTyped'
  BY <1>1, <1>2, <1>3, <1>4 DEF AccountsTyped
<1>8. Registered' /\ SessionsMatchPassword'
  BY <1>1, <1>2, <1>6 DEF Registered, SessionsMatchPassword
<1>9. RowsSent'
  <2>1. ASSUME NEW v \in User, NEW n \in Mail
        PROVE  /\ verifyRow'[v] = n => outbox'[n].kind = "verify" /\ outbox'[n].user = v
                                       /\ accepted'[n] = 0
               /\ resetRow'[v] = n => outbox'[n].kind = "reset" /\ outbox'[n].user = v
                                      /\ accepted'[n] = 0
    BY <1>1, <1>2, <1>4, <1>5, <1>6 DEF RowsSent
  <2>2. \A n \in Mail : accepted'[n] <= 1 /\ (accepted'[n] > 0 => outbox'[n] # Unsent)
    BY <1>1, <1>2, <1>4 DEF RowsSent
  <2> QED
    BY <2>1, <2>2 DEF RowsSent
<1>10. Current'
  <2>1. \A v \in User, n \in Mail : verifyRow'[v] = n => outbox'[n].to = email'[v]
    BY <1>1, <1>2, <1>4, <1>5 DEF Current
  <2>2. VerifiedIsCurrent'
    <3>1. ASSUME NEW v \in validated
          PROVE  \E n \in Mail : /\ accepted[n] > 0
                                 /\ outbox'[n] = [kind |-> "verify", user |-> v, to |-> email[v]]
      <4>1. PICK n \in Mail : /\ accepted[n] > 0
                              /\ outbox[n] = [kind |-> "verify", user |-> v, to |-> email[v]]
        BY <1>2 DEF Current, VerifiedIsCurrent
      <4>2. n # m
        BY <1>5, <4>1
      <4> QED
        BY <1>4, <4>1, <4>2
    <3> QED
      BY <1>1, <3>1 DEF VerifiedIsCurrent
  <2> QED
    BY <2>1, <2>2 DEF Current
<1> QED
  BY <1>3, <1>7, <1>8, <1>9, <1>10 DEF IdentityInv, Tables

\* The row is consumed, the token used, and the address of the present verified.
LEMMA VerificationConfirmKeeps ==
    ASSUME IdentityInv, NEW c \in Request, email_verification_confirm(c)
    PROVE  IdentityInv'
<1> DEFINE u == request[c].user
           m == request[c].mail
<1>1. /\ request[c].op = "verify"
      /\ verifyRow[u] = m
      /\ verifyRow' = [verifyRow EXCEPT ![u] = IF @ = m THEN None ELSE @]
      /\ accepted' = [accepted EXCEPT ![m] = @ + 1]
      /\ validated' = validated \union {u} /\ verified' = verified \union {u}
      /\ Commit(c)
      /\ UNCHANGED <<backend, hash, nextHash, email, session, resetRow, outbox, expired>>
  BY DEF email_verification_confirm, Commit, Consumable, Consumed
<1>2. /\ AccountsTyped /\ Registered /\ RowsSent /\ Current /\ SessionsMatchPassword
      /\ u \in User /\ hash[u] # 0 /\ m \in Mail
  BY <1>1 DEF IdentityInv, Tables, JobsKnown, JobKnown, AccountsTyped
<1> HIDE DEF u, m
<1>3. request' \in [Request -> Job] /\ JobsKnown'
  BY <1>1, CommitKeeps
<1>4. /\ outbox[m].kind = "verify" /\ outbox[m].user = u /\ accepted[m] = 0
      /\ outbox[m].to = email[u]
  BY <1>1, <1>2 DEF RowsSent, Current
<1>5. /\ \A v \in User : verifyRow'[v] = IF v = u THEN None ELSE verifyRow[v]
      /\ \A n \in Mail : accepted'[n] = IF n = m THEN 1 ELSE accepted[n]
      /\ None \notin Mail
  BY <1>1, <1>2, <1>4, AccountsAssumption DEF AccountsTyped
<1>6. AccountsTyped'
  BY <1>1, <1>2, <1>3 DEF AccountsTyped
<1>7. Registered' /\ SessionsMatchPassword'
  BY <1>1, <1>2, <1>5 DEF Registered, SessionsMatchPassword
<1>8. RowsSent'
  <2>1. ASSUME NEW v \in User, NEW n \in Mail
        PROVE  /\ verifyRow'[v] = n => outbox'[n].kind = "verify" /\ outbox'[n].user = v
                                       /\ accepted'[n] = 0
               /\ resetRow'[v] = n => outbox'[n].kind = "reset" /\ outbox'[n].user = v
                                      /\ accepted'[n] = 0
    BY <1>1, <1>2, <1>4, <1>5 DEF RowsSent
  <2>2. \A n \in Mail : accepted'[n] <= 1 /\ (accepted'[n] > 0 => outbox'[n] # Unsent)
    BY <1>1, <1>2, <1>4, <1>5, RowTypes DEF RowsSent
  <2> QED
    BY <2>1, <2>2 DEF RowsSent
<1>9. Current'
  <2>1. \A v \in User, n \in Mail : verifyRow'[v] = n => outbox'[n].to = email'[v]
    BY <1>1, <1>2, <1>5 DEF Current
  <2>2. outbox[m] = [kind |-> "verify", user |-> u, to |-> email[u]]
    BY <1>2, <1>4 DEF AccountsTyped, Sent
  <2>3. \A n \in Mail : accepted[n] > 0 => accepted'[n] > 0
    BY <1>5
  <2>4. VerifiedIsCurrent'
    BY <1>1, <1>2, <1>5, <2>2, <2>3 DEF Current, VerifiedIsCurrent
  <2> QED
    BY <2>1, <2>4 DEF Current
<1> QED
  BY <1>3, <1>6, <1>7, <1>8, <1>9 DEF IdentityInv, Tables

LEMMA ResetConfirmKeeps ==
    ASSUME IdentityInv, NEW c \in Request, password_reset_confirm(c)
    PROVE  IdentityInv'
<1> DEFINE u == request[c].user
           m == request[c].mail
<1>1. /\ request[c].op = "reset"
      /\ resetRow[u] = m
      /\ resetRow' = [resetRow EXCEPT ![u] = IF @ = m THEN None ELSE @]
      /\ accepted' = [accepted EXCEPT ![m] = @ + 1]
      /\ SetHash(u)
      /\ Commit(c)
      /\ UNCHANGED <<backend, email, validated, verified, verifyRow, outbox, expired>>
  BY DEF password_reset_confirm, Commit, Consumable, Consumed
<1>2. /\ AccountsTyped /\ Registered /\ RowsSent /\ Current
      /\ u \in User /\ hash[u] # 0 /\ m \in Mail
  BY <1>1 DEF IdentityInv, Tables, JobsKnown, JobKnown, AccountsTyped
<1> HIDE DEF u, m
<1>3. /\ hash' \in [User -> Hashes] /\ nextHash' \in 1..(MaxHash + 1)
      /\ session' \in [Token -> SessionRow] /\ SessionsMatchPassword'
      /\ \A v \in User : hash'[v] < nextHash' /\ (hash[v] # 0 <=> hash'[v] # 0)
      /\ \A t \in Token : session'[t].user # None => hash'[session'[t].user] # 0
  BY <1>1, <1>2, SetHashKeeps
<1>4. request' \in [Request -> Job] /\ JobsKnown'
  BY <1>1, <1>3, CommitKeeps
<1>5. outbox[m].kind = "reset" /\ outbox[m].user = u /\ accepted[m] = 0
  BY <1>1, <1>2 DEF RowsSent
<1>6. /\ \A v \in User : resetRow'[v] = IF v = u THEN None ELSE resetRow[v]
      /\ \A n \in Mail : accepted'[n] = IF n = m THEN 1 ELSE accepted[n]
      /\ None \notin Mail
  BY <1>1, <1>2, <1>5, AccountsAssumption DEF AccountsTyped
<1>7. AccountsTyped'
  BY <1>1, <1>2, <1>3, <1>4 DEF AccountsTyped
<1>8. Registered'
  BY <1>1, <1>2, <1>3, <1>6 DEF Registered
<1>9. RowsSent'
  <2>1. ASSUME NEW v \in User, NEW n \in Mail
        PROVE  /\ verifyRow'[v] = n => outbox'[n].kind = "verify" /\ outbox'[n].user = v
                                       /\ accepted'[n] = 0
               /\ resetRow'[v] = n => outbox'[n].kind = "reset" /\ outbox'[n].user = v
                                      /\ accepted'[n] = 0
    BY <1>1, <1>2, <1>5, <1>6 DEF RowsSent
  <2>2. \A n \in Mail : accepted'[n] <= 1 /\ (accepted'[n] > 0 => outbox'[n] # Unsent)
    BY <1>1, <1>2, <1>5, <1>6, RowTypes DEF RowsSent
  <2> QED
    BY <2>1, <2>2 DEF RowsSent
<1>10. Current'
  <2>1. \A v \in User, n \in Mail : verifyRow'[v] = n => outbox'[n].to = email'[v]
    BY <1>1, <1>2 DEF Current
  <2>2. \A n \in Mail : accepted[n] > 0 => accepted'[n] > 0
    BY <1>6
  <2>3. VerifiedIsCurrent'
    BY <1>1, <1>2, <2>2 DEF Current, VerifiedIsCurrent
  <2> QED
    BY <2>1, <2>3 DEF Current
<1> QED
  BY <1>3, <1>4, <1>7, <1>8, <1>9, <1>10 DEF IdentityInv, Tables

LEMMA LapseKeeps ==
    ASSUME IdentityInv, NEW m \in Mail, lapse(m)
    PROVE  IdentityInv'
BY DEF lapse, userVars, IdentityInv, Tables, AccountsTyped, Registered, RowsSent, Current,
       VerifiedIsCurrent, SessionsMatchPassword, JobsKnown, JobKnown

-----------------------------------------------------------------------------
(* The requests that only read, and the theorems.                          *)

LEMMA ReadKeeps ==
    ASSUME IdentityInv, NEW c \in Request,
           \/ \E u \in User : login_begins(c, u)
           \/ \E t \in Token : authenticate(c, t)
           \/ \E a \in Address : password_reset_request_begins(c, a)
           \/ \E u \in User, m \in Mail : confirm_begins(c, u, m)
           \/ me_password_patch_begins(c)
           \/ rollback(c)
    PROVE  IdentityInv'
<1>1. /\ AccountsTyped /\ Registered /\ JobsKnown /\ Idle \in Job /\ None \notin Mail
      /\ None \notin Address /\ Idle.op = "idle"
  BY RowTypes, AccountsAssumption DEF IdentityInv, Tables
<1>2. CASE rollback(c)
  BY <1>1, <1>2, BeginKeeps DEF rollback, JobKnown
<1>3. ASSUME NEW u \in User, login_begins(c, u) PROVE IdentityInv'
  <2> DEFINE j == [Idle EXCEPT !.op = "login", !.user = u, !.hash = hash[u]]
  <2>1. hash[u] # 0 /\ Begin(c, j)
    BY <1>3 DEF login_begins
  <2>2. j \in Job /\ j.op = "login" /\ j.user = u /\ j.hash = hash[u]
    BY <1>1 DEF AccountsTyped, Idle, Job
  <2> HIDE DEF j
  <2> QED
    BY <2>1, <2>2, BeginKeeps DEF JobKnown
<1>4. ASSUME NEW t \in Token, authenticate(c, t) PROVE IdentityInv'
  <2> DEFINE j == [Idle EXCEPT !.op = "authenticated", !.user = session[t].user]
  <2>1. session[t].user # None /\ Begin(c, j)
    BY <1>4 DEF authenticate
  <2>2. session[t].user \in User /\ hash[session[t].user] # 0
    BY <1>1, <2>1 DEF AccountsTyped, SessionRow, Registered
  <2>3. j \in Job /\ j.op = "authenticated" /\ j.user = session[t].user
    BY <1>1, <2>2 DEF Idle, Job
  <2> HIDE DEF j
  <2> QED
    BY <2>1, <2>2, <2>3, BeginKeeps DEF JobKnown
<1>5. ASSUME NEW a \in Address, password_reset_request_begins(c, a) PROVE IdentityInv'
  <2>1. PICK u \in User : /\ email[u] = a
                          /\ Begin(c, [Idle EXCEPT !.op = "reset_request", !.user = u, !.to = a])
    BY <1>5 DEF password_reset_request_begins
  <2> DEFINE j == [Idle EXCEPT !.op = "reset_request", !.user = u, !.to = a]
  <2>2. hash[u] # 0
    BY <1>1, <2>1 DEF Registered
  <2>3. j \in Job /\ j.op = "reset_request" /\ j.user = u /\ Begin(c, j)
    BY <1>1, <2>1 DEF Idle, Job
  <2> HIDE DEF j
  <2> QED
    BY <2>2, <2>3, BeginKeeps DEF JobKnown
<1>6. ASSUME NEW u \in User, NEW m \in Mail, confirm_begins(c, u, m) PROVE IdentityInv'
  <2>1. PICK op \in {"verify", "reset"} :
           /\ verifyRow[u] = m \/ resetRow[u] = m
           /\ Begin(c, [Idle EXCEPT !.op = op, !.user = u, !.mail = m])
    BY <1>6 DEF confirm_begins
  <2> DEFINE j == [Idle EXCEPT !.op = op, !.user = u, !.mail = m]
  <2>2. hash[u] # 0
    BY <1>1, <2>1 DEF Registered
  <2>3. j \in Job /\ j.op = op /\ j.user = u /\ j.mail = m /\ Begin(c, j)
    BY <1>1, <2>1 DEF Idle, Job
  <2> HIDE DEF j
  <2> QED
    BY <2>2, <2>3, BeginKeeps DEF JobKnown
<1>7. CASE me_password_patch_begins(c)
  <2> DEFINE j == [request[c] EXCEPT !.op = "password", !.hash = hash[request[c].user], !.fresh = TRUE]
  <2>1. request[c].op = "authenticated" /\ Begin(c, j)
    BY <1>7 DEF me_password_patch_begins
  <2>2. request[c] \in Job /\ request[c].user \in User /\ hash[request[c].user] # 0
    BY <1>1, <2>1 DEF AccountsTyped, JobsKnown, JobKnown
  <2>3. j \in Job /\ j.op = "password" /\ j.user = request[c].user
    BY <1>1, <2>2 DEF AccountsTyped, Job
  <2> HIDE DEF j
  <2> QED
    BY <2>1, <2>2, <2>3, BeginKeeps DEF JobKnown
<1> QED
  BY <1>2, <1>3, <1>4, <1>5, <1>6, <1>7

LEMMA StepInv == IdentityInv /\ [Next]_accountVars => IdentityInv'
<1> SUFFICES ASSUME IdentityInv, [Next]_accountVars PROVE IdentityInv'
  OBVIOUS
<1>1. ASSUME UNCHANGED accountVars PROVE IdentityInv'
  BY <1>1 DEF accountVars, IdentityInv, Tables, AccountsTyped, Registered, RowsSent, Current,
              VerifiedIsCurrent, SessionsMatchPassword, JobsKnown, JobKnown
<1>2. ASSUME NEW c \in Request, SessionNext(c) PROVE IdentityInv'
  BY <1>2, ReadKeeps, RegisterKeeps, LoginKeeps, LogoutKeeps DEF SessionNext
<1>3. ASSUME NEW c \in Request, AccountNext(c) PROVE IdentityInv'
  BY <1>3, ReadKeeps, MePatchKeeps, PasswordPatchKeeps, VerificationRequestKeeps,
     ResetRequestKeeps, VerificationConfirmKeeps, ResetConfirmKeeps DEF AccountNext
<1>4. ASSUME NEW c \in Request, rollback(c) PROVE IdentityInv'
  BY <1>4, ReadKeeps
<1> QED
  BY <1>1, <1>2, <1>3, <1>4, ExpireKeeps, LapseKeeps DEF Next

LEMMA SpecInv == Spec => []IdentityInv
BY InitInv, StepInv, PTL DEF Spec

\* auth.rs, account.rs: the rows keep their types, and users.is_validated and the
\* table of verified users never disagree.
THEOREM IdentityTypes == Spec => []AccountsTyped
BY SpecInv, PTL DEF IdentityInv, Tables

\* docs/03_api_contract.md:71, 83: on SQLite no session outlives the password its
\* login verified, also when a login and a reset overlap.
THEOREM SessionsFollowPasswords == Spec => []SessionsMatchPassword
BY SpecInv, PTL DEF IdentityInv, Tables

\* auth.rs:242-263, account.rs:637-665: whoever counts as verified confirmed a
\* token that was mailed to the address the account has now.
THEOREM VerifiedAddresses == Spec => []VerifiedIsCurrent
<1>1. IdentityInv => VerifiedIsCurrent
  BY DEF IdentityInv, Tables, Current
<1> QED
  BY <1>1, SpecInv, PTL

\* account.rs:648-657, 754-762: a mailed token is accepted at most once.
THEOREM TokensWorkOnce == Spec => []TokenUsedOnce
<1>1. IdentityInv => TokenUsedOnce
  BY DEF IdentityInv, Tables, RowsSent, TokenUsedOnce
<1> QED
  BY <1>1, SpecInv, PTL

\* Two handlers replace a hash: one compares it, the other consumes a reset row.
LEMMA StepReplaces ==
    ASSUME IdentityInv, [Next]_accountVars, NEW u \in User, hash[u] # 0, hash'[u] # hash[u]
    PROVE  \/ \E c \in Request : request[c].op = "password" /\ request[c].user = u
                                /\ request[c].hash = hash[u] /\ request'[c].op = "idle"
           \/ \E m \in Mail : resetRow[u] = m /\ resetRow'[u] = None
<1> DEFINE Goal == \/ \E c \in Request : request[c].op = "password" /\ request[c].user = u
                                        /\ request[c].hash = hash[u] /\ request'[c].op = "idle"
                   \/ \E m \in Mail : resetRow[u] = m /\ resetRow'[u] = None
<1>1. AccountsTyped /\ JobsKnown
  BY DEF IdentityInv, Tables
<1>2. ASSUME NEW c \in Request, me_password_patch(c) PROVE Goal
  <2>1. /\ request[c].op = "password" /\ hash[request[c].user] = request[c].hash
        /\ hash' = [hash EXCEPT ![request[c].user] = nextHash]
        /\ request'[c].op = "idle"
    BY <1>2 DEF me_password_patch, SetHash, Commit, Idle
  <2>2. request[c].user = u
    BY <1>1, <2>1 DEF AccountsTyped
  <2> QED
    BY <2>1, <2>2
<1>3. ASSUME NEW c \in Request, password_reset_confirm(c) PROVE Goal
  <2>1. /\ request[c].op = "reset" /\ resetRow[request[c].user] = request[c].mail
        /\ resetRow' = [resetRow EXCEPT ![request[c].user] = IF @ = request[c].mail THEN None ELSE @]
        /\ hash' = [hash EXCEPT ![request[c].user] = nextHash]
    BY <1>3 DEF password_reset_confirm, SetHash, Consumable, Consumed
  <2>2. request[c].user = u
    BY <1>1, <2>1 DEF AccountsTyped
  <2>3. request[c].mail \in Mail
    BY <1>1, <2>1 DEF JobsKnown, JobKnown
  <2>4. resetRow[u] = request[c].mail /\ resetRow'[u] = None
    BY <1>1, <2>1, <2>2 DEF AccountsTyped
  <2> QED
    BY <2>3, <2>4
<1>4. ASSUME NEW c \in Request, NEW v \in User, NEW a \in Address, NEW t \in Token,
             register(c, v, a, t)
      PROVE  Goal
  <2>1. hash[v] = 0 /\ hash' = [hash EXCEPT ![v] = nextHash]
    BY <1>4 DEF register
  <2> QED
    BY <1>1, <2>1 DEF AccountsTyped
<1>5. ASSUME NEW c \in Request, NEW a \in Address,
             me_patch(c, a) \/ password_reset_request_begins(c, a)
      PROVE  Goal
  BY <1>5 DEF me_patch, password_reset_request_begins, Begin, userVars
<1>6. ASSUME NEW c \in Request, NEW m \in Mail,
             email_verification_request(c, m) \/ password_reset_request(c, m)
      PROVE  Goal
  BY <1>6 DEF email_verification_request, password_reset_request, userVars
<1>7. ASSUME NEW c \in Request, NEW v \in User, NEW m \in Mail,
             confirm_begins(c, v, m)
      PROVE  Goal
  BY <1>7 DEF confirm_begins, Begin, userVars
<1>8. ASSUME NEW c \in Request, NEW t \in Token,
             login(c, t) \/ logout(c, t) \/ authenticate(c, t)
      PROVE  Goal
  BY <1>8 DEF login, logout, authenticate, Begin, userVars
<1>9. ASSUME NEW c \in Request,
             \/ me_password_patch_begins(c) \/ email_verification_confirm(c) \/ rollback(c)
      PROVE  Goal
  BY <1>9 DEF me_password_patch_begins, email_verification_confirm, rollback, Begin, userVars
<1>10. ASSUME NEW m \in Mail, lapse(m) PROVE Goal
  BY <1>10 DEF lapse, userVars
<1>11. ASSUME NEW t \in Token, expire(t) PROVE Goal
  BY <1>11 DEF expire, userVars
<1>12. ASSUME NEW c \in Request, NEW v \in User, login_begins(c, v) PROVE Goal
  BY <1>12 DEF login_begins, Begin, userVars
<1>13. ASSUME UNCHANGED accountVars PROVE Goal
  BY <1>13 DEF accountVars
<1> HIDE DEF Goal
<1>14. ASSUME NEW c \in Request, SessionNext(c) PROVE Goal
  BY <1>14, <1>4, <1>8, <1>12 DEF SessionNext
<1>15. ASSUME NEW c \in Request, AccountNext(c) PROVE Goal
  BY <1>15, <1>2, <1>3, <1>5, <1>6, <1>7, <1>9 DEF AccountNext
<1>16. Goal
  BY <1>9, <1>10, <1>11, <1>13, <1>14, <1>15 DEF Next
<1> QED
  BY <1>16 DEF Goal

\* auth.rs:318: a password is replaced only by a request that verified the very
\* hash it replaces, or by the token the reset row holds.
THEOREM PasswordsAreReplacedKnowingly == Spec => ReplacedKnowingly
<1>1. IdentityInv /\ [Next]_accountVars =>
        [\A u \in User : hash[u] # 0 /\ hash'[u] # hash[u] =>
            \/ \E c \in Request : request[c].op = "password" /\ request[c].user = u
                                 /\ request[c].hash = hash[u] /\ request'[c].op = "idle"
            \/ \E m \in Mail : resetRow[u] = m /\ resetRow'[u] = None]_accountVars
  BY StepReplaces
<1> QED
  BY <1>1, SpecInv, PTL DEF Spec, ReplacedKnowingly
=============================================================================
