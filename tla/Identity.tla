------------------------------ MODULE Identity ------------------------------
(***************************************************************************)
(* Sessions, passwords and mailed tokens (auth.rs, http/auth.rs and the    *)
(* verification and reset handlers of account.rs).                         *)
(*                                                                         *)
(* A handler whose SELECT decides about a later write is two steps: the    *)
(* action ending in _begins takes the snapshot, the one named after the    *)
(* handler writes and commits.  MySQL lets other transactions commit in    *)
(* between; on SQLite the write of an overtaken snapshot fails, and the    *)
(* lock_user of me_password_patch excludes every other writer.  Login and  *)
(* the confirmations take no user lock.  register and me_patch look up     *)
(* whether an address is taken, and its UNIQUE index decides when they     *)
(* write, so that they are one step.                                       *)
(***************************************************************************)
EXTENDS AccountTables

NoSession == [user |-> None, hash |-> 0, old |-> FALSE]
Unsent    == [kind |-> "none", user |-> None, to |-> None]
Idle      == [op |-> "idle", user |-> None, hash |-> 0, mail |-> None, to |-> None,
              fresh |-> TRUE]

Init ==
    /\ backend \in {"sqlite", "mysql"}
    /\ hash = [u \in User |-> 0] /\ nextHash = 1
    /\ email = [u \in User |-> None]
    /\ validated = {} /\ verified = {}
    /\ session = [t \in Token |-> NoSession]
    /\ verifyRow = [u \in User |-> None] /\ resetRow = [u \in User |-> None]
    /\ outbox = [m \in Mail |-> Unsent]
    /\ expired = {}
    /\ accepted = [m \in Mail |-> 0]
    /\ request = [c \in Request |-> Idle]
-----------------------------------------------------------------------------
\* Nobody else holds the write lock of SQLite.
Alone(c) == backend = "sqlite" => \A d \in Request \ {c} : request[d].op # "password"
MayWrite_stale(c) == Alone(c)               \* mutant: overtaken snapshots may write
MayWrite(c) == Alone(c) /\ (backend = "sqlite" => request[c].fresh)

\* lock_user: nobody else holds the lock of this request's user.
MayLock(c) ==
    /\ Alone(c)
    /\ \A d \in Request : request[d].op = "password" => request[d].user # request[c].user

Begin(c, j) ==
    /\ request' = [request EXCEPT ![c] = j]
    /\ UNCHANGED <<backend, userVars, session, tokenVars>>

\* c commits its writes and every other open snapshot is overtaken.
Commit(c) ==
    /\ request' = [d \in Request |-> IF d = c THEN Idle
                                    ELSE [request[d] EXCEPT !.fresh = request[d] = Idle]]
    /\ UNCHANGED backend

Open(t, u, h) ==
    /\ session[t] = NoSession
    /\ session' = [session EXCEPT ![t] = [user |-> u, hash |-> h, old |-> FALSE]]

\* revoke_user_sessions.
Revoked_none(u) == session                  \* mutant: sessions stay
Revoked(u) == [t \in Token |-> IF session[t].user = u THEN NoSession ELSE session[t]]

SetHash(u) ==
    /\ nextHash <= MaxHash
    /\ hash' = [hash EXCEPT ![u] = nextHash]
    /\ nextHash' = nextHash + 1
    /\ session' = Revoked(u)

Taken(a) == \E u \in User : email[u] = a
-----------------------------------------------------------------------------
(* Sessions.                                                               *)

\* POST /auth/register: the user and a first session.
register(c, u, a, t) ==
    /\ request[c] = Idle /\ Alone(c)
    /\ hash[u] = 0 /\ ~Taken(a) /\ nextHash <= MaxHash
    /\ hash' = [hash EXCEPT ![u] = nextHash] /\ nextHash' = nextHash + 1
    /\ email' = [email EXCEPT ![u] = a]
    /\ Open(t, u, nextHash)
    /\ Commit(c)
    /\ UNCHANGED <<validated, verified, tokenVars>>

\* POST /auth/login reads the hash and verifies the password it was given ...
login_begins(c, u) ==
    /\ request[c] = Idle /\ hash[u] # 0
    /\ Begin(c, [Idle EXCEPT !.op = "login", !.user = u, !.hash = hash[u]])

\* ... and opens a session.
login(c, t) ==
    /\ request[c].op = "login" /\ MayWrite(c)
    /\ Open(t, request[c].user, request[c].hash)
    /\ Commit(c)
    /\ UNCHANGED <<userVars, tokenVars>>

\* A request with a bearer token: http::auth::authenticate looks it up before
\* the handler begins its transaction.
authenticate(c, t) ==
    /\ request[c] = Idle
    /\ session[t].user # None /\ ~session[t].old
    /\ Begin(c, [Idle EXCEPT !.op = "authenticated", !.user = session[t].user])

\* POST /auth/logout.
logout(c, t) ==
    /\ request[c] = Idle /\ Alone(c)
    /\ session[t].user # None /\ ~session[t].old
    /\ session' = [session EXCEPT ![t] = NoSession]
    /\ Commit(c)
    /\ UNCHANGED <<userVars, tokenVars>>

\* A session is a day old and no longer accepted; its row stays.
expire(t) ==
    /\ session[t].user # None /\ ~session[t].old
    /\ session' = [session EXCEPT ![t].old = TRUE]
    /\ UNCHANGED <<backend, userVars, tokenVars, request>>
-----------------------------------------------------------------------------
(* Handlers of a signed-in user, after lock_user.                          *)

\* Mutant: the user stays in ecs_email_verified_users.
me_patch_staysVerified(c, a) ==
    LET u == request[c].user
    IN  /\ request[c].op = "authenticated" /\ MayLock(c)
        /\ \A v \in User \ {u} : email[v] # a
        /\ email' = [email EXCEPT ![u] = a]
        /\ validated' = validated \ {u}
        /\ verifyRow' = [verifyRow EXCEPT ![u] = None]
        /\ Commit(c)
        /\ UNCHANGED <<hash, nextHash, verified, session, resetRow, outbox, expired, accepted>>

\* Mutant: the token for the old address survives.
me_patch_keepsToken(c, a) ==
    LET u == request[c].user
    IN  /\ request[c].op = "authenticated" /\ MayLock(c)
        /\ \A v \in User \ {u} : email[v] # a
        /\ email' = [email EXCEPT ![u] = a]
        /\ validated' = validated \ {u} /\ verified' = verified \ {u}
        /\ Commit(c)
        /\ UNCHANGED <<hash, nextHash, session, tokenVars>>

\* PATCH /me with an e-mail address: it is no longer verified.
me_patch(c, a) ==
    LET u == request[c].user
    IN  /\ request[c].op = "authenticated" /\ MayLock(c)
        /\ \A v \in User \ {u} : email[v] # a
        /\ email' = [email EXCEPT ![u] = a]
        /\ validated' = validated \ {u} /\ verified' = verified \ {u}
        /\ verifyRow' = [verifyRow EXCEPT ![u] = None]
        /\ Commit(c)
        /\ UNCHANGED <<hash, nextHash, session, resetRow, outbox, expired, accepted>>

\* PATCH /me/password locks the user, reads the hash and verifies the current
\* password ...
me_password_patch_begins(c) ==
    LET u == request[c].user
    IN  /\ request[c].op = "authenticated" /\ MayLock(c)
        /\ Begin(c, [request[c] EXCEPT !.op = "password", !.hash = hash[u], !.fresh = TRUE])

\* Mutant: an UPDATE without the hash in its condition.
me_password_patch_unconditional(c) ==
    LET u == request[c].user
    IN  /\ request[c].op = "password" /\ MayWrite(c)
        /\ SetHash(u)
        /\ Commit(c)
        /\ UNCHANGED <<email, validated, verified, tokenVars>>

\* ... and replaces that hash and revokes all sessions.
me_password_patch(c) ==
    LET u == request[c].user
    IN  /\ request[c].op = "password" /\ MayWrite(c)
        /\ hash[u] = request[c].hash
        /\ SetHash(u)
        /\ Commit(c)
        /\ UNCHANGED <<email, validated, verified, tokenVars>>

\* A mail with a new random token.
Send(m, kind, u, a) ==
    /\ outbox[m] = Unsent
    /\ outbox' = [outbox EXCEPT ![m] = [kind |-> kind, user |-> u, to |-> a]]

\* POST /me/email-verifications: the new token replaces the old one.
email_verification_request(c, m) ==
    LET u == request[c].user
    IN  /\ request[c].op = "authenticated" /\ MayLock(c)
        /\ Send(m, "verify", u, email[u])
        /\ verifyRow' = [verifyRow EXCEPT ![u] = m]
        /\ Commit(c)
        /\ UNCHANGED <<userVars, session, resetRow, expired, accepted>>
-----------------------------------------------------------------------------
(* Handlers without a user lock.                                           *)

\* POST /password-resets reads the user of an address (unknown: no change) ...
password_reset_request_begins(c, a) ==
    \E u \in User :
        /\ request[c] = Idle /\ email[u] = a
        /\ Begin(c, [Idle EXCEPT !.op = "reset_request", !.user = u, !.to = a])

\* ... and replaces the token of that user and mails it to that address.
password_reset_request(c, m) ==
    LET u == request[c].user
    IN  /\ request[c].op = "reset_request" /\ MayWrite(c)
        /\ Send(m, "reset", u, request[c].to)
        /\ resetRow' = [resetRow EXCEPT ![u] = m]
        /\ Commit(c)
        /\ UNCHANGED <<userVars, session, verifyRow, expired, accepted>>

\* A confirmation finds the unconsumed, unexpired row of its token.
confirm_begins(c, u, m) ==
    /\ request[c] = Idle /\ m \notin expired
    /\ \/ /\ verifyRow[u] = m
          /\ Begin(c, [Idle EXCEPT !.op = "verify", !.user = u, !.mail = m])
       \/ /\ resetRow[u] = m
          /\ Begin(c, [Idle EXCEPT !.op = "reset", !.user = u, !.mail = m])

\* The conditional UPDATE of consumed_at.
Consumable_unchecked(row, j) == TRUE        \* mutant: its row count is not checked
Consumable(row, j) == row[j.user] = j.mail
Consumed(row, j) == [row EXCEPT ![j.user] = IF @ = j.mail THEN None ELSE @]

\* POST /email-verifications/confirm.
email_verification_confirm(c) ==
    LET j == request[c]
    IN  /\ j.op = "verify" /\ MayWrite(c)
        /\ Consumable(verifyRow, j)
        /\ verifyRow' = Consumed(verifyRow, j)
        /\ accepted' = [accepted EXCEPT ![j.mail] = @ + 1]
        /\ validated' = validated \union {j.user} /\ verified' = verified \union {j.user}
        /\ Commit(c)
        /\ UNCHANGED <<hash, nextHash, email, session, resetRow, outbox, expired>>

\* POST /password-resets/confirm.
password_reset_confirm(c) ==
    LET j == request[c]
    IN  /\ j.op = "reset" /\ MayWrite(c)
        /\ Consumable(resetRow, j)
        /\ resetRow' = Consumed(resetRow, j)
        /\ accepted' = [accepted EXCEPT ![j.mail] = @ + 1]
        /\ SetHash(j.user)
        /\ Commit(c)
        /\ UNCHANGED <<email, validated, verified, verifyRow, outbox, expired>>

\* A request fails or is left: its transaction rolls back.
rollback(c) ==
    /\ request[c] # Idle
    /\ Begin(c, Idle)

\* expires_at of a mailed token passes.
lapse(m) ==
    /\ outbox[m] # Unsent /\ m \notin expired
    /\ expired' = expired \union {m}
    /\ UNCHANGED <<backend, userVars, session, verifyRow, resetRow, outbox, accepted, request>>
-----------------------------------------------------------------------------
SessionNext(c) ==
    \/ \E u \in User : login_begins(c, u)
    \/ \E t \in Token :
          \/ \E u \in User, a \in Address : register(c, u, a, t)
          \/ login(c, t) \/ logout(c, t) \/ authenticate(c, t)

AccountNext(c) ==
    \/ \E a \in Address : me_patch(c, a) \/ password_reset_request_begins(c, a)
    \/ me_password_patch_begins(c) \/ me_password_patch(c)
    \/ \E m \in Mail : email_verification_request(c, m) \/ password_reset_request(c, m)
    \/ \E u \in User, m \in Mail : confirm_begins(c, u, m)
    \/ email_verification_confirm(c) \/ password_reset_confirm(c)

Next ==
    \/ \E c \in Request : SessionNext(c) \/ AccountNext(c) \/ rollback(c)
    \/ \E t \in Token : expire(t)
    \/ \E m \in Mail : lapse(m)

Spec == Init /\ [][Next]_accountVars
=============================================================================
