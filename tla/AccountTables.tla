---------------------------- MODULE AccountTables ----------------------------
(***************************************************************************)
(* Accounts, their sessions and the tokens mailed for them, and what they  *)
(* promise.  Module Identity changes them.                                 *)
(***************************************************************************)
EXTENDS Naturals

CONSTANTS
    User, None,
    Address,
    Request,        \* requests the server handles at the same time
    Token,          \* random bearer tokens
    Mail,           \* random tokens sent by mail
    MaxHash         \* bound on the passwords that are ever set

ASSUME AccountsAssumption ==
    /\ None \notin User \union Address \union Mail
    /\ MaxHash \in Nat

VARIABLES
    backend,        \* the database of this server
    hash,           \* ecs_users.password_hash; 0: not registered.  A salted
                    \* hash is never made twice, so it is a number
    nextHash,
    email,          \* ecs_users.email
    validated,      \* users with is_validated = 1
    verified,       \* ecs_email_verified_users
    session,        \* ecs_sessions; hash is the one its login verified
    verifyRow,      \* ecs_email_verification_tokens: the unconsumed token
    resetRow,       \* ecs_password_reset_tokens, likewise
    outbox,         \* ecs_email_outbox: kind, user and recipient of a token
    expired,        \* mailed tokens whose expires_at has passed
    accepted,       \* how often a mailed token was accepted
    request         \* what each client's request has read

accountVars == <<backend, hash, nextHash, email, validated, verified, session,
                 verifyRow, resetRow, outbox, expired, accepted, request>>
userVars  == <<hash, nextHash, email, validated, verified>>
tokenVars == <<verifyRow, resetRow, outbox, expired, accepted>>
-----------------------------------------------------------------------------
Hashes == 0..MaxHash
SessionRow == [user : User \union {None}, hash : Hashes, old : BOOLEAN]
Sent == [kind : {"none", "verify", "reset"}, user : User \union {None},
         to : Address \union {None}]
Job == [op : {"idle", "login", "authenticated", "password", "reset_request", "verify", "reset"},
        user : User \union {None}, hash : Hashes, mail : Mail \union {None},
        to : Address \union {None}, fresh : BOOLEAN]

\* The rows have their types, and is_validated says what the table of verified
\* users says.
AccountsTyped ==
    /\ backend \in {"sqlite", "mysql"}
    /\ hash \in [User -> Hashes] /\ nextHash \in 1..(MaxHash + 1)
    /\ email \in [User -> Address \union {None}]
    /\ validated \subseteq User /\ verified = validated
    /\ session \in [Token -> SessionRow]
    /\ verifyRow \in [User -> Mail \union {None}]
    /\ resetRow \in [User -> Mail \union {None}]
    /\ outbox \in [Mail -> Sent]
    /\ expired \subseteq Mail
    /\ accepted \in [Mail -> Nat]
    /\ request \in [Request -> Job]

\* docs/03_api_contract.md:71, 83: changing or resetting a password revokes all
\* sessions; one must log in anew with the new one.  On SQLite no login that
\* verified the old hash opens its session afterwards.
SessionsMatchPassword ==
    backend = "sqlite" =>
        \A t \in Token : session[t].user # None => session[t].hash = hash[session[t].user]

\* An address counts as verified only if a token mailed to this very address
\* was confirmed, however requests, changes of the address and confirmations
\* overlap (auth.rs:242-263, account.rs:637-665).
VerifiedIsCurrent ==
    \A u \in validated : \E m \in Mail :
        accepted[m] > 0 /\ outbox[m] = [kind |-> "verify", user |-> u, to |-> email[u]]

\* A mailed token is accepted once, also by two confirmations that both found
\* it unconsumed (account.rs:648-657, 754-762).
TokenUsedOnce == \A m \in Mail : accepted[m] <= 1

\* A password is replaced only by somebody who proved to know it or consumed a
\* reset token: a change never overwrites a reset that came between its check
\* and its write (auth.rs:318).
ReplacedKnowingly ==
    [][\A u \in User : hash[u] # 0 /\ hash'[u] # hash[u] =>
          \/ \E c \in Request : request[c].op = "password" /\ request[c].user = u
                                /\ request[c].hash = hash[u] /\ request'[c].op = "idle"
          \/ \E m \in Mail : resetRow[u] = m /\ resetRow'[u] = None]_accountVars
=============================================================================
