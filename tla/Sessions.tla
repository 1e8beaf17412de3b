------------------------------ MODULE Sessions ------------------------------
(***************************************************************************)
(* Accounts, refresh tokens and password resets on the server:             *)
(* backend/app/services/auth_service.py, api/v1/auth.py and the            *)
(* administration of accounts.                                             *)
(*                                                                         *)
(* A request runs in a thread with a database session of its own.  What it *)
(* reads and what it commits are separate steps, and a request with two    *)
(* transactions can be lost between them.  Access tokens are signed, not   *)
(* stored: the one issued together with refresh token t is named by t.     *)
(* Passwords are numbered: version[u] is the one user u has now.           *)
(***************************************************************************)
EXTENDS Naturals, Sequences, FiniteSets

CONSTANTS
    Users, Requests,
    MaxTokens,        \* bound: refresh tokens ever issued
    MaxResets         \* bound: password reset tokens ever issued

ASSUME SessionAssumption ==
    IsFiniteSet(Requests) /\ MaxTokens \in Nat /\ MaxResets \in Nat

VARIABLES
    account,          \* users: "absent", or is_active as "active", "inactive"
    version,          \* users: how often the password was reset
    token,            \* refresh_tokens, in the order they were inserted
    expired,          \* tokens live equally long: the first so many are past
                      \* their expires_at
    resetToken,       \* password_reset_tokens, likewise
    request           \* what each thread holds between its transactions

tables == <<account, version, token, expired, resetToken>>
sessionVars == <<tables, request>>

NoToken == 0
Idle == [phase |-> "idle"]

\* proof is the password the session began with; late is a history value: a
\* password reset was committed between the checks of the request that issued
\* the token, or one it descends from, and its insertion.
RefreshToken ==
    [owner : Users, parent : 0..MaxTokens, revoked : BOOLEAN,
     proof : Nat, late : BOOLEAN]

\* PasswordResetToken: one expires after thirty minutes.
PasswordResetToken == [owner : Users, used : BOOLEAN, expired : BOOLEAN]

Init ==
    /\ account = [u \in Users |-> "absent"]
    /\ version = [u \in Users |-> 0]
    /\ token = <<>> /\ expired = 0 /\ resetToken = <<>>
    /\ request = [r \in Requests |-> Idle]

Usable(t) == t \in DOMAIN token /\ t > expired /\ ~token[t].revoked
Live(t) == Usable(t) /\ account[token[t].owner] = "active"

Children(t) == {c \in DOMAIN token : token[c].parent = t}

-----------------------------------------------------------------------------
(* register_user: one transaction; the unique column email lets one win.   *)
Register(u) ==
    /\ account[u] = "absent"
    /\ account' = [account EXCEPT ![u] = "active"]
    /\ UNCHANGED <<expired, version, token, resetToken, request>>

\* login, up to _issue_tokens: the caller knows the current password.
BeginLogin(r, u) ==
    /\ request[r] = Idle
    /\ account[u] = "active"
    /\ request' = [request EXCEPT ![r] =
          [phase |-> "issue", op |-> "login", user |-> u, parent |-> NoToken,
           proof |-> version[u], late |-> FALSE]]
    /\ UNCHANGED tables

\* refresh_access_token: the checks.
BeginRefresh(r, t) ==
    /\ request[r] = Idle
    /\ Live(t)
    /\ request' = [request EXCEPT ![r] =
          [phase |-> "revoke", op |-> "refresh", user |-> token[t].owner,
           parent |-> t, proof |-> token[t].proof, late |-> token[t].late]]
    /\ UNCHANGED tables

\* Broken variant: the new pair is issued and the old one is left as it is.
KeepOld(r) ==
    /\ request[r].phase = "revoke"
    /\ request' = [request EXCEPT ![r].phase = "issue"]
    /\ UNCHANGED tables

\* Broken variant: the old token is deleted.
DeleteOld(r) ==
    LET t == request[r].parent
    IN  /\ request[r].phase = "revoke"
        /\ token' = SubSeq(token, 1, t - 1) \o SubSeq(token, t + 1, Len(token))
        /\ request' = [request EXCEPT ![r].phase = "issue"]
        /\ UNCHANGED <<expired, account, version, resetToken>>

\* ...its first transaction: the old token is revoked.
RevokeOld(r) ==
    /\ request[r].phase = "revoke"
    /\ token' = [token EXCEPT ![request[r].parent].revoked = TRUE]
    /\ request' = [request EXCEPT ![r].phase = "issue"]
    /\ UNCHANGED <<expired, account, version, resetToken>>

\* _issue_tokens, a transaction of its own.  It asks nothing again.
IssueTokens(r) ==
    /\ request[r].phase = "issue"
    /\ Len(token) < MaxTokens
    /\ token' = Append(token,
          [owner |-> request[r].user, parent |-> request[r].parent,
           revoked |-> FALSE,
           proof |-> request[r].proof, late |-> request[r].late])
    /\ request' = [request EXCEPT ![r] =
          [phase |-> IF @.op = "login" THEN "audit" ELSE "answered",
           op |-> @.op, user |-> @.user, new |-> Len(token) + 1]]
    /\ UNCHANGED <<expired, account, version, resetToken>>

\* The last transaction of a login inserts its entry in the audit log, which
\* nothing here reads.
AuditLogin(r) ==
    /\ request[r].phase = "audit"
    /\ request' = [request EXCEPT ![r].phase = "answered"]
    /\ UNCHANGED tables

\* The reply reaches its caller.
Answer(r) ==
    /\ request[r].phase = "answered"
    /\ request' = [request EXCEPT ![r] = Idle]
    /\ UNCHANGED tables

\* The thread, the database connection or the reply is lost: what was
\* committed stays, the rest is rolled back.
Lose(r) ==
    /\ request[r] # Idle
    /\ request' = [request EXCEPT ![r] = Idle]
    /\ UNCHANGED tables

\* logout: any token the server knows is revoked, whatever its state.
Logout(t) ==
    /\ token' = [token EXCEPT ![t].revoked = TRUE]
    /\ UNCHANGED <<expired, account, version, resetToken, request>>

-----------------------------------------------------------------------------
(* Password resets.                                                        *)

BeginResetRequest(r, u) ==
    /\ request[r] = Idle
    /\ account[u] = "active"
    /\ request' = [request EXCEPT ![r] =
          [phase |-> "store", op |-> "reset", user |-> u]]
    /\ UNCHANGED tables

StoreResetToken(r) ==
    /\ request[r].phase = "store"
    /\ Len(resetToken) < MaxResets
    /\ resetToken' = Append(resetToken,
          [owner |-> request[r].user, used |-> FALSE, expired |-> FALSE])
    /\ request' = [request EXCEPT ![r] = Idle]
    /\ UNCHANGED <<expired, account, version, token>>

\* confirm_password_reset: the checks; the new password is a strong one.
BeginConfirm(r, k) ==
    /\ request[r] = Idle
    /\ ~resetToken[k].used /\ ~resetToken[k].expired
    /\ account[resetToken[k].owner] = "active"
    /\ request' = [request EXCEPT ![r] =
          [phase |-> "confirm", op |-> "confirm",
           user |-> resetToken[k].owner, key |-> k]]
    /\ UNCHANGED tables

InFlight(u) ==
    {r \in Requests : request[r].phase \in {"revoke", "issue"}
                      /\ request[r].user = u}

\* Broken variant: only the tokens issued by a login are revoked.
LoginTokens(u) ==
    {t \in DOMAIN token : token[t].owner = u /\ token[t].parent = NoToken}

\* The rows its UPDATE names.
TokensOf(u) == {t \in DOMAIN token : token[t].owner = u}

\* Broken variant: the reset token stays good until it expires.
StillGood(k) == resetToken

Spent(k) == [resetToken EXCEPT ![k].used = TRUE]

\* ...and its transaction.  The UPDATE of the tokens sees the rows committed
\* so far; the requests on their way to insert another are marked.
ConfirmReset(r) ==
    LET u == request[r].user
    IN  /\ request[r].phase = "confirm"
        /\ version' = [version EXCEPT ![u] = @ + 1]
        /\ resetToken' = Spent(request[r].key)
        /\ token' = [t \in DOMAIN token |->
              [token[t] EXCEPT !.revoked = @ \/ t \in TokensOf(u)]]
        /\ request' = [q \in Requests |->
              CASE q = r -> Idle
                [] q \in InFlight(u) -> [request[q] EXCEPT !.late = TRUE]
                [] OTHER -> request[q]]
        /\ UNCHANGED <<expired, account>>

-----------------------------------------------------------------------------
(* Administrators and time.  Neither set_active nor deactivate_staff       *)
(* touches the tokens of the account.                                      *)

SetActive(u) ==
    /\ account[u] # "absent"
    /\ account' = [account EXCEPT ![u] =
                      IF @ = "active" THEN "inactive" ELSE "active"]
    /\ UNCHANGED <<expired, version, token, resetToken, request>>

ExpireToken ==
    /\ expired < Len(token)
    /\ expired' = expired + 1
    /\ UNCHANGED <<account, version, token, resetToken, request>>

ExpireResetToken(k) ==
    /\ ~resetToken[k].expired
    /\ resetToken' = [resetToken EXCEPT ![k].expired = TRUE]
    /\ UNCHANGED <<expired, account, version, token, request>>

ServerStep(r) ==
    \/ RevokeOld(r)
    \/ IssueTokens(r)
    \/ AuditLogin(r)
    \/ StoreResetToken(r)
    \/ ConfirmReset(r)

Administration ==
    \/ \E u \in Users : Register(u) \/ SetActive(u)
    \/ ExpireToken
    \/ \E k \in DOMAIN resetToken : ExpireResetToken(k)

Next ==
    \/ Administration
    \/ \E r \in Requests :
          \/ \E u \in Users : BeginLogin(r, u) \/ BeginResetRequest(r, u)
          \/ \E t \in DOMAIN token : BeginRefresh(r, t)
          \/ \E k \in DOMAIN resetToken : BeginConfirm(r, k)
          \/ ServerStep(r)
          \/ Answer(r)
          \/ Lose(r)
    \/ \E t \in DOMAIN token : Logout(t)

Spec == Init /\ [][Next]_sessionVars

-----------------------------------------------------------------------------
\* Each column and each request holds a value of its kind; a request names
\* rows that exist.
TypeOK ==
    /\ account \in [Users -> {"absent", "active", "inactive"}]
    /\ version \in [Users -> Nat]
    /\ token \in Seq(RefreshToken) /\ Len(token) <= MaxTokens
    /\ expired \in 0..Len(token)
    /\ resetToken \in Seq(PasswordResetToken)
    /\ Len(resetToken) <= MaxResets
    /\ \A r \in Requests :
          \/ request[r] = Idle
          \/ /\ request[r].phase \in {"revoke", "issue"}
             /\ request[r].parent \in DOMAIN token \cup {NoToken}
          \/ /\ request[r].phase \in {"audit", "answered"}
             /\ request[r].new \in DOMAIN token
          \/ request[r].phase = "store"
          \/ /\ request[r].phase = "confirm"
             /\ request[r].key \in DOMAIN resetToken

\* Rotation (auth_service.py, refresh_access_token): once a token has been
\* exchanged for another it is dead, whatever requests, resets, losses between
\* the two transactions and logouts come in between; only requests that
\* checked it at the same time can exchange it again, so it is exchanged at
\* most once per thread of the server.
RotationIsFinal ==
    \A t \in DOMAIN token :
        /\ Children(t) # {} => token[t].revoked
        /\ Cardinality(Children(t)) <= Cardinality(Requests)

\* confirm_password_reset "invalidates all existing refresh tokens": a session
\* begun with an earlier password is alive only when one of its tokens was
\* inserted by a request that was under way while the reset was committed.
ResetEndsSessions ==
    \A t \in DOMAIN token :
        ~token[t].revoked /\ token[t].proof < version[token[t].owner]
            => token[t].late

\* A reset token changes the password once, or once for each thread that
\* checked it before the first of them committed: the passwords set are
\* accounted for by the reset tokens marked as used.
ResetsAreSpent ==
    \A u \in Users :
        LET spent == {k \in DOMAIN resetToken :
                        resetToken[k].owner = u /\ resetToken[k].used}
        IN  version[u] <= Cardinality(spent) * Cardinality(Requests)

=============================================================================
