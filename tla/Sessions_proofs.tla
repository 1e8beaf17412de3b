-------------------------- MODULE Sessions_proofs ---------------------------
(***************************************************************************)
(* Proofs about Sessions and ClientSession, for any number of accounts,    *)
(* threads and calls.  What a thread holds between its transactions is     *)
(* part of every invariant: a token that is being exchanged must be        *)
(* counted, a session that is being issued must be marked, and a password  *)
(* that is being set must have its reset token.  The tab's server is shown *)
(* to implement Sessions, and last comes what the tab itself stores.       *)
(***************************************************************************)
EXTENDS ClientSession, FiniteSetTheorems, TLAPS

Exchange == [phase : {"revoke", "issue"}, op : {"login", "refresh"}, user : Users,
             parent : 0..MaxTokens, proof : Nat, late : BOOLEAN]
Reply == [phase : {"audit", "answered"}, op : {"login", "refresh"}, user : Users, new : Nat]
Storing == [phase : {"store"}, op : {"reset"}, user : Users]
Confirming == [phase : {"confirm"}, op : {"confirm"}, user : Users, key : Nat]

RequestShape == Exchange \cup Reply \cup Storing \cup Confirming \cup {Idle}

\* The tables and what the threads hold.
Shape ==
    /\ account \in [Users -> {"absent", "active", "inactive"}]
    /\ version \in [Users -> Nat]
    /\ token \in Seq(RefreshToken) /\ Len(token) <= MaxTokens
    /\ expired \in 0..Len(token)
    /\ resetToken \in Seq(PasswordResetToken) /\ Len(resetToken) <= MaxResets
    /\ request \in [Requests -> RequestShape]

\* The rows the threads name exist, and so do the parents of tokens.
NamesRows ==
    /\ \A r \in Requests :
          /\ request[r].phase = "revoke" => request[r].parent \in DOMAIN token
          /\ request[r].phase = "issue" => request[r].parent \in DOMAIN token \cup {NoToken}
          /\ request[r].phase \in {"audit", "answered"} => request[r].new \in DOMAIN token
          /\ request[r].phase = "confirm" => request[r].key \in DOMAIN resetToken
    /\ \A t \in DOMAIN token : token[t].parent \in DOMAIN token \cup {NoToken}

TypeInv == Shape /\ NamesRows

LEMMA Phases ==
    ASSUME NEW q \in RequestShape
    PROVE  /\ q.phase \in {"revoke", "issue"} <=> q \in Exchange
           /\ q.phase \in {"audit", "answered"} <=> q \in Reply
           /\ q.phase = "store" <=> q \in Storing
           /\ q.phase = "confirm" <=> q \in Confirming
           /\ q.phase = "idle" <=> q = Idle
BY DEF RequestShape, Exchange, Reply, Storing, Confirming, Idle

LEMMA TokenRows ==
    ASSUME Shape
    PROVE  /\ DOMAIN token = 1..Len(token) /\ Len(token) \in Nat
           /\ \A t \in DOMAIN token : token[t] \in RefreshToken
           /\ DOMAIN resetToken = 1..Len(resetToken) /\ Len(resetToken) \in Nat
           /\ \A k \in DOMAIN resetToken : resetToken[k] \in PasswordResetToken
BY DEF Shape

\* A table of tokens of which only flags change.
LEMMA SameTokens ==
    ASSUME Shape, DOMAIN token' = DOMAIN token,
           token' = [t \in DOMAIN token |-> token'[t]],
           \A t \in DOMAIN token : token'[t] \in RefreshToken
    PROVE  token' \in Seq(RefreshToken) /\ Len(token') = Len(token)
BY TokenRows

LEMMA Revoked ==
    ASSUME NEW row \in RefreshToken, NEW b \in BOOLEAN
    PROVE  /\ [row EXCEPT !.revoked = b] \in RefreshToken
           /\ [row EXCEPT !.revoked = b].parent = row.parent
           /\ [row EXCEPT !.revoked = b].owner = row.owner
           /\ [row EXCEPT !.revoked = b].proof = row.proof
           /\ [row EXCEPT !.revoked = b].late = row.late
           /\ [row EXCEPT !.revoked = b].revoked = b
BY DEF RefreshToken

\* A thread that begins or goes on; the tables stay.
LEMMA RequestStep ==
    ASSUME TypeInv, UNCHANGED tables, NEW r \in Requests, NEW q \in RequestShape,
           request' = [request EXCEPT ![r] = q],
           /\ q.phase = "revoke" => q.parent \in DOMAIN token
           /\ q.phase = "issue" => q.parent \in DOMAIN token \cup {NoToken}
           /\ q.phase \in {"audit", "answered"} => q.new \in DOMAIN token
           /\ q.phase = "confirm" => q.key \in DOMAIN resetToken
    PROVE  TypeInv'
BY DEF TypeInv, Shape, NamesRows, tables

\* Tokens are revoked, and nothing else of them changes.
OnlyRevokes ==
    /\ DOMAIN token' = DOMAIN token
    /\ token' = [t \in DOMAIN token |-> token'[t]]
    /\ \A t \in DOMAIN token :
          /\ token'[t] \in RefreshToken
          /\ token'[t].parent = token[t].parent /\ token'[t].owner = token[t].owner
          /\ token'[t].proof = token[t].proof /\ token'[t].late = token[t].late
          /\ token[t].revoked => token'[t].revoked

LEMMA RevokeOne ==
    ASSUME Shape, NEW t \in DOMAIN token, token' = [token EXCEPT ![t].revoked = TRUE]
    PROVE  OnlyRevokes /\ token'[t].revoked
                       /\ \A s \in DOMAIN token \ {t} : token'[s] = token[s]
<1>1. token[t] \in RefreshToken /\ DOMAIN token' = DOMAIN token
  BY TokenRows
<1>2. token'[t] = [token[t] EXCEPT !.revoked = TRUE] /\ token'[t].revoked = TRUE
  BY <1>1, Revoked
<1>3. token' = [s \in DOMAIN token |-> token'[s]]
  OBVIOUS
<1>4. \A s \in DOMAIN token \ {t} : token'[s] = token[s] /\ token[s] \in RefreshToken
  BY TokenRows
<1>5. /\ token'[t] \in RefreshToken
      /\ token'[t].parent = token[t].parent /\ token'[t].owner = token[t].owner
      /\ token'[t].proof = token[t].proof /\ token'[t].late = token[t].late
  BY <1>1, <1>2, Revoked
<1>. QED  BY <1>1, <1>2, <1>3, <1>4, <1>5 DEF OnlyRevokes

LEMMA RevokeSome ==
    ASSUME Shape, NEW S,
           token' = [t \in DOMAIN token |-> [token[t] EXCEPT !.revoked = @ \/ t \in S]]
    PROVE  OnlyRevokes /\ \A t \in S \cap DOMAIN token : token'[t].revoked
<1>1. \A t \in DOMAIN token : token[t].revoked \in BOOLEAN /\ token[t] \in RefreshToken
  BY TokenRows DEF RefreshToken
<1>2. \A t \in DOMAIN token : token'[t] = [token[t] EXCEPT !.revoked = token[t].revoked \/ t \in S]
  OBVIOUS
<1>3. ASSUME NEW t \in DOMAIN token
      PROVE  /\ token'[t] \in RefreshToken
             /\ token'[t].parent = token[t].parent /\ token'[t].owner = token[t].owner
             /\ token'[t].proof = token[t].proof /\ token'[t].late = token[t].late
             /\ token'[t].revoked = (token[t].revoked \/ t \in S)
  <2>. DEFINE b == token[t].revoked \/ t \in S
  <2>1. b \in BOOLEAN
    BY <1>1
  <2>2. token'[t] = [token[t] EXCEPT !.revoked = b]
    BY <1>2
  <2>. HIDE DEF b
  <2>3. /\ token'[t] \in RefreshToken
        /\ token'[t].parent = token[t].parent /\ token'[t].owner = token[t].owner
        /\ token'[t].proof = token[t].proof /\ token'[t].late = token[t].late
        /\ token'[t].revoked = b
    <3>1. /\ [token[t] EXCEPT !.revoked = b] \in RefreshToken
          /\ [token[t] EXCEPT !.revoked = b].parent = token[t].parent
          /\ [token[t] EXCEPT !.revoked = b].owner = token[t].owner
          /\ [token[t] EXCEPT !.revoked = b].proof = token[t].proof
          /\ [token[t] EXCEPT !.revoked = b].late = token[t].late
          /\ [token[t] EXCEPT !.revoked = b].revoked = b
      BY <1>1, <2>1, Revoked, Zenon
    <3>. QED  BY <3>1, <2>2, Zenon
  <2>. QED  BY <2>3 DEF b
<1>4. DOMAIN token' = DOMAIN token /\ token' = [t \in DOMAIN token |-> token'[t]]
  OBVIOUS
<1>. QED  BY <1>3, <1>4 DEF OnlyRevokes

LEMMA NewToken ==
    ASSUME TypeInv, NEW row \in RefreshToken, Len(token) < MaxTokens,
           token' = Append(token, row)
    PROVE  /\ token' \in Seq(RefreshToken) /\ Len(token') = Len(token) + 1
           /\ DOMAIN token' = DOMAIN token \cup {Len(token) + 1}
           /\ Len(token) + 1 \notin DOMAIN token
           /\ token'[Len(token) + 1] = row
           /\ \A t \in DOMAIN token : token'[t] = token[t]
BY TokenRows DEF TypeInv, Shape

-----------------------------------------------------------------------------
LEMMA BeginType ==
    ASSUME TypeInv, NEW r \in Requests,
           \/ \E u \in Users : BeginLogin(r, u) \/ BeginResetRequest(r, u)
           \/ \E t \in DOMAIN token : BeginRefresh(r, t)
           \/ \E k \in DOMAIN resetToken : BeginConfirm(r, k)
    PROVE  TypeInv'
<1>1. ASSUME NEW u \in Users, BeginLogin(r, u)
      PROVE  TypeInv'
  <2>. DEFINE q == [phase |-> "issue", op |-> "login", user |-> u, parent |-> NoToken,
                    proof |-> version[u], late |-> FALSE]
  <2>1. version[u] \in Nat /\ NoToken \in 0..MaxTokens
    BY SessionAssumption DEF TypeInv, Shape, NoToken
  <2>2. q \in Exchange
    BY <2>1 DEF Exchange
  <2>. QED  BY <1>1, <2>2, RequestStep DEF BeginLogin, RequestShape
<1>2. ASSUME NEW u \in Users, BeginResetRequest(r, u)
      PROVE  TypeInv'
  <2>1. [phase |-> "store", op |-> "reset", user |-> u] \in Storing
    BY DEF Storing
  <2>. QED  BY <1>2, <2>1, RequestStep DEF BeginResetRequest, RequestShape
<1>3. ASSUME NEW t \in DOMAIN token, BeginRefresh(r, t)
      PROVE  TypeInv'
  <2>. DEFINE q == [phase |-> "revoke", op |-> "refresh", user |-> token[t].owner,
                    parent |-> t, proof |-> token[t].proof, late |-> token[t].late]
  <2>1. token[t] \in RefreshToken /\ t \in 0..MaxTokens
    BY TokenRows, SessionAssumption DEF TypeInv, Shape
  <2>2. q \in Exchange
    BY <2>1 DEF Exchange, RefreshToken
  <2>. QED  BY <1>3, <2>2, RequestStep DEF BeginRefresh, RequestShape
<1>4. ASSUME NEW k \in DOMAIN resetToken, BeginConfirm(r, k)
      PROVE  TypeInv'
  <2>. DEFINE q == [phase |-> "confirm", op |-> "confirm",
                    user |-> resetToken[k].owner, key |-> k]
  <2>1. resetToken[k] \in PasswordResetToken /\ k \in Nat
    BY TokenRows DEF TypeInv
  <2>2. q \in Confirming
    BY <2>1 DEF Confirming, PasswordResetToken
  <2>. QED  BY <1>4, <2>2, RequestStep DEF BeginConfirm, RequestShape
<1>. QED  BY <1>1, <1>2, <1>3, <1>4

LEMMA EndType ==
    ASSUME TypeInv, NEW r \in Requests, Answer(r) \/ Lose(r) \/ AuditLogin(r)
    PROVE  TypeInv'
<1>1. CASE Answer(r) \/ Lose(r)
  BY <1>1, RequestStep DEF Answer, Lose, RequestShape, Idle
<1>2. CASE AuditLogin(r)
  <2>1. request[r] \in Reply
    BY <1>2, Phases DEF AuditLogin, TypeInv, Shape
  <2>2. [request[r] EXCEPT !.phase = "answered"] \in Reply
    BY <2>1 DEF Reply
  <2>3. request[r].new \in DOMAIN token
    BY <1>2 DEF AuditLogin, TypeInv, NamesRows
  <2>4. [request[r] EXCEPT !.phase = "answered"].new = request[r].new
        /\ [request[r] EXCEPT !.phase = "answered"].phase = "answered"
    BY <2>1 DEF Reply
  <2>5. request' = [request EXCEPT ![r] = [request[r] EXCEPT !.phase = "answered"]]
        /\ UNCHANGED tables
    BY <1>2 DEF AuditLogin
  <2>. QED  BY <2>2, <2>3, <2>4, <2>5, RequestStep DEF RequestShape
<1>. QED  BY <1>1, <1>2

LEMMA RevokeOldType ==
    ASSUME TypeInv, NEW r \in Requests, RevokeOld(r)
    PROVE  /\ TypeInv' /\ OnlyRevokes
           /\ request[r] \in Exchange /\ request[r].parent \in DOMAIN token
           /\ token'[request[r].parent].revoked
           /\ \A s \in DOMAIN token \ {request[r].parent} : token'[s] = token[s]
           /\ request' = [request EXCEPT ![r] = [request[r] EXCEPT !.phase = "issue"]]
           /\ [request[r] EXCEPT !.phase = "issue"] \in Exchange
<1>1. request[r] \in Exchange /\ request[r].parent \in DOMAIN token
  BY Phases DEF RevokeOld, TypeInv, Shape, NamesRows
<1>2. /\ OnlyRevokes /\ token'[request[r].parent].revoked
      /\ \A s \in DOMAIN token \ {request[r].parent} : token'[s] = token[s]
  BY <1>1, RevokeOne DEF RevokeOld, TypeInv
<1>. DEFINE q == [request[r] EXCEPT !.phase = "issue"]
<1>3. q \in Exchange /\ q.phase = "issue" /\ q.parent = request[r].parent
  BY <1>1 DEF Exchange
<1>4. request' = [request EXCEPT ![r] = q]
  BY DEF RevokeOld
<1>5. Shape'
  <2>1. token' \in Seq(RefreshToken) /\ Len(token') = Len(token)
    BY <1>2, SameTokens DEF OnlyRevokes, TypeInv
  <2>2. request' \in [Requests -> RequestShape]
    BY <1>3, <1>4 DEF TypeInv, Shape, RequestShape
  <2>. QED
    BY <2>1, <2>2 DEF RevokeOld, TypeInv, Shape
<1>6. NamesRows'
  BY <1>1, <1>2, <1>3, <1>4 DEF RevokeOld, OnlyRevokes, TypeInv, Shape, NamesRows
<1>. QED  BY <1>1, <1>2, <1>3, <1>4, <1>5, <1>6 DEF TypeInv

LEMMA LogoutType ==
    ASSUME TypeInv, NEW t \in DOMAIN token, Logout(t)
    PROVE  /\ TypeInv' /\ OnlyRevokes /\ token'[t].revoked
           /\ \A s \in DOMAIN token \ {t} : token'[s] = token[s]
<1>1. /\ OnlyRevokes /\ token'[t].revoked
      /\ \A s \in DOMAIN token \ {t} : token'[s] = token[s]
  BY RevokeOne DEF Logout, TypeInv
<1>2. Shape'
  BY <1>1, SameTokens DEF Logout, OnlyRevokes, TypeInv, Shape
<1>3. NamesRows'
  BY <1>1 DEF Logout, OnlyRevokes, TypeInv, NamesRows
<1>. QED  BY <1>1, <1>2, <1>3 DEF TypeInv

LEMMA IssueType ==
    ASSUME TypeInv, NEW r \in Requests, IssueTokens(r)
    PROVE  /\ TypeInv'
           /\ request[r] \in Exchange
           /\ request[r].parent \in DOMAIN token \cup {NoToken}
           /\ DOMAIN token' = DOMAIN token \cup {Len(token) + 1}
           /\ Len(token) + 1 \notin DOMAIN token
           /\ \A t \in DOMAIN token : token'[t] = token[t]
           /\ token'[Len(token) + 1] =
                 [owner |-> request[r].user, parent |-> request[r].parent, revoked |-> FALSE,
                  proof |-> request[r].proof, late |-> request[r].late]
           /\ request'[r] \in Reply /\ \A q \in Requests \ {r} : request'[q] = request[q]
<1>1. request[r] \in Exchange /\ request[r].parent \in DOMAIN token \cup {NoToken}
  BY Phases DEF IssueTokens, TypeInv, Shape, NamesRows
<1>. DEFINE row == [owner |-> request[r].user, parent |-> request[r].parent, revoked |-> FALSE,
                    proof |-> request[r].proof, late |-> request[r].late]
            q == [phase |-> IF request[r].op = "login" THEN "audit" ELSE "answered",
                  op |-> request[r].op, user |-> request[r].user, new |-> Len(token) + 1]
<1>2. row \in RefreshToken
  BY <1>1 DEF Exchange, RefreshToken
<1>3. token' = Append(token, row) /\ request' = [request EXCEPT ![r] = q] /\ Len(token) < MaxTokens
  BY DEF IssueTokens
<1>4. /\ token' \in Seq(RefreshToken) /\ Len(token') = Len(token) + 1
      /\ DOMAIN token' = DOMAIN token \cup {Len(token) + 1}
      /\ Len(token) + 1 \notin DOMAIN token
      /\ token'[Len(token) + 1] = row
      /\ \A t \in DOMAIN token : token'[t] = token[t]
  BY <1>2, <1>3, NewToken
<1>5. Len(token) \in Nat
  BY TokenRows DEF TypeInv
<1>6. q \in Reply
  BY <1>1, <1>5 DEF Exchange, Reply
<1>7. Shape'
  BY <1>3, <1>4, <1>5, <1>6, SessionAssumption
  DEF IssueTokens, TypeInv, Shape, RequestShape
<1>8. request'[r] = q /\ \A p \in Requests \ {r} : request'[p] = request[p]
  BY <1>3 DEF TypeInv, Shape
<1>9. NamesRows'
  <2>1. \A t \in DOMAIN token' : token'[t].parent \in DOMAIN token' \cup {NoToken}
    BY <1>1, <1>4 DEF TypeInv, NamesRows
  <2>2. UNCHANGED resetToken
    BY DEF IssueTokens
  <2>3. q.phase \in {"audit", "answered"} /\ q.new = Len(token) + 1
    OBVIOUS
  <2>. QED  BY <1>4, <1>8, <2>1, <2>2, <2>3 DEF TypeInv, NamesRows
<1>. QED  BY <1>1, <1>4, <1>6, <1>7, <1>8, <1>9 DEF TypeInv

LEMMA StoreType ==
    ASSUME TypeInv, NEW r \in Requests, StoreResetToken(r)
    PROVE  TypeInv'
<1>1. request[r] \in Storing
  BY Phases DEF StoreResetToken, TypeInv, Shape
<1>. DEFINE row == [owner |-> request[r].user, used |-> FALSE, expired |-> FALSE]
<1>2. row \in PasswordResetToken
  BY <1>1 DEF Storing, PasswordResetToken
<1>3. resetToken' = Append(resetToken, row) /\ Len(resetToken) < MaxResets
  BY DEF StoreResetToken
<1>4. /\ resetToken' \in Seq(PasswordResetToken) /\ Len(resetToken') = Len(resetToken) + 1
      /\ DOMAIN resetToken \subseteq DOMAIN resetToken'
  BY <1>2, <1>3, TokenRows DEF TypeInv, Shape
<1>5. Shape'
  BY <1>3, <1>4, TokenRows, SessionAssumption DEF StoreResetToken, TypeInv, Shape, RequestShape
<1>6. NamesRows'
  BY <1>4 DEF StoreResetToken, TypeInv, Shape, NamesRows, Idle
<1>. QED  BY <1>5, <1>6 DEF TypeInv

LEMMA AdministrationType ==
    ASSUME TypeInv, Administration
    PROVE  TypeInv'
<1>1. ASSUME NEW u \in Users, Register(u) \/ SetActive(u)
      PROVE  TypeInv'
  BY <1>1 DEF Register, SetActive, TypeInv, Shape, NamesRows
<1>2. CASE ExpireToken
  BY <1>2, TokenRows DEF ExpireToken, TypeInv, Shape, NamesRows
<1>3. ASSUME NEW k \in DOMAIN resetToken, ExpireResetToken(k)
      PROVE  TypeInv'
  <2>1. [resetToken[k] EXCEPT !.expired = TRUE] \in PasswordResetToken
    BY TokenRows DEF TypeInv, PasswordResetToken
  <2>2. resetToken' = [resetToken EXCEPT ![k] = [resetToken[k] EXCEPT !.expired = TRUE]]
    BY <1>3 DEF ExpireResetToken
  <2>3. resetToken' \in Seq(PasswordResetToken) /\ Len(resetToken') = Len(resetToken)
        /\ DOMAIN resetToken' = DOMAIN resetToken
    BY <2>1, <2>2 DEF TypeInv, Shape
  <2>. QED  BY <1>3, <2>3 DEF ExpireResetToken, TypeInv, Shape, NamesRows
<1>. QED  BY <1>1, <1>2, <1>3 DEF Administration

LEMMA MarkedLate ==
    ASSUME NEW q \in Exchange
    PROVE  /\ [q EXCEPT !.late = TRUE] \in Exchange
           /\ [q EXCEPT !.late = TRUE].phase = q.phase
           /\ [q EXCEPT !.late = TRUE].user = q.user
           /\ [q EXCEPT !.late = TRUE].parent = q.parent
           /\ [q EXCEPT !.late = TRUE].proof = q.proof
           /\ [q EXCEPT !.late = TRUE].late = TRUE
BY DEF Exchange

\* A reset ends its thread, marks the exchanges of its user, and leaves the
\* other threads alone.
LEMMA ConfirmType ==
    ASSUME TypeInv, NEW r \in Requests, ConfirmReset(r)
    PROVE  /\ TypeInv' /\ OnlyRevokes
           /\ request[r] \in Confirming /\ request'[r] = Idle
           /\ \A t \in DOMAIN token : token[t].owner = request[r].user => token'[t].revoked
           /\ version' = [version EXCEPT ![request[r].user] = @ + 1]
           /\ \A q \in Requests \ {r} :
                 /\ request[q] \notin Exchange => request'[q] = request[q]
                 /\ request[q] \in Exchange =>
                       /\ request'[q] \in Exchange
                       /\ request'[q].phase = request[q].phase
                       /\ request'[q].user = request[q].user
                       /\ request'[q].parent = request[q].parent
                       /\ request'[q].proof = request[q].proof
                       /\ request[q].user = request[r].user => request'[q].late
                       /\ request[q].late => request'[q].late
<1>. DEFINE u == request[r].user
            k == request[r].key
<1>1. request[r] \in Confirming /\ k \in DOMAIN resetToken
  BY Phases DEF ConfirmReset, TypeInv, Shape, NamesRows
<1>2. u \in Users
  BY <1>1 DEF Confirming
<1>3. OnlyRevokes /\ \A t \in TokensOf(u) \cap DOMAIN token : token'[t].revoked
  BY RevokeSome DEF ConfirmReset, TypeInv
<1>4. \A t \in DOMAIN token : token[t].owner = u => token'[t].revoked
  BY <1>3 DEF TokensOf
<1>5. /\ version' = [version EXCEPT ![u] = @ + 1] /\ version' \in [Users -> Nat]
      /\ UNCHANGED <<expired, account>>
  BY <1>2 DEF ConfirmReset, TypeInv, Shape
<1>6. /\ resetToken' \in Seq(PasswordResetToken)
      /\ Len(resetToken') = Len(resetToken) /\ DOMAIN resetToken' = DOMAIN resetToken
  <2>1. [resetToken[k] EXCEPT !.used = TRUE] \in PasswordResetToken
    BY <1>1, TokenRows DEF TypeInv, PasswordResetToken
  <2>. DEFINE row == [resetToken[k] EXCEPT !.used = TRUE]
  <2>2. resetToken' = [resetToken EXCEPT ![k] = row]
    BY DEF ConfirmReset, Spent
  <2>3. resetToken \in Seq(PasswordResetToken) /\ row \in PasswordResetToken
    BY <2>1 DEF TypeInv, Shape
  <2>. HIDE DEF row
  <2>. QED  BY <1>1, <2>2, <2>3
<1>7. InFlight(u) = {q \in Requests : request[q] \in Exchange /\ request[q].user = u}
  BY Phases DEF InFlight, TypeInv, Shape
<1>. DEFINE After(q) == CASE q = r -> Idle
                         [] q \in InFlight(u) -> [request[q] EXCEPT !.late = TRUE]
                         [] OTHER -> request[q]
<1>0. request' = [q \in Requests |-> After(q)]
  BY Zenon DEF ConfirmReset
<1>8. DOMAIN request' = Requests /\ request'[r] = Idle
      /\ request' = [q \in Requests |-> request'[q]]
  <2>1. r \notin InFlight(u)
    BY <1>1, <1>7 DEF Confirming, Exchange
  <2>2. After(r) = Idle
    BY <2>1
  <2>. HIDE DEF Next
  <2>. QED  BY <1>0, <2>2
<1>9. ASSUME NEW q \in Requests, q # r, q \in InFlight(u)
      PROVE  request'[q] = [request[q] EXCEPT !.late = TRUE]
  BY <1>0, <1>9
<1>10. ASSUME NEW q \in Requests, q # r, q \notin InFlight(u)
       PROVE  request'[q] = request[q]
  BY <1>0, <1>10
<1>11. ASSUME NEW q \in Requests \ {r}
       PROVE  /\ request[q] \notin Exchange => request'[q] = request[q]
              /\ request[q] \in Exchange =>
                    /\ request'[q] \in Exchange
                    /\ request'[q].phase = request[q].phase
                    /\ request'[q].user = request[q].user
                    /\ request'[q].parent = request[q].parent
                    /\ request'[q].proof = request[q].proof
                    /\ request[q].user = u => request'[q].late
                    /\ request[q].late => request'[q].late
  <2>1. CASE q \in InFlight(u)
    BY <1>7, <1>9, <2>1, MarkedLate
  <2>2. CASE q \notin InFlight(u)
    BY <1>7, <1>10, <2>2
  <2>. QED  BY <2>1, <2>2
<1>12. request' \in [Requests -> RequestShape]
  <2>1. \A q \in Requests : request'[q] \in RequestShape
    BY <1>8, <1>11 DEF RequestShape, TypeInv, Shape
  <2>. QED  BY <1>8, <2>1
<1>13. Shape'
  BY <1>3, <1>5, <1>6, <1>12, SameTokens DEF OnlyRevokes, TypeInv, Shape
<1>14. NamesRows'
  <2>1. \A t \in DOMAIN token' : token'[t].parent \in DOMAIN token' \cup {NoToken}
    BY <1>3 DEF OnlyRevokes, TypeInv, NamesRows
  <2>2. ASSUME NEW q \in Requests
        PROVE  /\ request'[q].phase = "revoke" => request'[q].parent \in DOMAIN token'
               /\ request'[q].phase = "issue" => request'[q].parent \in DOMAIN token' \cup {NoToken}
               /\ request'[q].phase \in {"audit", "answered"} => request'[q].new \in DOMAIN token'
               /\ request'[q].phase = "confirm" => request'[q].key \in DOMAIN resetToken'
    <3>1. CASE q = r
      BY <1>8, <3>1 DEF Idle
    <3>2. CASE q # r /\ request[q] \in Exchange
      <4>1. request'[q] \in Exchange /\ request'[q].phase = request[q].phase
            /\ request'[q].parent = request[q].parent
        BY <1>11, <3>2
      <4>2. request'[q].phase \in {"revoke", "issue"}
        BY <4>1 DEF Exchange
      <4>. QED  BY <1>3, <4>1, <4>2 DEF OnlyRevokes, TypeInv, NamesRows
    <3>3. CASE q # r /\ request[q] \notin Exchange
      BY <1>3, <1>6, <1>11, <3>3 DEF OnlyRevokes, TypeInv, NamesRows
    <3>. QED  BY <3>1, <3>2, <3>3
  <2>. QED  BY <2>1, <2>2 DEF NamesRows
<1>. QED  BY <1>1, <1>3, <1>4, <1>5, <1>8, <1>11, <1>13, <1>14 DEF TypeInv

LEMMA TypeStep == TypeInv /\ [Next]_sessionVars => TypeInv'
<1>. SUFFICES ASSUME TypeInv, [Next]_sessionVars PROVE TypeInv'
  OBVIOUS
<1>1. CASE Administration
  BY <1>1, AdministrationType
<1>2. ASSUME NEW r \in Requests,
             \/ \E u \in Users : BeginLogin(r, u) \/ BeginResetRequest(r, u)
             \/ \E t \in DOMAIN token : BeginRefresh(r, t)
             \/ \E k \in DOMAIN resetToken : BeginConfirm(r, k)
      PROVE  TypeInv'
  BY <1>2, BeginType
<1>3. ASSUME NEW r \in Requests, ServerStep(r)
      PROVE  TypeInv'
  BY <1>3, RevokeOldType, IssueType, EndType, StoreType, ConfirmType DEF ServerStep
<1>4. ASSUME NEW r \in Requests, Answer(r) \/ Lose(r)
      PROVE  TypeInv'
  BY <1>4, EndType
<1>5. ASSUME NEW t \in DOMAIN token, Logout(t)
      PROVE  TypeInv'
  BY <1>5, LogoutType
<1>6. CASE UNCHANGED sessionVars
  BY <1>6 DEF sessionVars, tables, TypeInv, Shape, NamesRows
<1>. QED  BY <1>1, <1>2, <1>3, <1>4, <1>5, <1>6 DEF Next

LEMMA TypeInit == Init => TypeInv
<1>. SUFFICES ASSUME Init PROVE TypeInv
  OBVIOUS
<1>1. Shape
  BY SessionAssumption DEF Init, Shape, RequestShape
<1>2. NamesRows
  BY DEF Init, NamesRows, Idle
<1>. QED  BY <1>1, <1>2 DEF TypeInv

LEMMA TypeAlways == Spec => []TypeInv
BY TypeInit, TypeStep, PTL DEF Spec

-----------------------------------------------------------------------------
(* Rotation.  The threads on their way to exchange a token are counted     *)
(* with the tokens it was exchanged for: there is at most one thread for   *)
(* each, and none can join once the token is revoked.                      *)

Pending(t) == {r \in Requests : request[r] \in Exchange /\ request[r].parent = t}

RevokedBeforeIssue ==
    \A r \in Requests : request[r].phase = "issue" /\ request[r].parent # NoToken
                            => token[request[r].parent].revoked

RotationInv ==
    /\ RevokedBeforeIssue
    /\ \A t \in DOMAIN token :
          /\ ~token[t].revoked => Children(t) = {}
          /\ Cardinality(Children(t)) + Cardinality(Pending(t)) <= Cardinality(Requests)

LEMMA Counted ==
    ASSUME Shape, NEW t
    PROVE  /\ IsFiniteSet(Children(t)) /\ IsFiniteSet(Pending(t))
           /\ Cardinality(Children(t)) \in Nat /\ Cardinality(Pending(t)) \in Nat
           /\ Cardinality(Requests) \in Nat
           /\ Cardinality(Pending(t)) <= Cardinality(Requests)
<1>1. IsFiniteSet(DOMAIN token)
  BY TokenRows, FS_Interval
<1>2. IsFiniteSet(Children(t))
  BY <1>1, FS_Subset, Zenon DEF Children
<1>3. IsFiniteSet(Pending(t)) /\ Cardinality(Pending(t)) <= Cardinality(Requests)
  <2>1. Pending(t) \subseteq Requests
    BY DEF Pending
  <2>. QED  BY <2>1, FS_Subset, SessionAssumption DEF SessionAssumption
<1>. QED  BY <1>2, <1>3, FS_CardinalityType, SessionAssumption

LEMMA RotationKept ==
    ASSUME TypeInv, TypeInv', RotationInv, RevokedBeforeIssue',
           DOMAIN token' = DOMAIN token,
           \A t \in DOMAIN token : /\ token'[t].parent = token[t].parent
                                   /\ token[t].revoked => token'[t].revoked,
           \A t \in DOMAIN token : ~token[t].revoked \/ Pending(t)' \subseteq Pending(t)
    PROVE  RotationInv'
<1>. SUFFICES ASSUME NEW t \in DOMAIN token
              PROVE  /\ ~token'[t].revoked => Children(t)' = {}
                     /\ Cardinality(Children(t)') + Cardinality(Pending(t)')
                           <= Cardinality(Requests)
  BY DEF RotationInv
<1>1. Children(t)' = Children(t)
  BY DEF Children
<1>2. ~token'[t].revoked => Children(t) = {}
  BY DEF RotationInv
<1>3. CASE Pending(t)' \subseteq Pending(t)
  <2>1. Cardinality(Pending(t)') <= Cardinality(Pending(t))
    BY <1>3, Counted, FS_Subset DEF TypeInv
  <2>2. Cardinality(Children(t)) + Cardinality(Pending(t)) <= Cardinality(Requests)
    BY DEF RotationInv
  <2>3. Cardinality(Pending(t)') \in Nat
    <3>1. Shape'
      BY DEF TypeInv
    <3>2. IsFiniteSet(Pending(t)')
      BY <1>3, Counted, FS_Subset DEF TypeInv
    <3>. QED  BY <3>2, FS_CardinalityType
  <2>. QED  BY <1>1, <1>2, <2>1, <2>2, <2>3, Counted DEF TypeInv
<1>4. CASE ~token[t].revoked
  <2>1. Children(t) = {}
    BY <1>4 DEF RotationInv
  <2>2. Pending(t)' \subseteq Requests
    BY DEF Pending
  <2>3. Cardinality(Pending(t)') <= Cardinality(Requests) /\ Cardinality(Pending(t)') \in Nat
    BY <2>2, FS_Subset, FS_CardinalityType, SessionAssumption
  <2>4. Cardinality(Children(t)) = 0
    BY <2>1, FS_EmptySet
  <2>. QED  BY <1>1, <2>1, <2>3, <2>4, Counted DEF TypeInv
<1>. QED  BY <1>3, <1>4

\* A thread that leaves its exchange, or never was in one.
LEMMA RotationLeft ==
    ASSUME TypeInv, TypeInv', RotationInv, UNCHANGED token, NEW r \in Requests,
           \A p \in Requests \ {r} : request'[p] = request[p],
           request'[r] \notin Exchange
    PROVE  RotationInv'
<1>1. request'[r].phase # "issue"
  BY Phases DEF TypeInv, Shape, Exchange
<1>2. RevokedBeforeIssue'
  BY <1>1 DEF RotationInv, RevokedBeforeIssue
<1>3. \A t \in DOMAIN token : Pending(t)' \subseteq Pending(t)
  BY DEF Pending
<1>. QED  BY <1>2, <1>3, RotationKept

LEMMA RotationBegin ==
    ASSUME TypeInv, TypeInv', RotationInv, NEW r \in Requests,
           \/ \E u \in Users : BeginLogin(r, u) \/ BeginResetRequest(r, u)
           \/ \E t \in DOMAIN token : BeginRefresh(r, t)
           \/ \E k \in DOMAIN resetToken : BeginConfirm(r, k)
    PROVE  RotationInv'
<1>1. ASSUME NEW u \in Users, BeginLogin(r, u)
      PROVE  RotationInv'
  <2>1. /\ request'[r].parent = NoToken /\ request'[r].phase = "issue"
        /\ \A p \in Requests \ {r} : request'[p] = request[p] /\ UNCHANGED token
    BY <1>1 DEF BeginLogin, tables, TypeInv, Shape
  <2>2. UNCHANGED token
    BY <1>1 DEF BeginLogin, tables
  <2>3. RevokedBeforeIssue'
    BY <2>1, <2>2 DEF RotationInv, RevokedBeforeIssue
  <2>4. \A t \in DOMAIN token : t # NoToken
    BY TokenRows DEF NoToken, TypeInv
  <2>5. \A t \in DOMAIN token : Pending(t)' \subseteq Pending(t)
    BY <2>1, <2>4 DEF Pending
  <2>. QED  BY <2>2, <2>3, <2>5, RotationKept
<1>2. ASSUME NEW u \in Users, BeginResetRequest(r, u)
      PROVE  RotationInv'
  BY <1>2, RotationLeft DEF BeginResetRequest, tables, TypeInv, Shape, Exchange
<1>3. ASSUME NEW s \in DOMAIN token, BeginRefresh(r, s)
      PROVE  RotationInv'
  <2>1. /\ request'[r].parent = s /\ request'[r].phase = "revoke"
        /\ \A p \in Requests \ {r} : request'[p] = request[p]
    BY <1>3 DEF BeginRefresh, TypeInv, Shape
  <2>2. UNCHANGED token /\ ~token[s].revoked
    BY <1>3 DEF BeginRefresh, tables, Live, Usable
  <2>3. RevokedBeforeIssue'
    BY <2>1, <2>2 DEF RotationInv, RevokedBeforeIssue
  <2>4. \A t \in DOMAIN token : ~token[t].revoked \/ Pending(t)' \subseteq Pending(t)
    BY <2>1, <2>2 DEF Pending
  <2>. QED  BY <2>2, <2>3, <2>4, RotationKept
<1>4. ASSUME NEW k \in DOMAIN resetToken, BeginConfirm(r, k)
      PROVE  RotationInv'
  BY <1>4, RotationLeft DEF BeginConfirm, tables, TypeInv, Shape, Exchange
<1>. QED  BY <1>1, <1>2, <1>3, <1>4

LEMMA RotationEnd ==
    ASSUME TypeInv, TypeInv', RotationInv, NEW r \in Requests,
           Answer(r) \/ Lose(r) \/ AuditLogin(r) \/ StoreResetToken(r)
    PROVE  RotationInv'
<1>1. CASE Answer(r) \/ Lose(r) \/ StoreResetToken(r)
  <2>1. Idle \notin Exchange
    BY DEF Idle, Exchange
  <2>2. request' = [request EXCEPT ![r] = Idle] /\ UNCHANGED token
    BY <1>1 DEF Answer, Lose, StoreResetToken, tables
  <2>3. request'[r] = Idle /\ \A p \in Requests \ {r} : request'[p] = request[p]
    BY <2>2 DEF TypeInv, Shape
  <2>. QED  BY <2>1, <2>2, <2>3, RotationLeft
<1>2. CASE AuditLogin(r)
  <2>1. request[r] \in Reply
    BY <1>2, Phases DEF AuditLogin, TypeInv, Shape
  <2>2. [request[r] EXCEPT !.phase = "answered"].phase = "answered"
    BY <2>1 DEF Reply
  <2>3. request' = [request EXCEPT ![r] = [request[r] EXCEPT !.phase = "answered"]]
        /\ UNCHANGED token
    BY <1>2 DEF AuditLogin, tables
  <2>4. request'[r].phase = "answered" /\ \A p \in Requests \ {r} : request'[p] = request[p]
    BY <2>2, <2>3 DEF TypeInv, Shape
  <2>. QED  BY <2>3, <2>4, RotationLeft DEF Exchange
<1>. QED  BY <1>1, <1>2

LEMMA RotationRevokeOld ==
    ASSUME TypeInv, RotationInv, NEW r \in Requests, RevokeOld(r)
    PROVE  RotationInv'
<1>. DEFINE q == [request[r] EXCEPT !.phase = "issue"]
<1>1. /\ TypeInv' /\ OnlyRevokes
      /\ request[r] \in Exchange /\ request[r].parent \in DOMAIN token
      /\ token'[request[r].parent].revoked
      /\ request' = [request EXCEPT ![r] = q]
  BY RevokeOldType
<1>2. q.parent = request[r].parent
  BY <1>1 DEF Exchange
<1>3. /\ request'[r] = q
      /\ \A p \in Requests \ {r} : request'[p] = request[p]
  BY <1>1 DEF TypeInv, Shape
<1>. HIDE DEF q
<1>4. RevokedBeforeIssue'
  <2>. SUFFICES ASSUME NEW p \in Requests, request'[p].phase = "issue",
                       request'[p].parent # NoToken
                PROVE  token'[request'[p].parent].revoked
    BY DEF RevokedBeforeIssue
  <2>1. CASE p = r
    BY <1>1, <1>2, <1>3, <2>1
  <2>2. CASE p # r
    <3>1. request[p].parent \in DOMAIN token /\ token[request[p].parent].revoked
      BY <1>3, <2>2 DEF RotationInv, RevokedBeforeIssue, TypeInv, NamesRows
    <3>. QED  BY <1>1, <1>3, <2>2, <3>1 DEF OnlyRevokes
  <2>. QED  BY <2>1, <2>2
<1>5. \A t \in DOMAIN token : Pending(t)' \subseteq Pending(t)
  BY <1>1, <1>2, <1>3 DEF Pending
<1>. QED  BY <1>1, <1>4, <1>5, RotationKept DEF OnlyRevokes

LEMMA RotationLogout ==
    ASSUME TypeInv, RotationInv, NEW t \in DOMAIN token, Logout(t)
    PROVE  RotationInv'
<1>1. TypeInv' /\ OnlyRevokes
  BY LogoutType
<1>2. UNCHANGED request
  BY DEF Logout
<1>3. RevokedBeforeIssue'
  BY <1>1, <1>2 DEF OnlyRevokes, RotationInv, RevokedBeforeIssue, TypeInv, NamesRows
<1>4. \A s \in DOMAIN token : Pending(s)' \subseteq Pending(s)
  BY <1>2 DEF Pending
<1>. QED  BY <1>1, <1>3, <1>4, RotationKept DEF OnlyRevokes

LEMMA RotationConfirm ==
    ASSUME TypeInv, RotationInv, NEW r \in Requests, ConfirmReset(r)
    PROVE  RotationInv'
<1>1. TypeInv' /\ OnlyRevokes /\ request'[r] = Idle
  BY ConfirmType
<1>2. ASSUME NEW p \in Requests \ {r}
      PROVE  /\ request[p] \notin Exchange => request'[p] = request[p]
             /\ request[p] \in Exchange => /\ request'[p].phase = request[p].phase
                                           /\ request'[p].parent = request[p].parent
  BY ConfirmType
<1>3. RevokedBeforeIssue'
  <2>. SUFFICES ASSUME NEW p \in Requests, request'[p].phase = "issue",
                       request'[p].parent # NoToken
                PROVE  token'[request'[p].parent].revoked
    BY DEF RevokedBeforeIssue
  <2>1. p # r
    BY <1>1 DEF Idle
  <2>2. request[p].phase = "issue" /\ request[p].parent = request'[p].parent
    BY <1>2, <2>1, Phases DEF TypeInv, Shape
  <2>3. request[p].parent \in DOMAIN token /\ token[request[p].parent].revoked
    BY <2>2 DEF RotationInv, RevokedBeforeIssue, TypeInv, NamesRows
  <2>. QED  BY <1>1, <2>2, <2>3 DEF OnlyRevokes
<1>4. ASSUME NEW t \in DOMAIN token
      PROVE  Pending(t)' \subseteq Pending(t)
  <2>1. Idle \notin Exchange
    BY DEF Idle, Exchange
  <2>. QED  BY <1>1, <1>2, <2>1 DEF Pending
<1>. QED  BY <1>1, <1>3, <1>4, RotationKept DEF OnlyRevokes

\* The new token takes the place its thread held.
LEMMA RotationIssue ==
    ASSUME TypeInv, RotationInv, NEW r \in Requests, IssueTokens(r)
    PROVE  RotationInv'
<1>1. PICK n, s : n = Len(token) + 1 /\ s = request[r].parent
  OBVIOUS
<1>2. /\ TypeInv'
      /\ request[r] \in Exchange /\ s \in DOMAIN token \cup {NoToken}
      /\ DOMAIN token' = DOMAIN token \cup {n} /\ n \notin DOMAIN token
      /\ \A t \in DOMAIN token : token'[t] = token[t]
      /\ token'[n].parent = s /\ ~token'[n].revoked
      /\ request'[r] \in Reply /\ \A p \in Requests \ {r} : request'[p] = request[p]
  <2>1. token'[n] = [owner |-> request[r].user, parent |-> request[r].parent, revoked |-> FALSE,
                     proof |-> request[r].proof, late |-> request[r].late]
    BY <1>1, IssueType
  <2>2. token'[n].parent = s /\ ~token'[n].revoked
    BY <1>1, <2>1
  <2>. QED  BY <1>1, <2>2, IssueType
<1>3. n # NoToken /\ \A t \in DOMAIN token : t # NoToken
  BY <1>1, TokenRows DEF TypeInv, NoToken
<1>4. request'[r] \notin Exchange /\ request'[r].phase # "issue" /\ request[r].phase = "issue"
  BY <1>2 DEF Reply, Exchange, IssueTokens
<1>5. \A t \in DOMAIN token : token[t].parent # n
  BY <1>2, <1>3 DEF TypeInv, NamesRows
<1>6. \A p \in Requests : request[p] \in Exchange => request[p].parent # n
  BY <1>2, <1>3, Phases DEF TypeInv, Shape, NamesRows, Exchange
<1>7. RevokedBeforeIssue'
  <2>. SUFFICES ASSUME NEW p \in Requests, request'[p].phase = "issue",
                       request'[p].parent # NoToken
                PROVE  token'[request'[p].parent].revoked
    BY DEF RevokedBeforeIssue
  <2>1. p # r /\ request'[p] = request[p]
    BY <1>2, <1>4
  <2>2. request[p].parent \in DOMAIN token /\ token[request[p].parent].revoked
    BY <2>1 DEF RotationInv, RevokedBeforeIssue, TypeInv, NamesRows
  <2>. QED  BY <1>2, <2>1, <2>2
<1>8. ASSUME NEW t \in DOMAIN token, t # s
      PROVE  Children(t)' = Children(t) /\ Pending(t)' = Pending(t)
  <2>1. Children(t)' = Children(t)
    BY <1>2, <1>8 DEF Children
  <2>2. Pending(t)' = Pending(t)
    BY <1>1, <1>2, <1>4, <1>8 DEF Pending
  <2>. QED  BY <2>1, <2>2
<1>9. ASSUME s \in DOMAIN token
      PROVE  /\ Children(s)' = Children(s) \cup {n} /\ n \notin Children(s)
             /\ Pending(s)' = Pending(s) \ {r} /\ r \in Pending(s)
             /\ token'[s].revoked
  <2>1. Children(s)' = Children(s) \cup {n} /\ n \notin Children(s)
    BY <1>2 DEF Children
  <2>2. Pending(s)' = Pending(s) \ {r} /\ r \in Pending(s)
    BY <1>1, <1>2, <1>4 DEF Pending
  <2>3. token[s].revoked
    BY <1>1, <1>3, <1>4, <1>9 DEF RotationInv, RevokedBeforeIssue
  <2>. QED  BY <1>2, <1>9, <2>1, <2>2, <2>3
<1>10. ASSUME NEW t \in DOMAIN token
       PROVE  /\ ~token'[t].revoked => Children(t)' = {}
              /\ Cardinality(Children(t)') + Cardinality(Pending(t)') <= Cardinality(Requests)
  <2>0. /\ ~token[t].revoked => Children(t) = {}
        /\ Cardinality(Children(t)) + Cardinality(Pending(t)) <= Cardinality(Requests)
        /\ token'[t] = token[t]
    BY <1>2 DEF RotationInv
  <2>1. CASE t # s
    BY <1>8, <2>0, <2>1
  <2>2. CASE t = s
    <3>1. Cardinality(Children(t) \cup {n}) = Cardinality(Children(t)) + 1
      BY <1>9, <2>2, Counted, FS_AddElement DEF TypeInv
    <3>2. Cardinality(Pending(t) \ {r}) = Cardinality(Pending(t)) - 1
      BY <1>9, <2>2, Counted, FS_RemoveElement DEF TypeInv
    <3>. QED  BY <1>9, <2>0, <2>2, <3>1, <3>2, Counted DEF TypeInv
  <2>. QED  BY <2>1, <2>2
<1>11. Children(n)' = {} /\ Pending(n)' = {}
  <2>1. s # n
    BY <1>2, <1>3
  <2>2. \A t \in DOMAIN token' : token'[t].parent # n
    BY <1>2, <1>5, <2>1
  <2>3. \A p \in Requests : request'[p] \in Exchange => request'[p].parent # n
    BY <1>2, <1>4, <1>6
  <2>. QED  BY <2>2, <2>3 DEF Children, Pending
<1>12. Cardinality(Children(n)') + Cardinality(Pending(n)') <= Cardinality(Requests)
  BY <1>11, FS_EmptySet, Counted DEF TypeInv
<1>. QED  BY <1>2, <1>7, <1>10, <1>11, <1>12 DEF RotationInv

LEMMA RotationStep == TypeInv /\ TypeInv' /\ RotationInv /\ [Next]_sessionVars => RotationInv'
<1>. SUFFICES ASSUME TypeInv, TypeInv', RotationInv, [Next]_sessionVars PROVE RotationInv'
  OBVIOUS
<1>1. CASE Administration \/ UNCHANGED sessionVars
  <2>1. UNCHANGED token /\ UNCHANGED request
    BY <1>1 DEF Administration, Register, SetActive, ExpireToken, ExpireResetToken,
                sessionVars, tables
  <2>. QED  BY <2>1 DEF RotationInv, RevokedBeforeIssue, Children, Pending
<1>2. ASSUME NEW r \in Requests,
             \/ \E u \in Users : BeginLogin(r, u) \/ BeginResetRequest(r, u)
             \/ \E t \in DOMAIN token : BeginRefresh(r, t)
             \/ \E k \in DOMAIN resetToken : BeginConfirm(r, k)
      PROVE  RotationInv'
  BY <1>2, RotationBegin
<1>3. ASSUME NEW r \in Requests, ServerStep(r)
      PROVE  RotationInv'
  BY <1>3, RotationRevokeOld, RotationIssue, RotationEnd, RotationConfirm DEF ServerStep
<1>4. ASSUME NEW r \in Requests, Answer(r) \/ Lose(r)
      PROVE  RotationInv'
  BY <1>4, RotationEnd
<1>5. ASSUME NEW t \in DOMAIN token, Logout(t)
      PROVE  RotationInv'
  BY <1>5, RotationLogout
<1>. QED  BY <1>1, <1>2, <1>3, <1>4, <1>5 DEF Next

\* Once a refresh token has been exchanged it is dead, and it is exchanged at
\* most once per thread (auth_service.py, refresh_access_token), for any
\* number of threads, tokens and accounts.
THEOREM RotationCorrect == Spec => []RotationIsFinal
<1>1. Init => RotationInv
  BY DEF Init, RotationInv, RevokedBeforeIssue, Idle
<1>2. TypeInv /\ RotationInv => RotationIsFinal
  BY Counted DEF TypeInv, RotationInv, RotationIsFinal
<1>. QED  BY <1>1, <1>2, TypeAlways, RotationStep, PTL DEF Spec

-----------------------------------------------------------------------------
(* Password resets.  A thread that is on its way to issue a token for an   *)
(* earlier password was under way when the password changed.               *)

ResetInv ==
    /\ ResetEndsSessions
    /\ \A r \in Requests :
          request[r] \in Exchange /\ request[r].proof < version[request[r].user]
              => request[r].late

\* A thread that enters no exchange.
LEMMA ResetLeft ==
    ASSUME TypeInv, ResetInv, UNCHANGED version, OnlyRevokes \/ UNCHANGED token,
           NEW r \in Requests, \A p \in Requests \ {r} : request'[p] = request[p],
           request'[r] \notin Exchange
    PROVE  ResetInv'
<1>1. ResetEndsSessions'
  BY DEF ResetInv, ResetEndsSessions, OnlyRevokes
<1>. QED  BY <1>1 DEF ResetInv

LEMMA ResetBegin ==
    ASSUME TypeInv, ResetInv, NEW r \in Requests,
           \/ \E u \in Users : BeginLogin(r, u) \/ BeginResetRequest(r, u)
           \/ \E t \in DOMAIN token : BeginRefresh(r, t)
           \/ \E k \in DOMAIN resetToken : BeginConfirm(r, k)
    PROVE  ResetInv'
<1>1. ASSUME NEW u \in Users, BeginLogin(r, u)
      PROVE  ResetInv'
  <2>1. /\ request'[r].proof = version[u] /\ request'[r].user = u
        /\ \A p \in Requests \ {r} : request'[p] = request[p]
    BY <1>1 DEF BeginLogin, TypeInv, Shape
  <2>2. UNCHANGED token /\ UNCHANGED version /\ version[u] \in Nat
    BY <1>1 DEF BeginLogin, tables, TypeInv, Shape
  <2>. QED  BY <2>1, <2>2 DEF ResetInv, ResetEndsSessions
<1>2. ASSUME NEW u \in Users, BeginResetRequest(r, u)
      PROVE  ResetInv'
  BY <1>2, ResetLeft DEF BeginResetRequest, tables, TypeInv, Shape, Exchange
<1>3. ASSUME NEW s \in DOMAIN token, BeginRefresh(r, s)
      PROVE  ResetInv'
  <2>1. /\ request'[r].proof = token[s].proof /\ request'[r].user = token[s].owner
        /\ request'[r].late = token[s].late
        /\ \A p \in Requests \ {r} : request'[p] = request[p]
    BY <1>3 DEF BeginRefresh, TypeInv, Shape
  <2>2. UNCHANGED token /\ UNCHANGED version /\ ~token[s].revoked
    BY <1>3 DEF BeginRefresh, tables, Live, Usable
  <2>3. token[s].proof < version[token[s].owner] => token[s].late
    BY <2>2 DEF ResetInv, ResetEndsSessions
  <2>4. request'[r].proof < version'[request'[r].user] => request'[r].late
    BY <2>1, <2>2, <2>3
  <2>. QED  BY <2>1, <2>2, <2>4 DEF ResetInv, ResetEndsSessions
<1>4. ASSUME NEW k \in DOMAIN resetToken, BeginConfirm(r, k)
      PROVE  ResetInv'
  BY <1>4, ResetLeft DEF BeginConfirm, tables, TypeInv, Shape, Exchange
<1>. QED  BY <1>1, <1>2, <1>3, <1>4

LEMMA ResetEnd ==
    ASSUME TypeInv, ResetInv, NEW r \in Requests,
           Answer(r) \/ Lose(r) \/ AuditLogin(r) \/ StoreResetToken(r)
    PROVE  ResetInv'
<1>1. UNCHANGED token /\ UNCHANGED version
  BY DEF Answer, Lose, AuditLogin, StoreResetToken, tables
<1>2. CASE Answer(r) \/ Lose(r) \/ StoreResetToken(r)
  <2>1. Idle \notin Exchange
    BY DEF Idle, Exchange
  <2>2. request' = [request EXCEPT ![r] = Idle]
    BY <1>2 DEF Answer, Lose, StoreResetToken
  <2>3. request'[r] = Idle /\ \A p \in Requests \ {r} : request'[p] = request[p]
    BY <2>2 DEF TypeInv, Shape
  <2>. QED  BY <1>1, <2>1, <2>3, ResetLeft
<1>3. CASE AuditLogin(r)
  <2>1. request[r] \in Reply
    BY <1>3, Phases DEF AuditLogin, TypeInv, Shape
  <2>2. [request[r] EXCEPT !.phase = "answered"].phase = "answered"
    BY <2>1 DEF Reply
  <2>3. request' = [request EXCEPT ![r] = [request[r] EXCEPT !.phase = "answered"]]
    BY <1>3 DEF AuditLogin
  <2>4. request'[r].phase = "answered" /\ \A p \in Requests \ {r} : request'[p] = request[p]
    BY <2>2, <2>3 DEF TypeInv, Shape
  <2>. QED  BY <1>1, <2>4, ResetLeft DEF Exchange
<1>. QED  BY <1>2, <1>3

LEMMA ResetRevokeOld ==
    ASSUME TypeInv, ResetInv, NEW r \in Requests, RevokeOld(r)
    PROVE  ResetInv'
<1>. DEFINE q == [request[r] EXCEPT !.phase = "issue"]
<1>1. OnlyRevokes /\ request[r] \in Exchange /\ request' = [request EXCEPT ![r] = q]
  BY RevokeOldType
<1>2. q.proof = request[r].proof /\ q.user = request[r].user /\ q.late = request[r].late
  BY <1>1 DEF Exchange
<1>3. request'[r] = q /\ \A p \in Requests \ {r} : request'[p] = request[p]
  BY <1>1 DEF TypeInv, Shape
<1>. HIDE DEF q
<1>4. UNCHANGED version
  BY DEF RevokeOld
<1>5. ResetEndsSessions'
  BY <1>1, <1>4 DEF ResetInv, ResetEndsSessions, OnlyRevokes
<1>6. request[r].proof < version[request[r].user] => request[r].late
  BY <1>1 DEF ResetInv
<1>7. request'[r].proof < version'[request'[r].user] => request'[r].late
  BY <1>2, <1>3, <1>4, <1>6
<1>. QED  BY <1>3, <1>4, <1>5, <1>7 DEF ResetInv

LEMMA ResetIssue ==
    ASSUME TypeInv, ResetInv, NEW r \in Requests, IssueTokens(r)
    PROVE  ResetInv'
<1>1. PICK n : n = Len(token) + 1
  OBVIOUS
<1>2. token'[n] = [owner |-> request[r].user, parent |-> request[r].parent, revoked |-> FALSE,
                   proof |-> request[r].proof, late |-> request[r].late]
  BY <1>1, IssueType
<1>3. token'[n].owner = request[r].user /\ token'[n].proof = request[r].proof
      /\ token'[n].late = request[r].late
  BY <1>2
<1>4. /\ request[r] \in Exchange
      /\ DOMAIN token' = DOMAIN token \cup {n}
      /\ \A t \in DOMAIN token : token'[t] = token[t]
      /\ request'[r] \in Reply /\ \A p \in Requests \ {r} : request'[p] = request[p]
  BY <1>1, IssueType
<1>5. UNCHANGED version
  BY DEF IssueTokens
<1>6. request'[r] \notin Exchange
  BY <1>4 DEF Reply, Exchange
<1>7. request[r].proof < version[request[r].user] => request[r].late
  BY <1>4 DEF ResetInv
<1>8. token'[n].proof < version'[token'[n].owner] => token'[n].late
  BY <1>3, <1>5, <1>7
<1>9. ResetEndsSessions'
  BY <1>4, <1>5, <1>8 DEF ResetInv, ResetEndsSessions
<1>. QED  BY <1>4, <1>5, <1>6, <1>9 DEF ResetInv

\* The tokens of the account are revoked, the threads of the account marked,
\* and the others measured against a password that has not changed.
LEMMA ResetConfirm ==
    ASSUME TypeInv, ResetInv, NEW r \in Requests, ConfirmReset(r)
    PROVE  ResetInv'
<1>1. PICK u : u = request[r].user
  OBVIOUS
<1>2. /\ OnlyRevokes /\ request'[r] = Idle
      /\ \A t \in DOMAIN token : token[t].owner = u => token'[t].revoked
  BY <1>1, ConfirmType
<1>3. \A w \in Users \ {u} : version'[w] = version[w]
  BY <1>1, ConfirmType DEF TypeInv, Shape
<1>4. ResetEndsSessions'
  <2>. SUFFICES ASSUME NEW t \in DOMAIN token, ~token'[t].revoked,
                       token'[t].proof < version'[token'[t].owner]
                PROVE  token'[t].late
    BY <1>2 DEF ResetEndsSessions, OnlyRevokes
  <2>1. token[t].owner # u /\ token[t].owner \in Users
    BY <1>2, TokenRows DEF TypeInv, RefreshToken
  <2>2. /\ token'[t].owner = token[t].owner /\ token'[t].proof = token[t].proof
        /\ token'[t].late = token[t].late /\ ~token[t].revoked
    BY <1>2 DEF OnlyRevokes
  <2>3. token[t].late
    BY <1>3, <2>1, <2>2 DEF ResetInv, ResetEndsSessions
  <2>. QED  BY <2>2, <2>3
<1>5. ASSUME NEW p \in Requests, request'[p] \in Exchange,
             request'[p].proof < version'[request'[p].user]
      PROVE  request'[p].late
  <2>1. p # r
    BY <1>2, <1>5 DEF Idle, Exchange
  <2>2. request[p] \in Exchange
    BY <1>5, <2>1, ConfirmType
  <2>3. /\ request'[p].user = request[p].user /\ request'[p].proof = request[p].proof
        /\ request[p].user = u => request'[p].late
        /\ request[p].late => request'[p].late
    BY <1>1, <2>1, <2>2, ConfirmType
  <2>4. request[p].user \in Users
    BY <2>2 DEF Exchange
  <2>5. CASE request[p].user # u
    <3>1. request[p].late
      BY <1>3, <1>5, <2>2, <2>3, <2>4, <2>5 DEF ResetInv
    <3>. QED  BY <2>3, <3>1
  <2>. QED  BY <2>3, <2>5
<1>. QED  BY <1>4, <1>5 DEF ResetInv

LEMMA ResetStep == TypeInv /\ ResetInv /\ [Next]_sessionVars => ResetInv'
<1>. SUFFICES ASSUME TypeInv, ResetInv, [Next]_sessionVars PROVE ResetInv'
  OBVIOUS
<1>1. CASE Administration \/ UNCHANGED sessionVars
  <2>1. UNCHANGED token /\ UNCHANGED request /\ UNCHANGED version
    BY <1>1 DEF Administration, Register, SetActive, ExpireToken, ExpireResetToken,
                sessionVars, tables
  <2>. QED  BY <2>1 DEF ResetInv, ResetEndsSessions
<1>2. ASSUME NEW r \in Requests,
             \/ \E u \in Users : BeginLogin(r, u) \/ BeginResetRequest(r, u)
             \/ \E t \in DOMAIN token : BeginRefresh(r, t)
             \/ \E k \in DOMAIN resetToken : BeginConfirm(r, k)
      PROVE  ResetInv'
  BY <1>2, ResetBegin
<1>3. ASSUME NEW r \in Requests, ServerStep(r)
      PROVE  ResetInv'
  BY <1>3, ResetRevokeOld, ResetIssue, ResetEnd, ResetConfirm DEF ServerStep
<1>4. ASSUME NEW r \in Requests, Answer(r) \/ Lose(r)
      PROVE  ResetInv'
  BY <1>4, ResetEnd
<1>5. ASSUME NEW t \in DOMAIN token, Logout(t)
      PROVE  ResetInv'
  <2>1. OnlyRevokes
    BY <1>5, LogoutType
  <2>2. UNCHANGED request /\ UNCHANGED version
    BY <1>5 DEF Logout
  <2>. QED  BY <2>1, <2>2 DEF ResetInv, ResetEndsSessions, OnlyRevokes
<1>. QED  BY <1>1, <1>2, <1>3, <1>4, <1>5 DEF Next

\* A password reset leaves no session begun with an earlier password alive,
\* but those whose token a request under way inserted afterwards
\* (auth.py, confirm_password_reset).
THEOREM ResetCorrect == Spec => []ResetEndsSessions
<1>1. Init => ResetInv
  BY DEF Init, ResetInv, ResetEndsSessions, Idle, Exchange
<1>2. ResetInv => ResetEndsSessions
  BY DEF ResetInv
<1>. QED  BY <1>1, <1>2, TypeAlways, ResetStep, PTL DEF Spec

-----------------------------------------------------------------------------
(* Reset tokens.  A thread that has checked a token another has spent      *)
(* since will change the password once more: these threads are counted     *)
(* with the passwords already set.  The thread that spends a token leaves  *)
(* at most the others behind, and none can join them.                      *)

SpentBy(u) == {k \in DOMAIN resetToken : resetToken[k].owner = u /\ resetToken[k].used}

Behind(u) ==
    {r \in Requests : request[r] \in Confirming /\ request[r].user = u
                      /\ resetToken[request[r].key].used}

ConfirmsForOwner ==
    \A r \in Requests : request[r] \in Confirming
                            => request[r].user = resetToken[request[r].key].owner

SpentInv ==
    /\ ConfirmsForOwner
    /\ \A u \in Users :
          version[u] + Cardinality(Behind(u))
              <= Cardinality(SpentBy(u)) * Cardinality(Requests)

LEMMA SpentCounted ==
    ASSUME Shape, NEW u
    PROVE  /\ IsFiniteSet(SpentBy(u)) /\ Cardinality(SpentBy(u)) \in Nat
           /\ IsFiniteSet(Behind(u)) /\ Cardinality(Behind(u)) \in Nat
           /\ Cardinality(Requests) \in Nat
<1>1. IsFiniteSet(DOMAIN resetToken)
  BY TokenRows, FS_Interval
<1>2. IsFiniteSet(SpentBy(u)) /\ IsFiniteSet(Behind(u))
  BY <1>1, FS_Subset, SessionAssumption, Zenon DEF SpentBy, Behind, SessionAssumption
<1>. QED  BY <1>2, FS_CardinalityType, SessionAssumption DEF SessionAssumption

\* No token is spent, and no thread comes to rely on a spent one.
LEMMA SpentKept ==
    ASSUME TypeInv, SpentInv, UNCHANGED version,
           \A k \in DOMAIN resetToken :
              /\ k \in DOMAIN resetToken'
              /\ resetToken'[k].owner = resetToken[k].owner
              /\ resetToken'[k].used = resetToken[k].used,
           \A k \in DOMAIN resetToken' \ DOMAIN resetToken : ~resetToken'[k].used,
           \A r \in Requests : request'[r] \in Confirming =>
              \/ request'[r] = request[r]
              \/ /\ request'[r].key \in DOMAIN resetToken
                 /\ request'[r].user = resetToken[request'[r].key].owner
                 /\ ~resetToken[request'[r].key].used
    PROVE  SpentInv'
<1>1. \A r \in Requests : request[r] \in Confirming => request[r].key \in DOMAIN resetToken
  BY Phases DEF TypeInv, Shape, NamesRows, Confirming
<1>2. ConfirmsForOwner'
  BY <1>1 DEF ConfirmsForOwner, SpentInv
<1>3. ASSUME NEW u \in Users
      PROVE  (version[u] + Cardinality(Behind(u))
                  <= Cardinality(SpentBy(u)) * Cardinality(Requests))'
  <2>1. SpentBy(u)' = SpentBy(u)
    BY DEF SpentBy
  <2>2. Behind(u)' \subseteq Behind(u)
    BY <1>1 DEF Behind
  <2>3. IsFiniteSet(Behind(u)) /\ Cardinality(Behind(u)) \in Nat
    BY SpentCounted DEF TypeInv
  <2>4. Cardinality(Behind(u)') <= Cardinality(Behind(u)) /\ Cardinality(Behind(u)') \in Nat
    BY <2>2, <2>3, FS_Subset, FS_CardinalityType
  <2>5. version[u] \in Nat /\ Cardinality(SpentBy(u)) * Cardinality(Requests) \in Nat
    BY SpentCounted DEF TypeInv, Shape
  <2>6. version[u] + Cardinality(Behind(u)) <= Cardinality(SpentBy(u)) * Cardinality(Requests)
    BY DEF SpentInv
  <2>7. version'[u] = version[u]
    OBVIOUS
  <2>. DEFINE limit == Cardinality(SpentBy(u)) * Cardinality(Requests)
              m == Cardinality(Behind(u))
              n == Cardinality(Behind(u)')
  <2>8. limit \in Nat /\ m \in Nat /\ n \in Nat /\ n <= m /\ version[u] + m <= limit
    BY <2>3, <2>4, <2>5, <2>6
  <2>9. version[u] + n <= limit
    <3>. HIDE DEF limit, m, n
    <3>. QED  BY <2>5, <2>8
  <2>. QED  BY <2>1, <2>7, <2>9
<1>. QED  BY <1>2, <1>3 DEF SpentInv

\* The step that sets the password.  If its token is fresh the token pays for
\* this thread and all others; if not, the thread was among those counted.
LEMMA SpentConfirm ==
    ASSUME TypeInv, SpentInv, NEW r \in Requests, ConfirmReset(r)
    PROVE  SpentInv'
<1>1. PICK u, k : u = request[r].user /\ k = request[r].key
  OBVIOUS
<1>2. /\ request[r] \in Confirming /\ request'[r] = Idle
      /\ version' = [version EXCEPT ![u] = @ + 1]
      /\ \A q \in Requests \ {r} : request'[q] \in Confirming =>
            request[q] \in Confirming /\ request'[q] = request[q]
  <2>1. \A x : ~(x \in Confirming /\ x \in Exchange)
    BY DEF Confirming, Exchange
  <2>. QED  BY <1>1, <2>1, ConfirmType
<1>3. /\ u \in Users /\ k \in DOMAIN resetToken /\ resetToken[k].owner = u
      /\ Idle \notin Confirming
  BY <1>1, <1>2, Phases
  DEF SpentInv, ConfirmsForOwner, TypeInv, Shape, NamesRows, Confirming, Idle
<1>4. /\ DOMAIN resetToken' = DOMAIN resetToken
      /\ \A j \in DOMAIN resetToken \ {k} : resetToken'[j] = resetToken[j]
      /\ resetToken'[k].owner = u /\ resetToken'[k].used
  <2>1. resetToken' = [resetToken EXCEPT ![k].used = TRUE]
    BY <1>1 DEF ConfirmReset, Spent
  <2>2. resetToken[k] \in PasswordResetToken
    BY <1>3, TokenRows DEF TypeInv
  <2>3. [resetToken[k] EXCEPT !.used = TRUE].used = TRUE
        /\ [resetToken[k] EXCEPT !.used = TRUE].owner = resetToken[k].owner
    BY <2>2 DEF PasswordResetToken
  <2>4. resetToken'[k] = [resetToken[k] EXCEPT !.used = TRUE]
    BY <1>3, <2>1
  <2>. QED  BY <1>3, <2>1, <2>3, <2>4
<1>5. \A q \in Requests : request[q] \in Confirming => request[q].key \in DOMAIN resetToken
  BY Phases DEF TypeInv, Shape, NamesRows, Confirming
<1>6. ConfirmsForOwner'
  BY <1>2, <1>3, <1>4, <1>5 DEF SpentInv, ConfirmsForOwner
<1>7. ASSUME NEW w \in Users
      PROVE  (version[w] + Cardinality(Behind(w))
                  <= Cardinality(SpentBy(w)) * Cardinality(Requests))'
  <2>. DEFINE m == Cardinality(Behind(w))
              n == Cardinality(Behind(w)')
              s == Cardinality(SpentBy(w))
              t == Cardinality(SpentBy(w)')
              c == Cardinality(Requests)
              v == version[w]
  <2>1. /\ m \in Nat /\ s \in Nat /\ c \in Nat /\ v \in Nat
        /\ IsFiniteSet(Behind(w)) /\ IsFiniteSet(SpentBy(w)) /\ IsFiniteSet(Requests)
        /\ v + m <= s * c
    BY SpentCounted, SessionAssumption DEF TypeInv, Shape, SpentInv, SessionAssumption
  <2>2. CASE w # u
    <3>1. SpentBy(w)' = SpentBy(w)
      BY <1>3, <1>4, <2>2 DEF SpentBy
    <3>2. Behind(w)' \subseteq Behind(w)
      <4>. SUFFICES ASSUME NEW q \in Behind(w)' PROVE q \in Behind(w)
        OBVIOUS
      <4>1. q # r /\ q \in Requests /\ request'[q] \in Confirming
        BY <1>2, <1>3 DEF Behind
      <4>2. request[q] \in Confirming /\ request'[q] = request[q]
        BY <1>2, <4>1
      <4>3. request[q].user = w /\ resetToken'[request[q].key].used
        BY <4>2 DEF Behind
      <4>4. request[q].key # k
        BY <1>3, <2>2, <4>1, <4>2, <4>3 DEF SpentInv, ConfirmsForOwner
      <4>. QED  BY <1>4, <1>5, <4>1, <4>2, <4>3, <4>4 DEF Behind
    <3>3. n \in Nat /\ n <= m
      BY <2>1, <3>2, FS_Subset, FS_CardinalityType
    <3>4. version'[w] = v
      BY <1>2, <2>2
    <3>5. v + n <= s * c
      <4>1. s * c \in Nat
        <5>. HIDE DEF s, c
        <5>. QED  BY <2>1
      <4>. HIDE DEF s, c, v, m, n
      <4>. QED  BY <2>1, <3>3, <4>1
    <3>. QED  BY <3>1, <3>4, <3>5
  <2>3. CASE w = u
    <3>1. version'[w] = v + 1
      BY <1>2, <1>3, <2>3 DEF TypeInv, Shape
    <3>2. CASE resetToken[k].used
      <4>1. SpentBy(w)' = SpentBy(w)
        BY <1>3, <1>4, <2>3, <3>2 DEF SpentBy
      <4>2. r \in Behind(w)
        BY <1>1, <1>2, <2>3, <3>2 DEF Behind
      <4>3. Behind(w)' \subseteq Behind(w) \ {r}
        <5>. SUFFICES ASSUME NEW q \in Behind(w)' PROVE q \in Behind(w) \ {r}
          OBVIOUS
        <5>1. q # r /\ q \in Requests /\ request'[q] \in Confirming
          BY <1>2, <1>3 DEF Behind
        <5>2. request[q] \in Confirming /\ request'[q] = request[q]
          BY <1>2, <5>1
        <5>3. request[q].user = w /\ resetToken'[request[q].key].used
          BY <5>2 DEF Behind
        <5>. QED  BY <1>4, <1>5, <3>2, <5>1, <5>2, <5>3 DEF Behind
      <4>4. IsFiniteSet(Behind(w) \ {r}) /\ Cardinality(Behind(w) \ {r}) = m - 1
        BY <2>1, <4>2, FS_RemoveElement
      <4>5. n \in Nat /\ n <= m - 1
        BY <4>3, <4>4, FS_Subset, FS_CardinalityType
      <4>6. s * c \in Nat
        <5>. HIDE DEF s, c
        <5>. QED  BY <2>1
      <4>7. (v + 1) + n <= s * c
        <5>. HIDE DEF s, c, v, m, n
        <5>. QED  BY <2>1, <4>5, <4>6
      <4>. QED  BY <3>1, <4>1, <4>7
    <3>3. CASE ~resetToken[k].used
      <4>1. SpentBy(w)' = SpentBy(w) \cup {k} /\ k \notin SpentBy(w)
        BY <1>3, <1>4, <2>3, <3>3 DEF SpentBy
      <4>2. t = s + 1
        BY <2>1, <4>1, FS_AddElement
      <4>3. Behind(w)' \subseteq Behind(w) \cup (Requests \ {r})
        BY <1>2, <1>3 DEF Behind
      <4>4. IsFiniteSet(Requests \ {r}) /\ Cardinality(Requests \ {r}) = c - 1
        BY <2>1, FS_RemoveElement
      <4>5. /\ IsFiniteSet(Behind(w) \cup (Requests \ {r}))
            /\ Cardinality(Behind(w) \cup (Requests \ {r})) <= m + (c - 1)
        <5>1. /\ IsFiniteSet(Behind(w) \cap (Requests \ {r}))
              /\ Cardinality(Behind(w) \cup (Requests \ {r}))
                    = m + (c - 1) - Cardinality(Behind(w) \cap (Requests \ {r}))
              /\ IsFiniteSet(Behind(w) \cup (Requests \ {r}))
          BY <2>1, <4>4, FS_Union, FS_Intersection
        <5>2. Cardinality(Behind(w) \cap (Requests \ {r})) \in Nat
          BY <5>1, FS_CardinalityType
        <5>. HIDE DEF m, c
        <5>. QED  BY <2>1, <5>1, <5>2
      <4>6. n \in Nat /\ n <= Cardinality(Behind(w) \cup (Requests \ {r}))
        BY <4>3, <4>5, FS_Subset, FS_CardinalityType
      <4>7. s * c \in Nat /\ (s + 1) * c = s * c + c
        <5>. HIDE DEF s, c
        <5>. QED  BY <2>1
      <4>8. Cardinality(Behind(w) \cup (Requests \ {r})) \in Nat
        BY <4>5, FS_CardinalityType
      <4>9. (v + 1) + n <= t * c
        <5>. HIDE DEF s, c, v, m, n, t
        <5>. QED  BY <2>1, <4>2, <4>5, <4>6, <4>7, <4>8
      <4>. QED  BY <3>1, <4>9
    <3>. QED  BY <3>2, <3>3
  <2>. QED  BY <2>2, <2>3
<1>. QED  BY <1>6, <1>7 DEF SpentInv

\* A thread ends or goes on otherwise than by setting a password.
LEMMA SpentThread ==
    ASSUME TypeInv, SpentInv, NEW r \in Requests,
           UNCHANGED <<version, resetToken>>, request'[r] \notin Confirming,
           \A q \in Requests \ {r} : request'[q] = request[q]
    PROVE  SpentInv'
BY SpentKept

LEMMA SpentBegin ==
    ASSUME TypeInv, SpentInv, NEW r \in Requests,
           \/ \E u \in Users : BeginLogin(r, u) \/ BeginResetRequest(r, u)
           \/ \E t \in DOMAIN token : BeginRefresh(r, t)
           \/ \E k \in DOMAIN resetToken : BeginConfirm(r, k)
    PROVE  SpentInv'
<1>1. ASSUME NEW u \in Users, BeginLogin(r, u) \/ BeginResetRequest(r, u)
      PROVE  SpentInv'
  BY <1>1, SpentThread DEF BeginLogin, BeginResetRequest, tables, TypeInv, Shape, Confirming
<1>2. ASSUME NEW t \in DOMAIN token, BeginRefresh(r, t)
      PROVE  SpentInv'
  BY <1>2, SpentThread DEF BeginRefresh, tables, TypeInv, Shape, Confirming
<1>3. ASSUME NEW k \in DOMAIN resetToken, BeginConfirm(r, k)
      PROVE  SpentInv'
  <2>1. /\ request'[r].key = k /\ request'[r].user = resetToken[k].owner
        /\ \A q \in Requests \ {r} : request'[q] = request[q]
        /\ ~resetToken[k].used /\ UNCHANGED <<version, resetToken>>
    BY <1>3 DEF BeginConfirm, tables, TypeInv, Shape
  <2>. QED  BY <2>1, SpentKept
<1>. QED  BY <1>1, <1>2, <1>3

LEMMA SpentServer ==
    ASSUME TypeInv, SpentInv, NEW r \in Requests,
           Answer(r) \/ Lose(r) \/ ServerStep(r)
    PROVE  SpentInv'
<1>0. Idle \notin Confirming
  BY DEF Idle, Confirming
<1>1. CASE Answer(r) \/ Lose(r)
  BY <1>0, <1>1, SpentThread DEF Answer, Lose, tables, TypeInv, Shape
<1>2. CASE StoreResetToken(r)
  <2>. DEFINE row == [owner |-> request[r].user, used |-> FALSE, expired |-> FALSE]
  <2>1. resetToken' = Append(resetToken, row) /\ UNCHANGED version
        /\ request'[r] = Idle /\ \A q \in Requests \ {r} : request'[q] = request[q]
    BY <1>2 DEF StoreResetToken, TypeInv, Shape
  <2>2. request[r] \in Storing
    BY <1>2, Phases DEF StoreResetToken, TypeInv, Shape
  <2>3. row \in PasswordResetToken /\ ~row.used
    BY <2>2 DEF Storing, PasswordResetToken
  <2>. HIDE DEF row
  <2>4. /\ DOMAIN resetToken' = DOMAIN resetToken \cup {Len(resetToken) + 1}
        /\ resetToken'[Len(resetToken) + 1] = row
        /\ \A k \in DOMAIN resetToken : resetToken'[k] = resetToken[k]
    BY <2>1, <2>3, TokenRows DEF TypeInv, Shape
  <2>. QED  BY <1>0, <2>1, <2>3, <2>4, SpentKept
<1>3. CASE AuditLogin(r)
  <2>1. request[r] \in Reply
    BY <1>3, Phases DEF AuditLogin, TypeInv, Shape
  <2>2. [request[r] EXCEPT !.phase = "answered"].phase = "answered"
    BY <2>1 DEF Reply
  <2>3. request' = [request EXCEPT ![r] = [request[r] EXCEPT !.phase = "answered"]]
    BY <1>3 DEF AuditLogin
  <2>4. request'[r].phase = "answered" /\ \A p \in Requests \ {r} : request'[p] = request[p]
    BY <2>2, <2>3 DEF TypeInv, Shape
  <2>5. request'[r] \notin Confirming /\ UNCHANGED <<version, resetToken>>
    BY <1>3, <2>4 DEF Confirming, AuditLogin, tables
  <2>. QED  BY <2>4, <2>5, SpentThread
<1>4. CASE RevokeOld(r)
  <2>. DEFINE q == [request[r] EXCEPT !.phase = "issue"]
  <2>1. q \in Exchange /\ request' = [request EXCEPT ![r] = q]
    BY <1>4, RevokeOldType
  <2>. HIDE DEF q
  <2>2. request'[r] = q /\ \A p \in Requests \ {r} : request'[p] = request[p]
    BY <2>1 DEF TypeInv, Shape
  <2>3. request'[r] \notin Confirming
    BY <2>1, <2>2 DEF Exchange, Confirming
  <2>. QED  BY <1>4, <2>2, <2>3, SpentThread DEF RevokeOld
<1>5. CASE IssueTokens(r)
  <2>1. request'[r] \in Reply /\ \A p \in Requests \ {r} : request'[p] = request[p]
    BY <1>5, IssueType
  <2>2. request'[r] \notin Confirming
    BY <2>1 DEF Reply, Confirming
  <2>. QED  BY <1>5, <2>1, <2>2, SpentThread DEF IssueTokens
<1>. QED  BY <1>1, <1>2, <1>3, <1>4, <1>5, SpentConfirm DEF ServerStep

LEMMA SpentStep == TypeInv /\ SpentInv /\ [Next]_sessionVars => SpentInv'
<1>. SUFFICES ASSUME TypeInv, SpentInv, [Next]_sessionVars PROVE SpentInv'
  OBVIOUS
<1>1. CASE UNCHANGED sessionVars
  BY <1>1, SpentKept DEF sessionVars, tables
<1>2. CASE Administration
  <2>1. ASSUME NEW k \in DOMAIN resetToken, ExpireResetToken(k)
        PROVE  SpentInv'
    <3>1. resetToken[k] \in PasswordResetToken
      BY TokenRows DEF TypeInv
    <3>2. /\ [resetToken[k] EXCEPT !.expired = TRUE].used = resetToken[k].used
          /\ [resetToken[k] EXCEPT !.expired = TRUE].owner = resetToken[k].owner
      BY <3>1 DEF PasswordResetToken
    <3>3. resetToken' = [resetToken EXCEPT ![k] = [resetToken[k] EXCEPT !.expired = TRUE]]
          /\ UNCHANGED <<version, request>>
      BY <2>1 DEF ExpireResetToken
    <3>. QED  BY <3>2, <3>3, SpentKept
  <2>2. CASE (\E u \in Users : Register(u) \/ SetActive(u)) \/ ExpireToken
    <3>1. UNCHANGED <<version, resetToken, request>>
      BY <2>2 DEF Register, SetActive, ExpireToken
    <3>. QED  BY <3>1, SpentKept
  <2>. QED  BY <1>2, <2>1, <2>2 DEF Administration
<1>3. ASSUME NEW t \in DOMAIN token, Logout(t)
      PROVE  SpentInv'
  BY <1>3, SpentKept DEF Logout
<1>. QED  BY <1>1, <1>2, <1>3, SpentBegin, SpentServer DEF Next

\* The passwords an account was given are at most as many as its spent reset
\* tokens times the threads of the server, however confirmations of the same
\* token overlap (auth.py, confirm_password_reset).
THEOREM SpentCorrect == Spec => []ResetsAreSpent
<1>1. Init => SpentInv
  <2>. SUFFICES ASSUME Init PROVE SpentInv
    OBVIOUS
  <2>1. ASSUME NEW u \in Users
        PROVE  version[u] = 0 /\ Behind(u) = {} /\ SpentBy(u) = {}
    BY DEF Init, Idle, Confirming, Behind, SpentBy
  <2>2. 0 * Cardinality(Requests) = 0
    BY FS_CardinalityType, SessionAssumption DEF SessionAssumption
  <2>3. \A u \in Users : version[u] + Cardinality(Behind(u))
                            <= Cardinality(SpentBy(u)) * Cardinality(Requests)
    BY <2>1, <2>2, FS_EmptySet
  <2>4. ConfirmsForOwner
    BY DEF Init, Idle, Confirming, ConfirmsForOwner
  <2>. QED  BY <2>3, <2>4 DEF SpentInv
<1>2. TypeInv /\ SpentInv => ResetsAreSpent
  <2>. SUFFICES ASSUME TypeInv, SpentInv, NEW u \in Users
                PROVE  version[u] <= Cardinality(SpentBy(u)) * Cardinality(Requests)
    BY DEF ResetsAreSpent, SpentBy
  <2>. DEFINE limit == Cardinality(SpentBy(u)) * Cardinality(Requests)
  <2>1. version[u] + Cardinality(Behind(u)) <= limit /\ version[u] \in Nat
    BY DEF SpentInv, TypeInv, Shape
  <2>2. Cardinality(Behind(u)) \in Nat /\ limit \in Nat
    BY SpentCounted DEF TypeInv
  <2>. HIDE DEF limit
  <2>3. version[u] <= limit
    BY <2>1, <2>2
  <2>. QED  BY <2>3 DEF limit
<1>. QED  BY <1>1, <1>2, TypeAlways, SpentStep, PTL DEF Spec

-----------------------------------------------------------------------------
(* The browser.  Whatever the tab does, its steps are steps of the server  *)
(* or leave the server alone, provided that the tokens it holds are the    *)
(* server's; so what is proved of the server holds with the client.        *)

HoldsRows == stored \in DOMAIN token \cup {NoToken} /\ posts \subseteq DOMAIN token

LEMMA RowsStay == TypeInv /\ [Next]_sessionVars => DOMAIN token \subseteq DOMAIN token'
<1>. SUFFICES ASSUME TypeInv, [Next]_sessionVars PROVE DOMAIN token \subseteq DOMAIN token'
  OBVIOUS
<1>1. CASE UNCHANGED token
  BY <1>1
<1>2. ASSUME NEW r \in Requests, RevokeOld(r) \/ IssueTokens(r) \/ ConfirmReset(r)
      PROVE  DOMAIN token \subseteq DOMAIN token'
  BY <1>2, RevokeOldType, IssueType, ConfirmType DEF OnlyRevokes
<1>3. ASSUME NEW t \in DOMAIN token, Logout(t)
      PROVE  DOMAIN token \subseteq DOMAIN token'
  BY <1>3, LogoutType DEF OnlyRevokes
<1>4. ASSUME NEW r \in Requests,
             \/ \E u \in Users : BeginLogin(r, u) \/ BeginResetRequest(r, u)
             \/ \E t \in DOMAIN token : BeginRefresh(r, t)
             \/ \E k \in DOMAIN resetToken : BeginConfirm(r, k)
             \/ AuditLogin(r) \/ StoreResetToken(r) \/ Answer(r) \/ Lose(r)
      PROVE  UNCHANGED token
  BY <1>4 DEF BeginLogin, BeginResetRequest, BeginRefresh, BeginConfirm, AuditLogin,
              StoreResetToken, Answer, Lose, tables
<1>5. CASE Administration \/ UNCHANGED sessionVars
  BY <1>5 DEF Administration, Register, SetActive, ExpireToken, ExpireResetToken,
              sessionVars, tables
<1>. QED  BY <1>1, <1>2, <1>3, <1>4, <1>5 DEF Next, ServerStep

\* The steps of one call.
LEMMA CallStep ==
    ASSUME TypeInv, HoldsRows, NEW c \in Calls, Client(c)
    PROVE  [Next]_sessionVars /\ HoldsRows'
<1>1. c \in Requests
  BY ClientAssumption DEF ClientAssumption
<1>2. CASE Load(c) \/ GiveUp(c) \/ Ask(c) \/ Granted(c) \/ Denied(c) \/ Lost(c)
           \/ RefreshRefused(c)
  <2>1. UNCHANGED sessionVars /\ UNCHANGED posts
    BY <1>2 DEF Load, GiveUp, Ask, Granted, Denied, Lost, RefreshRefused
  <2>2. stored' \in {stored, NoToken}
    BY <1>2 DEF Load, GiveUp, Ask, Granted, Denied, Lost, RefreshRefused, Failed,
                Emptied
  <2>. QED  BY <2>1, <2>2 DEF HoldsRows, sessionVars, tables
<1>3. ASSUME NEW u \in Users, Login(c, u)
      PROVE  [Next]_sessionVars /\ HoldsRows'
  <2>1. Next
    BY <1>1, <1>3 DEF Login, Next
  <2>. QED  BY <1>3, <2>1 DEF Login, BeginLogin, tables, HoldsRows
<1>4. CASE LoggedIn(c) \/ Refreshed(c)
  <2>1. Next /\ UNCHANGED token /\ UNCHANGED posts
    BY <1>1, <1>4 DEF LoggedIn, Refreshed, Next, Answer, tables
  <2>2. stored' = request[c].new /\ request[c].phase = "answered"
    BY <1>4 DEF LoggedIn, Refreshed
  <2>3. request[c].new \in DOMAIN token
    BY <1>1, <2>2 DEF TypeInv, NamesRows
  <2>. QED  BY <2>1, <2>2, <2>3 DEF HoldsRows
<1>5. CASE RefreshTaken(c)
  <2>1. BeginRefresh(c, call[c].using) /\ call[c].using \in DOMAIN token
    BY <1>5 DEF RefreshTaken, BeginRefresh, Live, Usable
  <2>2. Next
    BY <1>1, <2>1 DEF Next
  <2>. QED  BY <1>5, <2>1, <2>2 DEF RefreshTaken, BeginRefresh, tables, HoldsRows
<1>. QED  BY <1>2, <1>3, <1>4, <1>5 DEF Client

LEMMA ClientStep ==
    TypeInv /\ HoldsRows /\ [ClientNext]_clientVars => [Next]_sessionVars /\ HoldsRows'
<1>. SUFFICES ASSUME TypeInv, HoldsRows, [ClientNext]_clientVars
              PROVE  [Next]_sessionVars /\ HoldsRows'
  OBVIOUS
<1>1. CASE Server
  <2>1. Next
    BY <1>1, ClientAssumption DEF Server, Next
  <2>2. UNCHANGED <<stored, posts>>
    BY <1>1 DEF Server, browser
  <2>. QED  BY <2>1, <2>2, RowsStay DEF HoldsRows
<1>2. ASSUME NEW c \in Calls, Client(c)
      PROVE  [Next]_sessionVars /\ HoldsRows'
  BY <1>2, CallStep
<1>3. CASE SignOut
  BY <1>3 DEF SignOut, sessionVars, tables, HoldsRows
<1>4. ASSUME NEW t \in posts, SignOutArrives(t)
      PROVE  [Next]_sessionVars /\ HoldsRows'
  <2>1. [Next]_sessionVars
    BY <1>4 DEF SignOutArrives, Next, HoldsRows
  <2>2. stored' = stored /\ posts' \subseteq posts
    BY <1>4 DEF SignOutArrives
  <2>. QED  BY <2>1, <2>2, RowsStay DEF HoldsRows
<1>5. ASSUME NEW r \in Requests, ThreadLost(r)
      PROVE  [Next]_sessionVars /\ HoldsRows'
  <2>1. Next /\ UNCHANGED token /\ UNCHANGED posts
    BY <1>5 DEF ThreadLost, Next, Lose, tables
  <2>2. stored' \in {stored, NoToken}
    BY <1>5 DEF ThreadLost, Failed, Emptied
  <2>. QED  BY <2>1, <2>2 DEF HoldsRows
<1>6. CASE ExpireAccess \/ UNCHANGED clientVars
  BY <1>6 DEF ExpireAccess, clientVars, browser, sessionVars, tables, HoldsRows
<1>. QED  BY <1>1, <1>2, <1>3, <1>4, <1>5, <1>6 DEF ClientNext

\* The server with a browser tab behaves like the server of Sessions: every
\* step of the tab is a step of one of its requests or none of the server's.
THEOREM ClientImplementsSessions == ClientSpec => Spec
<1>1. ClientInit => Init /\ HoldsRows
  BY DEF ClientInit, HoldsRows
<1>2. ClientInit => TypeInv
  BY <1>1, TypeInit
<1>. QED  BY <1>1, <1>2, TypeStep, ClientStep, PTL DEF ClientSpec, Spec

\* Rotation and resets hold of the server however the browser uses it
\* (auth_service.py, auth.py).
THEOREM ClientSessionsEnd ==
    ClientSpec => [](RotationIsFinal /\ ResetEndsSessions /\ ResetsAreSpent)
BY ClientImplementsSessions, RotationCorrect, ResetCorrect, SpentCorrect, PTL

\* The tables and the threads of the server keep their types under the steps
\* of the browser too, and every row a thread names exists.
THEOREM TypeCorrect == ClientSpec => []TypeOK
<1>1. ASSUME TypeInv PROVE TypeOK
  <2>1. \A r \in Requests : request[r] \in RequestShape
    BY <1>1 DEF TypeInv, Shape
  <2>2. ASSUME NEW r \in Requests
        PROVE  \/ request[r] = Idle
               \/ /\ request[r].phase \in {"revoke", "issue"}
                  /\ request[r].parent \in DOMAIN token \cup {NoToken}
               \/ /\ request[r].phase \in {"audit", "answered"}
                  /\ request[r].new \in DOMAIN token
               \/ request[r].phase = "store"
               \/ /\ request[r].phase = "confirm"
                  /\ request[r].key \in DOMAIN resetToken
    BY <1>1, <2>1, Phases DEF RequestShape, TypeInv, NamesRows
  <2>. QED  BY <1>1, <2>2 DEF TypeInv, Shape, TypeOK
<1>. QED  BY <1>1, TypeAlways, ClientImplementsSessions, PTL

-----------------------------------------------------------------------------
(* The session of the tab.  A call is young when it began after the last   *)
(* logout, failed start or start of the page and has read no late pair.    *)
(* Young calls act for the user whose token the pages use, so the pairs    *)
(* they write are of that user; the start of the page and a login are      *)
(* alone with calls that are not young.                                    *)

Kinds == {"boot", "profile", "page", "stray"}

LoginCall == [phase : {"login"}, kind : {"login"}, old : BOOLEAN]
SentCall == [phase : {"sent"}, kind : Kinds, token : Nat, first : Nat,
             retried : BOOLEAN, old : BOOLEAN]
RefreshCall == [phase : {"asking", "refresh"}, kind : Kinds, first : Nat,
                using : Nat, old : BOOLEAN]
CallShape == LoginCall \cup SentCall \cup RefreshCall \cup {Off}

Owner(t) == token[t].owner

\* The token a call under way was last sent with.
Bearer(k) == IF k.phase = "sent" THEN k.token ELSE k.using

BrowserShape ==
    /\ stored \in DOMAIN token \cup {NoToken} /\ react \in DOMAIN token \cup {NoToken}
    /\ loading \in BOOLEAN /\ lateWrite \in BOOLEAN
    /\ call \in [Calls -> CallShape]
    /\ \A c \in Calls : call[c] \in SentCall \cup RefreshCall
                            => Bearer(call[c]) \in DOMAIN token /\ call[c].first \in DOMAIN token

\* The thread of a call that waits for a refresh works for the same account.
RefreshOfCall ==
    \A c \in Calls : call[c].phase = "refresh" =>
        /\ request[c] \in Exchange => request[c].user = Owner(call[c].using)
        /\ request[c] \in Reply => Owner(request[c].new) = Owner(call[c].using)

\* While the page starts its first check is the only call.
BootAlone ==
    /\ \A c \in Calls : call[c] # Off /\ call[c].kind = "boot" =>
          /\ loading /\ ~call[c].old /\ ~lateWrite /\ stored # NoToken
          /\ Owner(stored) = Owner(call[c].first)
          /\ Owner(Bearer(call[c])) = Owner(call[c].first)
          /\ \A d \in Calls \ {c} : call[d] = Off
    /\ loading => /\ react = NoToken /\ shown = {}
                  /\ \E c \in Calls : call[c] # Off /\ call[c].kind = "boot"

\* While a login is under way nobody is shown, and it is the only one.
LoginAlone ==
    \A c \in Calls : call[c] # Off /\ call[c].kind \in {"login", "profile"} =>
        /\ shown = {}
        /\ call[c].kind = "profile" => react # NoToken
        /\ \A d \in Calls \ {c} : call[d] # Off =>
              /\ call[d].kind \in {"page", "stray"}
              /\ call[d].old

\* A call of this session acts for the user whose token the pages use.
YoungCalls ==
    \A c \in Calls : call[c] # Off =>
        /\ call[c].kind = "stray" => call[c].old
        /\ call[c].kind = "page" /\ ~call[c].old => react # NoToken /\ shown # {}
        /\ call[c].kind \in {"page", "profile"} /\ ~call[c].old
               => Owner(Bearer(call[c])) = Owner(react)

\* A tab that shows, or is about to show, another user than the one whose
\* token the pages use has read a late pair, and no call can write one of the
\* session any more.
Mixed ==
    \/ react # NoToken /\ ~(shown \subseteq {Owner(react)})
    \/ \E c \in Calls : call[c] # Off /\ call[c].kind = "profile" /\ call[c].old

MixedIsLate ==
    Mixed => /\ stored = NoToken \/ lateWrite
             /\ \A c \in Calls : call[c] \in RefreshCall => call[c].old

PairOfSession ==
    ~loading /\ stored # NoToken /\ ~lateWrite
        => react # NoToken /\ Owner(stored) = Owner(react)

BrowserInv ==
    /\ BrowserShape /\ RefreshOfCall /\ BootAlone /\ LoginAlone
    /\ YoungCalls /\ MixedIsLate /\ PairOfSession

LEMMA Calling ==
    ASSUME NEW k \in CallShape
    PROVE  /\ k # Off <=> k \in LoginCall \cup SentCall \cup RefreshCall
           /\ k.phase = "login" <=> k \in LoginCall
           /\ k.phase = "sent" <=> k \in SentCall
           /\ k.phase \in {"asking", "refresh"} <=> k \in RefreshCall
           /\ k \in LoginCall <=> k # Off /\ k.kind = "login"
           /\ k # Off => k.kind \in Kinds \cup {"login"} /\ k.old \in BOOLEAN
           /\ k \in SentCall => k.kind \in Kinds /\ k.token \in Nat /\ k.first \in Nat
                                /\ Bearer(k) = k.token
           /\ k \in RefreshCall => k.kind \in Kinds /\ k.using \in Nat /\ k.first \in Nat
                                   /\ Bearer(k) = k.using
BY DEF CallShape, LoginCall, SentCall, RefreshCall, Off, Kinds, Bearer

\* Tokens are inserted for the account of their thread and stay with it.
LEMMA OwnersStay ==
    TypeInv /\ [Next]_sessionVars =>
        \A t \in DOMAIN token : t \in DOMAIN token' /\ token'[t].owner = token[t].owner
<1>. SUFFICES ASSUME TypeInv, [Next]_sessionVars
              PROVE  \A t \in DOMAIN token : t \in DOMAIN token' /\ token'[t].owner = token[t].owner
  OBVIOUS
<1>1. ASSUME NEW r \in Requests, ServerStep(r)
      PROVE  \A t \in DOMAIN token : t \in DOMAIN token' /\ token'[t].owner = token[t].owner
  <2>1. CASE RevokeOld(r) \/ ConfirmReset(r)
    BY <2>1, RevokeOldType, ConfirmType DEF OnlyRevokes
  <2>2. CASE IssueTokens(r)
    BY <2>2, IssueType
  <2>3. CASE AuditLogin(r) \/ StoreResetToken(r)
    BY <2>3 DEF AuditLogin, StoreResetToken, tables
  <2>. QED  BY <1>1, <2>1, <2>2, <2>3 DEF ServerStep
<1>2. ASSUME NEW t \in DOMAIN token, Logout(t)
      PROVE  \A s \in DOMAIN token : s \in DOMAIN token' /\ token'[s].owner = token[s].owner
  BY <1>2, LogoutType DEF OnlyRevokes
<1>3. ASSUME NEW r \in Requests,
             \/ \E u \in Users : BeginLogin(r, u) \/ BeginResetRequest(r, u)
             \/ \E t \in DOMAIN token : BeginRefresh(r, t)
             \/ \E k \in DOMAIN resetToken : BeginConfirm(r, k)
             \/ Answer(r)
             \/ Lose(r)
      PROVE  UNCHANGED token
  BY <1>3 DEF BeginLogin, BeginResetRequest, BeginRefresh, BeginConfirm, Answer, Lose, tables
<1>4. CASE Administration \/ UNCHANGED sessionVars
  <2>1. UNCHANGED token
    BY <1>4 DEF Administration, Register, SetActive, ExpireToken, ExpireResetToken,
                sessionVars, tables
  <2>. QED  BY <2>1
<1>. QED  BY <1>1, <1>2, <1>3, <1>4 DEF Next

\* How the thread of a call that waits goes on.
Continues(c) ==
    \/ request'[c] = request[c]
    \/ request'[c] = Idle
    \/ /\ request[c] \in Exchange
       /\ \/ request'[c] \in Exchange /\ request'[c].user = request[c].user
          \/ request'[c] \in Reply /\ token'[request'[c].new].owner = request[c].user
    \/ request[c] \in Reply /\ request'[c] \in Reply /\ request'[c].new = request[c].new

LEMMA ServerContinues ==
    ASSUME TypeInv, Server, NEW c \in Calls, call[c] # Off
    PROVE  Continues(c)
<1>0. c \in Requests
  BY ClientAssumption DEF ClientAssumption
<1>1. CASE Administration
  BY <1>1 DEF Administration, Register, SetActive, ExpireToken, ExpireResetToken, Continues
<1>2. ASSUME NEW r \in Requests, ServerStep(r)
      PROVE  Continues(c)
  <2>1. CASE RevokeOld(r)
    <3>. DEFINE q == [request[r] EXCEPT !.phase = "issue"]
    <3>1. request[r] \in Exchange /\ q \in Exchange /\ request' = [request EXCEPT ![r] = q]
      BY <2>1, RevokeOldType
    <3>2. q.user = request[r].user
      BY <3>1 DEF Exchange
    <3>. HIDE DEF q
    <3>. QED  BY <1>0, <3>1, <3>2 DEF Continues, TypeInv, Shape
  <2>2. CASE IssueTokens(r)
    <3>1. /\ request[r] \in Exchange /\ request'[r] \in Reply
          /\ token'[Len(token) + 1].owner = request[r].user
          /\ \A q \in Requests \ {r} : request'[q] = request[q]
      <4>1. token'[Len(token) + 1] =
               [owner |-> request[r].user, parent |-> request[r].parent, revoked |-> FALSE,
                proof |-> request[r].proof, late |-> request[r].late]
        BY <2>2, IssueType
      <4>2. token'[Len(token) + 1].owner = request[r].user
        BY <4>1
      <4>. QED  BY <2>2, <4>2, IssueType
    <3>2. request'[r].new = Len(token) + 1
      BY <2>2 DEF IssueTokens, TypeInv, Shape
    <3>. QED  BY <1>0, <3>1, <3>2 DEF Continues
  <2>3. CASE AuditLogin(r)
    <3>1. request[r] \in Reply
      BY <2>3, Phases DEF AuditLogin, TypeInv, Shape
    <3>. DEFINE q == [request[r] EXCEPT !.phase = "answered"]
    <3>2. q \in Reply /\ q.new = request[r].new
      BY <3>1 DEF Reply
    <3>3. request' = [request EXCEPT ![r] = q]
      BY <2>3 DEF AuditLogin
    <3>. HIDE DEF q
    <3>. QED  BY <1>0, <3>1, <3>2, <3>3 DEF Continues, TypeInv, Shape
  <2>4. CASE StoreResetToken(r)
    BY <1>0, <2>4 DEF StoreResetToken, Continues, TypeInv, Shape
  <2>5. CASE ConfirmReset(r)
    <3>1. request'[r] = Idle
          /\ \A q \in Requests \ {r} :
                /\ request[q] \notin Exchange => request'[q] = request[q]
                /\ request[q] \in Exchange =>
                      request'[q] \in Exchange /\ request'[q].user = request[q].user
      BY <2>5, ConfirmType
    <3>. QED  BY <1>0, <3>1 DEF Continues
  <2>. QED  BY <1>2, <2>1, <2>2, <2>3, <2>4, <2>5 DEF ServerStep
<1>3. ASSUME NEW r \in Requests \ Calls,
             \/ \E u \in Users : BeginLogin(r, u) \/ BeginResetRequest(r, u)
             \/ \E t \in DOMAIN token : BeginRefresh(r, t)
             \/ \E k \in DOMAIN resetToken : BeginConfirm(r, k)
             \/ Answer(r)
      PROVE  Continues(c)
  BY <1>0, <1>3 DEF BeginLogin, BeginResetRequest, BeginRefresh, BeginConfirm, Answer,
                    Continues, TypeInv, Shape
<1>4. ASSUME NEW d \in Calls, call[d] = Off, Answer(d)
      PROVE  Continues(c)
  BY <1>0, <1>4 DEF Answer, Continues, TypeInv, Shape
<1>. QED  BY <1>1, <1>2, <1>3, <1>4 DEF Server

\* The browser stands still.
LEMMA BrowserKept ==
    ASSUME TypeInv, BrowserInv,
           UNCHANGED <<stored, react, shown, loading, call, lateWrite>>,
           \A t \in DOMAIN token : t \in DOMAIN token' /\ token'[t].owner = token[t].owner,
           \A c \in Calls : call[c].phase = "refresh" => Continues(c)
    PROVE  BrowserInv'
<1>1. \A c \in Calls : call[c] \in RefreshCall => call[c].using \in DOMAIN token
  BY Calling DEF BrowserInv, BrowserShape
<1>2. \A c \in Calls : call[c] \in SentCall \cup RefreshCall =>
          Bearer(call[c]) \in DOMAIN token /\ call[c].first \in DOMAIN token
  BY DEF BrowserInv, BrowserShape
<1>3. UNCHANGED <<stored, react, shown, loading, call, lateWrite>>
  OBVIOUS
<1>4. \A c \in Calls : call[c] \in CallShape
  BY DEF BrowserInv, BrowserShape
<1>5. BrowserShape'
  BY <1>2, <1>3 DEF BrowserInv, BrowserShape, Bearer
<1>6. RefreshOfCall'
  <2>. SUFFICES ASSUME NEW c \in Calls, call[c].phase = "refresh"
                PROVE  /\ request'[c] \in Exchange => request'[c].user = Owner(call[c].using)'
                       /\ request'[c] \in Reply => Owner(request[c].new)' = Owner(call[c].using)'
    BY <1>3 DEF RefreshOfCall
  <2>1. Continues(c) /\ call[c].using \in DOMAIN token /\ c \in Requests
    BY <1>1, <1>4, Calling, ClientAssumption DEF ClientAssumption
  <2>2. Owner(call[c].using)' = Owner(call[c].using)
    BY <1>3, <2>1 DEF Owner
  <2>3. /\ request[c] \in Exchange => request[c].user = Owner(call[c].using)
        /\ request[c] \in Reply => Owner(request[c].new) = Owner(call[c].using)
    BY DEF BrowserInv, RefreshOfCall
  <2>4. request[c] \in Reply => request[c].new \in DOMAIN token
    BY <2>1, Phases DEF TypeInv, Shape, NamesRows
  <2>5. Idle \notin Exchange /\ Idle \notin Reply
        /\ \A x : ~(x \in Exchange /\ x \in Reply)
    BY DEF Idle, Exchange, Reply
  <2>. QED  BY <2>1, <2>2, <2>3, <2>4, <2>5 DEF Continues, Owner
<1>7. \A c \in Calls : call[c] # Off /\ call[c].kind \in Kinds =>
          call[c] \in SentCall \cup RefreshCall
  BY <1>4, Calling DEF Kinds
<1>8. BootAlone'
  <2>1. ASSUME NEW c \in Calls, call[c] # Off, call[c].kind = "boot"
        PROVE  /\ Owner(stored)' = Owner(stored) /\ Owner(call[c].first)' = Owner(call[c].first)
               /\ Owner(Bearer(call[c]))' = Owner(Bearer(call[c]))
    BY <1>2, <1>3, <1>7, <2>1 DEF BrowserInv, BootAlone, BrowserShape, Owner, Bearer, Kinds
  <2>. QED  BY <1>3, <2>1 DEF BrowserInv, BootAlone
<1>9. LoginAlone'
  BY <1>3 DEF BrowserInv, LoginAlone
<1>10. react # NoToken => Owner(react)' = Owner(react)
  BY <1>3 DEF BrowserInv, BrowserShape, Owner
<1>11. YoungCalls'
  <2>1. ASSUME NEW c \in Calls, call[c] # Off, call[c].kind \in {"page", "profile"}, ~call[c].old
        PROVE  Owner(Bearer(call[c]))' = Owner(react)'
    <3>1. react # NoToken
      BY <2>1 DEF BrowserInv, LoginAlone, YoungCalls
    <3>2. Owner(Bearer(call[c]))' = Owner(Bearer(call[c]))
      BY <1>2, <1>3, <1>7, <2>1 DEF Owner, Bearer, Kinds
    <3>. QED  BY <1>10, <2>1, <3>1, <3>2 DEF BrowserInv, YoungCalls
  <2>. QED  BY <1>3, <2>1 DEF BrowserInv, YoungCalls
<1>12. MixedIsLate'
  BY <1>3, <1>10 DEF BrowserInv, MixedIsLate, Mixed
<1>13. PairOfSession'
  <2>1. stored # NoToken => Owner(stored)' = Owner(stored)
    BY <1>3 DEF BrowserInv, BrowserShape, Owner
  <2>. QED  BY <1>3, <1>10, <2>1 DEF BrowserInv, PairOfSession
<1>. QED  BY <1>5, <1>6, <1>8, <1>9, <1>11, <1>12, <1>13 DEF BrowserInv

\* The step of a call: the tokens, the other calls and their threads stay.
Alone(c) ==
    /\ UNCHANGED token
    /\ c \in Calls
    /\ call' = [call EXCEPT ![c] = call'[c]]
    /\ \A d \in Calls \ {c} : call'[d] = call[d] /\ request'[d] = request[d]

\* A call comes to its end.
LEMMA CallEnds ==
    ASSUME BrowserInv, NEW c \in Calls, call[c] # Off, Alone(c), call'[c] = Off,
           UNCHANGED <<react, shown>>,
           call[c].kind = "boot" => stored' = NoToken /\ loading' = FALSE,
           call[c].kind # "boot" => loading' = loading,
           \/ stored' = stored /\ lateWrite' = lateWrite
           \/ stored' = NoToken /\ lateWrite' = FALSE
    PROVE  BrowserInv'
<1>1. /\ \A d \in Calls : call[d] \in CallShape /\ call'[d] \in CallShape
      /\ DOMAIN call' = Calls /\ call' \in [Calls -> CallShape]
      /\ Off.phase = "off" /\ Off \notin SentCall \cup RefreshCall
  BY DEF Alone, BrowserInv, BrowserShape, CallShape, Off, SentCall, RefreshCall
<1>2. \A t : Owner(t)' = Owner(t)
  BY DEF Alone, Owner
<1>3. \A d \in Calls : d # c => call'[d] = call[d] /\ request'[d] = request[d]
  BY DEF Alone
<1>4. BrowserShape'
  <2>1. loading' \in BOOLEAN /\ lateWrite' \in BOOLEAN
    BY DEF BrowserInv, BrowserShape
  <2>2. /\ stored' \in DOMAIN token' \cup {NoToken} /\ react' \in DOMAIN token' \cup {NoToken}
        /\ token' = token
    BY DEF Alone, BrowserInv, BrowserShape
  <2>3. ASSUME NEW d \in Calls, call'[d] \in SentCall \cup RefreshCall
        PROVE  Bearer(call'[d]) \in DOMAIN token' /\ call'[d].first \in DOMAIN token'
    BY <1>1, <1>3, <2>2, <2>3 DEF BrowserInv, BrowserShape, Bearer
  <2>. QED  BY <1>1, <2>1, <2>2, <2>3 DEF BrowserShape, Bearer
<1>5. RefreshOfCall'
  BY <1>1, <1>2, <1>3 DEF BrowserInv, RefreshOfCall
<1>6. loading' => loading /\ call[c].kind # "boot"
  BY DEF BrowserInv, BootAlone
<1>7. BootAlone'
  <2>1. ASSUME NEW d \in Calls, call[d] # Off, call[d].kind = "boot"
        PROVE  d = c
    BY <2>1 DEF BrowserInv, BootAlone
  <2>2. ~loading'
    BY <1>6, <2>1 DEF BrowserInv, BootAlone
  <2>. QED  BY <1>3, <2>1, <2>2 DEF BootAlone
<1>8. LoginAlone'
  BY <1>3 DEF BrowserInv, LoginAlone
<1>9. YoungCalls'
  BY <1>2, <1>3 DEF BrowserInv, YoungCalls, Bearer
<1>10. MixedIsLate'
  <2>1. Mixed' => Mixed
    BY <1>2, <1>3 DEF Mixed
  <2>. QED  BY <1>1, <1>3, <2>1 DEF BrowserInv, MixedIsLate
<1>11. PairOfSession'
  BY <1>2 DEF BrowserInv, PairOfSession, BootAlone
<1>. QED  BY <1>4, <1>5, <1>7, <1>8, <1>9, <1>10, <1>11 DEF BrowserInv

\* The page begins: its first check is the only call.
LEMMA LoadKeeps ==
    ASSUME TypeInv, BrowserInv, NEW c \in Calls, Load(c)
    PROVE  BrowserInv'
<1>. DEFINE k == Sent("boot", stored)
<1>1. /\ call' = [d \in Calls |-> IF d = c /\ stored # NoToken THEN k ELSE Off]
      /\ loading' = (stored # NoToken) /\ react' = NoToken /\ shown' = {}
      /\ lateWrite' = FALSE /\ stored' = stored /\ token' = token
  BY DEF Load, sessionVars, tables
<1>2. stored # NoToken => k \in SentCall
  <2>1. stored # NoToken => stored \in Nat
    BY TokenRows DEF BrowserInv, BrowserShape, TypeInv
  <2>. QED  BY <2>1 DEF SentCall, Sent, Kinds
<1>3. k.kind = "boot" /\ k.old = FALSE /\ k.phase = "sent" /\ k.token = stored /\ k.first = stored
  BY DEF Sent
<1>. HIDE DEF k
<1>4. \A t : Owner(t)' = Owner(t)
  BY <1>1 DEF Owner
<1>5. Off.phase = "off" /\ Off \notin SentCall \cup RefreshCall /\ k # Off
  BY <1>3 DEF Off, SentCall, RefreshCall
<1>6. \A d \in Calls : call'[d] = IF d = c /\ stored # NoToken THEN k ELSE Off
  BY <1>1
<1>7. BrowserShape'
  <2>1. call' \in [Calls -> CallShape]
    BY <1>1, <1>2 DEF CallShape
  <2>2. \A d \in Calls : call'[d] \in SentCall \cup RefreshCall
                             => Bearer(call'[d]) = stored /\ call'[d].first = stored /\ stored # NoToken
    BY <1>3, <1>5, <1>6 DEF Bearer
  <2>. QED  BY <1>1, <2>1, <2>2 DEF BrowserInv, BrowserShape
<1>8. RefreshOfCall'
  BY <1>3, <1>5, <1>6 DEF RefreshOfCall
<1>9. BootAlone'
  BY <1>1, <1>3, <1>4, <1>5, <1>6 DEF BootAlone, Bearer
<1>10. LoginAlone' /\ YoungCalls'
  BY <1>3, <1>6 DEF LoginAlone, YoungCalls
<1>11. MixedIsLate' /\ PairOfSession'
  BY <1>1, <1>3, <1>6 DEF MixedIsLate, Mixed, PairOfSession
<1>. QED  BY <1>7, <1>8, <1>9, <1>10, <1>11 DEF BrowserInv

\* Credentials are sent.
LEMMA LoginKeeps ==
    ASSUME TypeInv, BrowserInv, NEW c \in Calls, NEW u \in Users, Login(c, u)
    PROVE  BrowserInv'
<1>. DEFINE k == [phase |-> "login", kind |-> "login", old |-> FALSE]
<1>1. /\ call' = [call EXCEPT ![c] = k] /\ token' = token
      /\ UNCHANGED <<stored, react, shown, loading, lateWrite>>
      /\ call[c] = Off /\ ~loading /\ shown = {}
      /\ \A d \in Calls : call[d] # Off => call[d].kind \notin {"login", "profile"}
      /\ \A d \in Requests \ {c} : request'[d] = request[d]
  BY ClientAssumption DEF Login, Free, BeginLogin, tables, TypeInv, Shape, ClientAssumption
<1>2. k \in LoginCall /\ k.phase = "login" /\ k.kind = "login"
  BY DEF LoginCall
<1>. HIDE DEF k
<1>3. \A t : Owner(t)' = Owner(t)
  BY <1>1 DEF Owner
<1>4. /\ \A d \in Calls : call[d] \in CallShape
      /\ k \notin SentCall \cup RefreshCall
      /\ \A d \in Calls : d # c => call'[d] = call[d] /\ request'[d] = request[d]
      /\ call'[c] = k
  BY <1>1, <1>2, ClientAssumption
  DEF BrowserInv, BrowserShape, SentCall, RefreshCall, LoginCall, ClientAssumption
<1>5. BrowserShape'
  BY <1>1, <1>2, <1>4 DEF BrowserInv, BrowserShape, CallShape, Bearer
<1>6. RefreshOfCall'
  BY <1>2, <1>3, <1>4 DEF BrowserInv, RefreshOfCall
<1>7. BootAlone'
  BY <1>1, <1>2, <1>4 DEF BrowserInv, BootAlone
<1>8. LoginAlone'
  <2>1. ASSUME NEW d \in Calls, d # c, call[d] # Off
        PROVE  call[d].kind \in {"page", "stray"} /\ call[d].old
    <3>1. call[d].kind \in Kinds \cup {"login"} /\ call[d].old \in BOOLEAN
      BY <1>4, <2>1, Calling
    <3>2. call[d].kind # "boot" /\ call[d].kind # "login" /\ call[d].kind # "profile"
      BY <1>1, <2>1 DEF BrowserInv, BootAlone
    <3>. QED  BY <1>1, <2>1, <3>1, <3>2 DEF BrowserInv, YoungCalls, Kinds
  <2>. QED  BY <1>1, <1>2, <1>4, <2>1 DEF LoginAlone
<1>9. YoungCalls'
  BY <1>1, <1>2, <1>3, <1>4 DEF BrowserInv, YoungCalls, Bearer
<1>10. MixedIsLate'
  <2>1. Mixed' => Mixed
    BY <1>1, <1>2, <1>3, <1>4 DEF Mixed
  <2>. QED  BY <1>1, <1>4, <2>1 DEF BrowserInv, MixedIsLate
<1>11. PairOfSession'
  BY <1>1, <1>3 DEF BrowserInv, PairOfSession
<1>. QED  BY <1>5, <1>6, <1>7, <1>8, <1>9, <1>10, <1>11 DEF BrowserInv

\* The tokens of a login are kept: a session begins.
LEMMA LoggedInKeeps ==
    ASSUME TypeInv, BrowserInv, NEW c \in Calls, LoggedIn(c)
    PROVE  BrowserInv'
<1>0. PICK n : n = request[c].new
  OBVIOUS
<1>. DEFINE k == Sent("profile", n)
<1>1. /\ call' = [call EXCEPT ![c] = k] /\ token' = token
      /\ stored' = n /\ react' = n /\ lateWrite' = FALSE /\ UNCHANGED <<shown, loading>>
      /\ call[c].phase = "login"
      /\ \A d \in Requests \ {c} : request'[d] = request[d]
  BY <1>0, ClientAssumption DEF LoggedIn, Answer, tables, TypeInv, Shape, ClientAssumption
<1>2. n \in DOMAIN token /\ n \in Nat /\ n # NoToken
  BY <1>0, TokenRows, ClientAssumption
  DEF LoggedIn, TypeInv, NamesRows, ClientAssumption, NoToken
<1>3. /\ k \in SentCall /\ k.kind = "profile" /\ k.old = FALSE /\ k.phase = "sent"
      /\ k.token = n /\ k.first = n /\ Bearer(k) = n
  BY <1>2 DEF Sent, SentCall, Kinds, Bearer
<1>. HIDE DEF k
<1>4. \A t : Owner(t)' = Owner(t)
  BY <1>1 DEF Owner
<1>5. /\ \A d \in Calls : call[d] \in CallShape
      /\ call[c] # Off /\ call[c].kind = "login" /\ k # Off /\ k \notin RefreshCall
      /\ \A d \in Calls : d # c => call'[d] = call[d] /\ request'[d] = request[d]
      /\ call'[c] = k
  <2>1. \A d \in Calls : call[d] \in CallShape
    BY DEF BrowserInv, BrowserShape
  <2>2. call[c] # Off /\ call[c].kind = "login"
    BY <1>1, <2>1, Calling
  <2>3. k # Off /\ k \notin RefreshCall
    BY <1>3 DEF Off, RefreshCall
  <2>. QED  BY <1>1, <2>1, <2>2, <2>3, ClientAssumption
            DEF BrowserInv, BrowserShape, ClientAssumption
<1>6. /\ shown = {}
      /\ \A d \in Calls : d # c /\ call[d] # Off => call[d].kind \in {"page", "stray"} /\ call[d].old
  BY <1>5 DEF BrowserInv, LoginAlone
<1>7. ~loading
  BY <1>5, <1>6 DEF BrowserInv, BootAlone
<1>8. BrowserShape'
  BY <1>1, <1>2, <1>3, <1>5 DEF BrowserInv, BrowserShape, CallShape, Bearer
<1>9. RefreshOfCall'
  BY <1>3, <1>4, <1>5 DEF BrowserInv, RefreshOfCall
<1>10. BootAlone'
  BY <1>1, <1>3, <1>5, <1>6, <1>7 DEF BootAlone
<1>11. LoginAlone'
  BY <1>1, <1>2, <1>3, <1>5, <1>6 DEF LoginAlone
<1>12. YoungCalls'
  BY <1>1, <1>2, <1>3, <1>5, <1>6 DEF YoungCalls, Bearer
<1>13. MixedIsLate'
  <2>1. ~Mixed'
    BY <1>1, <1>3, <1>5, <1>6 DEF Mixed
  <2>. QED  BY <2>1 DEF MixedIsLate
<1>14. PairOfSession'
  BY <1>1, <1>2 DEF PairOfSession
<1>. QED  BY <1>8, <1>9, <1>10, <1>11, <1>12, <1>13, <1>14 DEF BrowserInv

\* A call goes on, with the account it was for, and the rest of the tab stays.
LEMMA CallGoesOn ==
    ASSUME BrowserInv, NEW c \in Calls, call[c] \in SentCall \cup RefreshCall, Alone(c),
           UNCHANGED <<stored, react, shown, loading, lateWrite>>,
           call'[c] \in SentCall \cup RefreshCall,
           call'[c].kind = call[c].kind, call'[c].first = call[c].first,
           Bearer(call'[c]) \in DOMAIN token,
           \/ call'[c].old = call[c].old /\ Owner(Bearer(call'[c])) = Owner(Bearer(call[c]))
           \/ /\ call'[c].old = (call[c].old \/ lateWrite) /\ stored # NoToken
              /\ Bearer(call'[c]) = stored,
           call'[c].phase = "refresh" =>
              /\ request'[c] \in Exchange => request'[c].user = Owner(call'[c].using)
              /\ request'[c] \in Reply => Owner(request'[c].new) = Owner(call'[c].using),
           call'[c] \in RefreshCall =>
              \/ call[c] \in RefreshCall
              \/ call'[c].old = (call[c].old \/ lateWrite) /\ stored # NoToken
    PROVE  BrowserInv'
<1>1. /\ \A t : Owner(t)' = Owner(t)
      /\ \A d \in Calls : d # c => call'[d] = call[d] /\ request'[d] = request[d]
      /\ \A d \in Calls : call[d] \in CallShape
      /\ call' = [call EXCEPT ![c] = call'[c]] /\ call' \in [Calls -> CallShape]
      /\ token' = token
  BY DEF Alone, Owner, BrowserInv, BrowserShape, CallShape
<1>2. /\ call[c] # Off /\ call'[c] # Off /\ call[c].kind \in Kinds
      /\ call[c].old \in BOOLEAN /\ lateWrite \in BOOLEAN /\ loading \in BOOLEAN
  BY <1>1, Calling DEF BrowserInv, BrowserShape, Off, SentCall, RefreshCall
<1>3. call[c].kind = "boot" => Owner(Bearer(call'[c])) = Owner(call'[c].first) /\ ~call'[c].old
  BY <1>2 DEF BrowserInv, BootAlone
<1>4. call[c].old => call'[c].old
  BY <1>2
<1>5. call[c].kind # "boot" /\ stored # NoToken /\ ~lateWrite => Owner(stored) = Owner(react)
  BY <1>2 DEF BrowserInv, BootAlone, PairOfSession
<1>6. BrowserShape'
  <2>1. ASSUME NEW d \in Calls, call'[d] \in SentCall \cup RefreshCall
        PROVE  Bearer(call'[d]) \in DOMAIN token' /\ call'[d].first \in DOMAIN token'
    <3>1. CASE d = c
      BY <1>1, <3>1 DEF BrowserInv, BrowserShape, Bearer
    <3>2. CASE d # c
      BY <1>1, <2>1, <3>2 DEF BrowserInv, BrowserShape, Bearer
    <3>. QED  BY <3>1, <3>2
  <2>. QED  BY <1>1, <2>1 DEF BrowserInv, BrowserShape, Bearer
<1>7. RefreshOfCall'
  <2>1. ASSUME NEW d \in Calls, call'[d].phase = "refresh"
        PROVE  /\ request'[d] \in Exchange => request'[d].user = Owner(call'[d].using)
               /\ request'[d] \in Reply => Owner(request'[d].new) = Owner(call'[d].using)
    BY <1>1, <2>1 DEF BrowserInv, RefreshOfCall
  <2>. QED  BY <1>1, <2>1 DEF RefreshOfCall, Owner
<1>8. BootAlone'
  <2>1. ASSUME NEW d \in Calls, call'[d] # Off, call'[d].kind = "boot"
        PROVE  /\ loading /\ ~call'[d].old /\ ~lateWrite /\ stored # NoToken
               /\ Owner(stored) = Owner(call'[d].first)
               /\ Owner(Bearer(call'[d])) = Owner(call'[d].first)
               /\ \A e \in Calls \ {d} : call'[e] = Off
    <3>1. CASE d = c
      BY <1>1, <1>2, <1>3, <2>1, <3>1 DEF BrowserInv, BootAlone
    <3>2. CASE d # c
      BY <1>1, <1>2, <2>1, <3>2 DEF BrowserInv, BootAlone
    <3>. QED  BY <3>1, <3>2
  <2>2. loading => react = NoToken /\ shown = {} /\ \E d \in Calls : call'[d] # Off /\ call'[d].kind = "boot"
    BY <1>1, <1>2 DEF BrowserInv, BootAlone
  <2>. QED  BY <1>1, <2>1, <2>2 DEF BootAlone, Owner, Bearer
<1>9. LoginAlone'
  BY <1>1, <1>2, <1>4 DEF BrowserInv, LoginAlone
<1>10. YoungCalls'
  <2>1. ASSUME NEW d \in Calls, call'[d] # Off
        PROVE  /\ call'[d].kind = "stray" => call'[d].old
               /\ call'[d].kind = "page" /\ ~call'[d].old => react # NoToken /\ shown # {}
               /\ call'[d].kind \in {"page", "profile"} /\ ~call'[d].old
                      => Owner(Bearer(call'[d])) = Owner(react)
    <3>1. CASE d = c
      <4>1. call'[c].kind = "stray" => call'[c].old
        BY <1>2, <1>4 DEF BrowserInv, YoungCalls
      <4>2. call'[c].kind = "page" /\ ~call'[c].old => react # NoToken /\ shown # {}
        BY <1>2, <1>4 DEF BrowserInv, YoungCalls
      <4>3. ASSUME call'[c].kind \in {"page", "profile"}, ~call'[c].old
            PROVE  Owner(Bearer(call'[c])) = Owner(react)
        BY <1>2, <1>4, <1>5, <4>3 DEF BrowserInv, YoungCalls
      <4>. QED  BY <3>1, <4>1, <4>2, <4>3
    <3>2. CASE d # c
      BY <1>1, <2>1, <3>2 DEF BrowserInv, YoungCalls
    <3>. QED  BY <3>1, <3>2
  <2>. QED  BY <1>1, <2>1 DEF YoungCalls, Owner, Bearer
<1>11. MixedIsLate'
  <2>. SUFFICES ASSUME Mixed'
                PROVE  /\ stored = NoToken \/ lateWrite
                       /\ \A d \in Calls : call'[d] \in RefreshCall => call'[d].old
    BY DEF MixedIsLate
  <2>1. CASE Mixed
    <3>1. stored = NoToken \/ lateWrite
      BY <2>1 DEF BrowserInv, MixedIsLate
    <3>2. \A d \in Calls : call[d] \in RefreshCall => call[d].old
      BY <2>1 DEF BrowserInv, MixedIsLate
    <3>3. call'[c] \in RefreshCall => call'[c].old
      <4>. SUFFICES ASSUME call'[c] \in RefreshCall, ~(call[c] \in RefreshCall)
                    PROVE  call'[c].old
        BY <1>4, <3>2
      <4>1. call'[c].old = (call[c].old \/ lateWrite) /\ stored # NoToken
        OBVIOUS
      <4>. QED  BY <3>1, <4>1
    <3>. QED  BY <1>1, <3>1, <3>2, <3>3
  <2>2. CASE ~Mixed
    <3>1. call[c].kind = "profile" /\ ~call[c].old /\ call'[c].old
      BY <1>1, <1>2, <2>2 DEF Mixed
    <3>2. call'[c].old = (call[c].old \/ lateWrite) /\ lateWrite
      BY <1>2, <3>1
    <3>3. \A d \in Calls : d # c /\ call[d] # Off => call[d].old
      BY <1>2, <3>1 DEF BrowserInv, LoginAlone
    <3>4. \A d \in Calls : call[d] \in RefreshCall => call[d] # Off
      BY DEF RefreshCall, Off
    <3>. QED  BY <1>1, <3>1, <3>2, <3>3, <3>4
  <2>. QED  BY <2>1, <2>2
<1>12. PairOfSession'
  BY <1>1 DEF BrowserInv, PairOfSession
<1>. QED  BY <1>6, <1>7, <1>8, <1>9, <1>10, <1>11, <1>12 DEF BrowserInv

LEMMA AloneCall ==
    ASSUME BrowserInv, NEW c \in Calls, NEW k, UNCHANGED <<token, request>>,
           call' = [call EXCEPT ![c] = k]
    PROVE  Alone(c) /\ call'[c] = k
BY DEF Alone, BrowserInv, BrowserShape

LEMMA LostKeeps ==
    ASSUME BrowserInv, NEW c \in Calls, Lost(c) \/ RefreshRefused(c)
    PROVE  BrowserInv'
<1>1. UNCHANGED <<token, request, react, shown>> /\ call' = [call EXCEPT ![c] = Off]
  BY DEF Lost, RefreshRefused, sessionVars, tables
<1>2. Alone(c) /\ call'[c] = Off
  BY <1>1, AloneCall
<1>3. call[c] # Off
  BY DEF Lost, RefreshRefused, Off
<1>4. loading \in BOOLEAN
  BY DEF BrowserInv, BrowserShape
<1>5. CASE Lost(c)
  BY <1>1, <1>2, <1>3, <1>5, CallEnds DEF Lost, Failed
<1>6. CASE RefreshRefused(c)
  <2>1. stored' = NoToken /\ lateWrite' = FALSE
        /\ loading' = (loading /\ call[c].kind # "boot")
    BY <1>6 DEF RefreshRefused, Emptied
  <2>2. call[c].kind = "boot" => loading' = FALSE
    BY <2>1
  <2>3. call[c].kind # "boot" => loading' = loading
    BY <1>4, <2>1
  <2>. QED  BY <1>1, <1>2, <1>3, <2>1, <2>2, <2>3, CallEnds
<1>. QED  BY <1>5, <1>6

LEMMA DeniedKeeps ==
    ASSUME TypeInv, BrowserInv, NEW c \in Calls, Denied(c)
    PROVE  BrowserInv'
<1>1. UNCHANGED <<token, request, react, shown>> /\ call[c] \in SentCall /\ call[c] # Off
  BY Calling DEF Denied, sessionVars, tables, BrowserInv, BrowserShape, Off
<1>2. CASE stored # NoToken /\ ~call[c].retried
  <2>. DEFINE k == [phase |-> "asking", kind |-> call[c].kind, first |-> call[c].first,
                    using |-> stored, old |-> call[c].old \/ lateWrite]
  <2>1. call' = [call EXCEPT ![c] = k] /\ UNCHANGED <<stored, loading, lateWrite>>
    BY <1>2 DEF Denied
  <2>2. stored \in DOMAIN token /\ stored \in Nat
    BY <1>2, TokenRows DEF BrowserInv, BrowserShape, TypeInv
  <2>3. k \in RefreshCall
    BY <1>1, <2>2 DEF SentCall, RefreshCall, BrowserInv, BrowserShape
  <2>4. k.kind = call[c].kind /\ k.first = call[c].first /\ Bearer(k) = stored
        /\ k.old = (call[c].old \/ lateWrite) /\ k.phase = "asking"
    BY DEF Bearer
  <2>. HIDE DEF k
  <2>5. Alone(c) /\ call'[c] = k
    BY <1>1, <2>1, AloneCall
  <2>6. /\ call[c] \in SentCall \cup RefreshCall /\ call'[c] \in SentCall \cup RefreshCall
        /\ UNCHANGED <<stored, react, shown, loading, lateWrite>>
        /\ call'[c].kind = call[c].kind /\ call'[c].first = call[c].first
        /\ Bearer(call'[c]) \in DOMAIN token
        /\ call'[c].old = (call[c].old \/ lateWrite) /\ stored # NoToken
        /\ Bearer(call'[c]) = stored /\ call'[c].phase # "refresh"
    BY <1>1, <1>2, <2>1, <2>2, <2>3, <2>4, <2>5
  <2>. QED  BY <2>5, <2>6, CallGoesOn, Zenon
<1>3. CASE ~(stored # NoToken /\ ~call[c].retried)
  <2>1. Failed(c) /\ call' = [call EXCEPT ![c] = Off]
    BY <1>3 DEF Denied
  <2>2. Alone(c) /\ call'[c] = Off
    BY <1>1, <2>1, AloneCall
  <2>. QED  BY <1>1, <2>1, <2>2, CallEnds DEF Failed
<1>. QED  BY <1>2, <1>3

LEMMA TakenKeeps ==
    ASSUME TypeInv, BrowserInv, NEW c \in Calls, RefreshTaken(c)
    PROVE  BrowserInv'
<1>. DEFINE k == [call[c] EXCEPT !.phase = "refresh"]
            t == call[c].using
<1>1. call[c] \in RefreshCall
  BY Calling DEF RefreshTaken, BrowserInv, BrowserShape
<1>2. /\ k \in RefreshCall /\ k.kind = call[c].kind /\ k.first = call[c].first
      /\ k.old = call[c].old /\ k.using = t /\ Bearer(k) = t /\ Bearer(call[c]) = t
  BY <1>1 DEF RefreshCall, Bearer
<1>3. /\ call' = [call EXCEPT ![c] = k]
      /\ UNCHANGED <<stored, react, shown, loading, lateWrite, token>>
  BY DEF RefreshTaken, BeginRefresh, tables
<1>. HIDE DEF k
<1>4. c \in Requests
  BY ClientAssumption DEF ClientAssumption
<1>5. /\ \A r \in Requests \ {c} : request'[r] = request[r]
      /\ request'[c].phase = "revoke" /\ request'[c].user = Owner(t)
  BY <1>4 DEF RefreshTaken, BeginRefresh, Owner, TypeInv, Shape
<1>6. request'[c] \notin Reply
  BY <1>5 DEF Reply
<1>7. Alone(c) /\ call'[c] = k
  BY <1>3, <1>5, ClientAssumption DEF Alone, BrowserInv, BrowserShape, ClientAssumption
<1>8. t \in DOMAIN token
  BY <1>1, <1>2 DEF BrowserInv, BrowserShape
<1>9. /\ call[c] \in SentCall \cup RefreshCall /\ call'[c] \in SentCall \cup RefreshCall
      /\ UNCHANGED <<stored, react, shown, loading, lateWrite>>
      /\ call'[c].kind = call[c].kind /\ call'[c].first = call[c].first
      /\ Bearer(call'[c]) \in DOMAIN token
      /\ call'[c].old = call[c].old /\ Owner(Bearer(call'[c])) = Owner(Bearer(call[c]))
      /\ request'[c].user = Owner(call'[c].using)
  BY <1>1, <1>2, <1>3, <1>5, <1>7, <1>8
<1>. QED  BY <1>1, <1>6, <1>7, <1>9, CallGoesOn, Zenon

\* A page asks with the token the pages use.
LEMMA AskKeeps ==
    ASSUME TypeInv, BrowserInv, NEW c \in Calls, Ask(c)
    PROVE  BrowserInv'
<1>. DEFINE k == Sent("page", react)
<1>1. /\ UNCHANGED <<token, request, stored, react, shown, loading, lateWrite>>
      /\ call' = [call EXCEPT ![c] = k] /\ react # NoToken /\ shown # {} /\ call[c] = Off
  BY DEF Ask, Free, sessionVars, tables
<1>2. react \in DOMAIN token /\ react \in Nat
  BY <1>1, TokenRows DEF BrowserInv, BrowserShape, TypeInv
<1>3. /\ k \in SentCall /\ k.kind = "page" /\ k.old = FALSE /\ k.phase = "sent"
      /\ k.first = react /\ Bearer(k) = react /\ k # Off /\ k \notin RefreshCall
  BY <1>2 DEF Sent, SentCall, RefreshCall, Kinds, Bearer, Off
<1>. HIDE DEF k
<1>4. Alone(c) /\ call'[c] = k
  BY <1>1, AloneCall
<1>5. /\ \A t : Owner(t)' = Owner(t)
      /\ \A d \in Calls : d # c => call'[d] = call[d] /\ request'[d] = request[d]
  BY <1>4 DEF Alone, Owner
<1>6. BrowserShape'
  BY <1>1, <1>2, <1>3, <1>4, <1>5 DEF BrowserInv, BrowserShape, CallShape, Bearer
<1>7. RefreshOfCall'
  BY <1>3, <1>4, <1>5 DEF BrowserInv, RefreshOfCall
<1>8. BootAlone'
  BY <1>1, <1>3, <1>4, <1>5 DEF BrowserInv, BootAlone
<1>9. LoginAlone'
  BY <1>1, <1>3, <1>4, <1>5 DEF BrowserInv, LoginAlone
<1>10. YoungCalls'
  BY <1>1, <1>3, <1>4, <1>5 DEF BrowserInv, YoungCalls, Bearer
<1>11. MixedIsLate'
  <2>1. Mixed' => Mixed
    BY <1>1, <1>3, <1>4, <1>5 DEF Mixed
  <2>. QED  BY <1>1, <1>3, <1>4, <1>5, <2>1 DEF BrowserInv, MixedIsLate
<1>12. PairOfSession'
  BY <1>1, <1>5 DEF BrowserInv, PairOfSession
<1>. QED  BY <1>6, <1>7, <1>8, <1>9, <1>10, <1>11, <1>12 DEF BrowserInv

\* The caller gives up: the pair of a start is gone, and the call goes on as a
\* stray one.
LEMMA GiveUpKeeps ==
    ASSUME BrowserInv, NEW c \in Calls, GiveUp(c)
    PROVE  BrowserInv'
<1>1. /\ UNCHANGED <<token, request, react, shown>> /\ call[c] # Off /\ Failed(c)
      /\ call[c].kind \in {"boot", "profile", "login"}
      /\ \A d \in Calls : call[d] \in CallShape
  BY DEF GiveUp, sessionVars, tables, BrowserInv, BrowserShape
<1>2. CASE call[c].phase = "login"
  <2>1. call' = [call EXCEPT ![c] = Off]
    BY <1>2 DEF GiveUp
  <2>2. Alone(c) /\ call'[c] = Off
    BY <1>1, <2>1, AloneCall
  <2>. QED  BY <1>1, <2>2, CallEnds DEF Failed
<1>3. CASE call[c].phase # "login"
  <2>. DEFINE k == [call[c] EXCEPT !.kind = "stray", !.old = TRUE]
  <2>1. call' = [call EXCEPT ![c] = k]
    BY <1>3 DEF GiveUp
  <2>2. call[c] \in SentCall \cup RefreshCall /\ call[c].kind \in {"boot", "profile"}
    BY <1>1, <1>3, Calling
  <2>3. /\ k \in SentCall \cup RefreshCall /\ k.kind = "stray" /\ k.old = TRUE
        /\ k.first = call[c].first /\ Bearer(k) = Bearer(call[c]) /\ k.phase = call[c].phase
        /\ (k.phase = "refresh" => k.using = call[c].using)
        /\ k # Off
    BY <2>2 DEF SentCall, RefreshCall, Kinds, Bearer, Off
  <2>. HIDE DEF k
  <2>4. Alone(c) /\ call'[c] = k
    BY <1>1, <2>1, AloneCall
  <2>5. /\ \A t : Owner(t)' = Owner(t)
        /\ \A d \in Calls : d # c => call'[d] = call[d] /\ request'[d] = request[d]
        /\ call' \in [Calls -> CallShape] /\ UNCHANGED request
    BY <1>1, <2>1, <2>3, <2>4 DEF Alone, Owner, BrowserInv, BrowserShape, CallShape
  <2>6. /\ call[c].kind = "boot" => stored' = NoToken /\ loading' = FALSE /\ lateWrite' = FALSE
        /\ call[c].kind = "profile" => UNCHANGED <<stored, loading, lateWrite>>
    BY <1>1 DEF Failed
  <2>7. BrowserShape'
    <3>1. stored' \in DOMAIN token \cup {NoToken} /\ loading' \in BOOLEAN /\ lateWrite' \in BOOLEAN
      BY <2>2, <2>6 DEF BrowserInv, BrowserShape
    <3>2. ASSUME NEW d \in Calls, call'[d] \in SentCall \cup RefreshCall
          PROVE  Bearer(call'[d]) \in DOMAIN token /\ call'[d].first \in DOMAIN token
      BY <2>2, <2>3, <2>4, <2>5, <3>2 DEF BrowserInv, BrowserShape
    <3>. QED  BY <1>1, <2>5, <3>1, <3>2 DEF BrowserInv, BrowserShape, Bearer
  <2>8. RefreshOfCall'
    BY <2>3, <2>4, <2>5 DEF BrowserInv, RefreshOfCall
  <2>9. BootAlone'
    <3>1. \A d \in Calls : d # c /\ call[d] # Off => call[d].kind # "boot"
      BY <2>2, <2>5, <1>1 DEF BrowserInv, BootAlone, LoginAlone
    <3>2. ~loading'
      BY <1>1, <2>2, <2>6, <3>1 DEF BrowserInv, BootAlone
    <3>. QED  BY <2>3, <2>4, <2>5, <3>1, <3>2 DEF BootAlone
  <2>10. LoginAlone'
    BY <1>1, <2>2, <2>3, <2>4, <2>5 DEF BrowserInv, LoginAlone
  <2>11. YoungCalls'
    BY <1>1, <2>3, <2>4, <2>5 DEF BrowserInv, YoungCalls, Bearer
  <2>12. MixedIsLate'
    <3>1. Mixed' => Mixed
      BY <1>1, <2>3, <2>4, <2>5 DEF Mixed
    <3>2. Mixed' => stored' = NoToken \/ lateWrite'
      BY <2>2, <2>6, <3>1 DEF BrowserInv, MixedIsLate
    <3>3. ASSUME Mixed', NEW d \in Calls, call'[d] \in RefreshCall
          PROVE  call'[d].old
      BY <2>3, <2>4, <2>5, <3>1, <3>3 DEF BrowserInv, MixedIsLate
    <3>. QED  BY <3>2, <3>3 DEF MixedIsLate
  <2>13. PairOfSession'
    BY <1>1, <2>2, <2>5, <2>6 DEF BrowserInv, PairOfSession
  <2>. QED  BY <2>7, <2>8, <2>9, <2>10, <2>11, <2>12, <2>13 DEF BrowserInv
<1>. QED  BY <1>2, <1>3

\* The reply of the server: a start shows the user it began for, a login the
\* user its last token is of.
LEMMA GrantedKeeps ==
    ASSUME TypeInv, BrowserInv, NEW c \in Calls, Granted(c)
    PROVE  BrowserInv'
<1>1. /\ UNCHANGED <<token, request, stored, lateWrite>> /\ call' = [call EXCEPT ![c] = Off]
      /\ call[c].phase = "sent"
      /\ loading' = (loading /\ call[c].kind # "boot")
  BY DEF Granted, sessionVars, tables
<1>2. Alone(c) /\ call'[c] = Off
  BY <1>1, AloneCall
<1>3. /\ \A d \in Calls : call[d] \in CallShape
      /\ call[c] \in SentCall /\ call[c] # Off /\ Bearer(call[c]) = call[c].token
      /\ call[c].kind \in Kinds /\ call[c].old \in BOOLEAN /\ loading \in BOOLEAN
      /\ Off \notin SentCall \cup RefreshCall /\ Off.phase = "off"
  BY <1>1, Calling DEF BrowserInv, BrowserShape, Off, SentCall, RefreshCall
<1>4. CASE call[c].kind \in {"page", "stray"}
  <2>1. UNCHANGED <<react, shown>>
    BY <1>4 DEF Granted
  <2>2. loading' = loading
    BY <1>1, <1>3, <1>4
  <2>. QED  BY <1>1, <1>2, <1>3, <1>4, <2>1, <2>2, CallEnds
<1>5. /\ \A t : Owner(t)' = Owner(t)
      /\ \A d \in Calls : d # c => call'[d] = call[d] /\ request'[d] = request[d]
      /\ call' \in [Calls -> CallShape]
  BY <1>1, <1>2, <1>3 DEF Alone, Owner, BrowserInv, BrowserShape, CallShape
<1>6. call[c].first \in DOMAIN token /\ call[c].first # NoToken
  BY <1>3, TokenRows DEF BrowserInv, BrowserShape, TypeInv, NoToken
<1>7. CASE call[c].kind = "boot"
  <2>1. /\ \A d \in Calls : d # c => call[d] = Off
        /\ Owner(stored) = Owner(call[c].first) /\ Owner(call[c].token) = Owner(call[c].first)
    BY <1>3, <1>7 DEF BrowserInv, BootAlone
  <2>2. \A d \in Calls : call'[d] = Off
    BY <1>2, <1>5, <2>1
  <2>3. react' = call[c].first /\ shown' = {Owner(call[c].token)} /\ loading' = FALSE
    BY <1>1, <1>7 DEF Granted, Owner
  <2>4. BrowserShape'
    BY <1>1, <1>3, <1>5, <1>6, <2>2, <2>3 DEF BrowserInv, BrowserShape
  <2>5. RefreshOfCall' /\ BootAlone' /\ LoginAlone' /\ YoungCalls'
    BY <1>3, <2>2, <2>3 DEF RefreshOfCall, BootAlone, LoginAlone, YoungCalls
  <2>6. MixedIsLate'
    BY <1>5, <2>1, <2>2, <2>3 DEF MixedIsLate, Mixed
  <2>7. react' # NoToken
    BY <1>6, <2>3
  <2>8. PairOfSession'
    BY <1>1, <1>5, <2>1, <2>3, <2>7 DEF PairOfSession
  <2>. QED  BY <2>4, <2>5, <2>6, <2>8 DEF BrowserInv
<1>8. CASE call[c].kind = "profile"
  <2>1. react' = react /\ shown' = {Owner(call[c].token)}
    BY <1>8 DEF Granted, Owner
  <2>2. loading' = loading
    BY <1>1, <1>3, <1>8
  <2>3. /\ react # NoToken /\ shown = {}
        /\ \A d \in Calls : d # c /\ call[d] # Off => call[d].kind \in {"page", "stray"} /\ call[d].old
    BY <1>3, <1>8 DEF BrowserInv, LoginAlone
  <2>4. ~loading
    BY <2>3 DEF BrowserInv, BootAlone
  <2>5. BrowserShape'
    <3>1. ASSUME NEW d \in Calls, call'[d] \in SentCall \cup RefreshCall
          PROVE  Bearer(call'[d]) \in DOMAIN token /\ call'[d].first \in DOMAIN token
      BY <1>2, <1>3, <1>5, <3>1 DEF BrowserInv, BrowserShape
    <3>. QED  BY <1>1, <1>5, <2>1, <2>2, <3>1 DEF BrowserInv, BrowserShape, Bearer
  <2>6. RefreshOfCall'
    BY <1>2, <1>3, <1>5 DEF BrowserInv, RefreshOfCall
  <2>7. BootAlone'
    BY <1>2, <1>5, <2>2, <2>3, <2>4 DEF BootAlone
  <2>8. LoginAlone'
    BY <1>2, <1>5, <2>3 DEF LoginAlone
  <2>9. YoungCalls'
    BY <1>2, <1>5, <2>3 DEF BrowserInv, YoungCalls, Bearer
  <2>10. MixedIsLate'
    <3>1. Mixed' => Mixed
      <4>1. ~call[c].old => Owner(call[c].token) = Owner(react)
        BY <1>3, <1>8 DEF BrowserInv, YoungCalls
      <4>. QED  BY <1>2, <1>3, <1>5, <1>8, <2>1, <2>3, <4>1 DEF Mixed
    <3>. QED  BY <1>1, <1>2, <1>3, <1>5, <3>1 DEF BrowserInv, MixedIsLate
  <2>11. PairOfSession'
    BY <1>1, <1>5, <2>1, <2>2 DEF BrowserInv, PairOfSession
  <2>. QED  BY <2>5, <2>6, <2>7, <2>8, <2>9, <2>10, <2>11 DEF BrowserInv
<1>. QED  BY <1>3, <1>4, <1>7, <1>8 DEF Kinds

\* A new pair is written.
LEMMA RefreshedKeeps ==
    ASSUME TypeInv, BrowserInv, NEW c \in Calls, Refreshed(c)
    PROVE  BrowserInv'
<1>0. PICK n : n = request[c].new
  OBVIOUS
<1>. DEFINE k == [phase |-> "sent", kind |-> call[c].kind, token |-> n,
                  first |-> call[c].first, retried |-> TRUE, old |-> call[c].old]
<1>1. /\ call' = [call EXCEPT ![c] = k] /\ token' = token
      /\ stored' = n /\ lateWrite' = call[c].old /\ UNCHANGED <<react, shown, loading>>
      /\ call[c].phase = "refresh" /\ request[c].phase = "answered"
      /\ \A d \in Requests \ {c} : request'[d] = request[d]
  BY <1>0, ClientAssumption DEF Refreshed, Answer, tables, TypeInv, Shape, ClientAssumption
<1>2. /\ \A d \in Calls : call[d] \in CallShape
      /\ call[c] \in RefreshCall /\ call[c] # Off /\ Bearer(call[c]) = call[c].using
      /\ call[c].kind \in Kinds /\ call[c].old \in BOOLEAN /\ loading \in BOOLEAN
      /\ call[c].first \in DOMAIN token
  <2>1. \A d \in Calls : call[d] \in CallShape
    BY DEF BrowserInv, BrowserShape
  <2>2. call[c] \in RefreshCall
    BY <1>1, <2>1, Calling
  <2>3. call[c] # Off /\ Bearer(call[c]) = call[c].using
        /\ call[c].kind \in Kinds /\ call[c].old \in BOOLEAN
    BY <2>2 DEF RefreshCall, Off, Bearer
  <2>. QED  BY <2>1, <2>2, <2>3 DEF BrowserInv, BrowserShape
<1>3. n \in DOMAIN token /\ n \in Nat /\ n # NoToken /\ Owner(n) = Owner(Bearer(call[c]))
  <2>1. c \in Requests
    BY ClientAssumption DEF ClientAssumption
  <2>2. request[c] \in Reply
    BY <1>1, <2>1, Phases DEF TypeInv, Shape
  <2>3. n \in DOMAIN token
    BY <1>0, <1>1, <2>1 DEF TypeInv, NamesRows
  <2>4. Owner(n) = Owner(call[c].using)
    BY <1>0, <1>1, <2>2 DEF BrowserInv, RefreshOfCall
  <2>. QED  BY <1>2, <2>3, <2>4, TokenRows DEF TypeInv, NoToken
<1>4. /\ k \in SentCall /\ k.kind = call[c].kind /\ k.first = call[c].first
      /\ k.old = call[c].old /\ k.phase = "sent" /\ Bearer(k) = n
      /\ k # Off /\ k \notin RefreshCall
  <2>1. call[c].first \in Nat
    BY <1>2 DEF RefreshCall
  <2>. QED  BY <1>2, <1>3, <2>1 DEF SentCall, RefreshCall, Off, Bearer
<1>. HIDE DEF k
<1>5. /\ \A t : Owner(t)' = Owner(t)
      /\ \A d \in Calls : d # c => call'[d] = call[d] /\ request'[d] = request[d]
      /\ call'[c] = k /\ call' \in [Calls -> CallShape]
  BY <1>1, <1>2, <1>4, ClientAssumption
  DEF Owner, BrowserInv, BrowserShape, CallShape, ClientAssumption
<1>6. BrowserShape'
  <2>1. ASSUME NEW d \in Calls, call'[d] \in SentCall \cup RefreshCall
        PROVE  Bearer(call'[d]) \in DOMAIN token /\ call'[d].first \in DOMAIN token
    BY <1>2, <1>3, <1>4, <1>5, <2>1 DEF BrowserInv, BrowserShape
  <2>. QED  BY <1>1, <1>2, <1>3, <1>5, <2>1 DEF BrowserInv, BrowserShape, Bearer
<1>7. RefreshOfCall'
  BY <1>4, <1>5 DEF BrowserInv, RefreshOfCall
<1>8. BootAlone'
  <2>1. ASSUME NEW d \in Calls, call'[d] # Off, call'[d].kind = "boot"
        PROVE  /\ d = c
               /\ loading /\ ~call'[d].old /\ ~lateWrite'
               /\ Owner(n) = Owner(call'[d].first)
               /\ Owner(Bearer(call'[d])) = Owner(call'[d].first)
               /\ \A e \in Calls \ {d} : call'[e] = Off
    <3>1. d = c
      BY <1>2, <1>4, <1>5, <2>1 DEF BrowserInv, BootAlone
    <3>. QED  BY <1>1, <1>2, <1>3, <1>4, <1>5, <2>1, <3>1 DEF BrowserInv, BootAlone
  <2>2. loading => /\ react = NoToken /\ shown = {}
                   /\ \E d \in Calls : call'[d] # Off /\ call'[d].kind = "boot"
    BY <1>2, <1>4, <1>5 DEF BrowserInv, BootAlone
  <2>. QED  BY <1>1, <1>3, <1>5, <2>1, <2>2 DEF BootAlone, Bearer
<1>9. LoginAlone'
  BY <1>1, <1>2, <1>4, <1>5 DEF BrowserInv, LoginAlone
<1>10. YoungCalls'
  BY <1>1, <1>2, <1>3, <1>4, <1>5 DEF BrowserInv, YoungCalls, Bearer
<1>11. MixedIsLate'
  <2>. SUFFICES ASSUME Mixed'
                PROVE  lateWrite' /\ \A d \in Calls : call'[d] \in RefreshCall => call'[d].old
    BY DEF MixedIsLate
  <2>1. Mixed
    BY <1>1, <1>2, <1>4, <1>5 DEF Mixed
  <2>. QED  BY <1>1, <1>2, <1>4, <1>5, <2>1 DEF BrowserInv, MixedIsLate
<1>12. PairOfSession'
  <2>. SUFFICES ASSUME ~loading, ~call[c].old
                PROVE  react # NoToken /\ Owner(n) = Owner(react)
    BY <1>1, <1>5 DEF PairOfSession
  <2>1. call[c].kind \in {"page", "profile"}
    BY <1>2 DEF BrowserInv, BootAlone, YoungCalls, Kinds
  <2>. QED  BY <1>2, <1>3, <2>1 DEF BrowserInv, YoungCalls, LoginAlone
<1>. QED  BY <1>6, <1>7, <1>8, <1>9, <1>10, <1>11, <1>12 DEF BrowserInv

\* The session ends: every call is from before.
LEMMA SignOutKeeps ==
    ASSUME BrowserInv, SignOut
    PROVE  BrowserInv'
<1>1. /\ UNCHANGED <<token, request, loading>> /\ shown # {}
      /\ stored' = NoToken /\ react' = NoToken /\ shown' = {} /\ lateWrite' = FALSE
  BY DEF SignOut, sessionVars, tables
<1>2. ~loading
  BY <1>1 DEF BrowserInv, BootAlone
<1>3. ASSUME NEW d \in Calls, call[d] # Off
      PROVE  /\ call'[d] = [call[d] EXCEPT !.old = TRUE]
             /\ call'[d] \in CallShape /\ call'[d] # Off
             /\ call[d].kind \notin {"boot", "login", "profile"}
             /\ call'[d].kind = call[d].kind /\ call'[d].old = TRUE
             /\ call'[d].phase = call[d].phase
             /\ call[d] \in SentCall \cup RefreshCall
             /\ call'[d].first = call[d].first /\ Bearer(call'[d]) = Bearer(call[d])
             /\ call[d].phase = "refresh" => call'[d].using = call[d].using
  <2>1. call'[d] = [call[d] EXCEPT !.old = TRUE]
    BY <1>3 DEF SignOut
  <2>2. call[d] \in CallShape
    BY DEF BrowserInv, BrowserShape
  <2>3. call[d].kind \notin {"boot", "login", "profile"}
    BY <1>1, <1>2, <1>3 DEF BrowserInv, BootAlone, LoginAlone
  <2>4. call[d] \in SentCall \cup RefreshCall
    BY <1>3, <2>2, <2>3, Calling
  <2>. QED  BY <2>1, <2>3, <2>4 DEF SentCall, RefreshCall, CallShape, Off, Bearer
<1>4. \A d \in Calls : call[d] = Off => call'[d] = Off
  BY DEF SignOut
<1>5. DOMAIN call' = Calls /\ call' = [d \in Calls |-> call'[d]]
  BY DEF SignOut
<1>6. Off \in CallShape /\ Off \notin SentCall \cup RefreshCall /\ Off.phase = "off"
  BY DEF CallShape, Off, SentCall, RefreshCall
<1>7. BrowserShape'
  <2>1. call' \in [Calls -> CallShape]
    <3>1. \A d \in Calls : call'[d] \in CallShape
      BY <1>3, <1>4, <1>6
    <3>. QED  BY <1>5, <3>1
  <2>2. ASSUME NEW d \in Calls, call'[d] \in SentCall \cup RefreshCall
        PROVE  Bearer(call'[d]) \in DOMAIN token /\ call'[d].first \in DOMAIN token
    BY <1>3, <1>4, <1>6, <2>2 DEF BrowserInv, BrowserShape
  <2>. QED  BY <1>1, <2>1, <2>2 DEF BrowserInv, BrowserShape, Bearer
<1>8. RefreshOfCall'
  <2>1. ASSUME NEW d \in Calls, call'[d].phase = "refresh"
        PROVE  /\ request[d] \in Exchange => request[d].user = Owner(call'[d].using)
               /\ request[d] \in Reply => Owner(request[d].new) = Owner(call'[d].using)
    <3>1. call[d] # Off
      BY <1>4, <1>6, <2>1
    <3>. QED  BY <1>3, <2>1, <3>1 DEF BrowserInv, RefreshOfCall
  <2>. QED  BY <1>1, <2>1 DEF RefreshOfCall, Owner
<1>9. \A d \in Calls : call'[d] # Off =>
          call'[d].kind \notin {"boot", "login", "profile"} /\ call'[d].old
  BY <1>3, <1>4
<1>10. BootAlone' /\ LoginAlone' /\ YoungCalls'
  BY <1>1, <1>2, <1>9 DEF BootAlone, LoginAlone, YoungCalls
<1>11. MixedIsLate' /\ PairOfSession'
  <2>1. \A d \in Calls : call'[d] \in RefreshCall => call'[d].old
    BY <1>6, <1>9
  <2>. QED  BY <1>1, <2>1 DEF MixedIsLate, PairOfSession
<1>. QED  BY <1>7, <1>8, <1>10, <1>11 DEF BrowserInv

LEMMA BrowserStep ==
    TypeInv /\ HoldsRows /\ BrowserInv /\ [ClientNext]_clientVars => BrowserInv'
<1>. SUFFICES ASSUME TypeInv, HoldsRows, BrowserInv, [ClientNext]_clientVars
              PROVE  BrowserInv'
  OBVIOUS
<1>0. [Next]_sessionVars
  BY ClientStep
<1>1. \A t \in DOMAIN token : t \in DOMAIN token' /\ token'[t].owner = token[t].owner
  BY <1>0, OwnersStay
<1>2. CASE Server
  <2>1. \A c \in Calls : call[c].phase = "refresh" => call[c] # Off
    BY DEF Off
  <2>. QED  BY <1>1, <1>2, <2>1, ServerContinues, BrowserKept DEF Server, browser
<1>3. ASSUME NEW c \in Calls, Client(c)
      PROVE  BrowserInv'
  BY <1>3, LoadKeeps, LoginKeeps, LoggedInKeeps, GiveUpKeeps, AskKeeps, GrantedKeeps,
     DeniedKeeps, LostKeeps, TakenKeeps, RefreshedKeeps DEF Client
<1>4. CASE SignOut
  BY <1>4, SignOutKeeps
<1>5. ASSUME NEW t \in posts, SignOutArrives(t)
      PROVE  BrowserInv'
  <2>1. UNCHANGED <<stored, react, shown, loading, call, lateWrite>> /\ UNCHANGED request
    BY <1>5 DEF SignOutArrives, Logout, sessionVars, tables
  <2>. QED  BY <1>1, <2>1, BrowserKept DEF Continues
<1>6. ASSUME NEW r \in Requests, ThreadLost(r)
      PROVE  BrowserInv'
  <2>1. UNCHANGED <<token, react, shown>> /\ request' = [request EXCEPT ![r] = Idle]
    BY <1>6 DEF ThreadLost, Lose, tables
  <2>2. CASE r \in Calls /\ call[r] # Off
    <3>1. /\ call' = [call EXCEPT ![r] = Off]
          /\ Failed(r) \/ Emptied(r)
      BY <1>6, <2>2 DEF ThreadLost
    <3>2. loading \in BOOLEAN
      BY DEF BrowserInv, BrowserShape
    <3>3. /\ call[r].kind = "boot" => stored' = NoToken /\ loading' = FALSE
          /\ call[r].kind # "boot" => loading' = loading
          /\ \/ stored' = stored /\ lateWrite' = lateWrite
             \/ stored' = NoToken /\ lateWrite' = FALSE
      BY <3>1, <3>2 DEF Failed, Emptied
    <3>4. Alone(r) /\ call'[r] = Off
      BY <2>1, <2>2, <3>1, ClientAssumption
      DEF Alone, BrowserInv, BrowserShape, TypeInv, Shape, ClientAssumption
    <3>. QED  BY <2>1, <2>2, <3>3, <3>4, CallEnds
  <2>3. CASE ~(r \in Calls /\ call[r] # Off)
    <3>1. UNCHANGED <<stored, react, shown, loading, call, lateWrite>>
      BY <1>6, <2>3 DEF ThreadLost
    <3>2. \A c \in Calls : Continues(c)
      BY <2>1, ClientAssumption DEF Continues, TypeInv, Shape, ClientAssumption
    <3>. QED  BY <1>1, <3>1, <3>2, BrowserKept
  <2>. QED  BY <2>2, <2>3
<1>7. CASE ExpireAccess \/ UNCHANGED clientVars
  <2>1. UNCHANGED browser /\ UNCHANGED request
    BY <1>7 DEF ExpireAccess, clientVars, sessionVars
  <2>. QED  BY <1>1, <2>1, BrowserKept DEF Continues, browser
<1>. QED  BY <1>2, <1>3, <1>4, <1>5, <1>6, <1>7 DEF ClientNext

\* The pair in localStorage is of the session the tab shows, unless a call
\* from before the session has written it or one it descends from, however
\* refreshes, logouts, logins and timeouts overlap (AuthContext.tsx, api.ts).
THEOREM PairCorrect == ClientSpec => []StoredPairIsOfSession
<1>1. ClientInit => TypeInv /\ HoldsRows /\ BrowserInv
  <2>. SUFFICES ASSUME ClientInit PROVE TypeInv /\ HoldsRows /\ BrowserInv
    OBVIOUS
  <2>1. TypeInv /\ HoldsRows
    BY TypeInit DEF ClientInit, HoldsRows
  <2>2. \A c \in Calls : call[c] = Off
    BY DEF ClientInit
  <2>3. Off \in CallShape /\ Off \notin SentCall \cup RefreshCall /\ Off.phase = "off"
    BY DEF CallShape, Off, SentCall, RefreshCall
  <2>4. BrowserInv
    BY <2>2, <2>3
    DEF ClientInit, BrowserInv, BrowserShape, RefreshOfCall, BootAlone, LoginAlone,
        YoungCalls, MixedIsLate, Mixed, PairOfSession
  <2>. QED  BY <2>1, <2>4
<1>2. BrowserInv => StoredPairIsOfSession
  BY DEF BrowserInv, PairOfSession, MixedIsLate, Mixed, StoredPairIsOfSession, Owner
<1>. QED  BY <1>1, <1>2, TypeStep, ClientStep, BrowserStep, PTL DEF ClientSpec

=============================================================================
