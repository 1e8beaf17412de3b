--------------------------- MODULE ClientSession ----------------------------
(***************************************************************************)
(* The session of one browser tab against the server of Sessions:          *)
(* frontend/src/lib/api.ts (request, tryRefreshToken) and                  *)
(* frontend/src/context/AuthContext.tsx.                                   *)
(*                                                                         *)
(* A step is a task of the event loop.  localStorage always holds an       *)
(* access and a refresh token or neither, so stored names the pair.  React *)
(* keeps an access token of its own.  A call runs in a server thread of    *)
(* the same name; when the page is gone or gives up, the thread goes on.   *)
(***************************************************************************)
EXTENDS Sessions

CONSTANTS
    Calls             \* the calls the tab can have under way

ASSUME ClientAssumption == Calls \subseteq Requests

VARIABLES
    stored,           \* the pair in localStorage, NoToken if there is none
    react,            \* token of AuthContext: an access token or NoToken
    shown,            \* user of AuthContext: at most one user
    loading,          \* loading of AuthContext
    call,             \* the calls of the tab
    dead,             \* the first so many access tokens have expired
    posts,            \* logout requests on their way
    lateWrite         \* history: the stored pair, or one it descends from, was
                      \* written by a call that was under way before the last
                      \* logout or failed start, after which the page began

browser == <<stored, react, shown, loading, call, posts, lateWrite>>
clientVars == <<sessionVars, browser, dead>>

Off == [phase |-> "off"]

\* A request with access token t.  first is the token it was made with; a
\* second 401 is not retried; old is the history behind lateWrite.
Sent(kind, t) ==
    [phase |-> "sent", kind |-> kind, token |-> t, first |-> t,
     retried |-> FALSE, old |-> FALSE]

Accepted(t) == t > dead /\ account[token[t].owner] = "active"

ClientInit ==
    /\ Init
    /\ stored = NoToken /\ react = NoToken /\ shown = {} /\ loading = FALSE
    /\ call = [c \in Calls |-> Off]
    /\ dead = 0 /\ posts = {} /\ lateWrite = FALSE

Free(c) == call[c] = Off /\ request[c] = Idle

-----------------------------------------------------------------------------
(* AuthContext.                                                            *)

\* The page is loaded: AuthProvider mounts and asks who the stored token is.
Load(c) ==
    /\ request[c] = Idle
    /\ call' = [d \in Calls |->
          IF d = c /\ stored # NoToken THEN Sent("boot", stored) ELSE Off]
    /\ loading' = (stored # NoToken)
    /\ react' = NoToken /\ shown' = {} /\ lateWrite' = FALSE
    /\ UNCHANGED <<sessionVars, stored, posts, dead>>

\* login: the credentials are on their way.
Login(c, u) ==
    /\ Free(c) /\ ~loading /\ shown = {}
    /\ \A d \in Calls : call[d] # Off => call[d].kind \notin {"login", "profile"}
    /\ BeginLogin(c, u)
    /\ call' = [call EXCEPT ![c] =
          [phase |-> "login", kind |-> "login", old |-> FALSE]]
    /\ UNCHANGED <<stored, react, shown, loading, posts, lateWrite, dead>>

\* ...and the tokens have come: they are kept, and the profile is asked for.
LoggedIn(c) ==
    /\ call[c].phase = "login"
    /\ request[c].phase = "answered"
    /\ stored' = request[c].new /\ react' = request[c].new
    /\ call' = [call EXCEPT ![c] = Sent("profile", request[c].new)]
    /\ lateWrite' = FALSE
    /\ Answer(c)
    /\ UNCHANGED <<shown, loading, posts, dead>>

\* A failure of the first check empties localStorage, and no other does.
Failed(c) ==
    IF call[c].kind = "boot"
    THEN stored' = NoToken /\ loading' = FALSE /\ lateWrite' = FALSE
    ELSE UNCHANGED <<stored, loading, lateWrite>>

\* withTimeout of AuthContext gives up waiting; the call itself goes on, and
\* nobody looks at its result.
GiveUp(c) ==
    /\ call[c] # Off /\ call[c].kind \in {"boot", "profile", "login"}
    /\ Failed(c)
    /\ call' = [call EXCEPT ![c] =
          IF @.phase = "login" THEN Off
          ELSE [@ EXCEPT !.kind = "stray", !.old = TRUE]]
    /\ UNCHANGED <<sessionVars, react, shown, posts, dead>>

\* Broken variant: logout forgets localStorage.
SignOutOfReact ==
    /\ shown # {}
    /\ posts' = IF stored # NoToken /\ react # NoToken
                THEN posts \cup {stored} ELSE posts
    /\ react' = NoToken /\ shown' = {}
    /\ call' = [c \in Calls |->
          IF call[c] = Off THEN Off ELSE [call[c] EXCEPT !.old = TRUE]]
    /\ UNCHANGED <<sessionVars, stored, loading, lateWrite, dead>>

\* logout: the server is told, without waiting for it.
SignOut ==
    /\ shown # {}
    /\ posts' = IF stored # NoToken /\ react # NoToken
                THEN posts \cup {stored} ELSE posts
    /\ stored' = NoToken /\ react' = NoToken /\ shown' = {}
    /\ lateWrite' = FALSE
    /\ call' = [c \in Calls |->
          IF call[c] = Off THEN Off ELSE [call[c] EXCEPT !.old = TRUE]]
    /\ UNCHANGED <<sessionVars, loading, dead>>

\* The logout request arrives, or is lost.
SignOutArrives(t) ==
    /\ posts' = posts \ {t}
    /\ Logout(t) \/ UNCHANGED sessionVars
    /\ UNCHANGED <<stored, react, shown, loading, call, lateWrite, dead>>

-----------------------------------------------------------------------------
(* request and tryRefreshToken of api.ts.                                  *)

\* A page asks for something.
Ask(c) ==
    /\ Free(c) /\ react # NoToken /\ shown # {}
    /\ call' = [call EXCEPT ![c] = Sent("page", react)]
    /\ UNCHANGED <<sessionVars, stored, react, shown, loading, posts,
                   lateWrite, dead>>

\* The server accepts the access token: what the caller does with the reply.
\* The first check goes on with the token it began with.
Granted(c) ==
    /\ call[c].phase = "sent" /\ Accepted(call[c].token)
    /\ react' = IF call[c].kind = "boot" THEN call[c].first ELSE react
    /\ shown' = IF call[c].kind \in {"boot", "profile"}
                THEN {token[call[c].token].owner} ELSE shown
    /\ loading' = (loading /\ call[c].kind # "boot")
    /\ call' = [call EXCEPT ![c] = Off]
    /\ UNCHANGED <<sessionVars, stored, posts, lateWrite, dead>>

\* A 401: the refresh token is read from localStorage and sent, once.
Denied(c) ==
    /\ call[c].phase = "sent" /\ ~Accepted(call[c].token)
    /\ IF stored # NoToken /\ ~call[c].retried
       THEN /\ call' = [call EXCEPT ![c] =
                  [phase |-> "asking", kind |-> @.kind, first |-> @.first,
                   using |-> stored, old |-> @.old \/ lateWrite]]
            /\ UNCHANGED <<stored, loading, lateWrite>>
       ELSE /\ Failed(c)
            /\ call' = [call EXCEPT ![c] = Off]
    /\ UNCHANGED <<sessionVars, react, shown, posts, dead>>

\* The call fails for want of an answer: fetch rejects, and the tokens stay.
Lost(c) ==
    /\ call[c].phase \in {"sent", "asking", "refresh"}
    /\ Failed(c)
    /\ call' = [call EXCEPT ![c] = Off]
    /\ UNCHANGED <<sessionVars, react, shown, posts, dead>>

\* The server takes the refresh token...
RefreshTaken(c) ==
    /\ call[c].phase = "asking"
    /\ BeginRefresh(c, call[c].using)
    /\ call' = [call EXCEPT ![c].phase = "refresh"]
    /\ UNCHANGED <<stored, react, shown, loading, posts, lateWrite, dead>>

\* localStorage is emptied, whatever it holds by now.
Emptied(c) ==
    /\ stored' = NoToken /\ lateWrite' = FALSE
    /\ loading' = (loading /\ call[c].kind # "boot")

\* ...or the answer is no good one, and why is not asked: it refuses the token,
\* limits the rate, failed before or after the rotation, or is the 503 that the
\* service worker makes of a network error.
RefreshRefused(c) ==
    /\ call[c].phase \in {"asking", "refresh"}
    /\ Emptied(c)
    /\ call' = [call EXCEPT ![c] = Off]
    /\ UNCHANGED <<sessionVars, react, shown, posts, dead>>

\* The new pair is written to localStorage and the request is sent again.
Refreshed(c) ==
    /\ call[c].phase = "refresh"
    /\ request[c].phase = "answered"
    /\ stored' = request[c].new
    /\ lateWrite' = call[c].old
    /\ call' = [call EXCEPT ![c] =
          [phase |-> "sent", kind |-> @.kind, token |-> request[c].new,
           first |-> @.first, retried |-> TRUE, old |-> @.old]]
    /\ Answer(c)
    /\ UNCHANGED <<react, shown, loading, posts, dead>>

-----------------------------------------------------------------------------
(* The rest of the system: other clients, administrators, time.            *)

ExpireAccess ==
    /\ dead < Len(token)
    /\ dead' = dead + 1
    /\ UNCHANGED <<sessionVars, browser>>

\* A thread is lost: its caller learns that there is no answer, or gets an
\* error in its place.
ThreadLost(r) ==
    /\ Lose(r)
    /\ IF r \in Calls /\ call[r] # Off
       THEN /\ Failed(r) \/ (call[r].phase = "refresh" /\ Emptied(r))
            /\ call' = [call EXCEPT ![r] = Off]
       ELSE UNCHANGED <<stored, loading, lateWrite, call>>
    /\ UNCHANGED <<react, shown, posts, dead>>

Server ==
    /\ \/ Administration
       \/ \E r \in Requests : ServerStep(r)
       \/ \E r \in Requests \ Calls :
             \/ \E u \in Users : BeginLogin(r, u) \/ BeginResetRequest(r, u)
             \/ \E t \in DOMAIN token : BeginRefresh(r, t)
             \/ \E k \in DOMAIN resetToken : BeginConfirm(r, k)
             \/ Answer(r)
       \/ \E c \in Calls : call[c] = Off /\ Answer(c)
    /\ UNCHANGED <<browser, dead>>

Client(c) ==
    \/ Load(c) \/ (\E u \in Users : Login(c, u)) \/ LoggedIn(c) \/ GiveUp(c)
    \/ Ask(c) \/ Granted(c) \/ Denied(c) \/ Lost(c)
    \/ RefreshTaken(c) \/ RefreshRefused(c) \/ Refreshed(c)

ClientNext ==
    \/ Server
    \/ \E c \in Calls : Client(c)
    \/ SignOut
    \/ \E t \in posts : SignOutArrives(t)
    \/ \E r \in Requests : ThreadLost(r)
    \/ ExpireAccess

ClientSpec == ClientInit /\ [][ClientNext]_clientVars

-----------------------------------------------------------------------------
\* Unless a call from before the last logout has written it, or one that got
\* its tokens from such a call's, the pair in localStorage belongs to the
\* session the tab shows: there is none when nobody is signed in, and it is of
\* the user whose token and name the pages use, however refreshes, logouts,
\* logins, failures and timeouts overlap (AuthContext.tsx:97-117,
\* api.ts:61-84).  A session may lose its pair and still be shown.
StoredPairIsOfSession ==
    ~loading /\ stored # NoToken /\ ~lateWrite =>
        /\ react # NoToken
        /\ token[stored].owner = token[react].owner
        /\ shown \subseteq {token[react].owner}

=============================================================================
