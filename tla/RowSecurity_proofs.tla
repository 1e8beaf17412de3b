------------------------- MODULE RowSecurity_proofs -------------------------
(***************************************************************************)
(* Proofs about RowSecurity, for any number of accounts, requests and      *)
(* connections: no request ever runs under the context of another, and the *)
(* policies let a request write what its handler lets its user write.      *)
(***************************************************************************)
EXTENDS RowSecurity, TLAPS

\* The values a setting can have, given those of the accounts.
Or(f) == {f[u] : u \in Users} \cup {None}

Contexts == [user : Users \cup {None}, role : Or(RoleOf), company : Companies \cup {None},
             collector : Users \cup {None}, org : Or(OrgOf), recycler : Or(RecyclerOf)]

LEMMA ContextUpdates ==
    ASSUME NEW c \in Contexts, NEW u \in Users, NEW d \in Companies \cup {None},
           NEW v \in Users \cup {None}
    PROVE  /\ [c EXCEPT !.user = u, !.role = RoleOf[u]] \in Contexts
           /\ [c EXCEPT !.company = d, !.collector = v, !.org = OrgOf[u],
                        !.recycler = RecyclerOf[u]] \in Contexts
<1>1. RoleOf[u] \in Or(RoleOf) /\ OrgOf[u] \in Or(OrgOf) /\ RecyclerOf[u] \in Or(RecyclerOf)
  BY DEF Or
<1>2. ASSUME NEW b \in Contexts
      PROVE  /\ \A x \in Users \cup {None} : [b EXCEPT !.user = x] \in Contexts
             /\ \A x \in Or(RoleOf) : [b EXCEPT !.role = x] \in Contexts
             /\ \A x \in Companies \cup {None} : [b EXCEPT !.company = x] \in Contexts
  BY DEF Contexts
<1>3. ASSUME NEW b \in Contexts
      PROVE  /\ \A x \in Users \cup {None} : [b EXCEPT !.collector = x] \in Contexts
             /\ \A x \in Or(OrgOf) : [b EXCEPT !.org = x] \in Contexts
             /\ \A x \in Or(RecyclerOf) : [b EXCEPT !.recycler = x] \in Contexts
  BY DEF Contexts
<1>. DEFINE c1 == [c EXCEPT !.company = d]
            c2 == [c1 EXCEPT !.collector = v]
            c3 == [c2 EXCEPT !.org = OrgOf[u]]
<1>4. [c EXCEPT !.user = u] \in Contexts /\ c1 \in Contexts
  BY <1>2
<1>5. [[c EXCEPT !.user = u] EXCEPT !.role = RoleOf[u]] \in Contexts
  BY <1>1, <1>2, <1>4
<1>6. [c3 EXCEPT !.recycler = RecyclerOf[u]] \in Contexts
  <2>1. c2 \in Contexts
    BY <1>3, <1>4
  <2>2. c3 \in Contexts
    BY <1>1, <1>3, <2>1
  <2>. QED  BY <1>1, <1>3, <2>2
<1>. QED  BY <1>5, <1>6

Serving == [phase : {"opened", "identified", "ready"}, user : Users,
            company : Companies \cup {None}, connection : Connections, disturbed : BOOLEAN]

ShapeInv ==
    /\ company \in [Users -> Companies \cup {None}]
    /\ request \in [Requests -> Serving \cup {Idle}]
    /\ context \in [Connections -> Contexts]
    /\ committed \in [Connections -> Contexts]

Served(r) == request[r] \in Serving

\* A context that says who request r serves, and with which company.
Own(r, c) ==
    /\ c.user = request[r].user
    /\ c.role = RoleOf[request[r].user]
    /\ c.company = request[r].company

\* A connection serves at most one request; what it was left with is empty,
\* and what its request has set or committed is of that request's user.
ConnectionInv ==
    /\ \A q, r \in Requests :
          Served(q) /\ Served(r) /\ request[q].connection = request[r].connection => q = r
    /\ \A k \in Connections :
          (\A r \in Requests : Served(r) => request[r].connection # k)
              => context[k] = Empty /\ committed[k] = Empty
    /\ \A r \in Requests : Served(r) =>
          LET k == request[r].connection
          IN  /\ request[r].phase = "opened" => context[k] = Empty
              /\ request[r].phase # "ready" => committed[k] = Empty
              /\ request[r].phase = "ready" =>
                    /\ context[k] = Empty \/ Own(r, context[k])
                    /\ committed[k] = Empty \/ Own(r, committed[k])
                    /\ context[k] = Empty => request[r].disturbed
              /\ request[r].phase = "identified" =>
                    context[k].user = request[r].user
                    /\ context[k].role = RoleOf[request[r].user]

SecurityInv == ShapeInv /\ ConnectionInv

LEMMA IdleIsNotServing == Idle \notin Serving
BY DEF Idle, Serving

\* Closing the session that holds a connection empties it.
LEMMA ShapeStep ==
    ASSUME ShapeInv, [SecurityNext]_securityVars
    PROVE  ShapeInv'
<1>. USE DEF ShapeInv
<1>1. ASSUME NEW r \in Requests, NEW u \in Users, NEW k \in Connections, Open(r, u, k)
      PROVE  ShapeInv'
  <2>1. [phase |-> "opened", user |-> u, company |-> company[u],
         connection |-> k, disturbed |-> FALSE] \in Serving
    BY DEF Serving
  <2>. QED  BY <1>1, <2>1 DEF Open
<1>2. ASSUME NEW r \in Requests, SetIdentity(r)
      PROVE  ShapeInv'
  <2>1. request[r] \in Serving /\ request[r].connection \in Connections
        /\ request[r].user \in Users
    BY <1>2 DEF SetIdentity, Idle, Serving
  <2>2. [request[r] EXCEPT !.phase = "identified"] \in Serving
    BY <2>1 DEF Serving
  <2>. DEFINE k == request[r].connection
              c == [context[k] EXCEPT !.user = request[r].user,
                                      !.role = RoleOf[request[r].user]]
  <2>3. c \in Contexts
    BY <2>1, ContextUpdates
  <2>4. context' = [context EXCEPT ![k] = c]
    BY <1>2, <2>1 DEF SetIdentity
  <2>5. request' = [request EXCEPT ![r] = [request[r] EXCEPT !.phase = "identified"]]
    BY <1>2 DEF SetIdentity
  <2>. QED  BY <1>2, <2>1, <2>2, <2>3, <2>4, <2>5 DEF SetIdentity
<1>3. ASSUME NEW r \in Requests, SetScope(r)
      PROVE  ShapeInv'
  <2>1. request[r] \in Serving /\ request[r].connection \in Connections
        /\ request[r].user \in Users /\ request[r].company \in Companies \cup {None}
    BY <1>3 DEF SetScope, Idle, Serving
  <2>2. [request[r] EXCEPT !.phase = "ready"] \in Serving
    BY <2>1 DEF Serving
  <2>. DEFINE k == request[r].connection
              c == [context[k] EXCEPT !.company = request[r].company,
                      !.collector = FoundProfile(request[r].user, context[k]),
                      !.org = OrgOf[request[r].user],
                      !.recycler = RecyclerOf[request[r].user]]
  <2>3. FoundProfile(request[r].user, context[k]) \in Users \cup {None}
    BY <2>1 DEF FoundProfile
  <2>4. c \in Contexts
    BY <2>1, <2>3, ContextUpdates
  <2>5. context' = [context EXCEPT ![k] = c]
    BY <1>3, <2>1 DEF SetScope
  <2>6. request' = [request EXCEPT ![r] = [request[r] EXCEPT !.phase = "ready"]]
    BY <1>3 DEF SetScope
  <2>. QED  BY <1>3, <2>1, <2>2, <2>4, <2>5, <2>6 DEF SetScope
<1>4. ASSUME NEW r \in Requests, Commit(r)
      PROVE  ShapeInv'
  <2>1. request[r] \in Serving /\ request[r].connection \in Connections
    BY <1>4 DEF Commit, Idle, Serving
  <2>. QED  BY <1>4, <2>1 DEF Commit
<1>5. ASSUME NEW r \in Requests, Rollback(r)
      PROVE  ShapeInv'
  <2>1. request[r] \in Serving /\ request[r].connection \in Connections
    BY <1>5 DEF Rollback, Idle, Serving
  <2>. DEFINE b == request[r].disturbed \/ committed[request[r].connection] = Empty
  <2>2. [request[r] EXCEPT !.disturbed = b] \in Serving
    BY <2>1 DEF Serving
  <2>3. request' = [request EXCEPT ![r] = [request[r] EXCEPT !.disturbed = b]]
    BY <1>5 DEF Rollback
  <2>. QED  BY <1>5, <2>1, <2>2, <2>3 DEF Rollback
<1>6. ASSUME NEW r \in Requests, NEW u \in Users, CreateProfile(r, u)
      PROVE  ShapeInv'
  <2>1. request[r] \in Serving /\ request[r].connection \in Connections
        /\ request[r].user \in Users
    BY <1>6 DEF CreateProfile, Idle, Serving
  <2>2. \A s \in Requests : request[s] \in Serving =>
            [request[s] EXCEPT !.disturbed = TRUE] \in Serving
    BY DEF Serving
  <2>3. \A s \in Requests : request'[s] \in Serving \cup {Idle}
    BY <1>6, <2>2 DEF CreateProfile
  <2>4. request' \in [Requests -> Serving \cup {Idle}]
    BY <1>6, <2>3 DEF CreateProfile
  <2>5. company' \in [Users -> Companies \cup {None}]
    BY <1>6, <2>1 DEF CreateProfile, StoreProfile
  <2>6. context' \in [Connections -> Contexts] /\ committed' \in [Connections -> Contexts]
    BY <1>6, <2>1 DEF CreateProfile
  <2>. QED  BY <2>4, <2>5, <2>6
<1>7. ASSUME NEW r \in Requests, Close(r)
      PROVE  ShapeInv'
  <2>1. request[r] \in Serving /\ request[r].connection \in Connections
    BY <1>7 DEF Close, Serving
  <2>2. Empty \in Contexts
    BY DEF Empty, Contexts, Or
  <2>. QED  BY <1>7, <2>1, <2>2 DEF Close, Reset
<1>8. CASE UNCHANGED securityVars
  BY <1>8 DEF securityVars
<1>. QED  BY <1>1, <1>2, <1>3, <1>4, <1>5, <1>6, <1>7, <1>8 DEF SecurityNext

\* What a step of one request may do to the others: nothing, if it changes at
\* most the request itself and the context of the connection it holds.
LEMMA OwnConnectionOnly ==
    ASSUME SecurityInv, ShapeInv', NEW r \in Requests, Served(r), Served(r)',
           request'[r].connection = request[r].connection,
           \A q \in Requests \ {r} :
               \/ request'[q] = request[q]
               \/ /\ Served(q) /\ Served(q)'
                  /\ request'[q].phase = request[q].phase
                  /\ request'[q].user = request[q].user
                  /\ request'[q].company = request[q].company
                  /\ request'[q].connection = request[q].connection
                  /\ request'[q].disturbed,
           \A k \in Connections \ {request[r].connection} :
               context'[k] = context[k] /\ committed'[k] = committed[k],
           /\ request'[r].phase = "opened" => context'[request[r].connection] = Empty
           /\ request'[r].phase # "ready" => committed'[request[r].connection] = Empty
           /\ request'[r].phase = "ready" =>
                 /\ context'[request[r].connection] = Empty
                    \/ Own(r, context[request[r].connection])'
                 /\ committed'[request[r].connection] = Empty
                    \/ Own(r, committed[request[r].connection])'
                 /\ context'[request[r].connection] = Empty => request'[r].disturbed
           /\ request'[r].phase = "identified" =>
                 /\ context'[request[r].connection].user = request'[r].user
                 /\ context'[request[r].connection].role = RoleOf[request'[r].user]
    PROVE  ConnectionInv'
<1>1. \A q \in Requests : /\ Served(q)' <=> Served(q)
                          /\ Served(q) => request'[q].connection = request[q].connection
                                          /\ request[q].connection \in Connections
  BY DEF Served, SecurityInv, ShapeInv, Serving
<1>2. \A q, p \in Requests :
          Served(q)' /\ Served(p)' /\ request'[q].connection = request'[p].connection => q = p
  BY <1>1 DEF SecurityInv, ConnectionInv
<1>3. \A k \in Connections :
          (\A q \in Requests : Served(q)' => request'[q].connection # k)
              => context'[k] = Empty /\ committed'[k] = Empty
  BY <1>1 DEF SecurityInv, ConnectionInv
<1>4. ASSUME NEW q \in Requests, Served(q)'
      PROVE  LET k == request'[q].connection
             IN  /\ request'[q].phase = "opened" => context'[k] = Empty
                 /\ request'[q].phase # "ready" => committed'[k] = Empty
                 /\ request'[q].phase = "ready" =>
                       /\ context'[k] = Empty \/ Own(q, context[request[q].connection])'
                       /\ committed'[k] = Empty \/ Own(q, committed[request[q].connection])'
                       /\ context'[k] = Empty => request'[q].disturbed
                 /\ request'[q].phase = "identified" =>
                       context'[k].user = request'[q].user
                       /\ context'[k].role = RoleOf[request'[q].user]
  <2>1. CASE q = r
    BY <2>1, <1>4
  <2>2. CASE q # r
    <3>1. Served(q) /\ request[q].connection # request[r].connection
          /\ request[q].connection \in Connections
      BY <1>1, <1>4, <2>2 DEF SecurityInv, ConnectionInv
    <3>2. /\ context'[request[q].connection] = context[request[q].connection]
          /\ committed'[request[q].connection] = committed[request[q].connection]
          /\ request'[q].connection = request[q].connection
      BY <3>1, <1>1
    <3>3. /\ request'[q].phase = request[q].phase
          /\ request'[q].user = request[q].user
          /\ request'[q].company = request[q].company
          /\ request[q].disturbed => request'[q].disturbed
      BY <2>2
    <3>. QED  BY <3>1, <3>2, <3>3 DEF SecurityInv, ConnectionInv, Own
  <2>. QED  BY <2>1, <2>2
<1>. QED  BY <1>2, <1>3, <1>4 DEF ConnectionInv

LEMMA ConnectionStep ==
    ASSUME None \notin Users, SecurityInv, [SecurityNext]_securityVars
    PROVE  ConnectionInv'
<1>1. ShapeInv'
  BY ShapeStep DEF SecurityInv
<1>. USE DEF SecurityInv, ShapeInv
<1>2. ASSUME NEW r \in Requests, NEW u \in Users, NEW k \in Connections, Open(r, u, k)
      PROVE  ConnectionInv'
  <2>1. ~Served(r) /\ Served(r)' /\ request'[r].connection = k /\ request'[r].phase = "opened"
    BY <1>2, IdleIsNotServing DEF Open, Served, Serving
  <2>2. \A q \in Requests \ {r} : request'[q] = request[q]
    BY <1>2 DEF Open
  <2>3. \A q \in Requests : Served(q) => request[q].connection # k
    BY <1>2, IdleIsNotServing DEF Open, Served, Holds
  <2>4. context' = context /\ committed' = committed /\ context[k] = Empty /\ committed[k] = Empty
    BY <1>2, <2>3 DEF Open, ConnectionInv
  <2>. QED  BY <2>1, <2>2, <2>3, <2>4 DEF ConnectionInv, Served, Own
<1>3. ASSUME NEW r \in Requests, SetIdentity(r)
      PROVE  ConnectionInv'
  <2>. DEFINE k == request[r].connection
  <2>1. Served(r) /\ k \in Connections /\ request[r].phase = "opened" /\ committed[k] = Empty
    BY <1>3 DEF SetIdentity, Idle, Served, Serving, ConnectionInv
  <2>2. /\ request'[r].phase = "identified" /\ request'[r].connection = k
        /\ request'[r].user = request[r].user
        /\ \A q \in Requests \ {r} : request'[q] = request[q]
    BY <1>3, <2>1 DEF SetIdentity, Served, Serving
  <2>3. /\ context'[k].user = request[r].user /\ context'[k].role = RoleOf[request[r].user]
        /\ \A j \in Connections \ {k} : context'[j] = context[j]
        /\ committed' = committed
    BY <1>3, <2>1 DEF SetIdentity, Contexts
  <2>4. Served(r)'
    BY <1>1, <2>2 DEF Served, Idle, Serving
  <2>. QED  BY <1>1, <2>1, <2>2, <2>3, <2>4, OwnConnectionOnly
<1>4. ASSUME NEW r \in Requests, SetScope(r)
      PROVE  ConnectionInv'
  <2>. DEFINE k == request[r].connection
  <2>1. /\ Served(r) /\ k \in Connections /\ request[r].phase = "identified"
        /\ committed[k] = Empty /\ request[r].user \in Users
        /\ context[k].user = request[r].user /\ context[k].role = RoleOf[request[r].user]
    BY <1>4 DEF SetScope, Idle, Served, Serving, ConnectionInv
  <2>2. /\ request'[r].phase = "ready" /\ request'[r].connection = k
        /\ request'[r].user = request[r].user /\ request'[r].company = request[r].company
        /\ \A q \in Requests \ {r} : request'[q] = request[q]
    BY <1>4, <2>1 DEF SetScope, Served, Serving
  <2>3. /\ context'[k].user = request[r].user /\ context'[k].role = RoleOf[request[r].user]
        /\ context'[k].company = request[r].company
        /\ \A j \in Connections \ {k} : context'[j] = context[j]
        /\ committed' = committed
    BY <1>4, <2>1 DEF SetScope, Contexts
  <2>4. context'[k] # Empty
    BY <2>1, <2>3 DEF Empty
  <2>5. Served(r)' /\ Own(r, context[request[r].connection])'
    BY <1>1, <2>2, <2>3 DEF Served, Idle, Serving, Own
  <2>. QED  BY <1>1, <2>1, <2>2, <2>3, <2>4, <2>5, OwnConnectionOnly
<1>5. ASSUME NEW r \in Requests, Commit(r)
      PROVE  ConnectionInv'
  <2>. DEFINE k == request[r].connection
  <2>1. Served(r) /\ k \in Connections /\ request[r].phase = "ready"
    BY <1>5 DEF Commit, Idle, Served, Serving
  <2>2. request' = request /\ context' = context /\ committed' = [committed EXCEPT ![k] = context[k]]
    BY <1>5 DEF Commit
  <2>3. context[k] = Empty \/ Own(r, context[k])
    BY <2>1 DEF ConnectionInv
  <2>4. committed'[k] = context[k] /\ \A j \in Connections \ {k} : committed'[j] = committed[j]
    BY <2>1, <2>2
  <2>5. Served(r)' /\ (Own(r, context[k]) => Own(r, context[request[r].connection])'
                                             /\ Own(r, committed[request[r].connection])')
    BY <2>1, <2>2, <2>4 DEF Served, Own
  <2>6. context[k] = Empty => request[r].disturbed
    BY <2>1 DEF ConnectionInv
  <2>. QED  BY <1>1, <2>1, <2>2, <2>3, <2>4, <2>5, <2>6, OwnConnectionOnly
<1>6. ASSUME NEW r \in Requests, Rollback(r)
      PROVE  ConnectionInv'
  <2>. DEFINE k == request[r].connection
  <2>1. Served(r) /\ k \in Connections /\ request[r].phase = "ready"
    BY <1>6 DEF Rollback, Idle, Served, Serving
  <2>2. /\ request'[r].phase = "ready" /\ request'[r].connection = k
        /\ request'[r].user = request[r].user /\ request'[r].company = request[r].company
        /\ \A q \in Requests \ {r} : request'[q] = request[q]
    BY <1>6, <2>1 DEF Rollback, Served, Serving
  <2>3. committed[k] = Empty => request'[r].disturbed
    BY <1>6, <2>1 DEF Rollback, Served, Serving
  <2>4. /\ context'[k] = committed[k] /\ committed' = committed
        /\ \A j \in Connections \ {k} : context'[j] = context[j]
    BY <1>6, <2>1 DEF Rollback
  <2>5. committed[k] = Empty \/ Own(r, committed[k])
    BY <2>1 DEF ConnectionInv
  <2>6. Served(r)' /\ (Own(r, committed[k]) => Own(r, context[request[r].connection])'
                                               /\ Own(r, committed[request[r].connection])')
    BY <1>1, <2>1, <2>2, <2>4 DEF Served, Idle, Serving, Own
  <2>. QED  BY <1>1, <2>1, <2>2, <2>3, <2>4, <2>5, <2>6, OwnConnectionOnly
<1>7. ASSUME NEW r \in Requests, NEW u \in Users, CreateProfile(r, u)
      PROVE  ConnectionInv'
  <2>. DEFINE k == request[r].connection
  <2>1. Served(r) /\ k \in Connections /\ request[r].phase = "ready"
    BY <1>7 DEF CreateProfile, Idle, Served, Serving
  <2>2. ASSUME NEW q \in Requests
        PROVE  \/ request'[q] = request[q]
               \/ /\ Served(q) /\ Served(q)'
                  /\ request'[q].phase = request[q].phase
                  /\ request'[q].user = request[q].user
                  /\ request'[q].company = request[q].company
                  /\ request'[q].connection = request[q].connection
                  /\ request'[q].disturbed
    BY <1>7 DEF CreateProfile, Served, Serving
  <2>3. context' = context /\ committed' = [committed EXCEPT ![k] = context[k]]
    BY <1>7 DEF CreateProfile
  <2>4. committed'[k] = context[k] /\ \A j \in Connections \ {k} : committed'[j] = committed[j]
    BY <2>1, <2>3
  <2>5. context[k] = Empty \/ Own(r, context[k])
    BY <2>1 DEF ConnectionInv
  <2>6. /\ Served(r)' /\ request'[r].phase = "ready" /\ request'[r].connection = k
        /\ request'[r].user = request[r].user /\ request'[r].company = request[r].company
        /\ (request[r].disturbed => request'[r].disturbed)
    BY <2>1, <2>2 DEF Served
  <2>7. Own(r, context[k]) => Own(r, context[request[r].connection])'
                              /\ Own(r, committed[request[r].connection])'
    BY <2>3, <2>4, <2>6 DEF Own
  <2>8. context[k] = Empty => request[r].disturbed
    BY <2>1 DEF ConnectionInv
  <2>. QED  BY <1>1, <2>1, <2>2, <2>3, <2>4, <2>5, <2>6, <2>7, <2>8, OwnConnectionOnly
<1>8. ASSUME NEW r \in Requests, Close(r)
      PROVE  ConnectionInv'
  <2>. DEFINE k == request[r].connection
  <2>1. Served(r) /\ k \in Connections
    BY <1>8 DEF Close, Served, Serving
  <2>2. /\ context'[k] = Empty /\ committed'[k] = Empty
        /\ \A j \in Connections \ {k} : context'[j] = context[j] /\ committed'[j] = committed[j]
    BY <1>8, <2>1 DEF Close, Reset
  <2>3. \A q \in Requests : Served(q)' => q # r /\ Served(q) /\ request'[q] = request[q]
    BY <1>8, IdleIsNotServing DEF Close, Served
  <2>4. \A q \in Requests \ {r} : Served(q) => Served(q)' /\ request'[q] = request[q]
    BY <1>8 DEF Close, Served
  <2>. QED  BY <2>1, <2>2, <2>3, <2>4 DEF ConnectionInv, Own, Served, Serving
<1>9. CASE UNCHANGED securityVars
  BY <1>9 DEF securityVars, ConnectionInv, Served, Own
<1>. QED  BY <1>2, <1>3, <1>4, <1>5, <1>6, <1>7, <1>8, <1>9 DEF SecurityNext

LEMMA SecurityStart ==
    ASSUME HomeCompany \in [Users -> Companies \cup {None}], SecurityInit
    PROVE  SecurityInv
<1>1. Empty \in Contexts
  BY DEF Empty, Contexts, Or
<1>2. ShapeInv
  BY <1>1 DEF SecurityInit, ShapeInv
<1>3. ConnectionInv
  BY IdleIsNotServing DEF SecurityInit, ConnectionInv, Served
<1>. QED  BY <1>2, <1>3 DEF SecurityInv

\* A connection that is taken from the pool carries nothing of whoever used it
\* before, and the statements of a handler run under the context of its own
\* user or, after a rollback, under none, for any number of connections and
\* requests (database.py:10-74, dependencies.py:23-94).
THEOREM ContextCorrect ==
    ASSUME None \notin Users, HomeCompany \in [Users -> Companies \cup {None}]
    PROVE  SecuritySpec => []ContextIsOwn
<1>1. SecurityInit => SecurityInv
  BY SecurityStart
<1>2. SecurityInv /\ [SecurityNext]_securityVars => SecurityInv'
  BY ShapeStep, ConnectionStep DEF SecurityInv
<1>3. SecurityInv => ContextIsOwn
  <2>. SUFFICES ASSUME SecurityInv  PROVE ContextIsOwn
    OBVIOUS
  <2>1. \A r \in Requests : request[r] # Idle <=> Served(r)
    BY IdleIsNotServing DEF SecurityInv, ShapeInv, Served
  <2>2. \A k \in Connections : Holds(k) = {} => context[k] = Empty
    BY <2>1 DEF Holds, SecurityInv, ConnectionInv
  <2>3. \A r \in Requests : request[r].phase \in {"opened", "ready"} => Served(r)
    BY DEF SecurityInv, ShapeInv, Served, Idle
  <2>. QED  BY <2>2, <2>3 DEF SecurityInv, ConnectionInv, Own, ContextIsOwn
<1>. QED  BY <1>1, <1>2, <1>3, PTL DEF SecuritySpec

-----------------------------------------------------------------------------
(* What a handler lets a user write.  A context grants it when it is the   *)
(* whole context of the user as the tables are now; so a request whose     *)
(* tables changed under it, or whose settings were undone, is not spoken   *)
(* of, and of the others this is an invariant.                             *)

Whole(u, c) ==
    /\ c.user = u /\ c.role = RoleOf[u] /\ c.company = company[u]
    /\ c.org = OrgOf[u] /\ c.recycler = RecyclerOf[u]
    /\ RoleOf[u] = "COLLECTOR" /\ profile[u] # None => c.collector = u

\* The company of a profile is the one of its account.
OneCompany ==
    /\ profile \in [Users -> Companies \cup {None}]
    /\ \A u \in Users : profile[u] # None => company[u] = profile[u]

Entitled(r) ==
    Served(r) /\ ~request[r].disturbed =>
        LET u == request[r].user
            k == request[r].connection
        IN  /\ request[r].company = company[u]
            /\ request[r].phase = "ready" =>
                  /\ Whole(u, context[k])
                  /\ committed[k] # Empty => Whole(u, committed[k])

GrantInv == OneCompany /\ \A r \in Requests : Entitled(r)

LEMMA Rows ==
    /\ \A t, u : OwnedBy(t, u) = [table |-> t, owner |-> u, collector |-> None,
                                  company |-> None, org |-> None, recycler |-> None]
    /\ \A t, c : OfCompany(t, c) = [table |-> t, owner |-> None, collector |-> None,
                                    company |-> c, org |-> None, recycler |-> None]
    /\ \A u : ProfileRow(u) = [table |-> "collectors", owner |-> u, collector |-> None,
                               company |-> profile[u], org |-> None, recycler |-> None]
    /\ \A u : AssignedTo(u) = [table |-> "pickup_requests", owner |-> None, collector |-> u,
                               company |-> None, org |-> None, recycler |-> None]
<1>1. ASSUME NEW t, NEW u
      PROVE  OwnedBy(t, u) = [table |-> t, owner |-> u, collector |-> None,
                              company |-> None, org |-> None, recycler |-> None]
  BY DEF OwnedBy, Row
<1>2. ASSUME NEW t, NEW c
      PROVE  OfCompany(t, c) = [table |-> t, owner |-> None, collector |-> None,
                                company |-> c, org |-> None, recycler |-> None]
  BY DEF OfCompany, Row
<1>3. ASSUME NEW u
      PROVE  ProfileRow(u) = [table |-> "collectors", owner |-> u, collector |-> None,
                              company |-> profile[u], org |-> None, recycler |-> None]
  <2>1. [Row("collectors") EXCEPT !.owner = u] =
          [table |-> "collectors", owner |-> u, collector |-> None,
           company |-> None, org |-> None, recycler |-> None]
    BY DEF Row
  <2>2. ProfileRow(u) = [[Row("collectors") EXCEPT !.owner = u] EXCEPT !.company = profile[u]]
    BY DEF ProfileRow
  <2>. QED  BY <2>1, <2>2
<1>4. ASSUME NEW u
      PROVE  AssignedTo(u) = [table |-> "pickup_requests", owner |-> None, collector |-> u,
                              company |-> None, org |-> None, recycler |-> None]
  BY <1>1 DEF AssignedTo
<1>. QED  BY <1>1, <1>2, <1>3, <1>4

\* The policies of the tables, one by one.
LEMMA Policies ==
    ASSUME NEW row, NEW c
    PROVE  /\ row.table = "pickup_requests" =>
                 Using(row, c) = (Same(row.owner, c.user) \/ Same(row.collector, c.collector)
                                  \/ c.role \in Staff)
           /\ row.table = "complaints" =>
                 Using(row, c) = (Same(row.owner, c.user) \/ c.role \in Staff)
           /\ row.table = "collectors" =>
                 /\ Using(row, c) = (Same(row.company, c.company) \/ Same(row.owner, c.user)
                                     \/ c.role \in Municipal)
                 /\ Check(row, c) = (Same(row.company, c.company) \/ c.role \in Municipal)
           /\ row.table = "vehicles" =>
                 Using(row, c) = (Same(row.company, c.company) \/ c.role \in Municipal)
           /\ row.table = "organization_locations" =>
                 Using(row, c) = (Same(row.org, c.org) \/ c.role \in Municipal)
           /\ row.table = "reward_redemptions" =>
                 Using(row, c) = (Same(row.owner, c.user) \/ c.role = "SUPER_ADMIN")
           /\ row.table \in {"organizations", "waste_companies"} =>
                 Check(row, c) = (c.role \in Municipal)
           /\ row.table = "points_ledger_entries" =>
                 Check(row, c) = (Same(row.owner, c.user) \/ c.role \in {"COLLECTOR", "SUPER_ADMIN"})
           /\ row.table = "recycling_records" =>
                 Check(row, c) = (Same(row.recycler, c.recycler) \/ c.role = "SUPER_ADMIN")
           /\ row.table = "waste_records" =>
                 Check(row, c) = (Same(row.company, c.company) \/ c.role = "SUPER_ADMIN")
           /\ row.table = "notifications" => Check(row, c) = (c.role # None)
           /\ row.table \in {"pickup_requests", "complaints", "vehicles",
                             "organization_locations", "reward_redemptions"} =>
                 Check(row, c) = Using(row, c)
<1>1. /\ row.table = "pickup_requests" =>
           Using(row, c) = (Same(row.owner, c.user) \/ Same(row.collector, c.collector)
                            \/ c.role \in Staff)
      /\ row.table = "complaints" =>
           Using(row, c) = (Same(row.owner, c.user) \/ c.role \in Staff)
      /\ row.table = "collectors" =>
           Using(row, c) = (Same(row.company, c.company) \/ Same(row.owner, c.user)
                            \/ c.role \in Municipal)
      /\ row.table = "vehicles" =>
           Using(row, c) = (Same(row.company, c.company) \/ c.role \in Municipal)
      /\ row.table = "organization_locations" =>
           Using(row, c) = (Same(row.org, c.org) \/ c.role \in Municipal)
      /\ row.table = "reward_redemptions" =>
           Using(row, c) = (Same(row.owner, c.user) \/ c.role = "SUPER_ADMIN")
  BY DEF Using
<1>2. /\ row.table = "collectors" =>
           Check(row, c) = (Same(row.company, c.company) \/ c.role \in Municipal)
      /\ row.table \in {"organizations", "waste_companies"} =>
           Check(row, c) = (c.role \in Municipal)
      /\ row.table = "points_ledger_entries" =>
           Check(row, c) = (Same(row.owner, c.user) \/ c.role \in {"COLLECTOR", "SUPER_ADMIN"})
      /\ row.table = "recycling_records" =>
           Check(row, c) = (Same(row.recycler, c.recycler) \/ c.role = "SUPER_ADMIN")
      /\ row.table = "waste_records" =>
           Check(row, c) = (Same(row.company, c.company) \/ c.role = "SUPER_ADMIN")
      /\ row.table = "notifications" => Check(row, c) = (c.role # None)
      /\ row.table \in {"pickup_requests", "complaints", "vehicles",
                        "organization_locations", "reward_redemptions"} =>
           Check(row, c) = Using(row, c)
  BY DEF Check
<1>. QED  BY <1>1, <1>2

LEMMA Statements ==
    ASSUME NEW row, NEW c
    PROVE  /\ Check(row, c) => Allowed(Insert(row), c)
           /\ row.table \notin TwoTier /\ Using(row, c) /\ Check(row, c)
                 => Allowed(Update(row), c)
           /\ Using(row, c) => Allowed([op |-> "select", row |-> row], c)
BY DEF Allowed, Insert, Update

\* What every handler grants, the policies grant to a whole context.
LEMMA Granting ==
    ASSUME None \notin Users, None \notin Staff \cup {"COLLECTOR"},
           ShapeInv, OneCompany, NEW u \in Users, NEW c, Whole(u, c), NEW w \in Permitted(u)
    PROVE  Allowed(w, c)
<1>0. \A v \in Users : v # None
  OBVIOUS
<1>1. CASE w \in WritesOfAll(u)
  <2>. DEFINE p == OwnedBy("pickup_requests", u)
              q == OwnedBy("complaints", u)
              d == OwnedBy("reward_redemptions", u)
              e == OwnedBy("points_ledger_entries", u)
  <2>1. /\ p.table = "pickup_requests" /\ Same(p.owner, c.user)
        /\ q.table = "complaints" /\ Same(q.owner, c.user)
        /\ d.table = "reward_redemptions" /\ Same(d.owner, c.user)
        /\ e.table = "points_ledger_entries" /\ Same(e.owner, c.user)
        /\ p.table \notin TwoTier
    BY <1>0, Rows DEF Same, Whole, TwoTier
  <2>2. w \in {Insert(p), Update(p), Insert(q), Insert(d), Insert(e)}
    BY <1>1 DEF WritesOfAll
  <2>. HIDE DEF p, q, d, e
  <2>3. Using(p, c) /\ Check(p, c) /\ Check(q, c) /\ Check(d, c) /\ Check(e, c)
    BY <2>1, Policies
  <2>. QED  BY <2>1, <2>2, <2>3, Statements
<1>2. CASE RoleOf[u] = "COLLECTOR" /\ profile[u] # None /\ w \in WritesOfCollector(u)
  <2>. DEFINE p == AssignedTo(u)
              s == OfCompany("waste_records", profile[u])
              f == ProfileRow(u)
  <2>1. c.company = profile[u] /\ c.role = "COLLECTOR" /\ c.collector = u /\ c.user = u
    BY <1>2 DEF Whole, OneCompany
  <2>2. /\ p.table = "pickup_requests" /\ Same(p.collector, c.collector)
        /\ s.table = "waste_records" /\ Same(s.company, c.company)
        /\ f.table = "collectors" /\ Same(f.company, c.company)
        /\ p.table \notin TwoTier /\ f.table \notin TwoTier
    BY <1>0, <1>2, <2>1, Rows DEF Same, TwoTier
  <2>3. w \in {Update(p), Insert(s), Update(f)}
        \/ \E t \in {"points_ledger_entries", "notifications"}, v \in Users :
              w = Insert(OwnedBy(t, v))
    BY <1>2 DEF WritesOfCollector
  <2>. HIDE DEF p, s, f
  <2>4. CASE w \in {Update(p), Insert(s), Update(f)}
    <3>1. Using(p, c) /\ Check(p, c) /\ Check(s, c) /\ Using(f, c) /\ Check(f, c)
      BY <2>2, Policies
    <3>. QED  BY <2>2, <2>4, <3>1, Statements
  <2>5. ASSUME NEW t \in {"points_ledger_entries", "notifications"}, NEW v \in Users,
               w = Insert(OwnedBy(t, v))
        PROVE  Allowed(w, c)
    <3>1. OwnedBy(t, v).table = t
      BY Rows
    <3>2. Check(OwnedBy(t, v), c)
      BY <2>1, <3>1, Policies
    <3>. QED  BY <2>5, <3>2, Statements
  <2>. QED  BY <2>3, <2>4, <2>5
<1>3. CASE RoleOf[u] \in Staff /\ w \in WritesOfStaff
  <2>1. c.role \in Staff
    BY <1>3 DEF Whole
  <2>2. \/ \E t \in {"pickup_requests", "complaints"}, v \in Users : w = Update(OwnedBy(t, v))
        \/ \E v \in Users : w = Insert(OwnedBy("notifications", v))
    BY <1>3 DEF WritesOfStaff
  <2>3. ASSUME NEW t \in {"pickup_requests", "complaints"}, NEW v \in Users,
               w = Update(OwnedBy(t, v))
        PROVE  Allowed(w, c)
    <3>1. OwnedBy(t, v).table = t /\ t \notin TwoTier
      BY Rows DEF TwoTier
    <3>2. Using(OwnedBy(t, v), c) /\ Check(OwnedBy(t, v), c)
      BY <2>1, <3>1, Policies
    <3>. QED  BY <2>3, <3>1, <3>2, Statements
  <2>4. ASSUME NEW v \in Users, w = Insert(OwnedBy("notifications", v))
        PROVE  Allowed(w, c)
    <3>1. OwnedBy("notifications", v).table = "notifications"
      BY Rows
    <3>2. Check(OwnedBy("notifications", v), c)
      BY <2>1, <3>1, Policies
    <3>. QED  BY <2>4, <3>2, Statements
  <2>. QED  BY <2>2, <2>3, <2>4
<1>4. CASE company[u] # None /\ w \in WritesOfCompany(company[u])
  <2>. DEFINE s == OfCompany("vehicles", company[u])
  <2>1. s.table = "vehicles" /\ Same(s.company, c.company) /\ s.table \notin TwoTier
    BY <1>4, Rows DEF Same, Whole, TwoTier
  <2>2. w \in {Insert(s), Update(s)}
        \/ \E v \in Users : profile[v] = company[u] /\ w = Update(ProfileRow(v))
    BY <1>4 DEF WritesOfCompany
  <2>. HIDE DEF s
  <2>3. CASE w \in {Insert(s), Update(s)}
    <3>1. Using(s, c) /\ Check(s, c)
      BY <2>1, Policies
    <3>. QED  BY <2>1, <2>3, <3>1, Statements
  <2>4. ASSUME NEW v \in Users, profile[v] = company[u], w = Update(ProfileRow(v))
        PROVE  Allowed(w, c)
    <3>1. ProfileRow(v).table = "collectors" /\ Same(ProfileRow(v).company, c.company)
          /\ ProfileRow(v).table \notin TwoTier
      BY <1>4, <2>4, Rows DEF Same, Whole, TwoTier
    <3>2. Using(ProfileRow(v), c) /\ Check(ProfileRow(v), c)
      BY <3>1, Policies
    <3>. QED  BY <2>4, <3>1, <3>2, Statements
  <2>. QED  BY <2>2, <2>3, <2>4
<1>5. CASE RoleOf[u] \in Municipal
           /\ w \in {Insert(Row("organizations")), Insert(Row("waste_companies"))}
  <2>1. c.role \in Municipal /\ Row("organizations").table = "organizations"
        /\ Row("waste_companies").table = "waste_companies"
    BY <1>5 DEF Whole, Row
  <2>2. Check(Row("organizations"), c) /\ Check(Row("waste_companies"), c)
    BY <2>1, Policies
  <2>. QED  BY <1>5, <2>2, Statements
<1>6. CASE OrgOf[u] # None
           /\ w = Insert([Row("organization_locations") EXCEPT !.org = OrgOf[u]])
  <2>. DEFINE s == [Row("organization_locations") EXCEPT !.org = OrgOf[u]]
  <2>1. s.table = "organization_locations" /\ Same(s.org, c.org)
    BY <1>6 DEF Row, Same, Whole
  <2>. HIDE DEF s
  <2>2. Check(s, c)
    BY <2>1, Policies
  <2>. QED  BY <1>6, <2>2, Statements DEF s
<1>7. CASE RecyclerOf[u] # None
           /\ w = Insert([Row("recycling_records") EXCEPT !.recycler = RecyclerOf[u]])
  <2>. DEFINE s == [Row("recycling_records") EXCEPT !.recycler = RecyclerOf[u]]
  <2>1. s.table = "recycling_records" /\ Same(s.recycler, c.recycler)
    BY <1>7 DEF Row, Same, Whole
  <2>. HIDE DEF s
  <2>2. Check(s, c)
    BY <2>1, Policies
  <2>. QED  BY <1>7, <2>2, Statements DEF s
<1>. QED  BY <1>1, <1>2, <1>3, <1>4, <1>5, <1>6, <1>7 DEF Permitted


\* A step of one request that leaves the tables alone takes nothing from the
\* others.
LEMMA OthersEntitled ==
    ASSUME GrantInv, NEW r \in Requests, UNCHANGED <<company, profile>>,
           \A q \in Requests \ {r} :
               /\ request'[q] = request[q]
               /\ Served(q) => LET k == request[q].connection
                               IN  context'[k] = context[k] /\ committed'[k] = committed[k],
           Entitled(r)'
    PROVE  GrantInv'
<1>1. OneCompany'
  BY DEF GrantInv, OneCompany
<1>2. ASSUME NEW q \in Requests \ {r}
      PROVE  Entitled(q)'
  BY <1>2 DEF GrantInv, Entitled, Served, Whole
<1>. QED  BY <1>1, <1>2 DEF GrantInv

\* The connections of two requests are two.
LEMMA OtherConnection ==
    ASSUME SecurityInv, NEW r \in Requests, Served(r), NEW q \in Requests \ {r}, Served(q)
    PROVE  /\ request[q].connection \in Connections
           /\ request[q].connection # request[r].connection
BY DEF SecurityInv, ConnectionInv, Served, Serving

\* The lookup, made as the user, finds the profile he has.
LEMMA ProfileIsFound ==
    ASSUME None \notin Users, NEW u \in Users, NEW c, c.user = u,
           RoleOf[u] = "COLLECTOR", profile[u] # None
    PROVE  FoundProfile(u, c) = u
<1>. DEFINE f == ProfileRow(u)
<1>1. f.table = "collectors" /\ Same(f.owner, c.user)
  BY Rows DEF Same
<1>. HIDE DEF f
<1>2. Using(f, c)
  BY <1>1, Policies
<1>3. Allowed([op |-> "select", row |-> f], c)
  BY <1>2, Statements
<1>. QED  BY <1>3 DEF FoundProfile, f

LEMMA GrantStep ==
    ASSUME None \notin Users, SecurityInv, GrantInv, [SecurityNext]_securityVars
    PROVE  GrantInv'
<1>. USE DEF SecurityInv, ShapeInv
<1>1. ASSUME NEW r \in Requests, NEW u \in Users, NEW k \in Connections, Open(r, u, k)
      PROVE  GrantInv'
  <2>1. Entitled(r)'
    BY <1>1 DEF Open, Entitled
  <2>. QED  BY <1>1, <2>1, OthersEntitled DEF Open
<1>2. ASSUME NEW r \in Requests, SetIdentity(r)
      PROVE  GrantInv'
  <2>. DEFINE k == request[r].connection
  <2>1. Served(r) /\ k \in Connections
    BY <1>2 DEF SetIdentity, Idle, Served, Serving
  <2>2. /\ request'[r].phase = "identified" /\ request'[r].disturbed = request[r].disturbed
        /\ request'[r].user = request[r].user /\ request'[r].company = request[r].company
    BY <1>2, <2>1 DEF SetIdentity, Served, Serving
  <2>3. Entitled(r)'
    BY <1>2, <2>1, <2>2 DEF SetIdentity, Entitled, GrantInv
  <2>4. \A q \in Requests \ {r} :
            /\ request'[q] = request[q]
            /\ Served(q) => LET j == request[q].connection
                            IN  context'[j] = context[j] /\ committed'[j] = committed[j]
    BY <1>2, <2>1, OtherConnection DEF SetIdentity
  <2>. QED  BY <1>2, <2>3, <2>4, OthersEntitled DEF SetIdentity
<1>3. ASSUME NEW r \in Requests, SetScope(r)
      PROVE  GrantInv'
  <2>. DEFINE k == request[r].connection
              u == request[r].user
  <2>1. /\ Served(r) /\ k \in Connections /\ u \in Users
        /\ committed[k] = Empty /\ context[k].user = u /\ context[k].role = RoleOf[u]
    BY <1>3 DEF SetScope, Idle, Served, Serving, ConnectionInv
  <2>2. /\ request'[r].phase = "ready" /\ request'[r].disturbed = request[r].disturbed
        /\ request'[r].user = u /\ request'[r].company = request[r].company
        /\ request'[r].connection = k
    BY <1>3, <2>1 DEF SetScope, Served, Serving
  <2>3. /\ context'[k].user = u /\ context'[k].role = RoleOf[u]
        /\ context'[k].company = request[r].company
        /\ context'[k].collector = FoundProfile(u, context[k])
        /\ context'[k].org = OrgOf[u] /\ context'[k].recycler = RecyclerOf[u]
        /\ committed' = committed
    BY <1>3, <2>1 DEF SetScope, Contexts
  <2>4. RoleOf[u] = "COLLECTOR" /\ profile[u] # None => FoundProfile(u, context[k]) = u
    BY <2>1, ProfileIsFound
  <2>5. company' = company /\ profile' = profile
    BY <1>3 DEF SetScope
  <2>6. ~request[r].disturbed => request[r].company = company[u]
    BY <2>1 DEF GrantInv, Entitled
  <2>. HIDE DEF k, u
  <2>7. Entitled(r)'
    BY <2>1, <2>2, <2>3, <2>4, <2>5, <2>6 DEF Entitled, Whole
  <2>8. \A q \in Requests \ {r} :
            /\ request'[q] = request[q]
            /\ Served(q) => LET j == request[q].connection
                            IN  context'[j] = context[j] /\ committed'[j] = committed[j]
    BY <1>3, <2>1, OtherConnection DEF SetScope, k
  <2>. QED  BY <2>5, <2>7, <2>8, OthersEntitled
<1>4. ASSUME NEW r \in Requests, Commit(r)
      PROVE  GrantInv'
  <2>. DEFINE k == request[r].connection
  <2>1. Served(r) /\ k \in Connections /\ request[r].phase = "ready"
    BY <1>4 DEF Commit, Idle, Served, Serving
  <2>2. /\ committed'[k] = context[k] /\ context' = context /\ request' = request
        /\ company' = company /\ profile' = profile
    BY <1>4, <2>1 DEF Commit
  <2>3. Entitled(r)'
    BY <2>1, <2>2 DEF Entitled, Whole, GrantInv, Served
  <2>4. \A q \in Requests \ {r} :
            Served(q) => LET j == request[q].connection
                         IN  context'[j] = context[j] /\ committed'[j] = committed[j]
    BY <1>4, <2>1, OtherConnection DEF Commit
  <2>. QED  BY <2>2, <2>3, <2>4, OthersEntitled
<1>5. ASSUME NEW r \in Requests, Rollback(r)
      PROVE  GrantInv'
  <2>. DEFINE k == request[r].connection
  <2>1. Served(r) /\ k \in Connections /\ request[r].phase = "ready"
    BY <1>5 DEF Rollback, Idle, Served, Serving
  <2>2. /\ context'[k] = committed[k] /\ committed' = committed
        /\ company' = company /\ profile' = profile
    BY <1>5, <2>1 DEF Rollback
  <2>3. /\ request'[r].disturbed = (request[r].disturbed \/ committed[k] = Empty)
        /\ request'[r].user = request[r].user /\ request'[r].company = request[r].company
        /\ request'[r].connection = k /\ request'[r].phase = "ready"
    BY <1>5, <2>1 DEF Rollback, Served, Serving
  <2>4. Entitled(r)'
    <3>. SUFFICES ASSUME ~request'[r].disturbed  PROVE Entitled(r)'
      BY DEF Entitled
    <3>1. ~request[r].disturbed /\ committed[k] # Empty
      BY <2>3
    <3>2. request[r].company = company[request[r].user] /\ Whole(request[r].user, committed[k])
      BY <2>1, <3>1 DEF GrantInv, Entitled
    <3>. HIDE DEF k
    <3>. QED  BY <2>2, <2>3, <3>2 DEF Entitled, Whole
  <2>5. \A q \in Requests \ {r} :
            /\ request'[q] = request[q]
            /\ Served(q) => LET j == request[q].connection
                            IN  context'[j] = context[j] /\ committed'[j] = committed[j]
    BY <1>5, <2>1, OtherConnection DEF Rollback
  <2>. QED  BY <2>2, <2>4, <2>5, OthersEntitled
<1>6. ASSUME NEW r \in Requests, NEW u \in Users, CreateProfile(r, u)
      PROVE  GrantInv'
  <2>. DEFINE k == request[r].connection
  <2>1. Served(r) /\ k \in Connections /\ request[r].phase = "ready" /\ request[r].user \in Users
    BY <1>6 DEF CreateProfile, Idle, Served, Serving
  <2>2. /\ committed'[k] = context[k] /\ context' = context
        /\ \A j \in Connections \ {k} : committed'[j] = committed[j]
    BY <1>6, <2>1 DEF CreateProfile
  <2>3. PICK c \in Companies : /\ profile' = [profile EXCEPT ![u] = c]
                               /\ company' = [company EXCEPT ![u] = c]
    BY <1>6, <2>1 DEF CreateProfile, StoreProfile
  <2>4. OneCompany'
    BY <2>3 DEF GrantInv, OneCompany
  <2>5. \A q \in Requests : Served(q)' /\ ~request'[q].disturbed =>
            Served(q) /\ request'[q] = request[q] /\ request[q].user # u
    <3>1. \A q \in Requests : Served(q) =>
              [request[q] EXCEPT !.disturbed = TRUE].disturbed
      BY DEF Served, Serving
    <3>2. \A q \in Requests : request[q] # Idle <=> Served(q)
      BY IdleIsNotServing DEF Served
    <3>. QED  BY <1>6, <3>1, <3>2, IdleIsNotServing DEF CreateProfile, Served
  <2>6. ASSUME NEW q \in Requests
        PROVE  Entitled(q)'
    <3>. SUFFICES ASSUME Served(q)', ~request'[q].disturbed  PROVE Entitled(q)'
      BY DEF Entitled
    <3>1. /\ Served(q) /\ request'[q] = request[q] /\ request[q].user # u
          /\ request[q].user \in Users
      BY <2>5 DEF Served, Serving
    <3>2. /\ company'[request[q].user] = company[request[q].user]
          /\ profile'[request[q].user] = profile[request[q].user]
      BY <2>3, <3>1
    <3>3. CASE q = r
      BY <2>1, <2>2, <3>1, <3>2, <3>3 DEF Entitled, Whole, GrantInv
    <3>4. CASE q # r
      <4>1. request[q].connection \in Connections /\ request[q].connection # k
        BY <2>1, <3>1, <3>4, OtherConnection
      <4>. QED  BY <2>2, <3>1, <3>2, <4>1 DEF Entitled, Whole, GrantInv
    <3>. QED  BY <3>3, <3>4
  <2>. QED  BY <2>4, <2>6 DEF GrantInv
<1>7. ASSUME NEW r \in Requests, Close(r)
      PROVE  GrantInv'
  <2>. DEFINE k == request[r].connection
  <2>1. Served(r) /\ k \in Connections /\ ~Served(r)'
    BY <1>7, IdleIsNotServing DEF Close, Served, Serving
  <2>2. \A q \in Requests \ {r} :
            /\ request'[q] = request[q]
            /\ Served(q) => LET j == request[q].connection
                            IN  context'[j] = context[j] /\ committed'[j] = committed[j]
    BY <1>7, <2>1, OtherConnection DEF Close
  <2>3. Entitled(r)'
    BY <2>1 DEF Entitled
  <2>. QED  BY <1>7, <2>2, <2>3, OthersEntitled DEF Close
<1>8. CASE UNCHANGED securityVars
  BY <1>8 DEF securityVars, GrantInv, OneCompany, Entitled, Whole, Served
<1>. QED  BY <1>1, <1>2, <1>3, <1>4, <1>5, <1>6, <1>7, <1>8 DEF SecurityNext

\* What a handler lets its user write the policies let him write, whatever
\* accounts there are and however many requests share the connections, as
\* long as his settings were not rolled back and no profile was made for him
\* meanwhile (core/rls.py, dependencies.py:23-94, collectors.py:23-69).
THEOREM PoliciesCorrect ==
    ASSUME None \notin Users, None \notin Staff \cup {"COLLECTOR"},
           HomeCompany \in [Users -> Companies \cup {None}]
    PROVE  SecuritySpec => []PoliciesMatchHandlers
<1>1. SecurityInit => SecurityInv /\ GrantInv
  <2>. SUFFICES ASSUME SecurityInit  PROVE SecurityInv /\ GrantInv
    OBVIOUS
  <2>1. SecurityInv
    BY SecurityStart
  <2>2. OneCompany /\ \A r \in Requests : Entitled(r)
    BY IdleIsNotServing DEF SecurityInit, OneCompany, Entitled, Served
  <2>. QED  BY <2>1, <2>2 DEF GrantInv
<1>2. SecurityInv /\ GrantInv /\ [SecurityNext]_securityVars => SecurityInv' /\ GrantInv'
  BY ShapeStep, ConnectionStep, GrantStep DEF SecurityInv
<1>3. SecurityInv /\ GrantInv => PoliciesMatchHandlers
  <2>. SUFFICES ASSUME SecurityInv, GrantInv,
                       NEW r \in Requests, request[r].phase = "ready", ~request[r].disturbed,
                       NEW w \in Permitted(request[r].user)
                PROVE  Allowed(w, context[request[r].connection])
    BY DEF PoliciesMatchHandlers
  <2>1. Served(r) /\ request[r].user \in Users
    BY DEF SecurityInv, ShapeInv, Served, Serving, Idle
  <2>2. Whole(request[r].user, context[request[r].connection])
    BY <2>1 DEF GrantInv, Entitled
  <2>. QED  BY <2>1, <2>2, Granting DEF SecurityInv, GrantInv
<1>. QED  BY <1>1, <1>2, <1>3, PTL DEF SecuritySpec

-----------------------------------------------------------------------------
(* Types.                                                                  *)

\* The settings of a connection and the company of an account and of a profile
\* are of their kinds.
THEOREM SecurityTypeCorrect ==
    ASSUME HomeCompany \in [Users -> Companies \cup {None}]
    PROVE  SecuritySpec => []SecurityTypeOK
<1>. DEFINE Rest == profile \in [Users -> Companies \cup {None}]
            Inv == ShapeInv /\ Rest
<1>1. SecurityInit => Inv
  BY SecurityStart DEF SecurityInit, SecurityInv
<1>2. Inv /\ [SecurityNext]_securityVars => Inv'
  <2>. SUFFICES ASSUME Inv, [SecurityNext]_securityVars  PROVE Rest'
    BY ShapeStep
  <2>1. ASSUME NEW r \in Requests, NEW u \in Users, CreateProfile(r, u)
        PROVE  Rest'
    <3>. DEFINE q == request[r]
                c == IF RoleOf[q.user] = "COMPANY_ADMIN" THEN company[q.user] ELSE company[u]
    <3>1. q.user \in Users
      BY <2>1 DEF CreateProfile, ShapeInv, Serving, Idle
    <3>2. c \in Companies \cup {None}
      BY <3>1 DEF ShapeInv
    <3>3. profile' = [profile EXCEPT ![u] = c]
      BY <2>1 DEF CreateProfile, StoreProfile
    <3>. QED  BY <3>2, <3>3
  <2>2. CASE UNCHANGED profile
    BY <2>2
  <2>. QED
    BY <2>1, <2>2 DEF SecurityNext, securityVars, Open, SetIdentity, SetScope, Commit, Rollback,
       Close
<1>3. Inv => SecurityTypeOK
  <2>. SUFFICES ASSUME Inv, NEW k \in Connections
                PROVE  /\ context[k].user \in Users \cup {None}
                       /\ context[k].company \in Companies \cup {None}
    BY DEF ShapeInv, SecurityTypeOK
  <2>1. context[k] \in Contexts
    BY DEF ShapeInv
  <2>. QED  BY <2>1 DEF Contexts
<1>. QED  BY <1>1, <1>2, <1>3, PTL DEF SecuritySpec

=============================================================================
