---------------------------- MODULE RowSecurity -----------------------------
(***************************************************************************)
(* The connection of a request and the policies of its rows:               *)
(* backend/app/core/database.py, security/dependencies.py, core/rls.py,    *)
(* and the profile of a collector (api/v1/collectors.py), whose company    *)
(* the policies compare with the company of his account.                   *)
(*                                                                         *)
(* The server is connected as ecotrack_app, to which the policies apply.   *)
(* A SET takes effect at once, is kept by a commit and is undone by the    *)
(* rollback of the transaction that made it.  A context is the values of   *)
(* the app.* settings; an empty setting and one never made are None.       *)
(***************************************************************************)
EXTENDS FiniteSets

CONSTANTS
    Users,
    RoleOf, OrgOf, RecyclerOf,   \* of each account, None where it has none
    HomeCompany,                 \* the company an account was made with
    Companies,
    Requests, Connections,
    None

VARIABLES
    company,          \* users.waste_company_id
    profile,          \* collectors: the company of the profile of a user
    request,          \* the requests being answered
    committed,        \* per connection, the context a rollback goes back to
    context           \* ...and the one its statements run under

securityVars == <<company, profile, request, committed, context>>

Empty == [user |-> None, role |-> None, company |-> None, collector |-> None,
          org |-> None, recycler |-> None]
Idle == [phase |-> "idle"]

SecurityInit ==
    /\ company = HomeCompany
    /\ profile = [u \in Users |-> None]
    /\ request = [r \in Requests |-> Idle]
    /\ committed = [k \in Connections |-> Empty]
    /\ context = committed

-----------------------------------------------------------------------------
(* The policies.  A row is known by its table and the columns they read;   *)
(* the collector of a row is the user of the profile.                      *)

Row(table) == [table |-> table, owner |-> None, collector |-> None,
               company |-> None, org |-> None, recycler |-> None]
OwnedBy(table, u) == [Row(table) EXCEPT !.owner = u]
OfCompany(table, c) == [Row(table) EXCEPT !.company = c]

Same(a, b) == a = b /\ a # None
Municipal == {"SUPER_ADMIN", "MUNICIPAL_ADMIN"}
Staff == Municipal \cup {"COMPANY_ADMIN"}

\* Tables with a policy to read and one to insert, and none to update.
TwoTier == {"notifications", "points_ledger_entries", "recycling_records",
            "waste_records"}

\* USING of the policies for all commands, and of those for SELECT.
Using(row, c) ==
    CASE row.table = "pickup_requests" ->
            Same(row.owner, c.user) \/ Same(row.collector, c.collector) \/ c.role \in Staff
      [] row.table = "complaints" -> Same(row.owner, c.user) \/ c.role \in Staff
      [] row.table = "collectors" ->
            Same(row.company, c.company) \/ Same(row.owner, c.user) \/ c.role \in Municipal
      [] row.table \in {"vehicles", "waste_companies"} ->
            Same(row.company, c.company) \/ c.role \in Municipal
      [] row.table \in {"organizations", "organization_locations"} ->
            Same(row.org, c.org) \/ c.role \in Municipal
      [] row.table = "reward_redemptions" -> Same(row.owner, c.user) \/ c.role = "SUPER_ADMIN"
      [] row.table = "notifications" -> Same(row.owner, c.user)
      [] OTHER -> c.role # None

\* WITH CHECK, where it differs from USING.
Check(row, c) ==
    CASE row.table = "collectors" -> Same(row.company, c.company) \/ c.role \in Municipal
      [] row.table \in {"organizations", "waste_companies"} -> c.role \in Municipal
      [] row.table = "points_ledger_entries" ->
            Same(row.owner, c.user) \/ c.role \in {"COLLECTOR", "SUPER_ADMIN"}
      [] row.table = "recycling_records" ->
            Same(row.recycler, c.recycler) \/ c.role = "SUPER_ADMIN"
      [] row.table = "waste_records" -> Same(row.company, c.company) \/ c.role = "SUPER_ADMIN"
      [] row.table = "notifications" -> c.role # None
      [] OTHER -> Using(row, c)

Allowed(statement, c) ==
    CASE statement.op = "select" -> Using(statement.row, c)
      [] statement.op = "insert" -> Check(statement.row, c)
      [] statement.op = "update" -> /\ statement.row.table \notin TwoTier
                                    /\ Using(statement.row, c) /\ Check(statement.row, c)

-----------------------------------------------------------------------------
(* What the handlers write, once their own checks have passed.             *)

Insert(row) == [op |-> "insert", row |-> row]
Update(row) == [op |-> "update", row |-> row]

ProfileRow(u) == [Row("collectors") EXCEPT !.owner = u, !.company = profile[u]]
AssignedTo(u) == [OwnedBy("pickup_requests", None) EXCEPT !.collector = u]

\* mark_read.
Marking(u) == {Update(OwnedBy("notifications", u))}

\* Everyone: a pickup, its cancellation, a complaint, a redemption.
WritesOfAll(u) ==
    {Insert(OwnedBy("pickup_requests", u)), Update(OwnedBy("pickup_requests", u)),
     Insert(OwnedBy("complaints", u)), Insert(OwnedBy("reward_redemptions", u)),
     Insert(OwnedBy("points_ledger_entries", u))}

\* complete_collection, report_failure, update_pickup_status and
\* update_my_location, for a user with a profile.
WritesOfCollector(u) ==
    {Update(AssignedTo(u)), Insert(OfCompany("waste_records", profile[u])),
     Update(ProfileRow(u))}
    \cup {Insert(OwnedBy(t, v)) : t \in {"points_ledger_entries", "notifications"}, v \in Users}

\* assign_pickup, update_complaint_status.
WritesOfStaff ==
    {Update(OwnedBy(t, v)) : t \in {"pickup_requests", "complaints"}, v \in Users}
    \cup {Insert(OwnedBy("notifications", v)) : v \in Users}

\* register_vehicle, update_vehicle_status, update_assignment.
WritesOfCompany(c) ==
    {Insert(OfCompany("vehicles", c)), Update(OfCompany("vehicles", c))}
    \cup {Update(ProfileRow(v)) : v \in {w \in Users : profile[w] = c}}

Permitted(u) ==
    UNION {WritesOfAll(u),
           IF RoleOf[u] = "COLLECTOR" /\ profile[u] # None THEN WritesOfCollector(u) ELSE {},
           IF RoleOf[u] \in Staff THEN WritesOfStaff ELSE {},
           IF RoleOf[u] = "COMPANY_ADMIN" /\ company[u] # None
           THEN WritesOfCompany(company[u]) ELSE {},
           IF RoleOf[u] \in Municipal
           THEN {Insert(Row("organizations")), Insert(Row("waste_companies"))} ELSE {},
           IF RoleOf[u] = "ORGANIZATION_ADMIN" /\ OrgOf[u] # None
           THEN {Insert([Row("organization_locations") EXCEPT !.org = OrgOf[u]])} ELSE {},
           IF RoleOf[u] = "RECYCLER" /\ RecyclerOf[u] # None
           THEN {Insert([Row("recycling_records") EXCEPT !.recycler = RecyclerOf[u]])} ELSE {}}

-----------------------------------------------------------------------------
(* A request: get_db, get_current_user, the handler, and the end.          *)

Holds(k) == {r \in Requests : request[r] # Idle /\ request[r].connection = k}

\* get_db takes one connection for the whole request.
Open(r, u, k) ==
    /\ request[r] = Idle /\ Holds(k) = {}
    /\ request' = [request EXCEPT ![r] =
          [phase |-> "opened", user |-> u, company |-> company[u],
           connection |-> k, disturbed |-> FALSE]]
    /\ UNCHANGED <<company, profile, committed, context>>

\* _set_rls_session_context: who and as what...
SetIdentity(r) ==
    LET q == request[r]
    IN  /\ q.phase = "opened"
        /\ context' = [context EXCEPT ![q.connection] =
              [@ EXCEPT !.user = q.user, !.role = RoleOf[q.user]]]
        /\ request' = [request EXCEPT ![r].phase = "identified"]
        /\ UNCHANGED <<company, profile, committed>>

\* The profile the lookup finds: the policies apply to it.
FoundProfile(u, c) ==
    IF RoleOf[u] = "COLLECTOR" /\ profile[u] # None
       /\ Allowed([op |-> "select", row |-> ProfileRow(u)], c)
    THEN u ELSE None

\* Broken variant: the lookup is made before anything is set.
LookupFirst(r) ==
    LET q == request[r]
    IN  /\ q.phase = "identified"
        /\ context' = [context EXCEPT ![q.connection] =
              [@ EXCEPT !.company = q.company, !.collector = FoundProfile(q.user, Empty),
                        !.org = OrgOf[q.user], !.recycler = RecyclerOf[q.user]]]
        /\ request' = [request EXCEPT ![r].phase = "ready"]
        /\ UNCHANGED <<company, profile, committed>>

\* ...then the collector, looked up under that, and what he belongs to.
SetScope(r) ==
    LET q == request[r]
    IN  /\ q.phase = "identified"
        /\ context' = [context EXCEPT ![q.connection] =
              [@ EXCEPT !.company = q.company,
                        !.collector = FoundProfile(q.user, context[q.connection]),
                        !.org = OrgOf[q.user], !.recycler = RecyclerOf[q.user]]]
        /\ request' = [request EXCEPT ![r].phase = "ready"]
        /\ UNCHANGED <<company, profile, committed>>

\* A handler commits, and may go on.
Commit(r) ==
    LET k == request[r].connection
    IN  /\ request[r].phase = "ready"
        /\ committed' = [committed EXCEPT ![k] = context[k]]
        /\ UNCHANGED <<company, profile, request, context>>

\* A handler rolls back, and goes on (generate_due_pickups).
Rollback(r) ==
    LET k == request[r].connection
    IN  /\ request[r].phase = "ready"
        /\ context' = [context EXCEPT ![k] = committed[k]]
        /\ request' = [request EXCEPT ![r].disturbed = @ \/ committed[k] = Empty]
        /\ UNCHANGED <<company, profile, committed>>

\* Broken variant: the account keeps the company it had.
ProfileOnly(u, c) == profile' = [profile EXCEPT ![u] = c] /\ UNCHANGED company

\* The two rows create_collector_profile writes.
StoreProfile(u, c) ==
    /\ profile' = [profile EXCEPT ![u] = c]
    /\ company' = [company EXCEPT ![u] = c]

\* create_collector_profile, with its commit; a second profile of a user is
\* refused, by the handler that sees the first or by the unique column.
CreateProfile(r, u) ==
    LET q == request[r]
        c == IF RoleOf[q.user] = "COMPANY_ADMIN" THEN company[q.user] ELSE company[u]
    IN  /\ q.phase = "ready"
        /\ RoleOf[q.user] \in {"COMPANY_ADMIN", "SUPER_ADMIN"}
        /\ RoleOf[u] = "COLLECTOR" /\ profile[u] = None /\ c # None
        /\ Allowed(Insert(OfCompany("collectors", c)), context[q.connection])
        /\ StoreProfile(u, c)
        /\ committed' = [committed EXCEPT ![q.connection] = context[q.connection]]
        /\ request' = [s \in Requests |->
              IF request[s] # Idle /\ request[s].user = u
              THEN [request[s] EXCEPT !.disturbed = TRUE] ELSE request[s]]
        /\ UNCHANGED context

\* Broken variant: a connection goes back to the pool as it is.
Kept(c) == c

\* RESET ALL, when a connection goes back to the pool.
Reset(c) == Empty

\* The request ends: the session is closed, and with it what is not committed.
Close(r) ==
    LET k == request[r].connection
    IN  /\ request[r] # Idle
        /\ committed' = [committed EXCEPT ![k] = Reset(@)]
        /\ context' = [context EXCEPT ![k] = Reset(committed[k])]
        /\ request' = [request EXCEPT ![r] = Idle]
        /\ UNCHANGED <<company, profile>>

SecurityNext ==
    \E r \in Requests :
        \/ \E u \in Users, k \in Connections : Open(r, u, k)
        \/ SetIdentity(r)
        \/ SetScope(r)
        \/ Commit(r)
        \/ Rollback(r)
        \/ \E u \in Users : CreateProfile(r, u)
        \/ Close(r)

SecuritySpec == SecurityInit /\ [][SecurityNext]_securityVars

-----------------------------------------------------------------------------
\* Settings hold values of their kind.
SecurityTypeOK ==
    /\ company \in [Users -> Companies \cup {None}]
    /\ profile \in [Users -> Companies \cup {None}]
    /\ \A k \in Connections : context[k].user \in Users \cup {None}
                              /\ context[k].company \in Companies \cup {None}

\* A connection serves one request after another (database.py:10-74): the
\* statements of a handler run under the whole context of its own user, or,
\* after a rollback that undid it, under none; a connection that no request
\* holds, or that is not authenticated yet, has none of an earlier one's.
ContextIsOwn ==
    /\ \A k \in Connections : Holds(k) = {} => context[k] = Empty
    /\ \A r \in Requests :
          LET q == request[r]
              c == context[q.connection]
          IN  /\ q.phase = "opened" => c = Empty
              /\ q.phase = "ready" /\ c # Empty =>
                    c.user = q.user /\ c.role = RoleOf[q.user] /\ c.company = q.company
              /\ q.phase = "ready" /\ c = Empty => q.disturbed

\* What a handler lets a user write the policies let him write too
\* (core/rls.py), as long as his context has not been rolled back and his
\* profile was not made while he was being served.  Marking a notification as
\* read is apart.
PoliciesMatchHandlers ==
    \A r \in Requests :
        request[r].phase = "ready" /\ ~request[r].disturbed =>
            \A w \in Permitted(request[r].user) :
                Allowed(w, context[request[r].connection])

\* docs/multi-tenancy.md:50-53, 71: the policies grant what the application
\* grants, "not a broader or narrower set", and are "transparent to legitimate
\* traffic": the owner of a notification can mark it as read.
ReadingCanBeMarked ==
    \A r \in Requests :
        request[r].phase = "ready" /\ ~request[r].disturbed =>
            \A w \in Marking(request[r].user) :
                Allowed(w, context[request[r].connection])

=============================================================================
