-------------------------- MODULE PickupLifecycle ---------------------------
(***************************************************************************)
(* The pickup service (backend/app/services/pickup_service.py) over its    *)
(* database rows.                                                          *)
(*                                                                         *)
(* The handlers are plain functions run by a pool of threads, each with a  *)
(* database session of its own under READ COMMITTED, and no row is locked  *)
(* or versioned.  A request is therefore two steps: Begin... reads the     *)
(* rows and applies every guard of the handler, and Commit... writes the   *)
(* changed columns and inserts the new rows in one transaction.  Any other *)
(* request may commit in between.  A request a guard refuses (403, 404,    *)
(* 422) leaves no trace and is not a step.                                 *)
(***************************************************************************)
EXTENDS PickupStatuses, Naturals, Sequences

CONSTANTS
    Pickups,          \* ids of the pickup rows that may be inserted
    Requests,         \* the threads that serve requests
    Citizens,         \* users with role CITIZEN
    OrgAdmins,        \* users with role ORGANIZATION_ADMIN
    Collectors,       \* users with role COLLECTOR, each with its profile
    CompanyAdmins,    \* users with role COMPANY_ADMIN
    PlatformAdmins,   \* users with role MUNICIPAL_ADMIN or SUPER_ADMIN
    Companies,        \* waste companies
    CompanyOf,        \* the company of each collector and company admin
    None              \* SQL NULL

Requesters == Citizens \cup OrgAdmins
Admins == CompanyAdmins \cup PlatformAdmins
Users == Requesters \cup Collectors \cup Admins

ASSUME PickupAssumption ==
    /\ CompanyOf \in [Collectors \cup CompanyAdmins -> Companies]
    /\ None \notin Pickups \cup Users \cup Companies
    /\ Citizens \cap (OrgAdmins \cup Collectors \cup Admins) = {}
    /\ Collectors \cap (Requesters \cup Admins) = {}

VARIABLES
    status,             \* pickup_requests.status
    requester,          \* pickup_requests.requester_user_id
    assignedCollector,  \* pickup_requests.assigned_collector_id
    wasteCompany,       \* pickup_requests.waste_company_id
    cancelledAt,        \* pickup_requests.cancelled_at is not NULL
    collection,         \* the rows of collections for each pickup
    wasteRecord,        \* how many waste_records its completion inserted
    ledger,             \* how many points_ledger_entries reference it
    notification,       \* how many notifications of each type reference it
    audit,              \* what audit_logs says of it
    rewardRule,         \* an active VERIFIED_PICKUP rule exists
    request             \* what each thread is about to commit

columns == <<status, requester, assignedCollector, wasteCompany, cancelledAt>>
settlement == <<collection, wasteRecord, ledger>>
vars == <<columns, settlement, notification, audit, rewardRule, request>>

-----------------------------------------------------------------------------

NotificationType ==
    {"PICKUP_SCHEDULED", "PICKUP_ASSIGNED", "REWARD_EARNED", "COLLECTION_COMPLETED"}

CollectionRow == [collector : Collectors, wasSuccessful : BOOLEAN]

\* An audit entry: the action, the status it put the pickup in (the code
\* writes it into the action's name) and, for an assignment, the collector.
AuditEntry ==
    [action : {"PICKUP_REQUESTED", "RECURRING_PICKUP_MATERIALIZED",
               "PICKUP_ASSIGNED", "PICKUP_STATUS", "COLLECTION_COMPLETED",
               "COLLECTION_FAILED"},
     status : PickupStatus,
     collector : Collectors \cup {None}]

Entry(action, s, c) == [action |-> action, status |-> s, collector |-> c]

\* What a thread holds between its reads and its commit.  A completion also
\* looks the reward rule up, which takes it from "complete" to "settle".
PendingRequest ==
    [op : {"idle", "assign", "status", "complete", "settle", "fail"},
     pickup : Pickups \cup {None},
     target : PickupStatus \cup {None},
     collector : Collectors \cup {None},
     rewarded : BOOLEAN]

Pending(op, p, s, c) ==
    [op |-> op, pickup |-> p, target |-> s, collector |-> c, rewarded |-> FALSE]

Idle == Pending("idle", None, None, None)

Init ==
    /\ status = [p \in Pickups |-> Absent]
    /\ requester = [p \in Pickups |-> None]
    /\ assignedCollector = [p \in Pickups |-> None]
    /\ wasteCompany = [p \in Pickups |-> None]
    /\ cancelledAt = [p \in Pickups |-> FALSE]
    /\ collection = [p \in Pickups |-> <<>>]
    /\ wasteRecord = [p \in Pickups |-> 0]
    /\ ledger = [p \in Pickups |-> 0]
    /\ notification = [p \in Pickups |-> [t \in NotificationType |-> 0]]
    /\ audit = [p \in Pickups |-> {}]
    /\ rewardRule = FALSE
    /\ request = [r \in Requests |-> Idle]

-----------------------------------------------------------------------------
(* The writes the handlers share.                                          *)

SetStatus(p, s) == status' = [status EXCEPT ![p] = s]

\* Broken variant: an action is logged the first time only.
LogFirst(p, e) ==
    audit' = [audit EXCEPT ![p] =
                 IF \E d \in @ : d.action = e.action THEN @ ELSE @ \cup {e}]

Log(p, e) == audit' = [audit EXCEPT ![p] = @ \cup {e}]

Notify(p, types) ==
    notification' = [notification EXCEPT ![p] =
        [t \in NotificationType |-> IF t \in types THEN @[t] + 1 ELSE @[t]]]

-----------------------------------------------------------------------------
(* Requests that read nothing they later overwrite: one step each.         *)

InsertPickup(u, p, action, types) ==
    /\ u \in Requesters
    /\ status[p] = Absent
    /\ SetStatus(p, "REQUESTED")
    /\ requester' = [requester EXCEPT ![p] = u]
    /\ Notify(p, types)
    /\ Log(p, Entry(action, "REQUESTED", None))
    /\ UNCHANGED <<assignedCollector, wasteCompany, cancelledAt, settlement,
                   rewardRule, request>>

\* POST /pickups
CreatePickup(u, p) == InsertPickup(u, p, "PICKUP_REQUESTED", {})

\* The row a run of the scheduler inserts for a recurring schedule of u.
MaterializePickup(u, p) ==
    InsertPickup(u, p, "RECURRING_PICKUP_MATERIALIZED", {"PICKUP_SCHEDULED"})

\* POST /rewards/rules for VERIFIED_PICKUP; no endpoint deactivates a rule.
CreateRewardRule ==
    /\ ~rewardRule
    /\ rewardRule' = TRUE
    /\ UNCHANGED <<columns, settlement, notification, audit, request>>

-----------------------------------------------------------------------------
(* The reads and guards of the handlers.                                   *)

Free(r) == request[r].op = "idle"

\* Broken variants of MayTransition: a table that only protects the terminal
\* statuses, and no table at all.
MayLeave(p, s) == status[p] # Absent /\ PICKUP_TRANSITIONS[status[p]] # {}
RowExists(p, s) == status[p] # Absent

\* _transition: the row exists and its status, as read, allows the target.
MayTransition(p, s) ==
    /\ status[p] # Absent
    /\ s \in PICKUP_TRANSITIONS[status[p]]

\* Broken variant: any collector serves any pickup that has one.
HasCollector(p, c) == assignedCollector[p] # None

IsAssignedTo(p, c) == assignedCollector[p] = c

Begin(r, op, p, s, c) ==
    /\ Free(r)
    /\ MayTransition(p, s)
    /\ request' = [request EXCEPT ![r] = Pending(op, p, s, c)]
    /\ UNCHANGED <<columns, settlement, notification, audit, rewardRule>>

\* A company admin may only assign collectors of the same company.
MayAssign(u, c) ==
    /\ u \in Admins
    /\ u \in CompanyAdmins => CompanyOf[c] = CompanyOf[u]

BeginAssign(r, u, p, c) ==
    /\ MayAssign(u, c)
    /\ Begin(r, "assign", p, "ASSIGNED", c)

\* Citizens may only cancel, and only their own pickup; collectors may move
\* the pickups assigned to them; administrators may move any pickup.
MayUpdateStatus(u, p, s) ==
    \/ u \in Citizens /\ requester[p] = u /\ s = "CANCELLED"
    \/ u \in Collectors /\ IsAssignedTo(p, u)
    \/ u \in Admins

BeginUpdateStatus(r, u, p, s) ==
    /\ MayUpdateStatus(u, p, s)
    /\ Begin(r, "status", p, s, None)

BeginComplete(r, c, p) ==
    /\ IsAssignedTo(p, c)
    /\ Begin(r, "complete", p, "COLLECTED", c)

\* The rule is looked up after the guards and before the commit.
ReadRewardRule(r) ==
    /\ request[r].op = "complete"
    /\ request' = [request EXCEPT ![r].op = "settle", ![r].rewarded = rewardRule]
    /\ UNCHANGED <<columns, settlement, notification, audit, rewardRule>>

BeginFail(r, c, p) ==
    /\ IsAssignedTo(p, c)
    /\ Begin(r, "fail", p, "FAILED", c)

-----------------------------------------------------------------------------
(* The commits.  An UPDATE names the row by its id alone, so it overwrites *)
(* whatever status another request has committed since the read.           *)

Finish(r) == request' = [request EXCEPT ![r] = Idle]

\* Broken variant: the company is filled in once and then kept.
SetCollectorOnly(p, c) ==
    /\ assignedCollector' = [assignedCollector EXCEPT ![p] = c]
    /\ wasteCompany' = [wasteCompany EXCEPT ![p] = IF @ = None THEN CompanyOf[c] ELSE @]

SetCollector(p, c) ==
    /\ assignedCollector' = [assignedCollector EXCEPT ![p] = c]
    /\ wasteCompany' = [wasteCompany EXCEPT ![p] = CompanyOf[c]]

CommitAssign(r) ==
    LET p == request[r].pickup
        c == request[r].collector
    IN  /\ request[r].op = "assign"
        /\ SetStatus(p, "ASSIGNED")
        /\ SetCollector(p, c)
        /\ Notify(p, {"PICKUP_ASSIGNED"})
        /\ Log(p, Entry("PICKUP_ASSIGNED", "ASSIGNED", c))
        /\ Finish(r)
        /\ UNCHANGED <<requester, cancelledAt, settlement, rewardRule>>

\* Broken variant: every terminal status is stamped.
StampTerminal(p, s) ==
    cancelledAt' = [cancelledAt EXCEPT ![p] = @ \/ PICKUP_TRANSITIONS[s] = {}]

StampCancellation(p, s) ==
    cancelledAt' = [cancelledAt EXCEPT ![p] = @ \/ s = "CANCELLED"]

CommitUpdateStatus(r) ==
    LET p == request[r].pickup
        s == request[r].target
    IN  /\ request[r].op = "status"
        /\ SetStatus(p, s)
        /\ StampCancellation(p, s)
        /\ Log(p, Entry("PICKUP_STATUS", s, None))
        /\ Finish(r)
        /\ UNCHANGED <<requester, assignedCollector, wasteCompany, settlement,
                       notification, rewardRule>>

\* Broken variant: the unique constraint is dropped.
NotConstrained(p) == TRUE

\* collections.pickup_request_id is UNIQUE.
Unsettled(p) == collection[p] = <<>>

\* Broken variant: collector_id, which may be NULL, is left out.
InsertUnsigned(p, c, ok) ==
    collection' = [collection EXCEPT ![p] =
                      Append(@, [collector |-> None, wasSuccessful |-> ok])]

InsertCollection(p, c, ok) ==
    collection' = [collection EXCEPT ![p] =
                      Append(@, [collector |-> c, wasSuccessful |-> ok])]

CommitComplete(r) ==
    LET p == request[r].pickup
        c == request[r].collector
        earned == request[r].rewarded
    IN  /\ request[r].op = "settle"
        /\ Unsettled(p)
        /\ SetStatus(p, "COLLECTED")
        /\ InsertCollection(p, c, TRUE)
        /\ wasteRecord' = [wasteRecord EXCEPT ![p] = @ + 1]
        /\ ledger' = [ledger EXCEPT ![p] = IF earned THEN @ + 1 ELSE @]
        /\ Notify(p, {"COLLECTION_COMPLETED"} \cup
                     (IF earned THEN {"REWARD_EARNED"} ELSE {}))
        /\ Log(p, Entry("COLLECTION_COMPLETED", "COLLECTED", None))
        /\ Finish(r)
        /\ UNCHANGED <<requester, assignedCollector, wasteCompany, cancelledAt,
                       rewardRule>>

CommitFail(r) ==
    LET p == request[r].pickup
        c == request[r].collector
    IN  /\ request[r].op = "fail"
        /\ Unsettled(p)
        /\ SetStatus(p, "FAILED")
        /\ InsertCollection(p, c, FALSE)
        /\ Log(p, Entry("COLLECTION_FAILED", "FAILED", None))
        /\ Finish(r)
        /\ UNCHANGED <<requester, assignedCollector, wasteCompany, cancelledAt,
                       wasteRecord, ledger, notification, rewardRule>>

\* The transaction leaves nothing behind: the INSERT into collections hit the
\* unique constraint (409), or the thread, its connection or the whole server
\* failed before the commit.
Rollback(r) ==
    /\ ~Free(r)
    /\ Finish(r)
    /\ UNCHANGED <<columns, settlement, notification, audit, rewardRule>>

-----------------------------------------------------------------------------

Serve(r) ==
    \/ \E u \in Users, p \in Pickups, c \in Collectors : BeginAssign(r, u, p, c)
    \/ \E u \in Users, p \in Pickups, s \in PickupStatus :
            BeginUpdateStatus(r, u, p, s)
    \/ \E p \in Pickups, c \in Collectors : BeginComplete(r, c, p)
    \/ \E p \in Pickups, c \in Collectors : BeginFail(r, c, p)
    \/ ReadRewardRule(r)
    \/ CommitAssign(r)
    \/ CommitUpdateStatus(r)
    \/ CommitComplete(r)
    \/ CommitFail(r)
    \/ Rollback(r)

Next ==
    \/ \E u \in Users, p \in Pickups : CreatePickup(u, p)
    \/ \E u \in Users, p \in Pickups : MaterializePickup(u, p)
    \/ CreateRewardRule
    \/ \E r \in Requests : Serve(r)

Spec == Init /\ [][Next]_vars

-----------------------------------------------------------------------------
(* Properties of any number of concurrent requests.                        *)

\* Every column and table holds values of its type.
TypeOK ==
    /\ status \in [Pickups -> PickupStatus \cup {Absent}]
    /\ requester \in [Pickups -> Requesters \cup {None}]
    /\ assignedCollector \in [Pickups -> Collectors \cup {None}]
    /\ wasteCompany \in [Pickups -> Companies \cup {None}]
    /\ cancelledAt \in [Pickups -> BOOLEAN]
    /\ collection \in [Pickups -> Seq(CollectionRow)]
    /\ wasteRecord \in [Pickups -> Nat]
    /\ ledger \in [Pickups -> Nat]
    /\ notification \in [Pickups -> [NotificationType -> Nat]]
    /\ audit \in [Pickups -> SUBSET AuditEntry]
    /\ rewardRule \in BOOLEAN
    /\ request \in [Requests -> PendingRequest]

Succeeded(p) == \E i \in DOMAIN collection[p] : collection[p][i].wasSuccessful

\* A pickup earns its requester points at most once, only with a successful
\* proof of collection, and the requester is told exactly when it does:
\* however completions and failure reports of one pickup race, the losing
\* transaction of complete_collection leaves none of its rows behind.
RewardOnlyForProof ==
    \A p \in Pickups :
        /\ ledger[p] <= IF Succeeded(p) THEN 1 ELSE 0
        /\ notification[p]["REWARD_EARNED"] = ledger[p]

\* The waste record and the completion notice of a pickup exist exactly when
\* its successful proof of collection does, once each, although nothing in
\* the schema ties a waste record to a collection (collection_id stays NULL).
WasteMatchesProof ==
    \A p \in Pickups :
        LET n == IF Succeeded(p) THEN 1 ELSE 0
        IN  /\ wasteRecord[p] = n
            /\ notification[p]["COLLECTION_COMPLETED"] = n

\* The company of a pickup is the company of its collector, also after two
\* assignments to collectors of different companies both commit.
CompanyFollowsCollector ==
    \A p \in Pickups :
        wasteCompany[p] = IF assignedCollector[p] = None
                            THEN None
                            ELSE CompanyOf[assignedCollector[p]]

\* The collector named by a proof of collection was assigned that pickup in
\* an audited assignment, also when a later assignment replaced the collector.
ProofByAssignee ==
    \A p \in Pickups : \A i \in DOMAIN collection[p] :
        Entry("PICKUP_ASSIGNED", "ASSIGNED", collection[p][i].collector) \in audit[p]

\* No stage is skipped: whatever status a pickup was ever put in, it had been
\* put in a status before it from which PICKUP_TRANSITIONS leads there.  A lost
\* update can take a pickup back, never ahead of the stages it went through.
NoStageSkipped ==
    \A p \in Pickups : \A e \in audit[p] :
        \/ e.status = "REQUESTED"
        \/ \E d \in audit[p] : e.status \in PICKUP_TRANSITIONS[d.status]

\* The audit log explains the row: it names the status the row is in, has a
\* cancellation exactly when cancelled_at is set, and an entry of the right
\* kind for every proof of collection.
AuditExplainsRow ==
    \A p \in Pickups :
        /\ IF status[p] = Absent
             THEN audit[p] = {}
             ELSE \E e \in audit[p] : e.status = status[p]
        /\ cancelledAt[p] <=> \E e \in audit[p] : e.status = "CANCELLED"
        /\ \A i \in DOMAIN collection[p] : \E e \in audit[p] :
               e.action = IF collection[p][i].wasSuccessful
                            THEN "COLLECTION_COMPLETED" ELSE "COLLECTION_FAILED"

-----------------------------------------------------------------------------
(* Properties of requests served one at a time.                            *)

\* A proof of collection agrees with the status of its pickup and with the
\* collector the pickup is assigned to.
ProofMatchesRow ==
    \A p \in Pickups : \A i \in DOMAIN collection[p] :
        /\ status[p] = IF collection[p][i].wasSuccessful THEN "COLLECTED" ELSE "FAILED"
        /\ collection[p][i].collector = assignedCollector[p]

\* cancelled_at is set exactly while the pickup is CANCELLED.
CancelledIsStamped ==
    \A p \in Pickups : cancelledAt[p] <=> status[p] = "CANCELLED"

Outcome(p) ==
    IF collection[p] = <<>> THEN "none"
    ELSE IF collection[p][1].wasSuccessful THEN "success" ELSE "failure"

Flow == INSTANCE PickupFlow WITH
            stage <- status,
            outcome <- [p \in Pickups |-> Outcome(p)],
            points <- ledger

\* Served one at a time, requests implement the promise of PickupFlow: legal
\* transitions only, at most one outcome, and points only with a success.
ImplementsFlow == Flow!FlowSpec

-----------------------------------------------------------------------------
(* What comments and tests of the repository say and the code does not do. *)

\* backend/tests/test_pickups.py:108, "A COLLECTED pickup cannot be modified
\* further": two requests that read ARRIVED can both commit.
CollectedIsFinal ==
    [][\A p \in Pickups : status[p] = "COLLECTED" => status'[p] = "COLLECTED"]_vars

=============================================================================
