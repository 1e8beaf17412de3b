----------------------- MODULE PickupLifecycle_proofs -----------------------
(***************************************************************************)
(* Proofs about PickupLifecycle, for any number of pickups, users and      *)
(* threads.  The invariants are proved in layers, each using the ones      *)
(* before it: the types and the shape of pending requests, then what the   *)
(* audit log says of rows and pending requests, then the settlement.       *)
(* Last comes what holds when requests are served one at a time: proof,    *)
(* status and cancellation agree, and PickupFlow is implemented.           *)
(***************************************************************************)
EXTENDS PickupLifecycle, TLAPS

(* A thread past its guards holds a pickup, a target status and, unless it *)
(* serves PATCH /pickups/{id}/status, a collector.                         *)
PendingShape ==
    \A r \in Requests :
        request[r].op # "idle" =>
            /\ request[r].pickup \in Pickups
            /\ request[r].target \in PickupStatus
            /\ request[r].op # "status" => request[r].collector \in Collectors

TypeInv == TypeOK /\ PendingShape

LEMMA TransitionsType ==
    PICKUP_TRANSITIONS \in [PickupStatus -> SUBSET PickupStatus]
BY DEF PICKUP_TRANSITIONS, PickupStatus

\* What the guards of a Begin step leave in the thread's slot.
LEMMA BeginType ==
    ASSUME TypeInv, NEW r \in Requests, NEW p \in Pickups, NEW s \in PickupStatus,
           NEW c \in Collectors \cup {None},
           NEW op \in {"assign", "status", "complete", "fail"},
           op # "status" => c \in Collectors,
           Begin(r, op, p, s, c)
    PROVE  TypeInv'
<1>1. Pending(op, p, s, c) \in PendingRequest
  BY DEF Pending, PendingRequest
<1>2. TypeOK'
  BY <1>1 DEF TypeInv, TypeOK, Begin, columns, settlement
<1>3. PendingShape'
  BY DEF TypeInv, TypeOK, PendingShape, Begin, Pending, PendingRequest
<1>. QED  BY <1>2, <1>3 DEF TypeInv

\* A thread that finishes, by commit or rollback, keeps the slots well-shaped.
LEMMA FinishType ==
    ASSUME TypeInv, NEW r \in Requests, Finish(r)
    PROVE  request' \in [Requests -> PendingRequest] /\ PendingShape'
<1>1. Idle \in PendingRequest
  BY DEF Idle, Pending, PendingRequest
<1>. QED  BY <1>1 DEF TypeInv, TypeOK, PendingShape, Finish, Idle, Pending

InsertActions == {"PICKUP_REQUESTED", "RECURRING_PICKUP_MATERIALIZED"}

LEMMA EntryType ==
    ASSUME NEW a \in InsertActions \cup {"PICKUP_ASSIGNED", "PICKUP_STATUS",
                                        "COLLECTION_COMPLETED", "COLLECTION_FAILED"},
           NEW s \in PickupStatus, NEW c \in Collectors \cup {None}
    PROVE  Entry(a, s, c) \in AuditEntry
BY DEF Entry, AuditEntry, InsertActions

LEMMA LogType ==
    ASSUME TypeOK, NEW p \in Pickups, NEW e \in AuditEntry, Log(p, e)
    PROVE  audit' \in [Pickups -> SUBSET AuditEntry]
BY DEF TypeOK, Log

LEMMA NotifyType ==
    ASSUME TypeOK, NEW p \in Pickups, NEW types, Notify(p, types)
    PROVE  notification' \in [Pickups -> [NotificationType -> Nat]]
BY DEF TypeOK, Notify

LEMMA TypeInit == Init => TypeInv
<1>. SUFFICES ASSUME Init PROVE TypeInv
  OBVIOUS
<1>1. Idle \in PendingRequest
  BY DEF Idle, Pending, PendingRequest
<1>2. <<>> \in Seq(CollectionRow)
  OBVIOUS
<1>3. TypeOK
  BY <1>1, <1>2 DEF Init, TypeOK
<1>4. PendingShape
  BY DEF Init, PendingShape, Idle, Pending
<1>. QED  BY <1>3, <1>4 DEF TypeInv

LEMMA TypeStep == TypeInv /\ [Next]_vars => TypeInv'
<1>. SUFFICES ASSUME TypeInv, [Next]_vars PROVE TypeInv'
  OBVIOUS
<1>. USE DEF TypeInv
<1>1. ASSUME NEW u \in Users, NEW p \in Pickups, NEW action \in InsertActions,
             NEW types, InsertPickup(u, p, action, types)
      PROVE  TypeInv'
  <2>1. Entry(action, "REQUESTED", None) \in AuditEntry
    BY EntryType DEF PickupStatus, InsertActions
  <2>2. audit' \in [Pickups -> SUBSET AuditEntry]
    BY <1>1, <2>1, LogType DEF InsertPickup
  <2>3. notification' \in [Pickups -> [NotificationType -> Nat]]
    BY <1>1, NotifyType DEF InsertPickup
  <2>4. TypeOK'
    BY <1>1, <2>2, <2>3 DEF InsertPickup, TypeOK, SetStatus, settlement, PickupStatus
  <2>. QED  BY <1>1, <2>4 DEF InsertPickup, PendingShape
<1>2. CASE CreateRewardRule
  BY <1>2 DEF CreateRewardRule, TypeOK, PendingShape, columns, settlement
<1>3. ASSUME NEW r \in Requests, NEW u \in Users, NEW p \in Pickups,
             NEW c \in Collectors, BeginAssign(r, u, p, c)
      PROVE  TypeInv'
  BY <1>3, BeginType DEF BeginAssign, PickupStatus
<1>4. ASSUME NEW r \in Requests, NEW u \in Users, NEW p \in Pickups,
             NEW s \in PickupStatus, BeginUpdateStatus(r, u, p, s)
      PROVE  TypeInv'
  BY <1>4, BeginType DEF BeginUpdateStatus
<1>5. ASSUME NEW r \in Requests, NEW p \in Pickups, NEW c \in Collectors,
             BeginComplete(r, c, p)
      PROVE  TypeInv'
  BY <1>5, BeginType DEF BeginComplete, PickupStatus
<1>6. ASSUME NEW r \in Requests, NEW p \in Pickups, NEW c \in Collectors,
             BeginFail(r, c, p)
      PROVE  TypeInv'
  BY <1>6, BeginType DEF BeginFail, PickupStatus
<1>7. ASSUME NEW r \in Requests, ReadRewardRule(r)
      PROVE  TypeInv'
  <2>1. request[r] \in PendingRequest /\ rewardRule \in BOOLEAN
    BY DEF TypeOK
  <2>. DEFINE m == [request[r] EXCEPT !.op = "settle", !.rewarded = rewardRule]
  <2>2. /\ m \in PendingRequest
        /\ m.pickup = request[r].pickup
        /\ m.target = request[r].target
        /\ m.collector = request[r].collector
    BY <2>1 DEF PendingRequest
  <2>3. request' = [request EXCEPT ![r] = m]
    BY <1>7 DEF ReadRewardRule
  <2>4. request[r].op # "idle" /\ request[r].op # "status"
    BY <1>7 DEF ReadRewardRule
  <2>. HIDE DEF m
  <2>5. TypeOK'
    BY <1>7, <2>2, <2>3 DEF ReadRewardRule, TypeOK, columns, settlement
  <2>6. PendingShape'
    BY <2>2, <2>3, <2>4 DEF TypeOK, PendingShape
  <2>. QED  BY <2>5, <2>6
<1>8. ASSUME NEW r \in Requests, CommitAssign(r)
      PROVE  TypeInv'
  <2>. DEFINE p == request[r].pickup  c == request[r].collector
  <2>1. p \in Pickups /\ c \in Collectors
    BY <1>8 DEF CommitAssign, PendingShape
  <2>2. CompanyOf[c] \in Companies
    BY <2>1, PickupAssumption
  <2>3. Entry("PICKUP_ASSIGNED", "ASSIGNED", c) \in AuditEntry
    BY <2>1, EntryType DEF PickupStatus
  <2>4. audit' \in [Pickups -> SUBSET AuditEntry]
    BY <1>8, <2>1, <2>3, LogType DEF CommitAssign
  <2>5. notification' \in [Pickups -> [NotificationType -> Nat]]
    BY <1>8, <2>1, NotifyType DEF CommitAssign
  <2>6. request' \in [Requests -> PendingRequest] /\ PendingShape'
    BY <1>8, FinishType DEF CommitAssign
  <2>7. TypeOK'
    BY <1>8, <2>1, <2>2, <2>4, <2>5, <2>6
    DEF CommitAssign, SetCollector, TypeOK, SetStatus, settlement, PickupStatus
  <2>. QED  BY <2>6, <2>7
<1>9. ASSUME NEW r \in Requests, CommitUpdateStatus(r)
      PROVE  TypeInv'
  <2>. DEFINE p == request[r].pickup  s == request[r].target
  <2>1. p \in Pickups /\ s \in PickupStatus
    BY <1>9 DEF CommitUpdateStatus, PendingShape
  <2>2. Entry("PICKUP_STATUS", s, None) \in AuditEntry
    BY <2>1, EntryType
  <2>3. audit' \in [Pickups -> SUBSET AuditEntry]
    BY <1>9, <2>1, <2>2, LogType DEF CommitUpdateStatus
  <2>4. request' \in [Requests -> PendingRequest] /\ PendingShape'
    BY <1>9, FinishType DEF CommitUpdateStatus
  <2>5. status' \in [Pickups -> PickupStatus \cup {Absent}]
    BY <1>9, <2>1 DEF CommitUpdateStatus, TypeOK, SetStatus
  <2>6. cancelledAt' \in [Pickups -> BOOLEAN]
    <3>1. (cancelledAt[p] \/ s = "CANCELLED") \in BOOLEAN
      OBVIOUS
    <3>. QED  BY <1>9, <2>1, <3>1 DEF CommitUpdateStatus, StampCancellation, TypeOK
  <2>7. TypeOK'
    BY <1>9, <2>3, <2>4, <2>5, <2>6 DEF CommitUpdateStatus, TypeOK, settlement
  <2>. QED  BY <2>4, <2>7
<1>10. ASSUME NEW r \in Requests, CommitComplete(r)
       PROVE  TypeInv'
  <2>. DEFINE p == request[r].pickup  c == request[r].collector
  <2>1. p \in Pickups /\ c \in Collectors
    BY <1>10 DEF CommitComplete, PendingShape
  <2>2. Entry("COLLECTION_COMPLETED", "COLLECTED", None) \in AuditEntry
    BY EntryType DEF PickupStatus
  <2>3. audit' \in [Pickups -> SUBSET AuditEntry]
    BY <1>10, <2>1, <2>2, LogType DEF CommitComplete
  <2>4. notification' \in [Pickups -> [NotificationType -> Nat]]
    BY <1>10, <2>1, NotifyType DEF CommitComplete
  <2>5. request' \in [Requests -> PendingRequest] /\ PendingShape'
    BY <1>10, FinishType DEF CommitComplete
  <2>6. collection' \in [Pickups -> Seq(CollectionRow)]
    <3>1. [collector |-> c, wasSuccessful |-> TRUE] \in CollectionRow
      BY <2>1 DEF CollectionRow
    <3>. QED  BY <1>10, <2>1, <3>1 DEF CommitComplete, InsertCollection, TypeOK
  <2>7. ledger' \in [Pickups -> Nat]
    <3>1. PICK n \in {ledger[p], ledger[p] + 1} : ledger' = [ledger EXCEPT ![p] = n]
      BY <1>10 DEF CommitComplete
    <3>. QED  BY <2>1, <3>1 DEF TypeOK
  <2>8. wasteRecord' \in [Pickups -> Nat]
    BY <1>10, <2>1 DEF CommitComplete, TypeOK
  <2>9. TypeOK'
    BY <1>10, <2>1, <2>3, <2>4, <2>5, <2>6, <2>7, <2>8
    DEF CommitComplete, TypeOK, SetStatus, PickupStatus
  <2>. QED  BY <2>5, <2>9
<1>11. ASSUME NEW r \in Requests, CommitFail(r)
       PROVE  TypeInv'
  <2>. DEFINE p == request[r].pickup  c == request[r].collector
  <2>1. p \in Pickups /\ c \in Collectors
    BY <1>11 DEF CommitFail, PendingShape
  <2>2. Entry("COLLECTION_FAILED", "FAILED", None) \in AuditEntry
    BY EntryType DEF PickupStatus
  <2>3. audit' \in [Pickups -> SUBSET AuditEntry]
    BY <1>11, <2>1, <2>2, LogType DEF CommitFail
  <2>4. request' \in [Requests -> PendingRequest] /\ PendingShape'
    BY <1>11, FinishType DEF CommitFail
  <2>5. collection' \in [Pickups -> Seq(CollectionRow)]
    <3>1. [collector |-> c, wasSuccessful |-> FALSE] \in CollectionRow
      BY <2>1 DEF CollectionRow
    <3>. QED  BY <1>11, <2>1, <3>1 DEF CommitFail, InsertCollection, TypeOK
  <2>6. TypeOK'
    BY <1>11, <2>1, <2>3, <2>4, <2>5
    DEF CommitFail, TypeOK, SetStatus, PickupStatus
  <2>. QED  BY <2>4, <2>6
<1>12. ASSUME NEW r \in Requests, Rollback(r)
       PROVE  TypeInv'
  <2>1. request' \in [Requests -> PendingRequest] /\ PendingShape'
    BY <1>12, FinishType DEF Rollback
  <2>. QED  BY <1>12, <2>1 DEF Rollback, TypeOK, columns, settlement
<1>13. CASE UNCHANGED vars
  BY <1>13 DEF vars, columns, settlement, TypeOK, PendingShape
<1>. QED
  BY <1>1, <1>2, <1>3, <1>4, <1>5, <1>6, <1>7, <1>8, <1>9, <1>10, <1>11,
     <1>12, <1>13
  DEF Next, Serve, CreatePickup, MaterializePickup, InsertActions

\* Type correctness of every column, table and pending request.
THEOREM TypeCorrect == Spec => []TypeOK
<1>1. Spec => []TypeInv
  BY TypeInit, TypeStep, PTL DEF Spec
<1>2. TypeInv => TypeOK
  BY DEF TypeInv
<1>. QED  BY <1>1, <1>2, PTL

-----------------------------------------------------------------------------
(* What the audit log says of the rows and of the pending requests.        *)

\* The steps that only read rows: the guards of a handler, the lookup of the
\* reward rule, a rollback.
RowsUnchanged == UNCHANGED <<columns, settlement, notification, audit>>

LEMMA StepKinds ==
    ASSUME [Next]_vars
    PROVE  \/ RowsUnchanged
           \/ \E u \in Users, p \in Pickups, action \in InsertActions,
                 types \in SUBSET {"PICKUP_SCHEDULED"} : InsertPickup(u, p, action, types)
           \/ \E r \in Requests : \/ CommitAssign(r)
                                  \/ CommitUpdateStatus(r)
                                  \/ CommitComplete(r)
                                  \/ CommitFail(r)
BY DEF Next, Serve, vars, RowsUnchanged, CreatePickup, MaterializePickup,
       InsertActions, CreateRewardRule, BeginAssign,
       BeginUpdateStatus, BeginComplete, BeginFail, Begin, ReadRewardRule, Rollback

RowAudited ==
    \A p \in Pickups :
        IF status[p] = Absent
          THEN audit[p] = {}
          ELSE \E e \in audit[p] : e.status = status[p]

Assignment(c) == Entry("PICKUP_ASSIGNED", "ASSIGNED", c)

AssigneeAudited ==
    \A p \in Pickups :
        assignedCollector[p] # None => Assignment(assignedCollector[p]) \in audit[p]

CancelAudited ==
    \A p \in Pickups : cancelledAt[p] <=> \E e \in audit[p] : e.status = "CANCELLED"

\* The guards a pending request passed still show in the audit log, whatever
\* other requests have committed since: audit entries are never deleted.
PendingAudited ==
    \A r \in Requests :
        LET p == request[r].pickup
            op == request[r].op
        IN  op # "idle" =>
              /\ \E d \in audit[p] : request[r].target \in PICKUP_TRANSITIONS[d.status]
              /\ op = "assign" => request[r].target = "ASSIGNED"
              /\ op \in {"complete", "settle"} => request[r].target = "COLLECTED"
              /\ op = "fail" => request[r].target = "FAILED"
              /\ op \in {"complete", "settle", "fail"} =>
                     Assignment(request[r].collector) \in audit[p]

AuditInv ==
    /\ RowAudited
    /\ AssigneeAudited
    /\ CancelAudited
    /\ NoStageSkipped
    /\ PendingAudited

\* Every handler logs exactly one entry, for the pickup it writes.
LEMMA AuditGrows ==
    ASSUME TypeInv, [Next]_vars
    PROVE  \A p \in Pickups : audit[p] \subseteq audit'[p]
<1>1. ASSUME NEW p \in Pickups, NEW q, NEW e, Log(q, e)
      PROVE  audit[p] \subseteq audit'[p]
  BY <1>1 DEF Log, TypeInv, TypeOK
<1>2. ASSUME NEW u, NEW q, NEW action, NEW types, InsertPickup(u, q, action, types),
             NEW p \in Pickups
      PROVE  audit[p] \subseteq audit'[p]
  BY <1>1, <1>2 DEF InsertPickup
<1>3. ASSUME NEW r \in Requests, NEW p \in Pickups,
             CommitAssign(r) \/ CommitUpdateStatus(r) \/ CommitComplete(r) \/ CommitFail(r)
      PROVE  audit[p] \subseteq audit'[p]
  BY <1>1, <1>3 DEF CommitAssign, CommitUpdateStatus, CommitComplete, CommitFail
<1>. QED  BY StepKinds, <1>2, <1>3 DEF RowsUnchanged

\* A request keeps what its guards established until it finishes.
LEMMA PendingStep ==
    ASSUME TypeInv, AuditInv, [Next]_vars
    PROVE  PendingAudited'
<1>. DEFINE Ok(q, log) ==
        q.op # "idle" =>
          /\ \E d \in log[q.pickup] : q.target \in PICKUP_TRANSITIONS[d.status]
          /\ q.op = "assign" => q.target = "ASSIGNED"
          /\ q.op \in {"complete", "settle"} => q.target = "COLLECTED"
          /\ q.op = "fail" => q.target = "FAILED"
          /\ q.op \in {"complete", "settle", "fail"} =>
                 Assignment(q.collector) \in log[q.pickup]
<1>1. PendingAudited <=> \A r \in Requests : Ok(request[r], audit)
  BY DEF PendingAudited
<1>2. PendingAudited' <=> \A r \in Requests : Ok(request'[r], audit')
  BY DEF PendingAudited
<1>3. \A r \in Requests : Ok(request[r], audit')
  BY <1>1, AuditGrows DEF AuditInv, TypeInv, PendingShape
<1>. HIDE DEF Ok
<1>4. Ok(Idle, audit')
  BY DEF Ok, Idle, Pending
<1>5. ASSUME NEW r \in Requests, Finish(r)
      PROVE  \A q \in Requests : Ok(request'[q], audit')
  BY <1>3, <1>4, <1>5 DEF Finish, TypeInv, TypeOK
<1>6. ASSUME NEW r \in Requests, NEW p \in Pickups, NEW s \in PickupStatus,
             NEW c \in Collectors \cup {None}, NEW op, Begin(r, op, p, s, c),
             \/ op = "assign" /\ s = "ASSIGNED"
             \/ op = "status"
             \/ op = "complete" /\ s = "COLLECTED" /\ IsAssignedTo(p, c) /\ c # None
             \/ op = "fail" /\ s = "FAILED" /\ IsAssignedTo(p, c) /\ c # None
      PROVE  \A q \in Requests : Ok(request'[q], audit')
  <2>1. PICK d \in audit[p] : s \in PICKUP_TRANSITIONS[d.status]
    BY <1>6 DEF Begin, MayTransition, AuditInv, RowAudited
  <2>2. op \in {"complete", "fail"} => Assignment(c) \in audit[p]
    BY <1>6 DEF AuditInv, AssigneeAudited, IsAssignedTo
  <2>3. Ok(Pending(op, p, s, c), audit')
    BY <1>6, <2>1, <2>2 DEF Ok, Pending, Begin
  <2>. QED  BY <1>3, <1>6, <2>3 DEF Begin, TypeInv, TypeOK
<1>7. ASSUME NEW r \in Requests, ReadRewardRule(r)
      PROVE  \A q \in Requests : Ok(request'[q], audit')
  <2>. DEFINE m == [request[r] EXCEPT !.op = "settle", !.rewarded = rewardRule]
  <2>1. request[r] \in PendingRequest
    BY DEF TypeInv, TypeOK
  <2>2. /\ m.op = "settle"
        /\ m.pickup = request[r].pickup
        /\ m.target = request[r].target
        /\ m.collector = request[r].collector
    BY <2>1 DEF PendingRequest
  <2>3. request' = [request EXCEPT ![r] = m]
    BY <1>7 DEF ReadRewardRule
  <2>. HIDE DEF m
  <2>4. Ok(m, audit')
    BY <1>3, <1>7, <2>2 DEF Ok, ReadRewardRule
  <2>. QED  BY <1>3, <2>3, <2>4 DEF TypeInv, TypeOK
<1>8. ASSUME UNCHANGED request
      PROVE  \A q \in Requests : Ok(request'[q], audit')
  BY <1>3, <1>8
<1>9. None \notin Collectors
  BY PickupAssumption DEF Users
<1>. QED
  <2>1. ASSUME NEW u, NEW p, NEW action, NEW types, InsertPickup(u, p, action, types)
        PROVE  UNCHANGED request
    BY <2>1 DEF InsertPickup
  <2>2. CASE CreateRewardRule \/ UNCHANGED vars
    BY <2>2, <1>2, <1>8 DEF CreateRewardRule, vars
  <2>3. ASSUME NEW r \in Requests, Serve(r)
        PROVE  \A q \in Requests : Ok(request'[q], audit')
    <3>1. ASSUME NEW u \in Users, NEW p \in Pickups, NEW c \in Collectors,
                 BeginAssign(r, u, p, c)
          PROVE  \A q \in Requests : Ok(request'[q], audit')
      BY <3>1, <1>6 DEF BeginAssign, PickupStatus
    <3>2. ASSUME NEW u \in Users, NEW p \in Pickups, NEW s \in PickupStatus,
                 BeginUpdateStatus(r, u, p, s)
          PROVE  \A q \in Requests : Ok(request'[q], audit')
      BY <3>2, <1>6 DEF BeginUpdateStatus
    <3>3. ASSUME NEW p \in Pickups, NEW c \in Collectors, BeginComplete(r, c, p)
          PROVE  \A q \in Requests : Ok(request'[q], audit')
      BY <3>3, <1>6, <1>9 DEF BeginComplete, PickupStatus
    <3>4. ASSUME NEW p \in Pickups, NEW c \in Collectors, BeginFail(r, c, p)
          PROVE  \A q \in Requests : Ok(request'[q], audit')
      BY <3>4, <1>6, <1>9 DEF BeginFail, PickupStatus
    <3>5. CASE CommitAssign(r) \/ CommitUpdateStatus(r) \/ CommitComplete(r)
                 \/ CommitFail(r) \/ Rollback(r)
      BY <3>5, <1>5
      DEF CommitAssign, CommitUpdateStatus, CommitComplete, CommitFail, Rollback
    <3>. QED  BY <2>3, <3>1, <3>2, <3>3, <3>4, <3>5, <1>7 DEF Serve
  <2>. QED  BY <1>2, <1>8, <2>1, <2>2, <2>3
            DEF Next, CreatePickup, MaterializePickup

\* What the audit log needs of a step that writes pickup p: its one new entry
\* e names the status written, by a legal transition from an earlier one.
LEMMA RowStep ==
    ASSUME TypeInv, RowAudited, CancelAudited, NoStageSkipped,
           NEW p \in Pickups, NEW e \in AuditEntry,
           Log(p, e), SetStatus(p, e.status),
           \/ e.status = "REQUESTED"
           \/ \E d \in audit[p] : e.status \in PICKUP_TRANSITIONS[d.status],
           \A q \in Pickups :
               cancelledAt'[q] <=> cancelledAt[q] \/ (q = p /\ e.status = "CANCELLED")
    PROVE  RowAudited' /\ CancelAudited' /\ NoStageSkipped'
<1>1. \A q \in Pickups : audit'[q] = IF q = p THEN audit[q] \cup {e} ELSE audit[q]
  BY DEF Log, TypeInv, TypeOK
<1>2. \A q \in Pickups : status'[q] = IF q = p THEN e.status ELSE status[q]
  BY DEF SetStatus, TypeInv, TypeOK
<1>3. e.status # Absent
  BY DEF AuditEntry, PickupStatus, Absent
<1>4. RowAudited'
  BY <1>1, <1>2, <1>3 DEF RowAudited
<1>5. CancelAudited'
  BY <1>1 DEF CancelAudited
<1>6. NoStageSkipped'
  BY <1>1 DEF NoStageSkipped
<1>. QED  BY <1>4, <1>5, <1>6

LEMMA AuditStep ==
    ASSUME TypeInv, AuditInv, [Next]_vars
    PROVE  AuditInv'
<1>. USE DEF AuditInv
<1>1. PendingAudited'
  BY PendingStep
<1>2. CASE RowsUnchanged
  BY <1>1, <1>2 DEF RowsUnchanged, columns, RowAudited, AssigneeAudited,
                    CancelAudited, NoStageSkipped
<1>3. ASSUME NEW u \in Users, NEW p \in Pickups, NEW action \in InsertActions,
             NEW types, InsertPickup(u, p, action, types)
      PROVE  AuditInv'
  <2>. DEFINE e == Entry(action, "REQUESTED", None)
  <2>1. e \in AuditEntry /\ e.status = "REQUESTED"
    BY DEF Entry, AuditEntry, PickupStatus, InsertActions
  <2>2. Log(p, e) /\ SetStatus(p, e.status)
    BY <1>3, <2>1 DEF InsertPickup
  <2>3. UNCHANGED <<assignedCollector, cancelledAt>>
    BY <1>3 DEF InsertPickup
  <2>. HIDE DEF e
  <2>4. RowAudited' /\ CancelAudited' /\ NoStageSkipped'
    BY <2>1, <2>2, <2>3, RowStep
  <2>5. AssigneeAudited'
    BY <2>2, <2>3 DEF AssigneeAudited, Log, TypeInv, TypeOK
  <2>. QED  BY <1>1, <2>4, <2>5
<1>4. ASSUME NEW r \in Requests, NEW a \in {"PICKUP_STATUS", "COLLECTION_COMPLETED",
                                          "COLLECTION_FAILED"},
             request[r].op # "idle",
             Log(request[r].pickup, Entry(a, request[r].target, None)),
             SetStatus(request[r].pickup, request[r].target),
             UNCHANGED assignedCollector,
             \A q \in Pickups :
                 cancelledAt'[q] <=>
                     cancelledAt[q] \/ (q = request[r].pickup /\ request[r].target = "CANCELLED")
      PROVE  AuditInv'
  <2>. DEFINE p == request[r].pickup  e == Entry(a, request[r].target, None)
  <2>1. p \in Pickups /\ request[r].target \in PickupStatus
    BY <1>4 DEF TypeInv, PendingShape
  <2>2. e \in AuditEntry /\ e.status = request[r].target
    BY <2>1 DEF Entry, AuditEntry
  <2>3. \E d \in audit[p] : e.status \in PICKUP_TRANSITIONS[d.status]
    BY <1>4, <2>2 DEF PendingAudited
  <2>4. RowAudited' /\ CancelAudited' /\ NoStageSkipped'
    BY <1>4, <2>1, <2>2, <2>3, RowStep
  <2>5. AssigneeAudited'
    BY <1>4, <2>1 DEF AssigneeAudited, Log, TypeInv, TypeOK
  <2>. QED  BY <1>1, <2>4, <2>5
<1>5. ASSUME NEW r \in Requests, CommitAssign(r)
      PROVE  AuditInv'
  <2>. DEFINE p == request[r].pickup  c == request[r].collector  e == Assignment(c)
  <2>1. p \in Pickups /\ c \in Collectors
    BY <1>5 DEF CommitAssign, TypeInv, PendingShape
  <2>2. e \in AuditEntry /\ e.status = "ASSIGNED"
    BY <2>1 DEF Assignment, Entry, AuditEntry, PickupStatus
  <2>3. \E d \in audit[p] : e.status \in PICKUP_TRANSITIONS[d.status]
    BY <1>5, <2>2 DEF CommitAssign, PendingAudited
  <2>4. /\ Log(p, e) /\ SetStatus(p, e.status)
        /\ assignedCollector' = [assignedCollector EXCEPT ![p] = c]
        /\ UNCHANGED cancelledAt
    BY <1>5, <2>2 DEF CommitAssign, SetCollector, Assignment
  <2>. HIDE DEF e
  <2>5. RowAudited' /\ CancelAudited' /\ NoStageSkipped'
    BY <2>1, <2>2, <2>3, <2>4, RowStep
  <2>6. AssigneeAudited'
    <3>1. e \in audit'[p] /\ e = Assignment(c)
      BY <2>1, <2>4 DEF Log, TypeInv, TypeOK, e
    <3>. QED  BY <2>1, <2>4, <3>1 DEF AssigneeAudited, Log, TypeInv, TypeOK
  <2>. QED  BY <1>1, <2>5, <2>6
<1>6. ASSUME NEW r \in Requests, CommitUpdateStatus(r)
      PROVE  AuditInv'
  <2>1. request[r].pickup \in Pickups
    BY <1>6 DEF CommitUpdateStatus, TypeInv, PendingShape
  <2>2. \A q \in Pickups :
            cancelledAt'[q] <=>
                cancelledAt[q] \/ (q = request[r].pickup /\ request[r].target = "CANCELLED")
    BY <1>6, <2>1 DEF CommitUpdateStatus, StampCancellation, TypeInv, TypeOK
  <2>. QED  BY <1>4, <1>6, <2>2 DEF CommitUpdateStatus
<1>7. ASSUME NEW r \in Requests, CommitComplete(r) \/ CommitFail(r)
      PROVE  AuditInv'
  <2>1. request[r].target = IF request[r].op = "fail" THEN "FAILED" ELSE "COLLECTED"
    BY <1>7 DEF CommitComplete, CommitFail, PendingAudited
  <2>2. UNCHANGED <<assignedCollector, cancelledAt>>
    BY <1>7 DEF CommitComplete, CommitFail
  <2>3. CASE CommitComplete(r)
    BY <1>4, <2>1, <2>2, <2>3 DEF CommitComplete
  <2>4. CASE CommitFail(r)
    BY <1>4, <2>1, <2>2, <2>4 DEF CommitFail
  <2>. QED  BY <1>7, <2>3, <2>4
<1>. QED  BY StepKinds, <1>2, <1>3, <1>5, <1>6, <1>7

LEMMA AuditInit == Init => AuditInv
BY PickupAssumption
DEF Init, AuditInv, RowAudited, AssigneeAudited, CancelAudited, NoStageSkipped,
    PendingAudited, Idle, Pending, Users, Requesters, Admins

LEMMA AuditCorrect == Spec => [](TypeInv /\ AuditInv)
<1>1. TypeInv /\ AuditInv /\ [Next]_vars => (TypeInv /\ AuditInv)'
  BY TypeStep, AuditStep
<1>. QED  BY TypeInit, AuditInit, <1>1, PTL DEF Spec

\* However many threads race, a pickup never skips a stage.
THEOREM StagesInOrder == Spec => []NoStageSkipped
BY AuditCorrect, PTL DEF AuditInv

-----------------------------------------------------------------------------
(* The collector and the company of a pickup.                              *)

\* The two columns are written together, so racing assignments to collectors
\* of different companies leave the pair of one of them.
THEOREM CompanyCorrect == Spec => []CompanyFollowsCollector
<1>1. Init => CompanyFollowsCollector
  BY DEF Init, CompanyFollowsCollector
<1>2. ASSUME TypeInv, CompanyFollowsCollector, [Next]_vars
      PROVE  CompanyFollowsCollector'
  <2>. USE DEF CompanyFollowsCollector
  <2>1. CASE UNCHANGED <<assignedCollector, wasteCompany>>
    BY <1>2, <2>1
  <2>2. ASSUME NEW r \in Requests, CommitAssign(r)
        PROVE  CompanyFollowsCollector'
    <3>. DEFINE p == request[r].pickup  c == request[r].collector
    <3>1. p \in Pickups /\ c \in Collectors
      BY <1>2, <2>2 DEF CommitAssign, TypeInv, PendingShape
    <3>2. c # None
      BY <3>1, PickupAssumption DEF Users
    <3>3. /\ assignedCollector' = [assignedCollector EXCEPT ![p] = c]
          /\ wasteCompany' = [wasteCompany EXCEPT ![p] = CompanyOf[c]]
      BY <2>2 DEF CommitAssign, SetCollector
    <3>. QED  BY <1>2, <3>1, <3>2, <3>3 DEF TypeInv, TypeOK
  <2>3. ASSUME NEW u, NEW p, NEW action, NEW types, InsertPickup(u, p, action, types)
        PROVE  UNCHANGED <<assignedCollector, wasteCompany>>
    BY <2>3 DEF InsertPickup
  <2>4. ASSUME NEW r \in Requests,
               CommitUpdateStatus(r) \/ CommitComplete(r) \/ CommitFail(r)
        PROVE  UNCHANGED <<assignedCollector, wasteCompany>>
    BY <2>4 DEF CommitUpdateStatus, CommitComplete, CommitFail
  <2>. QED  BY <1>2, StepKinds, <2>1, <2>2, <2>3, <2>4 DEF RowsUnchanged, columns
<1>. QED  BY <1>1, <1>2, TypeInit, TypeStep, PTL DEF Spec

-----------------------------------------------------------------------------
(* The settlement of a pickup: its proof, waste record, points, notices.   *)

\* The unique constraint on collections.pickup_request_id.
AtMostOneProof ==
    \A p \in Pickups :
        collection[p] = <<>> \/ \E row \in CollectionRow : collection[p] = <<row>>

ProofAudited ==
    \A p \in Pickups : \A i \in DOMAIN collection[p] : \E e \in audit[p] :
        e.action = IF collection[p][i].wasSuccessful
                     THEN "COLLECTION_COMPLETED" ELSE "COLLECTION_FAILED"

Settled(p) ==
    LET n == IF Succeeded(p) THEN 1 ELSE 0
    IN  /\ ledger[p] <= n
        /\ notification[p]["REWARD_EARNED"] = ledger[p]
        /\ wasteRecord[p] = n
        /\ notification[p]["COLLECTION_COMPLETED"] = n

SettlementInv ==
    /\ AtMostOneProof
    /\ ProofByAssignee
    /\ ProofAudited
    /\ \A p \in Pickups : Settled(p)

LEMMA UnsettledFails ==
    ASSUME NEW p \in Pickups, Unsettled(p)
    PROVE  ~Succeeded(p)
BY DEF Unsettled, Succeeded

LEMMA InsertedRow ==
    ASSUME TypeOK, AtMostOneProof, NEW p \in Pickups, Unsettled(p),
           NEW c \in Collectors, NEW ok \in BOOLEAN, InsertCollection(p, c, ok)
    PROVE  /\ \A q \in Pickups :
                 collection'[q] = IF q = p THEN <<[collector |-> c, wasSuccessful |-> ok]>>
                                           ELSE collection[q]
           /\ \A q \in Pickups : Succeeded(q)' <=> IF q = p THEN ok ELSE Succeeded(q)
           /\ AtMostOneProof'
<1>. DEFINE row == [collector |-> c, wasSuccessful |-> ok]
<1>1. row \in CollectionRow /\ row.wasSuccessful = ok
  BY DEF CollectionRow
<1>2. collection' = [collection EXCEPT ![p] = <<row>>]
  BY DEF Unsettled, InsertCollection
<1>. HIDE DEF row
<1>3. \A q \in Pickups : collection'[q] = IF q = p THEN <<row>> ELSE collection[q]
  BY <1>2 DEF TypeOK
<1>4. \A q \in Pickups : Succeeded(q)' <=> IF q = p THEN ok ELSE Succeeded(q)
  <2>1. Succeeded(p)' <=> ok
    <3>1. collection'[p] = <<row>>
      BY <1>3
    <3>2. DOMAIN <<row>> = {1} /\ <<row>>[1] = row
      OBVIOUS
    <3>. QED  BY <1>1, <3>1, <3>2 DEF Succeeded
  <2>2. ASSUME NEW q \in Pickups, q # p
        PROVE  Succeeded(q)' <=> Succeeded(q)
    BY <1>3, <2>2 DEF Succeeded
  <2>. QED  BY <2>1, <2>2
<1>5. AtMostOneProof'
  BY <1>1, <1>3 DEF AtMostOneProof
<1>. QED  BY <1>3, <1>4, <1>5 DEF row

\* Audit entries stay, so does what they say of the proofs.
LEMMA ProofStep ==
    ASSUME TypeInv, AuditInv, ProofByAssignee, ProofAudited, [Next]_vars,
           NEW p \in Pickups, NEW row,
           \A q \in Pickups : collection'[q] = IF q = p THEN <<row>> ELSE collection[q],
           Assignment(row.collector) \in audit'[p],
           \E e \in audit'[p] : e.action = IF row.wasSuccessful
                THEN "COLLECTION_COMPLETED" ELSE "COLLECTION_FAILED"
    PROVE  ProofByAssignee' /\ ProofAudited'
<1>1. DOMAIN <<row>> = {1} /\ <<row>>[1] = row
  OBVIOUS
<1>2. ASSUME NEW q \in Pickups, NEW i \in DOMAIN collection'[q]
      PROVE  /\ Assignment(collection'[q][i].collector) \in audit'[q]
             /\ \E e \in audit'[q] : e.action = IF collection'[q][i].wasSuccessful
                     THEN "COLLECTION_COMPLETED" ELSE "COLLECTION_FAILED"
  <2>1. CASE q = p
    BY <1>1, <1>2, <2>1
  <2>2. CASE q # p
    BY <1>2, <2>2, AuditGrows DEF ProofByAssignee, ProofAudited, Assignment
  <2>. QED  BY <2>1, <2>2
<1>. QED  BY <1>2 DEF ProofByAssignee, ProofAudited, Assignment

\* A notice of one kind leaves the counts of the others alone.
LEMMA NotifyCounts ==
    ASSUME TypeOK, NEW p \in Pickups, NEW types, Notify(p, types)
    PROVE  \A q \in Pickups, t \in NotificationType :
               notification'[q][t] = notification[q][t]
                                     + IF q = p /\ t \in types THEN 1 ELSE 0
BY DEF TypeOK, Notify

\* The steps that touch no settlement row of any pickup.
LEMMA SettlementKept ==
    ASSUME TypeInv, AuditInv, SettlementInv, [Next]_vars, UNCHANGED settlement,
           \A p \in Pickups, t \in {"REWARD_EARNED", "COLLECTION_COMPLETED"} :
               notification'[p][t] = notification[p][t]
    PROVE  SettlementInv'
<1>1. \A p \in Pickups : Succeeded(p)' <=> Succeeded(p)
  BY DEF settlement, Succeeded
<1>2. ProofByAssignee'
  BY AuditGrows DEF SettlementInv, settlement, ProofByAssignee
<1>3. ProofAudited'
  BY AuditGrows DEF SettlementInv, settlement, ProofAudited
<1>4. AtMostOneProof'
  BY DEF SettlementInv, settlement, AtMostOneProof
<1>5. \A p \in Pickups : Settled(p)'
  BY <1>1 DEF SettlementInv, settlement, Settled
<1>. QED  BY <1>2, <1>3, <1>4, <1>5 DEF SettlementInv

LEMMA SettlementStep ==
    ASSUME TypeInv, AuditInv, SettlementInv, [Next]_vars
    PROVE  SettlementInv'
<1>. USE DEF TypeInv
<1>1. CASE RowsUnchanged
  BY <1>1, SettlementKept DEF RowsUnchanged
<1>2. ASSUME NEW u, NEW p \in Pickups, NEW action,
             NEW types \in SUBSET {"PICKUP_SCHEDULED"}, InsertPickup(u, p, action, types)
      PROVE  SettlementInv'
  <2>1. \A q \in Pickups, t \in {"REWARD_EARNED", "COLLECTION_COMPLETED"} :
            notification'[q][t] = notification[q][t]
    BY <1>2 DEF InsertPickup, Notify, NotificationType, TypeOK
  <2>. QED  BY <1>2, <2>1, SettlementKept DEF InsertPickup
<1>3. ASSUME NEW r \in Requests, CommitUpdateStatus(r)
      PROVE  SettlementInv'
  BY <1>3, SettlementKept DEF CommitUpdateStatus
<1>4. ASSUME NEW r \in Requests, CommitAssign(r)
      PROVE  SettlementInv'
  <2>1. request[r].pickup \in Pickups
    BY <1>4 DEF CommitAssign, PendingShape
  <2>2. \A q \in Pickups, t \in {"REWARD_EARNED", "COLLECTION_COMPLETED"} :
            notification'[q][t] = notification[q][t]
    BY <1>4, <2>1 DEF CommitAssign, Notify, NotificationType, TypeOK
  <2>. QED  BY <1>4, <2>2, SettlementKept DEF CommitAssign
<1>5. ASSUME NEW r \in Requests, CommitComplete(r)
      PROVE  SettlementInv'
  <2>. DEFINE p == request[r].pickup
              row == [collector |-> request[r].collector, wasSuccessful |-> TRUE]
              e == Entry("COLLECTION_COMPLETED", "COLLECTED", None)
  <2>1. p \in Pickups /\ request[r].collector \in Collectors
    BY <1>5 DEF CommitComplete, PendingShape
  <2>2. Unsettled(p) /\ InsertCollection(p, request[r].collector, TRUE)
    BY <1>5 DEF CommitComplete
  <2>3. /\ \A q \in Pickups : collection'[q] = IF q = p THEN <<row>> ELSE collection[q]
        /\ \A q \in Pickups : Succeeded(q)' <=> IF q = p THEN TRUE ELSE Succeeded(q)
        /\ AtMostOneProof'
    BY <2>1, <2>2, InsertedRow DEF SettlementInv
  <2>4. e \in audit'[p] /\ e.action = "COLLECTION_COMPLETED"
    BY <1>5, <2>1 DEF CommitComplete, Log, Entry, TypeOK
  <2>5. Assignment(row.collector) \in audit'[p]
    BY <1>5, <2>1, AuditGrows DEF CommitComplete, AuditInv, PendingAudited
  <2>6. ProofByAssignee' /\ ProofAudited'
    BY <2>1, <2>3, <2>4, <2>5, ProofStep DEF SettlementInv
  <2>. DEFINE types == {"COLLECTION_COMPLETED"} \cup
                           (IF request[r].rewarded THEN {"REWARD_EARNED"} ELSE {})
              plus(q) == IF q = p /\ request[r].rewarded THEN 1 ELSE 0
              one(q) == IF q = p THEN 1 ELSE 0
  <2>7. \A q \in Pickups : /\ ledger'[q] = ledger[q] + plus(q)
                           /\ wasteRecord'[q] = wasteRecord[q] + one(q)
    BY <1>5, <2>1 DEF CommitComplete, TypeOK
  <2>8. \A q \in Pickups, t \in NotificationType :
            notification'[q][t] = notification[q][t]
                                  + IF q = p /\ t \in types THEN 1 ELSE 0
    <3>1. Notify(p, types)
      BY <1>5 DEF CommitComplete
    <3>. QED  BY <2>1, <3>1, NotifyCounts
  <2>9. /\ "REWARD_EARNED" \in NotificationType
        /\ "COLLECTION_COMPLETED" \in NotificationType
        /\ "COLLECTION_COMPLETED" \in types
        /\ "REWARD_EARNED" \in types <=> request[r].rewarded
    BY DEF NotificationType
  <2>10. \A q \in Pickups :
            /\ notification'[q]["REWARD_EARNED"]
                   = notification[q]["REWARD_EARNED"] + plus(q)
            /\ notification'[q]["COLLECTION_COMPLETED"]
                   = notification[q]["COLLECTION_COMPLETED"] + one(q)
    BY <2>8, <2>9
  <2>11. ASSUME NEW q \in Pickups
         PROVE  Settled(q)'
    <3>1. /\ ledger[q] \in Nat /\ wasteRecord[q] \in Nat
          /\ notification[q]["REWARD_EARNED"] \in Nat
          /\ notification[q]["COLLECTION_COMPLETED"] \in Nat
      BY <2>9 DEF TypeOK
    <3>2. Settled(q)
      BY DEF SettlementInv
    <3>3. CASE q = p
      <4>1. ~Succeeded(p) /\ Succeeded(q)'
        BY <2>1, <2>2, <2>3, <3>3, UnsettledFails
      <4>. HIDE DEF types, p
      <4>. QED  BY <2>7, <2>10, <3>1, <3>2, <3>3, <4>1 DEF Settled
    <3>4. CASE q # p
      <4>1. /\ ledger'[q] = ledger[q]
            /\ wasteRecord'[q] = wasteRecord[q]
            /\ notification'[q]["REWARD_EARNED"] = notification[q]["REWARD_EARNED"]
            /\ notification'[q]["COLLECTION_COMPLETED"]
                   = notification[q]["COLLECTION_COMPLETED"]
        BY <2>7, <2>10, <3>1, <3>4
      <4>2. Succeeded(q)' <=> Succeeded(q)
        BY <2>3, <3>4
      <4>. QED  BY <3>2, <4>1, <4>2 DEF Settled
    <3>. QED  BY <3>3, <3>4
  <2>. QED  BY <2>3, <2>6, <2>11 DEF SettlementInv
<1>6. ASSUME NEW r \in Requests, CommitFail(r)
      PROVE  SettlementInv'
  <2>. DEFINE p == request[r].pickup
              row == [collector |-> request[r].collector, wasSuccessful |-> FALSE]
              e == Entry("COLLECTION_FAILED", "FAILED", None)
  <2>1. p \in Pickups /\ request[r].collector \in Collectors
    BY <1>6 DEF CommitFail, PendingShape
  <2>2. Unsettled(p) /\ InsertCollection(p, request[r].collector, FALSE)
    BY <1>6 DEF CommitFail
  <2>3. /\ \A q \in Pickups : collection'[q] = IF q = p THEN <<row>> ELSE collection[q]
        /\ \A q \in Pickups : Succeeded(q)' <=> IF q = p THEN FALSE ELSE Succeeded(q)
        /\ AtMostOneProof'
    BY <2>1, <2>2, InsertedRow DEF SettlementInv
  <2>4. e \in audit'[p] /\ e.action = "COLLECTION_FAILED"
    BY <1>6, <2>1 DEF CommitFail, Log, Entry, TypeOK
  <2>5. Assignment(row.collector) \in audit'[p]
    BY <1>6, <2>1, AuditGrows DEF CommitFail, AuditInv, PendingAudited
  <2>6. ProofByAssignee' /\ ProofAudited'
    BY <2>1, <2>3, <2>4, <2>5, ProofStep DEF SettlementInv
  <2>7. \A q \in Pickups : Succeeded(q)' <=> Succeeded(q)
    BY <2>2, <2>3, UnsettledFails
  <2>8. \A q \in Pickups : Settled(q)'
    BY <1>6, <2>7 DEF CommitFail, Settled, SettlementInv
  <2>. QED  BY <2>3, <2>6, <2>8 DEF SettlementInv
<1>. QED  BY StepKinds, <1>1, <1>2, <1>3, <1>4, <1>5, <1>6

LEMMA SettlementInit == Init => SettlementInv
<1>. SUFFICES ASSUME Init PROVE SettlementInv
  OBVIOUS
<1>1. \A p \in Pickups : collection[p] = <<>> /\ DOMAIN collection[p] = {}
  BY DEF Init
<1>2. \A p \in Pickups : ~Succeeded(p)
  BY <1>1 DEF Succeeded
<1>3. \A p \in Pickups : Settled(p)
  BY <1>2 DEF Init, Settled, NotificationType
<1>. QED  BY <1>1, <1>3 DEF SettlementInv, AtMostOneProof, ProofByAssignee, ProofAudited

LEMMA SettlementCorrect == Spec => [](TypeInv /\ AuditInv /\ SettlementInv)
<1>1. TypeInv /\ AuditInv /\ SettlementInv /\ [Next]_vars
        => (TypeInv /\ AuditInv /\ SettlementInv)'
  BY TypeStep, AuditStep, SettlementStep
<1>. QED  BY TypeInit, AuditInit, SettlementInit, <1>1, PTL DEF Spec

\* However completions and failure reports race, points are credited at most
\* once, only with a successful proof, and never without their notice.
THEOREM RewardCorrect == Spec => []RewardOnlyForProof
<1>1. SettlementInv => RewardOnlyForProof
  BY DEF SettlementInv, Settled, RewardOnlyForProof
<1>. QED  BY <1>1, SettlementCorrect, PTL

\* The waste record and the completion notice come and go with the proof.
THEOREM WasteCorrect == Spec => []WasteMatchesProof
<1>1. SettlementInv => WasteMatchesProof
  BY DEF SettlementInv, Settled, WasteMatchesProof
<1>. QED  BY <1>1, SettlementCorrect, PTL

\* A proof of collection names a collector the pickup had been assigned to.
THEOREM AssigneeCorrect == Spec => []ProofByAssignee
BY SettlementCorrect, PTL DEF SettlementInv

\* The audit log accounts for the row of every pickup.
THEOREM AuditTrailCorrect == Spec => []AuditExplainsRow
<1>1. AuditInv /\ SettlementInv => AuditExplainsRow
  BY DEF AuditInv, SettlementInv, RowAudited, CancelAudited, ProofAudited,
         AuditExplainsRow
<1>. QED  BY <1>1, SettlementCorrect, PTL

-----------------------------------------------------------------------------
(* Requests served one at a time.                                          *)

\* One thread serves the requests, so each commits what it has read.
Serial == \A r, q \in Requests : r = q

\* What the guards of the one pending request found is still so.
GuardsHold ==
    \A r \in Requests :
        LET q == request[r]
        IN  q.op # "idle" =>
              /\ MayTransition(q.pickup, q.target)
              /\ q.op \in {"complete", "settle", "fail"} =>
                     assignedCollector[q.pickup] = q.collector

SerialInv == GuardsHold /\ ProofMatchesRow /\ CancelledIsStamped

\* A pickup that may still move has no proof of collection.
LEMMA OpenIsUnsettled ==
    ASSUME TypeInv, SettlementInv, ProofMatchesRow,
           NEW p \in Pickups, NEW s, MayTransition(p, s)
    PROVE  Unsettled(p)
<1>1. ASSUME NEW row \in CollectionRow, collection[p] = <<row>>
      PROVE  FALSE
  <2>1. 1 \in DOMAIN collection[p]
    BY <1>1
  <2>2. status[p] \in {"COLLECTED", "FAILED"}
    BY <2>1 DEF ProofMatchesRow
  <2>3. PICKUP_TRANSITIONS[status[p]] = {}
    BY <2>2 DEF PICKUP_TRANSITIONS, PickupStatus
  <2>. QED  BY <2>3 DEF MayTransition
<1>. QED  BY <1>1 DEF SettlementInv, AtMostOneProof, Unsettled

\* Nothing leaves CANCELLED.
LEMMA OpenIsNotCancelled ==
    ASSUME NEW p \in Pickups, NEW s, MayTransition(p, s)
    PROVE  status[p] # "CANCELLED"
BY DEF MayTransition, PICKUP_TRANSITIONS, PickupStatus

\* The proof of a pickup, once there is one, matches its row after a step that
\* leaves the proofs alone, and the row of the pickups that have one.
LEMMA ProofKept ==
    ASSUME TypeInv, SettlementInv, ProofMatchesRow, UNCHANGED collection,
           \A p \in Pickups : \/ Unsettled(p)
                              \/ /\ status'[p] = status[p]
                                 /\ assignedCollector'[p] = assignedCollector[p]
    PROVE  ProofMatchesRow'
<1>1. \A p \in Pickups : Unsettled(p) => DOMAIN collection[p] = {}
  BY DEF Unsettled
<1>. QED  BY <1>1 DEF ProofMatchesRow

\* A step of the thread ends with an idle thread, or with guards that hold.
LEMMA SerialStep ==
    ASSUME Serial, TypeInv, AuditInv, SettlementInv, SerialInv, [Next]_vars
    PROVE  SerialInv'
<1>. USE DEF SerialInv, TypeInv
<1>1. ASSUME NEW r \in Requests, Finish(r)
      PROVE  GuardsHold'
  <2>1. \A q \in Requests : request'[q].op = "idle"
    BY <1>1 DEF Serial, Finish, Idle, Pending, TypeOK
  <2>. QED  BY <2>1 DEF GuardsHold
<1>2. CASE RowsUnchanged
  <2>1. ProofMatchesRow' /\ CancelledIsStamped'
    BY <1>2 DEF RowsUnchanged, columns, settlement, ProofMatchesRow, CancelledIsStamped
  <2>2. ASSUME NEW r \in Requests, NEW op, NEW p \in Pickups, NEW s \in PickupStatus,
               NEW c, Begin(r, op, p, s, c),
               op \in {"complete", "fail"} => IsAssignedTo(p, c), op # "settle"
        PROVE  GuardsHold'
    <3>1. \A q \in Requests : request'[q] = Pending(op, p, s, c)
      BY <2>2 DEF Begin, Serial, TypeOK
    <3>2. MayTransition(p, s)' /\ assignedCollector' = assignedCollector
      BY <1>2, <2>2 DEF Begin, MayTransition, RowsUnchanged, columns
    <3>. QED  BY <2>2, <3>1, <3>2 DEF GuardsHold, Pending, IsAssignedTo, MayTransition
  <2>3. ASSUME NEW r \in Requests, ReadRewardRule(r)
        PROVE  GuardsHold'
    <3>1. request[r] \in PendingRequest /\ request[r].op = "complete"
      BY <2>3 DEF ReadRewardRule, TypeOK
    <3>2. /\ request'[r].pickup = request[r].pickup
          /\ request'[r].target = request[r].target
          /\ request'[r].collector = request[r].collector
      BY <2>3, <3>1 DEF ReadRewardRule, TypeOK, PendingRequest
    <3>3. \A q \in Requests : q = r
      BY DEF Serial
    <3>4. status' = status /\ assignedCollector' = assignedCollector
      BY <1>2 DEF RowsUnchanged, columns
    <3>. QED  BY <3>1, <3>2, <3>3, <3>4 DEF GuardsHold, MayTransition
  <2>4. ASSUME UNCHANGED request
        PROVE  GuardsHold'
    BY <1>2, <2>4 DEF GuardsHold, MayTransition, RowsUnchanged, columns
  <2>5. ASSUME NEW r \in Requests, Serve(r)
        PROVE  GuardsHold' \/ CommitAssign(r) \/ CommitUpdateStatus(r)
                 \/ CommitComplete(r) \/ CommitFail(r)
    BY <1>1, <2>2, <2>3, <2>5
    DEF Serve, BeginAssign, BeginUpdateStatus, BeginComplete, BeginFail, Rollback,
        PickupStatus
  <2>6. ASSUME NEW r \in Requests, CommitAssign(r) \/ CommitUpdateStatus(r)
                 \/ CommitComplete(r) \/ CommitFail(r)
        PROVE  GuardsHold'
    BY <1>1, <2>6 DEF CommitAssign, CommitUpdateStatus, CommitComplete, CommitFail
  <2>7. GuardsHold'
    BY <2>4, <2>5, <2>6
    DEF Next, CreatePickup, MaterializePickup, InsertPickup, CreateRewardRule, vars
  <2>. QED  BY <2>1, <2>7
<1>3. ASSUME NEW u \in Users, NEW p \in Pickups, NEW action \in InsertActions,
             NEW types, InsertPickup(u, p, action, types)
      PROVE  SerialInv'
  <2>1. Unsettled(p)
    <3>1. ASSUME NEW row \in CollectionRow, collection[p] = <<row>>
          PROVE  FALSE
      <4>1. 1 \in DOMAIN collection[p]
        BY <3>1
      <4>2. status[p] \in {"COLLECTED", "FAILED"}
        BY <4>1 DEF ProofMatchesRow
      <4>. QED  BY <1>3, <4>2 DEF InsertPickup, Absent
    <3>. QED  BY <3>1 DEF SettlementInv, AtMostOneProof, Unsettled
  <2>2. /\ \A q \in Pickups : q # p => status'[q] = status[q]
        /\ status'[p] = "REQUESTED" /\ status[p] = Absent
        /\ UNCHANGED <<collection, assignedCollector, cancelledAt, request>>
    BY <1>3 DEF InsertPickup, SetStatus, TypeOK, settlement
  <2>3. ProofMatchesRow'
    BY <2>1, <2>2, ProofKept
  <2>4. CancelledIsStamped'
    BY <2>2 DEF CancelledIsStamped, Absent
  <2>5. GuardsHold'
    BY <2>2 DEF GuardsHold, MayTransition, PendingShape
  <2>. QED  BY <2>3, <2>4, <2>5
\* A commit writes a row whose guards still hold: it is open, so unproved and
\* not cancelled.
<1>4. ASSUME NEW r \in Requests, CommitAssign(r)
      PROVE  SerialInv'
  <2>. DEFINE p == request[r].pickup
  <2>1. p \in Pickups /\ MayTransition(p, request[r].target)
    BY <1>4 DEF CommitAssign, PendingShape, GuardsHold
  <2>2. Unsettled(p) /\ status[p] # "CANCELLED"
    BY <2>1, OpenIsUnsettled, OpenIsNotCancelled
  <2>3. /\ status' = [status EXCEPT ![p] = "ASSIGNED"]
        /\ assignedCollector' = [assignedCollector EXCEPT ![p] = request[r].collector]
        /\ UNCHANGED <<collection, cancelledAt>>
    BY <1>4 DEF CommitAssign, SetStatus, SetCollector, settlement
  <2>4. ProofMatchesRow'
    BY <2>2, <2>3, ProofKept DEF TypeOK
  <2>5. CancelledIsStamped'
    BY <2>1, <2>2, <2>3 DEF CancelledIsStamped, TypeOK
  <2>. QED  BY <1>1, <1>4, <2>4, <2>5 DEF CommitAssign
<1>5. ASSUME NEW r \in Requests, CommitUpdateStatus(r)
      PROVE  SerialInv'
  <2>. DEFINE p == request[r].pickup  s == request[r].target
  <2>1. p \in Pickups /\ MayTransition(p, s)
    BY <1>5 DEF CommitUpdateStatus, PendingShape, GuardsHold
  <2>2. Unsettled(p) /\ status[p] # "CANCELLED"
    BY <2>1, OpenIsUnsettled, OpenIsNotCancelled
  <2>3. /\ status' = [status EXCEPT ![p] = s]
        /\ UNCHANGED <<collection, assignedCollector>>
    BY <1>5 DEF CommitUpdateStatus, SetStatus, settlement
  <2>4. ProofMatchesRow'
    BY <2>2, <2>3, ProofKept DEF TypeOK
  <2>5. \A q \in Pickups :
           cancelledAt'[q] <=> cancelledAt[q] \/ (q = p /\ s = "CANCELLED")
    BY <1>5, <2>1 DEF CommitUpdateStatus, StampCancellation, TypeOK
  <2>6. CancelledIsStamped'
    BY <2>1, <2>2, <2>3, <2>5 DEF CancelledIsStamped, TypeOK
  <2>. QED  BY <1>1, <1>5, <2>4, <2>6 DEF CommitUpdateStatus
<1>6. ASSUME NEW r \in Requests, NEW ok \in BOOLEAN, Finish(r),
             request[r].op \in {"settle", "fail"},
             InsertCollection(request[r].pickup, request[r].collector, ok),
             SetStatus(request[r].pickup, IF ok THEN "COLLECTED" ELSE "FAILED"),
             UNCHANGED <<assignedCollector, cancelledAt>>
      PROVE  SerialInv'
  <2>. DEFINE p == request[r].pickup  c == request[r].collector
              row == [collector |-> c, wasSuccessful |-> ok]
  <2>1. p \in Pickups /\ c \in Collectors /\ MayTransition(p, request[r].target)
        /\ assignedCollector[p] = c
    BY <1>6 DEF PendingShape, GuardsHold
  <2>2. Unsettled(p) /\ status[p] # "CANCELLED"
    BY <2>1, OpenIsUnsettled, OpenIsNotCancelled
  <2>3. \A q \in Pickups : collection'[q] = IF q = p THEN <<row>> ELSE collection[q]
    BY <1>6, <2>1, <2>2, InsertedRow DEF SettlementInv
  <2>4. \A q \in Pickups : status'[q] = IF q = p THEN IF ok THEN "COLLECTED" ELSE "FAILED"
                                                 ELSE status[q]
    BY <1>6, <2>1 DEF SetStatus, TypeOK
  <2>5. /\ DOMAIN <<row>> = {1} /\ <<row>>[1] = row
        /\ row.collector = c /\ row.wasSuccessful = ok
    OBVIOUS
  <2>. HIDE DEF row
  <2>6. ProofMatchesRow'
    <3>1. ASSUME NEW q \in Pickups, NEW i \in DOMAIN collection'[q]
          PROVE  /\ status'[q] = IF collection'[q][i].wasSuccessful
                                   THEN "COLLECTED" ELSE "FAILED"
                 /\ collection'[q][i].collector = assignedCollector'[q]
      <4>1. CASE q = p
        BY <1>6, <2>1, <2>3, <2>4, <2>5, <3>1, <4>1
      <4>2. CASE q # p
        BY <1>6, <2>3, <2>4, <3>1, <4>2 DEF ProofMatchesRow
      <4>. QED  BY <4>1, <4>2
    <3>. QED  BY <3>1 DEF ProofMatchesRow
  <2>7. CancelledIsStamped'
    BY <1>6, <2>1, <2>2, <2>4 DEF CancelledIsStamped
  <2>. QED  BY <1>1, <1>6, <2>6, <2>7
<1>7. ASSUME NEW r \in Requests, CommitComplete(r)
      PROVE  SerialInv'
  BY <1>6, <1>7 DEF CommitComplete
<1>8. ASSUME NEW r \in Requests, CommitFail(r)
      PROVE  SerialInv'
  BY <1>6, <1>8 DEF CommitFail
<1>. QED  BY StepKinds, <1>2, <1>3, <1>4, <1>5, <1>7, <1>8

LEMMA SerialInit == Init => SerialInv
<1>. SUFFICES ASSUME Init PROVE SerialInv
  OBVIOUS
<1>1. \A p \in Pickups : DOMAIN collection[p] = {}
  BY DEF Init
<1>. QED
  BY <1>1 DEF Init, SerialInv, GuardsHold, ProofMatchesRow, CancelledIsStamped,
              Idle, Pending, Absent

SerialState == TypeInv /\ AuditInv /\ SettlementInv /\ SerialInv

LEMMA SerialCorrect ==
    ASSUME Serial
    PROVE  Spec => []SerialState
<1>1. Init => SerialState
  BY TypeInit, AuditInit, SettlementInit, SerialInit DEF SerialState
<1>2. SerialState /\ [Next]_vars => SerialState'
  BY TypeStep, AuditStep, SettlementStep, SerialStep DEF SerialState
<1>. QED  BY <1>1, <1>2, PTL DEF Spec

\* Served one at a time, requests leave a proof that matches its pickup.
THEOREM ProofCorrect == Serial => (Spec => []ProofMatchesRow)
<1>. SUFFICES ASSUME Serial PROVE Spec => []ProofMatchesRow
  OBVIOUS
<1>1. SerialState => ProofMatchesRow
  BY DEF SerialState, SerialInv
<1>. QED  BY <1>1, SerialCorrect, PTL

\* Served one at a time, requests stamp a pickup exactly while it is cancelled.
THEOREM CancellationCorrect == Serial => (Spec => []CancelledIsStamped)
<1>. SUFFICES ASSUME Serial PROVE Spec => []CancelledIsStamped
  OBVIOUS
<1>1. SerialState => CancelledIsStamped
  BY DEF SerialState, SerialInv
<1>. QED  BY <1>1, SerialCorrect, PTL

-----------------------------------------------------------------------------
(* The refinement.                                                         *)

\* The abstract state of the one pickup a step writes.
LEMMA OutcomeOf ==
    ASSUME NEW p \in Pickups
    PROVE  /\ collection[p] = <<>> => Outcome(p) = "none"
           /\ \A row : collection[p] = <<row>> =>
                 Outcome(p) = IF row.wasSuccessful THEN "success" ELSE "failure"
<1>1. collection[p] = <<>> => Outcome(p) = "none"
  BY DEF Outcome
<1>2. ASSUME NEW row, collection[p] = <<row>>
      PROVE  Outcome(p) = IF row.wasSuccessful THEN "success" ELSE "failure"
  <2>1. collection[p] # <<>> /\ collection[p][1] = row
    BY <1>2
  <2>. QED  BY <2>1 DEF Outcome
<1>. QED  BY <1>1, <1>2

LEMMA FlowInitMapped == Init => Flow!FlowInit
<1>. SUFFICES ASSUME Init PROVE Flow!FlowInit
  OBVIOUS
<1>1. [p \in Pickups |-> Outcome(p)] = [p \in Pickups |-> "none"]
  BY OutcomeOf DEF Init
<1>. QED  BY <1>1 DEF Init, Flow!FlowInit, Flow!Absent, Absent

\* Every step of the service is a step of the promise or none.
LEMMA FlowStepMapped ==
    ASSUME Serial, SerialState, [Next]_vars
    PROVE  [Flow!FlowNext]_Flow!flowVars
<1>. USE DEF SerialState, SerialInv, TypeInv
<1>. DEFINE outcome == [p \in Pickups |-> Outcome(p)]
<1>0. UNCHANGED collection => outcome' = outcome
  BY DEF Outcome
<1>1. CASE RowsUnchanged
  BY <1>0, <1>1 DEF RowsUnchanged, columns, settlement, Flow!flowVars
<1>2. ASSUME NEW u \in Users, NEW p \in Pickups, NEW action \in InsertActions,
             NEW types, InsertPickup(u, p, action, types)
      PROVE  Flow!FlowNext
  <2>1. Flow!Open(p)
    BY <1>0, <1>2 DEF InsertPickup, SetStatus, settlement, Flow!Open, Flow!Absent, Absent
  <2>. QED  BY <2>1 DEF Flow!FlowNext
<1>3. ASSUME NEW r \in Requests, request[r].op # "idle"
      PROVE  request[r].pickup \in Pickups /\ request[r].target \in PickupStatus
             /\ Flow!Legal(request[r].pickup, request[r].target)
  BY <1>3 DEF PendingShape, GuardsHold, MayTransition, Flow!Legal, Flow!Absent, Absent,
              Flow!PICKUP_TRANSITIONS, PICKUP_TRANSITIONS, Flow!PickupStatus, PickupStatus
<1>4. ASSUME NEW r \in Requests, CommitAssign(r)
      PROVE  Flow!FlowNext
  <2>1. request[r].target = "ASSIGNED"
    BY <1>4 DEF CommitAssign, AuditInv, PendingAudited
  <2>2. Flow!Advance(request[r].pickup, request[r].target)
    BY <1>0, <1>3, <1>4, <2>1 DEF CommitAssign, SetStatus, settlement, Flow!Advance
  <2>. QED  BY <1>3, <1>4, <2>2 DEF CommitAssign, Flow!FlowNext, Flow!PickupStatus, PickupStatus
<1>5. ASSUME NEW r \in Requests, CommitUpdateStatus(r)
      PROVE  Flow!FlowNext
  <2>1. Flow!Advance(request[r].pickup, request[r].target)
    BY <1>0, <1>3, <1>5 DEF CommitUpdateStatus, SetStatus, settlement, Flow!Advance
  <2>. QED  BY <1>3, <1>5, <2>1
            DEF CommitUpdateStatus, Flow!FlowNext, Flow!PickupStatus, PickupStatus
<1>6. ASSUME NEW p \in Pickups, NEW c \in Collectors, NEW ok \in BOOLEAN, Unsettled(p),
             InsertCollection(p, c, ok)
      PROVE  /\ outcome[p] = "none"
             /\ outcome' = [outcome EXCEPT ![p] = IF ok THEN "success" ELSE "failure"]
  <2>. DEFINE row == [collector |-> c, wasSuccessful |-> ok]
  <2>1. \A q \in Pickups : collection'[q] = IF q = p THEN <<row>> ELSE collection[q]
    BY <1>6, InsertedRow DEF SettlementInv
  <2>2. row.wasSuccessful = ok
    OBVIOUS
  <2>. HIDE DEF row
  <2>3. Outcome(p)' = IF ok THEN "success" ELSE "failure"
    <3>1. collection'[p] = <<row>>
      BY <2>1
    <3>2. collection'[p] # <<>> /\ collection'[p][1] = row
      BY <3>1
    <3>. QED  BY <2>2, <3>2 DEF Outcome
  <2>4. \A q \in Pickups : q # p => Outcome(q)' = Outcome(q)
    BY <2>1 DEF Outcome
  <2>5. Outcome(p) = "none"
    BY <1>6, OutcomeOf DEF Unsettled
  <2>. QED  BY <2>3, <2>4, <2>5
<1>7. ASSUME NEW r \in Requests, CommitComplete(r)
      PROVE  Flow!FlowNext
  <2>. DEFINE p == request[r].pickup
  <2>1. /\ p \in Pickups /\ request[r].collector \in Collectors
        /\ request[r].target = "COLLECTED" /\ Flow!Legal(p, "COLLECTED")
    BY <1>3, <1>7 DEF CommitComplete, AuditInv, PendingAudited, PendingShape
  <2>2. outcome[p] = "none" /\ outcome' = [outcome EXCEPT ![p] = "success"]
    BY <1>6, <1>7, <2>1 DEF CommitComplete
  <2>3. ledger[p] = 0
    <3>1. ledger[p] <= 0 /\ ledger[p] \in Nat
      BY <1>7, <2>1, UnsettledFails DEF CommitComplete, SettlementInv, Settled, TypeOK
    <3>. QED  BY <3>1
  <2>4. \E n \in 0 .. 1 : ledger' = [ledger EXCEPT ![p] = n]
    <3>1. ledger' = [ledger EXCEPT ![p] = IF request[r].rewarded THEN ledger[p] + 1
                                                                 ELSE ledger[p]]
      BY <1>7 DEF CommitComplete
    <3>2. CASE request[r].rewarded
      <4>1. ledger' = [ledger EXCEPT ![p] = 1]
        BY <2>3, <3>1, <3>2
      <4>. QED  BY <4>1
    <3>3. CASE ~request[r].rewarded
      <4>1. ledger' = [ledger EXCEPT ![p] = 0]
        BY <2>3, <3>1, <3>3
      <4>. QED  BY <4>1
    <3>. QED  BY <3>2, <3>3
  <2>5. Flow!Prove(p)
    BY <1>7, <2>1, <2>2, <2>4 DEF CommitComplete, SetStatus, Flow!Prove
  <2>. QED  BY <2>1, <2>5 DEF Flow!FlowNext
<1>8. ASSUME NEW r \in Requests, CommitFail(r)
      PROVE  Flow!FlowNext
  <2>. DEFINE p == request[r].pickup
  <2>1. /\ p \in Pickups /\ request[r].collector \in Collectors
        /\ request[r].target = "FAILED" /\ Flow!Legal(p, "FAILED")
    BY <1>3, <1>8 DEF CommitFail, AuditInv, PendingAudited, PendingShape
  <2>2. outcome[p] = "none" /\ outcome' = [outcome EXCEPT ![p] = "failure"]
    BY <1>6, <1>8, <2>1 DEF CommitFail
  <2>3. Flow!Disprove(p)
    BY <1>8, <2>1, <2>2 DEF CommitFail, SetStatus, Flow!Disprove
  <2>. QED  BY <2>1, <2>3 DEF Flow!FlowNext
<1>. QED  BY StepKinds, <1>1, <1>2, <1>4, <1>5, <1>7, <1>8

\* Served one at a time, requests implement the promise of PickupFlow.
THEOREM FlowImplemented == Serial => (Spec => ImplementsFlow)
<1>. SUFFICES ASSUME Serial PROVE Spec => Flow!FlowSpec
  BY DEF ImplementsFlow
<1>1. SerialState /\ [Next]_vars => [Flow!FlowNext]_Flow!flowVars
  BY FlowStepMapped
<1>. QED  BY FlowInitMapped, SerialCorrect, <1>1, PTL DEF Spec, Flow!FlowSpec

=============================================================================
