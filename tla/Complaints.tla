----------------------------- MODULE Complaints -----------------------------
(***************************************************************************)
(* Complaints and what their reporters are told of them:                   *)
(* backend/app/api/v1/complaints.py and api/v1/notifications.py.           *)
(*                                                                         *)
(* A request reads its rows and commits in separate steps.  An UPDATE sets *)
(* the columns whose value differs from the value read, and no other.      *)
(* Complaints and users are rows of their tables, texts are left out.      *)
(***************************************************************************)
EXTENDS Naturals, Sequences

CONSTANTS
    Complaint,        \* the complaints there may be, all of one reporter
    Threads

ComplaintStatus ==
    {"REPORTED", "UNDER_REVIEW", "ASSIGNED", "IN_PROGRESS", "RESOLVED", "REJECTED"}

COMPLAINT_TRANSITIONS ==
    [s \in ComplaintStatus |->
        CASE s = "REPORTED"     -> {"UNDER_REVIEW", "REJECTED"}
          [] s = "UNDER_REVIEW" -> {"ASSIGNED", "REJECTED"}
          [] s = "ASSIGNED"     -> {"IN_PROGRESS", "REJECTED"}
          [] s = "IN_PROGRESS"  -> {"RESOLVED", "REJECTED"}
          [] OTHER              -> {}]

NoRow == "none"

VARIABLES
    status,           \* complaints: the status, NoRow before the insertion
    resolvedAt,       \* complaints: resolved_at is set
    notes,            \* complaints: the update resolution_notes came with
    notification,     \* notifications: of which status, of which complaint
    unread,           \* ...the ones whose is_read is false
    logged,           \* audit_logs of complaints
    thread,           \* what each thread read
    overlapped        \* history: complaints with updates under way at once

complaintVars ==
    <<status, resolvedAt, notes, notification, unread, logged, thread,
      overlapped>>

NotUpdating == [phase |-> "idle"]

ComplaintInit ==
    /\ status = [c \in Complaint |-> NoRow]
    /\ resolvedAt = [c \in Complaint |-> FALSE]
    /\ notes = [c \in Complaint |-> NoRow]
    /\ notification = {} /\ unread = {} /\ logged = {}
    /\ thread = [t \in Threads |-> NotUpdating]
    /\ overlapped = {}

-----------------------------------------------------------------------------
ReportComplaint(c) ==
    /\ status[c] = NoRow
    /\ status' = [status EXCEPT ![c] = "REPORTED"]
    /\ logged' = logged \cup {<<c, "REPORTED">>}
    /\ UNCHANGED <<resolvedAt, notes, notification, unread, thread, overlapped>>

\* Broken variant: an administrator may go back to an earlier status.
AnyStatus(s) == ComplaintStatus \ {s, "REPORTED"}

AllowedStatus(s) == COMPLAINT_TRANSITIONS[s]

\* update_complaint_status: the row is read and the transition is checked.
ReadComplaint(t, c, s, withNotes) ==
    /\ thread[t] = NotUpdating
    /\ status[c] # NoRow
    /\ s \in AllowedStatus(status[c])
    /\ thread' = [thread EXCEPT ![t] =
          [phase |-> "update", complaint |-> c, to |-> s, notes |-> withNotes]]
    /\ overlapped' = IF \E o \in Threads : thread[o] # NotUpdating /\ thread[o].complaint = c
                     THEN overlapped \cup {c} ELSE overlapped
    /\ UNCHANGED <<status, resolvedAt, notes, notification, unread, logged>>

\* Broken variant: resolved_at is set when work begins.
StampedAt(s) == s = "IN_PROGRESS"

Stamps(s) == s = "RESOLVED"

\* ...and its transaction: the row, the notification and the audit entry.
CommitStatus(t) ==
    LET r == thread[t]
        told == <<r.complaint, r.to>>
    IN  /\ r.phase = "update"
        /\ status' = [status EXCEPT ![r.complaint] = r.to]
        /\ notes' = [notes EXCEPT ![r.complaint] = IF r.notes THEN r.to ELSE @]
        /\ resolvedAt' = [resolvedAt EXCEPT ![r.complaint] = @ \/ Stamps(r.to)]
        /\ notification' = notification \cup {told}
        /\ unread' = unread \cup {told}
        /\ logged' = logged \cup {told}
        /\ thread' = [thread EXCEPT ![t] = NotUpdating]
        /\ UNCHANGED overlapped

MarkRead(n) ==
    /\ unread' = unread \ {n}
    /\ UNCHANGED <<status, resolvedAt, notes, notification, logged, thread,
                   overlapped>>

Abort(t) ==
    /\ thread[t] # NotUpdating
    /\ thread' = [thread EXCEPT ![t] = NotUpdating]
    /\ UNCHANGED <<status, resolvedAt, notes, notification, unread, logged,
                   overlapped>>

ComplaintNext ==
    \/ \E c \in Complaint : ReportComplaint(c)
    \/ \E t \in Threads :
          \/ \E c \in Complaint, s \in ComplaintStatus, n \in BOOLEAN :
                ReadComplaint(t, c, s, n)
          \/ CommitStatus(t)
          \/ Abort(t)
    \/ \E n \in unread : MarkRead(n)

ComplaintSpec == ComplaintInit /\ [][ComplaintNext]_complaintVars

-----------------------------------------------------------------------------
Stages == <<"UNDER_REVIEW", "ASSIGNED", "IN_PROGRESS", "RESOLVED">>

ComplaintTypeOK ==
    /\ status \in [Complaint -> ComplaintStatus \cup {NoRow}]
    /\ resolvedAt \in [Complaint -> BOOLEAN]
    /\ notes \in [Complaint -> ComplaintStatus \cup {NoRow}]
    /\ unread \subseteq notification
    /\ notification \subseteq Complaint \X ComplaintStatus

\* However updates race, the reporter is told of every stage a complaint went
\* through before he is told of the next, and of the one it is in; the audit
\* log agrees (complaints.py:148-176).
StagesAreTold ==
    \A c \in Complaint :
        LET told(s) == <<c, s>> \in notification
        IN  /\ \A i \in 2..Len(Stages) : told(Stages[i]) => told(Stages[i - 1])
            /\ status[c] \notin {NoRow, "REPORTED"} => told(status[c])
            /\ \A s \in ComplaintStatus \ {"REPORTED"} :
                  told(s) <=> <<c, s>> \in logged

\* resolved_at is written once and cleared by nothing (complaints.py:156-157).
\* A resolved complaint has it, and one that has it went through all stages;
\* it can be on a complaint that is not resolved only when an update that had
\* been checked before the resolution was committed after it.
ResolutionIsDated ==
    \A c \in Complaint :
        /\ status[c] = "RESOLVED" => resolvedAt[c]
        /\ resolvedAt[c] => <<c, "RESOLVED">> \in notification
        /\ resolvedAt[c] /\ c \notin overlapped => status[c] = "RESOLVED"

=============================================================================
