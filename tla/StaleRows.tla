------------------------------ MODULE StaleRows ------------------------------
(***************************************************************************)
(* Rows that a handler reads, changes in memory and writes back: a bin, a  *)
(* user's notification preferences, a vehicle and a collector              *)
(* (backend/app/api/v1/bins.py, notifications.py, vehicles.py and          *)
(* collectors.py).  No handler locks its row.  What makes the races        *)
(* bearable is SQLAlchemy: an UPDATE sets the columns whose value differs  *)
(* from the value read and leaves the others to whoever wrote them; and    *)
(* the unique columns, whose IntegrityError main.py answers with 409.      *)
(* The rows do not interact: a behaviour is about one of them.             *)
(***************************************************************************)
EXTENDS Naturals

CONSTANTS
    RowThreads,
    Levels,           \* fill levels
    Places, Zones, Vehicles,
    MaxCommits        \* bound: transactions committed

ASSUME RowAssumption == MaxCommits \in Nat

NotInserted == <<>>

Column ==
    [bin        |-> {"fill", "status"},
     preference |-> {"in_app", "email"},
     vehicle    |-> {"status"},
     collector  |-> {"zone", "vehicle", "location"}]

VARIABLES
    table,            \* which row it is
    row,              \* the row, NotInserted before it is inserted
    writing,          \* the requests that have read and not committed
    commits,          \* how many transactions there were
    meant,            \* history: per column what the last success was to make
    writer,           \* of it, the number of that success, and whether it
    torn              \* was of a request that had read before the one before

rowVars == <<table, row, writing, commits, meant, writer, torn>>

NotWriting == [phase |-> "idle"]

RowInit ==
    /\ table \in DOMAIN Column
    /\ row = NotInserted /\ meant = NotInserted
    /\ writing = [t \in RowThreads |-> NotWriting]
    /\ commits = 0
    /\ writer = [c \in Column[table] |-> 0]
    /\ torn = {}

-----------------------------------------------------------------------------
(* What the requests set, given the row they read.                         *)

\* create_bin, register_vehicle, create_collector_profile
NewBin == [fill |-> 0, status |-> "ACTIVE"]
NewVehicle == [status |-> "AVAILABLE"]
NewCollector == [zone |-> 0, vehicle |-> 0, location |-> 0]
New == [bin |-> NewBin, vehicle |-> NewVehicle, collector |-> NewCollector]

\* Broken variant: a bin that is emptied stays FULL.
FilledOnly(level) ==
    [fill |-> level, status |-> IF level >= 95 THEN "FULL" ELSE row.status]

\* update_fill_level
FillLevel(level) ==
    [fill |-> level,
     status |-> IF level >= 95 THEN "FULL"
                ELSE IF row.status = "FULL" THEN "ACTIVE" ELSE row.status]

\* update_preferences, of a row there may not be yet
Preferences == [Column["preference"] -> BOOLEAN]

VehicleStatus == {"AVAILABLE", "ASSIGNED", "IN_SERVICE", "MAINTENANCE", "OUT_OF_SERVICE"}

\* update_vehicle_status
Statuses == [status : VehicleStatus]

\* add_maintenance_record, which also inserts a row that no request changes
Maintenance == [status |-> "MAINTENANCE"]

\* update_assignment sets what the payload gives.
Assignments ==
    {[zone |-> z] : z \in Zones} \cup {[vehicle |-> v] : v \in Vehicles}
    \cup [zone : Zones, vehicle : Vehicles] \cup {<<>>}

\* update_my_location
Locations == {[location |-> p] : p \in Places}

Changes ==
    CASE table = "preference" -> Preferences
      [] table # "preference" /\ row = NotInserted -> {New[table]}
      [] table = "bin" /\ row # NotInserted -> {FillLevel(level) : level \in Levels}
      [] table = "vehicle" /\ row # NotInserted -> Statuses \cup {Maintenance}
      [] table = "collector" /\ row # NotInserted -> Assignments \cup Locations

\* The handler's query and what it makes of the row: one that creates finds it
\* absent, one that changes finds it there.
ReadRow(t) ==
    /\ writing[t] = NotWriting
    /\ \E change \in Changes :
          writing' = [writing EXCEPT ![t] =
              [phase |-> "read", was |-> row, sets |-> change, at |-> commits]]
    /\ UNCHANGED <<table, row, commits, meant, writer, torn>>

Override(f, g) == [c \in DOMAIN f |-> IF c \in DOMAIN g THEN g[c] ELSE f[c]]

\* Broken variant: the UPDATE sets the whole row.
WholeRow(r) == Override(r.was, r.sets)

\* The columns an UPDATE sets.
Differing(r) ==
    [c \in {d \in DOMAIN r.sets : r.sets[d] # r.was[d]} |-> r.sets[c]]

CommitRow(t) ==
    LET r == writing[t]
    IN  /\ r.phase = "read" /\ commits < MaxCommits
        /\ r.was = NotInserted => row = NotInserted
        /\ row' = IF row = NotInserted THEN r.sets ELSE Override(row, Differing(r))
        /\ commits' = commits + 1
        /\ meant' = IF row = NotInserted THEN r.sets ELSE Override(meant, r.sets)
        /\ writer' = [c \in DOMAIN writer |->
              IF c \in DOMAIN r.sets THEN commits + 1 ELSE writer[c]]
        /\ torn' = (torn \ DOMAIN r.sets)
                   \cup {c \in DOMAIN r.sets : writer[c] > r.at}
        /\ writing' = [writing EXCEPT ![t] = NotWriting]
        /\ UNCHANGED table

\* IntegrityError: the row was inserted by another; or the request fails.
RefuseRow(t) ==
    /\ writing[t] # NotWriting
    /\ writing' = [writing EXCEPT ![t] = NotWriting]
    /\ UNCHANGED <<table, row, commits, meant, writer, torn>>

RowNext == \E t \in RowThreads : ReadRow(t) \/ CommitRow(t) \/ RefuseRow(t)

RowSpec == RowInit /\ [][RowNext]_rowVars

-----------------------------------------------------------------------------
\* A row has the columns of its table.
RowTypeOK ==
    /\ row # NotInserted => DOMAIN row = Column[table]
    /\ commits \in 0..MaxCommits
    /\ torn \subseteq Column[table]

\* Every column is what the last successful request that set it meant it to
\* be, and a bin is FULL when and only when its level is 95 or more, unless
\* that request had read before another that set the same columns succeeded;
\* the damage ends with the next request that reads afterwards.  Requests that
\* set other columns, and a row inserted by two at once, do none
\* (bins.py:127-149, notifications.py:63-76, vehicles.py:76-108,
\* collectors.py:100-133).
RowsAreWhatWasMeant ==
    row # NotInserted =>
        /\ \A c \in Column[table] \ torn : row[c] = meant[c]
        /\ table = "bin" /\ torn = {} => (row.status = "FULL" <=> row.fill >= 95)

=============================================================================
