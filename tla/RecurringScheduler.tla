------------------------- MODULE RecurringScheduler -------------------------
(***************************************************************************)
(* The materialization of recurring schedules                              *)
(* (backend/app/services/scheduler_service.py) and the endpoints that      *)
(* create, deactivate and run them                                         *)
(* (backend/app/api/v1/recurring_schedules.py).                            *)
(*                                                                         *)
(* A run selects the due schedules once and then takes them one by one: it *)
(* reads the row, inserts a pickup for the date it read, writes the next   *)
(* date and commits.  The first schedule keeps the row the query returned; *)
(* each commit or rollback expires the session, so the later ones are read *)
(* again when their turn comes, and nothing asks again whether they are    *)
(* due or active.  Runs may overlap: the cron job and the administrator's  *)
(* endpoint execute the same function, and no row is locked.               *)
(***************************************************************************)
EXTENDS RecurrenceDates, Sequences, FiniteSets

CONSTANTS
    Schedules,        \* ids of the schedules that may be created
    Runs,             \* runs that may be in progress at the same time
    Days,             \* the days on which something happens, in any order
    FirstDates,       \* first_run_date of the schedules created
    Frequencies,      \* frequency of the schedules created
    Broken,           \* schedules whose pickups the database refuses
    Faults,           \* what else may go wrong
    MaxErrors,        \* bound: errors logged for one schedule
    MaxOccurrences,   \* bound: occurrences looked at for one schedule
    None              \* SQL NULL: the row has not been inserted

ASSUME SchedulerAssumption ==
    /\ Days \subseteq Dates /\ FirstDates \subseteq Dates
    /\ Frequencies \subseteq Frequency
    /\ Broken \subseteq Schedules
    /\ Faults \subseteq {"crash", "commit", "advance"}
    /\ MaxErrors \in Nat /\ MaxOccurrences \in Nat
    /\ None \notin Dates \cup Schedules \cup Frequency

VARIABLES
    today,            \* date.today()
    nextRun,          \* recurring_schedules.next_run_date
    frequency,        \* recurring_schedules.frequency
    active,           \* recurring_schedules.is_active
    firstRun,         \* history: the first_run_date of the request
    materialized,     \* preferred_date of the pickups inserted, in order; the
                      \* notification and the audit entry go with the pickup
    errors,           \* "Failed to materialize" lines logged per schedule
    run               \* what each run is doing

schedule == <<nextRun, frequency, active, firstRun>>
vars == <<today, schedule, materialized, errors, run>>

\* A run holds the schedules still to take, the one it is at, and the
\* next_run_date it has read of it.
RunState ==
    [phase : {"off", "next", "loaded", "failed", "advancing"},
     due : SUBSET Schedules,
     at : Schedules \cup {None},
     date : Dates \cup {None}]

Off == [phase |-> "off", due |-> {}, at |-> None, date |-> None]

Init ==
    /\ today \in Days
    /\ nextRun = [s \in Schedules |-> None]
    /\ frequency = [s \in Schedules |-> None]
    /\ active = [s \in Schedules |-> FALSE]
    /\ firstRun = [s \in Schedules |-> None]
    /\ materialized = [s \in Schedules |-> <<>>]
    /\ errors = [s \in Schedules |-> 0]
    /\ run = [w \in Runs |-> Off]

-----------------------------------------------------------------------------

\* POST /recurring-schedules; the first date is not compared with today.
CreateSchedule(s, f, d) ==
    /\ nextRun[s] = None
    /\ nextRun' = [nextRun EXCEPT ![s] = d]
    /\ firstRun' = [firstRun EXCEPT ![s] = d]
    /\ frequency' = [frequency EXCEPT ![s] = f]
    /\ active' = [active EXCEPT ![s] = TRUE]
    /\ UNCHANGED <<today, materialized, errors, run>>

\* PATCH /recurring-schedules/{id}/deactivate; nothing activates it again.
Deactivate(s) ==
    /\ active[s]
    /\ active' = [active EXCEPT ![s] = FALSE]
    /\ UNCHANGED <<today, nextRun, frequency, firstRun, materialized, errors, run>>

PassDay ==
    /\ today' \in {d \in Days : Precedes(today, d)}
    /\ UNCHANGED <<schedule, materialized, errors, run>>

-----------------------------------------------------------------------------

HasDate(s) == nextRun[s] # None

\* Broken variants: the day of the run itself is left out; the date is not
\* looked at.
DueBefore(s) == active[s] /\ HasDate(s) /\ Precedes(nextRun[s], today)
DueAnyDay(s) == active[s] /\ HasDate(s)

Due(s) == active[s] /\ HasDate(s) /\ NoLater(nextRun[s], today)

\* Broken variant: the pickup is made for the day of the run.
LoadedToday(s, due) == [phase |-> "loaded", due |-> due, at |-> s, date |-> today]

Loaded(s, due) == [phase |-> "loaded", due |-> due, at |-> s, date |-> nextRun[s]]

\* materialize_due_schedules: the query, and the first schedule it returned.
StartRun(w, s) ==
    /\ run[w].phase = "off"
    /\ Due(s)
    /\ run' = [run EXCEPT ![w] = Loaded(s, {x \in Schedules : Due(x)} \ {s})]
    /\ UNCHANGED <<today, schedule, materialized, errors>>

\* The loop comes to another schedule and reads its row again.
LoadNext(w, s) ==
    /\ run[w].phase = "next"
    /\ s \in run[w].due
    /\ run' = [run EXCEPT ![w] = Loaded(s, run[w].due \ {s})]
    /\ UNCHANGED <<today, schedule, materialized, errors>>

\* The run is done with a schedule: the next one, or the end.
Continue(w) ==
    [Off EXCEPT !.phase = IF run[w].due = {} THEN "off" ELSE "next",
                !.due = run[w].due]

\* Broken variant: the next date is not written.
MaterializeOnly(w) ==
    /\ materialized' = [materialized EXCEPT ![run[w].at] = Append(@, run[w].date)]
    /\ UNCHANGED schedule

\* The pickup and the next date, in one transaction.
Materialize(w) ==
    LET s == run[w].at
    IN  /\ materialized' = [materialized EXCEPT ![s] = Append(@, run[w].date)]
        /\ nextRun' = [nextRun EXCEPT ![s] = NextRunDate(run[w].date, frequency[s])]
        /\ UNCHANGED <<frequency, active, firstRun>>

CommitPickup(w) ==
    /\ run[w].phase = "loaded"
    /\ run[w].at \notin Broken
    /\ Materialize(w)
    /\ run' = [run EXCEPT ![w] = Continue(w)]
    /\ UNCHANGED <<today, errors>>

\* The database refuses the INSERT.  The failed flush leaves the session to be
\* rolled back and the schedule expired, so the first thing the handler does,
\* to log schedule.id, raises again and ends the run.
RefuseInsert(w) ==
    /\ run[w].phase = "loaded"
    /\ run[w].at \in Broken
    /\ run' = [run EXCEPT ![w] = Off]
    /\ UNCHANGED <<today, schedule, materialized, errors>>

\* The COMMIT fails, or its answer or the reload of the new pickup is lost
\* after it: the handler logs the error and rolls back.
CommitFails(w) ==
    /\ "commit" \in Faults
    /\ run[w].phase = "loaded"
    /\ run[w].at \notin Broken
    /\ errors[run[w].at] < MaxErrors
    /\ Materialize(w) \/ UNCHANGED <<schedule, materialized>>
    /\ errors' = [errors EXCEPT ![run[w].at] = @ + 1]
    /\ run' = [run EXCEPT ![w].phase = "failed"]
    /\ UNCHANGED today

\* The handler reads the row again...
Reload(w) ==
    /\ run[w].phase = "failed"
    /\ run' = [run EXCEPT ![w].phase = "advancing", ![w].date = nextRun[run[w].at]]
    /\ UNCHANGED <<today, schedule, materialized, errors>>

\* ...and writes the date after the one it read, without a pickup;
AdvanceAfterError(w) ==
    LET s == run[w].at
    IN  /\ run[w].phase = "advancing"
        /\ nextRun' = [nextRun EXCEPT ![s] = NextRunDate(run[w].date, frequency[s])]
        /\ run' = [run EXCEPT ![w] = Continue(w)]
        /\ UNCHANGED <<today, frequency, active, firstRun, materialized, errors>>

\* or it fails at that too, and the loop goes on.
AdvanceFails(w) ==
    /\ "advance" \in Faults
    /\ run[w].phase = "advancing"
    /\ run' = [run EXCEPT ![w] = Continue(w)]
    /\ UNCHANGED <<today, schedule, materialized, errors>>

\* Broken variant: the next date was committed before the pickup.
CrashHalfway(w) ==
    LET s == run[w].at
    IN  /\ run[w].phase = "loaded"
        /\ nextRun' = [nextRun EXCEPT ![s] = NextRunDate(run[w].date, frequency[s])]
        /\ run' = [run EXCEPT ![w] = Off]
        /\ UNCHANGED <<today, frequency, active, firstRun, materialized, errors>>

\* The process is killed, or the database is away when a row is read.
Crash(w) ==
    /\ "crash" \in Faults
    /\ run[w].phase # "off"
    /\ run' = [run EXCEPT ![w] = Off]
    /\ UNCHANGED <<today, schedule, materialized, errors>>

-----------------------------------------------------------------------------

Work(w) ==
    \/ \E s \in Schedules : LoadNext(w, s)
    \/ CommitPickup(w)
    \/ RefuseInsert(w)
    \/ Reload(w)
    \/ AdvanceAfterError(w)

Fail(w) ==
    \/ CommitFails(w)
    \/ AdvanceFails(w)
    \/ Crash(w)

Next ==
    \/ \E s \in Schedules, f \in Frequencies, d \in FirstDates : CreateSchedule(s, f, d)
    \/ \E s \in Schedules : Deactivate(s)
    \/ PassDay
    \/ \E w \in Runs, s \in Schedules : StartRun(w, s)
    \/ \E w \in Runs : Work(w) \/ Fail(w)

Spec == Init /\ [][Next]_vars

\* The cron job keeps starting runs, a run that nothing kills ends, and runs
\* are not killed for ever.  Days need not pass, and nothing forces a fault.
FairSpec ==
    /\ Spec
    /\ <>[][\A w \in Runs : ~Crash(w)]_vars
    /\ \A w \in Runs : WF_vars(\E s \in Schedules : StartRun(w, s))
    /\ \A w \in Runs : WF_vars(Work(w))

-----------------------------------------------------------------------------
(* Properties of any number of overlapping runs.                           *)

\* Every row, history and run holds values of its type: in particular every
\* date the recurrence rule computes exists in the calendar.
TypeOK ==
    /\ today \in Days
    /\ nextRun \in [Schedules -> Dates \cup {None}]
    /\ frequency \in [Schedules -> Frequency \cup {None}]
    /\ active \in [Schedules -> BOOLEAN]
    /\ firstRun \in [Schedules -> Dates \cup {None}]
    /\ materialized \in [Schedules -> Seq(Dates)]
    /\ errors \in [Schedules -> 0 .. MaxErrors]
    /\ run \in [Runs -> RunState]

\* The first occurrences of a series that starts on date d, by its recurrence
\* rule, and those of a schedule.
SeriesFrom(d, f) ==
    LET nth[n \in 0 .. MaxOccurrences] ==
            IF n = 0 THEN d ELSE NextRunDate(nth[n - 1], f)
    IN  nth

Occurrence(s) == SeriesFrom(firstRun[s], frequency[s])

Occurrences(s) == {Occurrence(s)[n] : n \in 0 .. MaxOccurrences}

MadeDates(s) == {materialized[s][i] : i \in DOMAIN materialized[s]}

\* The occurrences before a date that have no pickup.
Lost(s, x) == {d \in Occurrences(s) : Precedes(d, x)} \ MadeDates(s)

Created == {s \in Schedules : HasDate(s)}

\* However runs overlap, fail and resume, pickups are only ever made for dates
\* of the series that starts with first_run_date, and the next date is one of
\* them: a stale write may repeat a date but never shifts the series.
OnSchedule ==
    \A s \in Created : MadeDates(s) \cup {nextRun[s]} \subseteq Occurrences(s)

\* An occurrence the schedule has moved past has its pickup, except for as
\* many as errors were logged for the schedule: neither overlapping runs nor
\* crashes lose one silently.
LossIsLogged ==
    \A s \in Created : Cardinality(Lost(s, nextRun[s])) <= errors[s]

-----------------------------------------------------------------------------
(* Properties of runs that do not overlap.                                 *)

\* docs/recurring-pickups.md, "running it twice in the same day does not
\* create a duplicate pickup": one pickup per occurrence, in order, also when
\* a run crashes or the answer to a COMMIT is lost.
OncePerOccurrence ==
    \A s \in Schedules : \A i, j \in DOMAIN materialized[s] :
        i < j => Precedes(materialized[s][i], materialized[s][j])

\* No pickup is made before its day.
NeverEarly ==
    \A s \in Schedules : \A d \in MadeDates(s) : NoLater(d, today)

\* With runs that start again and again, an active schedule does not stay due,
\* however many occurrences it is behind.
DueIsServed ==
    \A s \in Schedules :
        active[s] /\ NoLater(nextRun[s], today)
            ~> ~active[s] \/ Precedes(today, nextRun[s])

-----------------------------------------------------------------------------
(* What docs and tests of the repository say and the code does not do.     *)

\* The same words of docs/recurring-pickups.md, for runs that may overlap: the
\* cron job and the administrator's endpoint.
NoDuplicatePickup ==
    \A s \in Schedules : \A i, j \in DOMAIN materialized[s] :
        materialized[s][i] = materialized[s][j] => i = j

\* backend/tests/test_scheduler_hardening.py:112, after a failed insertion the
\* scheduler advances the date "to prevent the same broken schedule from
\* blocking every subsequent run".
BrokenDoesNotBlock ==
    \A s \in Schedules \ Broken :
        active[s] /\ NoLater(nextRun[s], today)
            ~> ~active[s] \/ Precedes(today, nextRun[s])

=============================================================================
