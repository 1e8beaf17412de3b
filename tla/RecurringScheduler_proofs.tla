---------------------- MODULE RecurringScheduler_proofs ----------------------
(***************************************************************************)
(* The recurrence rule for every date; for any schedules, days and faults, *)
(* what any number of overlapping runs keep (types, the series, no silent  *)
(* loss), and what runs that do not overlap add to it.                     *)
(***************************************************************************)
EXTENDS RecurringScheduler, FiniteSetTheorems, TLAPS

\* A month has 28 to 31 days.
LEMMA MonthLength ==
    ASSUME NEW m \in Nat
    PROVE  DaysIn(m) \in 28 .. 31
BY DEF DaysIn

\* Up to four weeks later there is a date, and it is later.
LEMMA AddDaysAdvances ==
    ASSUME NEW d \in Dates, NEW n \in 1 .. 28
    PROVE  AddDays(d, n) \in Dates /\ Precedes(d, AddDays(d, n))
<1>1. /\ d \in [month : Nat, day : 1 .. 31]
      /\ d.month \in Nat /\ d.day \in 1 .. 31 /\ d.day <= DaysIn(d.month)
  BY DEF Dates
<1>2. DaysIn(d.month) \in 28 .. 31 /\ DaysIn(d.month + 1) \in 28 .. 31
  BY <1>1, MonthLength
<1>3. CASE d.day + n <= DaysIn(d.month)
  BY <1>1, <1>2, <1>3 DEF AddDays, Dates, Precedes
<1>4. CASE ~(d.day + n <= DaysIn(d.month))
  <2>. DEFINE e == [month |-> d.month + 1, day |-> d.day + n - DaysIn(d.month)]
  <2>1. AddDays(d, n) = e
    BY <1>4 DEF AddDays
  <2>2. e.day \in 1 .. 28 /\ e.month = d.month + 1
    BY <1>1, <1>2, <1>4
  <2>. QED  BY <1>1, <1>2, <2>1, <2>2 DEF Dates, Precedes
<1>. QED  BY <1>3, <1>4

\* The next occurrence of any schedule is a date of the calendar (no 30th of
\* February) and lies strictly after the one before it, so that advancing a
\* schedule always moves it out of the due window in the end.
THEOREM NextRunDateAdvances ==
    ASSUME NEW d \in Dates, NEW f \in Frequency
    PROVE  NextRunDate(d, f) \in Dates /\ Precedes(d, NextRunDate(d, f))
<1>1. /\ d.month \in Nat /\ d.day \in 1 .. 31
      /\ DaysIn(d.month + 1) \in 28 .. 31
  BY MonthLength DEF Dates
<1>2. AddMonth(d) \in Dates /\ Precedes(d, AddMonth(d))
  BY <1>1 DEF AddMonth, Dates, Precedes
<1>3. /\ AddDays(d, 7) \in Dates /\ Precedes(d, AddDays(d, 7))
      /\ AddDays(d, 14) \in Dates /\ Precedes(d, AddDays(d, 14))
  BY AddDaysAdvances
<1>. QED  BY <1>2, <1>3 DEF NextRunDate

-----------------------------------------------------------------------------

\* A run that has read a row holds its schedule and a date, and only schedules
\* that were created, hence with a frequency and a date, are ever taken.
RunShape ==
    /\ \A s \in Schedules : HasDate(s) => frequency[s] # None
    /\ \A s \in Schedules : active[s] => HasDate(s)
    /\ \A w \in Runs :
        /\ \A s \in run[w].due : HasDate(s)
        /\ run[w].phase \in {"loaded", "failed", "advancing"} =>
               /\ run[w].at \in Schedules
               /\ HasDate(run[w].at)
        /\ run[w].phase \in {"loaded", "advancing"} => run[w].date \in Dates

TypeInv == TypeOK /\ RunShape

LEMMA OffType == Off \in RunState /\ Off.due = {} /\ Off.phase = "off"
BY DEF Off, RunState

\* What the loop leaves behind when it is done with a schedule.
LEMMA ContinueType ==
    ASSUME TypeInv, NEW w \in Runs
    PROVE  /\ Continue(w) \in RunState
           /\ Continue(w).phase \in {"off", "next"}
           /\ Continue(w).due = run[w].due
<1>1. run[w] \in RunState
  BY DEF TypeInv, TypeOK
<1>. QED  BY <1>1 DEF Continue, Off, RunState

\* The effect on a run's state that keeps it well formed.
LEMMA RunStep ==
    ASSUME TypeInv, NEW w \in Runs, NEW r \in RunState,
           run' = [run EXCEPT ![w] = r],
           \A s \in Schedules : HasDate(s) => HasDate(s)',
           \A s \in r.due : HasDate(s),
           r.phase \in {"loaded", "failed", "advancing"} =>
               r.at \in Schedules /\ HasDate(r.at),
           r.phase \in {"loaded", "advancing"} => r.date \in Dates
    PROVE  /\ run' \in [Runs -> RunState]
           /\ \A x \in Runs :
                /\ \A s \in run'[x].due : HasDate(s)'
                /\ run'[x].phase \in {"loaded", "failed", "advancing"} =>
                       run'[x].at \in Schedules /\ HasDate(run[x].at)'
                /\ run'[x].phase \in {"loaded", "advancing"} => run'[x].date \in Dates
<1>1. \A x \in Runs : run'[x] = IF x = w THEN r ELSE run[x]
  BY DEF TypeInv, TypeOK
<1>2. \A x \in Runs : run'[x] \in RunState
  BY <1>1 DEF TypeInv, TypeOK
<1>3. \A x \in Runs : run'[x].due \subseteq Schedules
  BY <1>2 DEF RunState
<1>. QED  BY <1>1, <1>2, <1>3 DEF TypeInv, TypeOK, RunShape

\* The row and the pickup a commit writes are of their types, and the schedule
\* keeps having a date.
LEMMA MaterializeType ==
    ASSUME TypeInv, NEW w \in Runs, run[w].at \in Schedules, HasDate(run[w].at),
           run[w].date \in Dates, Materialize(w)
    PROVE  /\ nextRun' \in [Schedules -> Dates \cup {None}]
           /\ materialized' \in [Schedules -> Seq(Dates)]
           /\ UNCHANGED <<frequency, active, firstRun>>
           /\ \A s \in Schedules : HasDate(s)' <=> HasDate(s)
<1>. DEFINE t == run[w].at  e == NextRunDate(run[w].date, frequency[t])
<1>1. frequency[t] \in Frequency
  BY DEF TypeInv, TypeOK, RunShape
<1>2. e \in Dates /\ e # None
  BY <1>1, NextRunDateAdvances, SchedulerAssumption
<1>3. Append(materialized[t], run[w].date) \in Seq(Dates)
  BY DEF TypeInv, TypeOK
<1>4. nextRun' = [nextRun EXCEPT ![t] = e]
  BY DEF Materialize
<1>5. materialized' = [materialized EXCEPT ![t] = Append(@, run[w].date)]
  BY DEF Materialize
<1>. HIDE DEF e
<1>6. materialized' \in [Schedules -> Seq(Dates)]
  BY <1>3, <1>5 DEF TypeInv, TypeOK
<1>7. /\ nextRun' \in [Schedules -> Dates \cup {None}]
      /\ \A s \in Schedules : HasDate(s)' <=> HasDate(s)
  BY <1>2, <1>4 DEF TypeInv, TypeOK, HasDate
<1>. QED  BY <1>6, <1>7 DEF Materialize

LEMMA TypeInit == Init => TypeInv
<1>. SUFFICES ASSUME Init PROVE TypeInv
  OBVIOUS
<1>1. <<>> \in Seq(Dates) /\ 0 \in 0 .. MaxErrors
  BY SchedulerAssumption
<1>2. TypeOK
  BY <1>1, OffType DEF Init, TypeOK
<1>3. RunShape
  BY OffType DEF Init, RunShape, HasDate
<1>. QED  BY <1>2, <1>3 DEF TypeInv

LEMMA TypeStep == TypeInv /\ [Next]_vars => TypeInv'
<1>. SUFFICES ASSUME TypeInv, [Next]_vars PROVE TypeInv'
  OBVIOUS
<1>1. ASSUME NEW s \in Schedules, NEW f \in Frequencies, NEW d \in FirstDates,
             CreateSchedule(s, f, d)
      PROVE  TypeInv'
  <2>1. d \in Dates /\ d # None /\ f \in Frequency /\ f # None
    BY SchedulerAssumption
  <2>2. TypeOK'
    BY <1>1, <2>1 DEF CreateSchedule, TypeInv, TypeOK
  <2>3. \A x \in Schedules :
            /\ HasDate(x) => HasDate(x)'
            /\ HasDate(x)' => frequency'[x] # None
            /\ active'[x] => HasDate(x)'
    BY <1>1, <2>1 DEF CreateSchedule, TypeInv, TypeOK, RunShape, HasDate
  <2>4. run' = run /\ \A w \in Runs : run[w].due \subseteq Schedules
    BY <1>1 DEF CreateSchedule, TypeInv, TypeOK, RunState
  <2>. QED  BY <2>2, <2>3, <2>4 DEF TypeInv, RunShape, HasDate
<1>2. ASSUME NEW s \in Schedules, Deactivate(s)
      PROVE  TypeInv'
  BY <1>2 DEF Deactivate, TypeInv, TypeOK, RunShape, HasDate
<1>3. CASE PassDay
  BY <1>3 DEF PassDay, schedule, TypeInv, TypeOK, RunShape, HasDate
<1>4. ASSUME NEW w \in Runs, NEW s \in Schedules, StartRun(w, s)
      PROVE  TypeInv'
  <2>. DEFINE r == Loaded(s, {x \in Schedules : Due(x)} \ {s})
  <2>1. r \in RunState /\ r.date \in Dates /\ HasDate(s)
    BY <1>4 DEF StartRun, Due, HasDate, Loaded, RunState, TypeInv, TypeOK
  <2>2. r.at = s /\ \A x \in r.due : HasDate(x)
    BY DEF Loaded, Due
  <2>3. run' = [run EXCEPT ![w] = r] /\ UNCHANGED <<today, schedule, materialized, errors>>
    BY <1>4 DEF StartRun
  <2>. HIDE DEF r
  <2>. QED  BY <2>1, <2>2, <2>3, RunStep DEF TypeInv, TypeOK, RunShape, schedule, HasDate
<1>5. ASSUME NEW w \in Runs, NEW s \in Schedules, LoadNext(w, s)
      PROVE  TypeInv'
  <2>. DEFINE r == Loaded(s, run[w].due \ {s})
  <2>1. s \in run[w].due /\ HasDate(s) /\ run[w].due \subseteq Schedules
    BY <1>5 DEF LoadNext, TypeInv, TypeOK, RunShape, RunState
  <2>2. r \in RunState /\ r.date \in Dates
    BY <2>1 DEF HasDate, Loaded, RunState, TypeInv, TypeOK
  <2>3. r.at = s /\ \A x \in r.due : HasDate(x)
    BY <2>1 DEF Loaded, TypeInv, RunShape
  <2>4. run' = [run EXCEPT ![w] = r] /\ UNCHANGED <<today, schedule, materialized, errors>>
    BY <1>5 DEF LoadNext
  <2>. HIDE DEF r
  <2>. QED  BY <2>1, <2>2, <2>3, <2>4, RunStep
            DEF TypeInv, TypeOK, RunShape, schedule, HasDate
<1>6. ASSUME NEW w \in Runs, CommitPickup(w)
      PROVE  TypeInv'
  <2>1. run[w].at \in Schedules /\ HasDate(run[w].at) /\ run[w].date \in Dates
    BY <1>6 DEF CommitPickup, TypeInv, RunShape
  <2>2. Materialize(w) /\ UNCHANGED <<today, errors>>
        /\ run' = [run EXCEPT ![w] = Continue(w)]
    BY <1>6 DEF CommitPickup
  <2>3. \A x \in Continue(w).due : HasDate(x)
    BY ContinueType DEF TypeInv, RunShape
  <2>. QED  BY <2>1, <2>2, <2>3, ContinueType, MaterializeType, RunStep
            DEF TypeInv, TypeOK, RunShape
<1>7. ASSUME NEW w \in Runs, RefuseInsert(w) \/ Crash(w)
      PROVE  TypeInv'
  <2>1. run' = [run EXCEPT ![w] = Off] /\ UNCHANGED <<today, schedule, materialized, errors>>
    BY <1>7 DEF RefuseInsert, Crash
  <2>. QED  BY <2>1, OffType, RunStep DEF TypeInv, TypeOK, RunShape, schedule, HasDate
<1>8. ASSUME NEW w \in Runs, CommitFails(w)
      PROVE  TypeInv'
  <2>. DEFINE r == [run[w] EXCEPT !.phase = "failed"]
  <2>1. run[w].at \in Schedules /\ HasDate(run[w].at) /\ run[w].date \in Dates
        /\ run[w] \in RunState
    BY <1>8 DEF CommitFails, TypeInv, TypeOK, RunShape
  <2>2. r \in RunState /\ r.phase = "failed" /\ r.at = run[w].at /\ r.due = run[w].due
    BY <2>1 DEF RunState
  <2>3. run' = [run EXCEPT ![w] = r] /\ UNCHANGED today
    BY <1>8 DEF CommitFails
  <2>4. errors' \in [Schedules -> 0 .. MaxErrors]
    BY <1>8, <2>1, SchedulerAssumption DEF CommitFails, TypeInv, TypeOK
  <2>5. /\ nextRun' \in [Schedules -> Dates \cup {None}]
        /\ materialized' \in [Schedules -> Seq(Dates)]
        /\ UNCHANGED <<frequency, active, firstRun>>
        /\ \A s \in Schedules : HasDate(s)' <=> HasDate(s)
    BY <1>8, <2>1, MaterializeType DEF CommitFails, schedule, TypeInv, TypeOK, HasDate
  <2>6. \A x \in r.due : HasDate(x)
    BY <2>2 DEF TypeInv, RunShape
  <2>. HIDE DEF r
  <2>. QED  BY <2>1, <2>2, <2>3, <2>4, <2>5, <2>6, RunStep DEF TypeInv, TypeOK, RunShape
<1>9. ASSUME NEW w \in Runs, Reload(w)
      PROVE  TypeInv'
  <2>. DEFINE t == run[w].at
              r == [run[w] EXCEPT !.phase = "advancing", !.date = nextRun[t]]
  <2>1. t \in Schedules /\ HasDate(t) /\ run[w] \in RunState
    BY <1>9 DEF Reload, TypeInv, TypeOK, RunShape
  <2>2. nextRun[t] \in Dates
    BY <2>1 DEF HasDate, TypeInv, TypeOK
  <2>3. r \in RunState /\ r.at = t /\ r.due = run[w].due /\ r.date \in Dates
    BY <2>1, <2>2 DEF RunState
  <2>4. run' = [run EXCEPT ![w] = r] /\ UNCHANGED <<today, schedule, materialized, errors>>
    BY <1>9, <2>1 DEF Reload, TypeInv, TypeOK
  <2>5. \A x \in r.due : HasDate(x)
    BY <2>3 DEF TypeInv, RunShape
  <2>. HIDE DEF r
  <2>. QED  BY <2>1, <2>3, <2>4, <2>5, RunStep
            DEF TypeInv, TypeOK, RunShape, schedule, HasDate
<1>10. ASSUME NEW w \in Runs, AdvanceAfterError(w)
       PROVE  TypeInv'
  <2>. DEFINE t == run[w].at  e == NextRunDate(run[w].date, frequency[t])
  <2>1. t \in Schedules /\ HasDate(t) /\ run[w].date \in Dates
    BY <1>10 DEF AdvanceAfterError, TypeInv, RunShape
  <2>2. frequency[t] \in Frequency
    BY <2>1 DEF TypeInv, TypeOK, RunShape
  <2>3. e \in Dates /\ e # None
    BY <2>1, <2>2, NextRunDateAdvances, SchedulerAssumption
  <2>4. nextRun' = [nextRun EXCEPT ![t] = e]
        /\ run' = [run EXCEPT ![w] = Continue(w)]
        /\ UNCHANGED <<today, frequency, active, firstRun, materialized, errors>>
    BY <1>10 DEF AdvanceAfterError
  <2>5. \A x \in Continue(w).due : HasDate(x)
    BY ContinueType DEF TypeInv, RunShape
  <2>. HIDE DEF e
  <2>6. nextRun' \in [Schedules -> Dates \cup {None}]
        /\ \A s \in Schedules : HasDate(s)' <=> HasDate(s)
    BY <2>1, <2>3, <2>4 DEF TypeInv, TypeOK, HasDate
  <2>. QED  BY <2>4, <2>5, <2>6, ContinueType, RunStep DEF TypeInv, TypeOK, RunShape
<1>11. ASSUME NEW w \in Runs, AdvanceFails(w)
       PROVE  TypeInv'
  <2>1. run' = [run EXCEPT ![w] = Continue(w)]
        /\ UNCHANGED <<today, schedule, materialized, errors>>
    BY <1>11 DEF AdvanceFails
  <2>2. \A x \in Continue(w).due : HasDate(x)
    BY ContinueType DEF TypeInv, RunShape
  <2>. QED  BY <2>1, <2>2, ContinueType, RunStep
            DEF TypeInv, TypeOK, RunShape, schedule, HasDate
<1>12. CASE UNCHANGED vars
  BY <1>12 DEF vars, schedule, TypeInv, TypeOK, RunShape, HasDate
<1>. QED
  BY <1>1, <1>2, <1>3, <1>4, <1>5, <1>6, <1>7, <1>8, <1>9, <1>10, <1>11, <1>12
  DEF Next, Work, Fail

\* Type correctness for any number of schedules and overlapping runs: among
\* others, every date that is ever stored exists in the calendar.
THEOREM TypeCorrect == Spec => []TypeOK
<1>1. TypeInv => TypeOK
  BY DEF TypeInv
<1>. QED  BY TypeInit, TypeStep, <1>1, PTL DEF Spec

-----------------------------------------------------------------------------
(* The series of a schedule.                                               *)

\* Induction over the naturals, for a property given as a set.  If n were the
\* first number left out, adding one would map the finite set of those up to n
\* one to one into itself, hence onto itself; but nothing maps to 0.
LEMMA SetInduction ==
    ASSUME NEW P \in SUBSET Nat, 0 \in P, \A n \in P : n + 1 \in P
    PROVE  P = Nat
<1>. SUFFICES ASSUME NEW n \in Nat, n \notin P PROVE FALSE
  OBVIOUS
<1>. DEFINE Q == {k \in P : k <= n}
            up == [k \in Q |-> k + 1]
<1>1. IsFiniteSet(Q)
  BY FS_BoundedSetOfNaturals
<1>2. Q \subseteq Nat /\ 0 \in Q /\ \A k \in Q : k + 1 \in Q
  <2>1. ASSUME NEW k \in Q PROVE k + 1 \in Q
    <3>1. k \in P /\ k \in Nat /\ k <= n /\ k # n
      OBVIOUS
    <3>2. k + 1 \in P /\ k + 1 <= n
      BY <3>1
    <3>. QED  BY <3>2
  <2>2. Q \subseteq Nat
    <3>1. P \subseteq Nat /\ Q \subseteq P
      OBVIOUS
    <3>. HIDE DEF Q
    <3>. QED  BY <3>1
  <2>3. 0 \in Q
    OBVIOUS
  <2>. QED  BY <2>1, <2>2, <2>3
<1>3. up \in [Q -> Q] /\ \A k \in Q : up[k] = k + 1
  BY <1>2
<1>. HIDE DEF Q, up
<1>4. up \in Injection(Q, Q)
  BY <1>2, <1>3 DEF Injection, IsInjective
<1>5. up \in Surjection(Q, Q)
  BY <1>1, <1>4, FS_Injection
<1>6. PICK k \in Q : up[k] = 0
  BY <1>2, <1>5 DEF Surjection
<1>. QED  BY <1>2, <1>3, <1>6

\* Precedes is a strict total order on dates.
LEMMA DateOrder ==
    ASSUME NEW a \in Dates, NEW b \in Dates, NEW c \in Dates
    PROVE  /\ ~Precedes(a, a)
           /\ Precedes(a, b) /\ Precedes(b, c) => Precedes(a, c)
           /\ Precedes(a, b) \/ a = b \/ Precedes(b, a)
<1>1. /\ a \in [month : Nat, day : 1 .. 31] /\ b \in [month : Nat, day : 1 .. 31]
      /\ c \in [month : Nat, day : 1 .. 31]
  BY DEF Dates
<1>. QED  BY <1>1 DEF Precedes

\* The recursion that defines a series has a solution, and it is of dates.
LEMMA SeriesDef ==
    ASSUME NEW d \in Dates, NEW f \in Frequency
    PROVE  LET nth == SeriesFrom(d, f)
           IN  /\ nth \in [0 .. MaxOccurrences -> Dates]
               /\ nth[0] = d
               /\ \A n \in 1 .. MaxOccurrences : nth[n] = NextRunDate(nth[n - 1], f)
<1>. DEFINE Solves(g, m) ==
                /\ g \in [0 .. m -> Dates] /\ g[0] = d
                /\ \A n \in 1 .. m : g[n] = NextRunDate(g[n - 1], f)
            P == {m \in Nat : \E g \in [0 .. m -> Dates] : Solves(g, m)}
<1>1. 0 \in P
  <2>1. Solves([n \in 0 .. 0 |-> d], 0)
    OBVIOUS
  <2>. QED  BY <2>1
<1>2. ASSUME NEW m \in P PROVE m + 1 \in P
  <2>1. PICK g \in [0 .. m -> Dates] : Solves(g, m)
    OBVIOUS
  <2>. DEFINE h == [n \in 0 .. m + 1 |-> IF n <= m THEN g[n] ELSE NextRunDate(g[m], f)]
  <2>2. g[m] \in Dates /\ NextRunDate(g[m], f) \in Dates
    BY NextRunDateAdvances
  <2>3. h \in [0 .. m + 1 -> Dates] /\ h[0] = d
    BY <2>1, <2>2
  <2>4. \A n \in 1 .. m + 1 : h[n] = NextRunDate(h[n - 1], f)
    BY <2>1
  <2>. HIDE DEF h
  <2>5. m + 1 \in Nat
    OBVIOUS
  <2>. QED  BY <2>3, <2>4, <2>5
<1>3. P = Nat
  <2>. HIDE DEF P
  <2>1. P \in SUBSET Nat
    BY DEF P
  <2>. QED  BY <1>1, <1>2, <2>1, SetInduction
<1>4. PICK g \in [0 .. MaxOccurrences -> Dates] : Solves(g, MaxOccurrences)
  BY <1>3, SchedulerAssumption
<1>. DEFINE Rec(h) == [n \in 0 .. MaxOccurrences |->
                         IF n = 0 THEN d ELSE NextRunDate(h[n - 1], f)]
            nth == SeriesFrom(d, f)
<1>5. g = Rec(g)
  BY <1>4, SchedulerAssumption
<1>6. nth = Rec(nth)
  BY <1>5 DEF SeriesFrom
<1>7. /\ nth[0] = d
      /\ \A n \in 1 .. MaxOccurrences : nth[n] = NextRunDate(nth[n - 1], f)
  BY <1>6, SchedulerAssumption
<1>. DEFINE T == {n \in Nat : n <= MaxOccurrences => nth[n] \in Dates}
<1>. HIDE DEF nth, P, Rec
<1>8. 0 \in T
  BY <1>7
<1>9. ASSUME NEW n \in T PROVE n + 1 \in T
  <2>. SUFFICES ASSUME n + 1 <= MaxOccurrences PROVE nth[n + 1] \in Dates
    OBVIOUS
  <2>1. nth[n] \in Dates /\ n + 1 \in 1 .. MaxOccurrences /\ (n + 1) - 1 = n
    BY SchedulerAssumption
  <2>2. nth[n + 1] = NextRunDate(nth[n], f)
    BY <1>7, <2>1
  <2>. QED  BY <2>1, <2>2, NextRunDateAdvances
<1>10. T = Nat
  <2>. HIDE DEF T
  <2>1. T \in SUBSET Nat
    BY DEF T
  <2>. QED  BY <1>8, <1>9, <2>1, SetInduction
<1>11. DOMAIN nth = 0 .. MaxOccurrences /\ nth = [n \in 0 .. MaxOccurrences |-> nth[n]]
  BY <1>6 DEF Rec
<1>12. nth \in [0 .. MaxOccurrences -> Dates]
  <2>1. \A n \in 0 .. MaxOccurrences : n \in T
    BY <1>10, SchedulerAssumption
  <2>2. \A n \in 0 .. MaxOccurrences : nth[n] \in Dates
    BY <2>1, SchedulerAssumption
  <2>. QED  BY <1>11, <2>2
<1>. QED  BY <1>7, <1>12 DEF nth

\* The occurrences of a series get later and later.
LEMMA SeriesGrows ==
    ASSUME NEW d \in Dates, NEW f \in Frequency,
           NEW i \in 0 .. MaxOccurrences, NEW j \in 0 .. MaxOccurrences
    PROVE  LET nth == SeriesFrom(d, f)
           IN  /\ i < j => Precedes(nth[i], nth[j])
               /\ Precedes(nth[i], nth[j]) => i < j
<1>. DEFINE nth == SeriesFrom(d, f)
            After(a) == {n \in Nat : \A b \in 0 .. MaxOccurrences :
                             b = a + n + 1 => Precedes(nth[a], nth[b])}
<1>1. /\ nth \in [0 .. MaxOccurrences -> Dates]
      /\ \A n \in 1 .. MaxOccurrences : nth[n] = NextRunDate(nth[n - 1], f)
  BY SeriesDef
<1>. HIDE DEF nth
<1>2. \A n \in 0 .. MaxOccurrences : nth[n] \in Dates
  BY <1>1
<1>3. ASSUME NEW a \in 0 .. MaxOccurrences, a + 1 \in 0 .. MaxOccurrences
      PROVE  Precedes(nth[a], nth[a + 1])
  <2>1. a + 1 \in 1 .. MaxOccurrences /\ (a + 1) - 1 = a
    BY <1>3
  <2>2. nth[a + 1] = NextRunDate(nth[a], f)
    BY <1>1, <2>1
  <2>. QED  BY <1>2, <2>2, NextRunDateAdvances
<1>4. ASSUME NEW a \in 0 .. MaxOccurrences PROVE After(a) = Nat
  <2>1. 0 \in After(a)
    BY <1>3
  <2>2. ASSUME NEW n \in After(a) PROVE n + 1 \in After(a)
    <3>. SUFFICES ASSUME NEW b \in 0 .. MaxOccurrences, b = a + (n + 1) + 1
                  PROVE  Precedes(nth[a], nth[b])
      OBVIOUS
    <3>. DEFINE c == a + n + 1
    <3>1. c \in 0 .. MaxOccurrences /\ c + 1 = b
      BY SchedulerAssumption
    <3>2. Precedes(nth[a], nth[c])
      BY <3>1
    <3>3. Precedes(nth[c], nth[b])
      BY <1>3, <3>1
    <3>. HIDE DEF c
    <3>. QED  BY <1>2, <3>1, <3>2, <3>3, DateOrder
  <2>3. After(a) \in SUBSET Nat
    OBVIOUS
  <2>. HIDE DEF After
  <2>. QED  BY <2>1, <2>2, <2>3, SetInduction
<1>5. ASSUME NEW a \in 0 .. MaxOccurrences, NEW b \in 0 .. MaxOccurrences, a < b
      PROVE  Precedes(nth[a], nth[b])
  <2>. DEFINE n == b - a - 1
  <2>1. n \in Nat /\ b = a + n + 1
    BY <1>5, SchedulerAssumption
  <2>2. n \in After(a)
    BY <1>4, <2>1
  <2>. HIDE DEF n
  <2>. QED  BY <2>1, <2>2
<1>6. ASSUME Precedes(nth[i], nth[j]) PROVE i < j
  <2>1. nth[i] \in Dates /\ nth[j] \in Dates
    BY <1>2
  <2>2. ~Precedes(nth[j], nth[i]) /\ nth[i] # nth[j]
    BY <1>6, <2>1, DateOrder
  <2>3. ~(j < i) /\ i # j
    BY <1>5, <2>2
  <2>. QED  BY <2>3, SchedulerAssumption
<1>. QED  BY <1>5, <1>6 DEF nth

\* All dates of a series, without a bound: those in every set that contains the
\* first date and the date after each of its own.
Series(d, f) ==
    {x \in Dates : \A C \in SUBSET Dates :
        d \in C /\ (\A c \in C : NextRunDate(c, f) \in C) => x \in C}

LEMMA SeriesClosed ==
    ASSUME NEW d \in Dates, NEW f \in Frequency
    PROVE  /\ d \in Series(d, f)
           /\ \A x \in Series(d, f) : NextRunDate(x, f) \in Series(d, f)
BY NextRunDateAdvances DEF Series

\* The bounded enumeration misses only dates after its last one.
LEMMA SeriesListed ==
    ASSUME NEW d \in Dates, NEW f \in Frequency, NEW x \in Series(d, f)
    PROVE  LET nth == SeriesFrom(d, f)
           IN  \/ \E n \in 0 .. MaxOccurrences : x = nth[n]
               \/ Precedes(nth[MaxOccurrences], x)
<1>. DEFINE nth == SeriesFrom(d, f)
            C == {c \in Dates : \/ \E n \in 0 .. MaxOccurrences : c = nth[n]
                                \/ Precedes(nth[MaxOccurrences], c)}
<1>1. /\ nth \in [0 .. MaxOccurrences -> Dates] /\ nth[0] = d
      /\ \A n \in 1 .. MaxOccurrences : nth[n] = NextRunDate(nth[n - 1], f)
  BY SeriesDef
<1>. HIDE DEF nth
<1>2. 0 \in 0 .. MaxOccurrences /\ MaxOccurrences \in 0 .. MaxOccurrences
  BY SchedulerAssumption
<1>3. d \in C
  BY <1>1, <1>2
<1>4. ASSUME NEW c \in C PROVE NextRunDate(c, f) \in C
  <2>1. c \in Dates /\ NextRunDate(c, f) \in Dates /\ Precedes(c, NextRunDate(c, f))
    BY NextRunDateAdvances
  <2>2. nth[MaxOccurrences] \in Dates
    BY <1>1, <1>2
  <2>3. CASE c = nth[MaxOccurrences] \/ Precedes(nth[MaxOccurrences], c)
    BY <2>1, <2>2, <2>3, DateOrder
  <2>4. ASSUME NEW n \in 0 .. MaxOccurrences, c = nth[n], n # MaxOccurrences
        PROVE  NextRunDate(c, f) \in C
    <3>1. n + 1 \in 1 .. MaxOccurrences /\ (n + 1) - 1 = n
      BY <2>4, SchedulerAssumption
    <3>2. n + 1 \in 0 .. MaxOccurrences /\ NextRunDate(c, f) = nth[n + 1]
      BY <1>1, <2>4, <3>1
    <3>. QED  BY <2>1, <3>2
  <2>. QED  BY <2>3, <2>4
<1>5. x \in C
  <2>1. C \in SUBSET Dates
    OBVIOUS
  <2>. HIDE DEF C
  <2>. QED  BY <1>3, <1>4, <2>1 DEF Series
<1>. QED  BY <1>5 DEF nth

\* No occurrence lies between a date of the series and the next one.
LEMMA NothingBetween ==
    ASSUME NEW d \in Dates, NEW f \in Frequency, NEW x \in Series(d, f),
           NEW n \in 0 .. MaxOccurrences,
           Precedes(SeriesFrom(d, f)[n], NextRunDate(x, f))
    PROVE  NoLater(SeriesFrom(d, f)[n], x)
<1>. DEFINE nth == SeriesFrom(d, f)
<1>1. /\ nth \in [0 .. MaxOccurrences -> Dates]
      /\ \A m \in 1 .. MaxOccurrences : nth[m] = NextRunDate(nth[m - 1], f)
  BY SeriesDef
<1>2. Precedes(nth[n], NextRunDate(x, f)) /\ x \in Dates
  BY DEF Series
<1>3. \/ \E m \in 0 .. MaxOccurrences : x = nth[m]
      \/ Precedes(nth[MaxOccurrences], x)
  BY SeriesListed
<1>4. \A i, j \in 0 .. MaxOccurrences : i < j <=> Precedes(nth[i], nth[j])
  BY SeriesGrows
<1>. HIDE DEF nth
<1>5. MaxOccurrences \in 0 .. MaxOccurrences /\ nth[n] \in Dates
      /\ nth[MaxOccurrences] \in Dates
  BY <1>1, SchedulerAssumption
<1>6. CASE Precedes(nth[MaxOccurrences], x)
  <2>1. n = MaxOccurrences \/ n < MaxOccurrences
    BY SchedulerAssumption
  <2>2. nth[n] = nth[MaxOccurrences] \/ Precedes(nth[n], nth[MaxOccurrences])
    BY <1>4, <1>5, <2>1
  <2>3. Precedes(nth[n], x)
    BY <1>2, <1>5, <1>6, <2>2, DateOrder
  <2>. QED  BY <2>3 DEF NoLater, nth
<1>7. ASSUME NEW m \in 0 .. MaxOccurrences, x = nth[m]
      PROVE  NoLater(nth[n], x)
  <2>1. CASE m = MaxOccurrences
    <3>1. n = m \/ n < m
      BY <2>1, SchedulerAssumption
    <3>. QED  BY <1>4, <1>7, <3>1 DEF NoLater
  <2>2. CASE m # MaxOccurrences
    <3>1. m + 1 \in 1 .. MaxOccurrences /\ (m + 1) - 1 = m
      BY <2>2, SchedulerAssumption
    <3>2. m + 1 \in 0 .. MaxOccurrences /\ NextRunDate(x, f) = nth[m + 1]
      BY <1>1, <1>7, <3>1
    <3>3. n < m + 1
      BY <1>2, <1>4, <3>2
    <3>4. n = m \/ n < m
      BY <3>3, SchedulerAssumption
    <3>. QED  BY <1>4, <1>7, <3>4 DEF NoLater
  <2>. QED  BY <2>1, <2>2
<1>. QED  BY <1>3, <1>6, <1>7 DEF nth

-----------------------------------------------------------------------------
(* Overlapping runs keep to the series.                                    *)

SeriesOf(s) == Series(firstRun[s], frequency[s])

\* What a run has read, and not only what is stored, is a date of the series:
\* a stale date is written back as the one after it.
SeriesInv ==
    /\ \A s \in Schedules :
        /\ HasDate(s) => firstRun[s] \in Dates /\ nextRun[s] \in SeriesOf(s)
        /\ HasDate(s) => MadeDates(s) \subseteq SeriesOf(s)
        /\ ~HasDate(s) => MadeDates(s) = {}
    /\ \A w \in Runs :
        run[w].phase \in {"loaded", "advancing"} => run[w].date \in SeriesOf(run[w].at)

\* A step of run w that writes no row.
LEMMA SeriesQuiet ==
    ASSUME TypeInv, SeriesInv, NEW w \in Runs, NEW r,
           UNCHANGED <<nextRun, frequency, firstRun, materialized>>,
           run' = [run EXCEPT ![w] = r],
           r.phase \in {"loaded", "advancing"} => r.date \in SeriesOf(r.at)
    PROVE  SeriesInv'
<1>1. \A s : /\ SeriesOf(s)' = SeriesOf(s) /\ MadeDates(s)' = MadeDates(s)
             /\ HasDate(s)' <=> HasDate(s)
  BY DEF SeriesOf, MadeDates, HasDate
<1>2. \A x \in Runs : run'[x] = IF x = w THEN r ELSE run[x]
  BY DEF TypeInv, TypeOK
<1>. QED  BY <1>1, <1>2 DEF SeriesInv

\* The dates that have a pickup after a commit.
LEMMA MaterializeMade ==
    ASSUME TypeInv, NEW w \in Runs, run[w].at \in Schedules,
           run[w].date \in Dates, Materialize(w), NEW s \in Schedules
    PROVE  MadeDates(s)' = MadeDates(s) \cup (IF s = run[w].at THEN {run[w].date} ELSE {})
<1>. DEFINE t == run[w].at  d == run[w].date
<1>1. /\ materialized[s] \in Seq(Dates)
      /\ materialized'[s] = IF s = t THEN Append(materialized[s], d) ELSE materialized[s]
  BY DEF Materialize, TypeInv, TypeOK
<1>2. CASE s # t
  BY <1>1, <1>2 DEF MadeDates
<1>3. CASE s = t
  <2>. DEFINE q == materialized[s]
  <2>1. /\ DOMAIN Append(q, d) = DOMAIN q \cup {Len(q) + 1}
        /\ \A i \in DOMAIN q : Append(q, d)[i] = q[i]
        /\ Append(q, d)[Len(q) + 1] = d
    BY <1>1
  <2>. DEFINE p == materialized'[s]
  <2>2. /\ DOMAIN p = DOMAIN q \cup {Len(q) + 1} /\ p[Len(q) + 1] = d
        /\ \A i \in DOMAIN q : p[i] = q[i]
    BY <1>1, <1>3, <2>1
  <2>3. MadeDates(s) = {q[i] : i \in DOMAIN q} /\ MadeDates(s)' = {p[i] : i \in DOMAIN p}
    BY DEF MadeDates
  <2>. HIDE DEF p, q, d
  <2>4. MadeDates(s)' = MadeDates(s) \cup {d}
    BY <2>2, <2>3
  <2>. QED  BY <1>3, <2>4 DEF d
<1>. QED  BY <1>2, <1>3

\* The part of the transaction that is not the pickup.
WritesNext(w) ==
    /\ UNCHANGED <<frequency, firstRun>>
    /\ nextRun' = [nextRun EXCEPT
           ![run[w].at] = NextRunDate(run[w].date, frequency[run[w].at])]

LEMMA MaterializeWrites ==
    ASSUME NEW w \in Runs, Materialize(w)
    PROVE  WritesNext(w)
BY DEF Materialize, WritesNext

\* A commit of run w: the date after the one it has read, with or without the
\* pickup.
LEMMA SeriesWrite ==
    ASSUME TypeInv, SeriesInv, NEW w \in Runs,
           run[w].phase \in {"loaded", "advancing"},
           WritesNext(w), Materialize(w) \/ UNCHANGED materialized,
           NEW r, r.phase \notin {"loaded", "advancing"}, run' = [run EXCEPT ![w] = r]
    PROVE  SeriesInv'
<1>. DEFINE t == run[w].at  d == run[w].date  e == NextRunDate(d, frequency[t])
<1>1. /\ t \in Schedules /\ HasDate(t) /\ d \in Dates /\ d \in SeriesOf(t)
      /\ firstRun[t] \in Dates /\ frequency[t] \in Frequency
  BY DEF TypeInv, TypeOK, RunShape, SeriesInv
<1>2. e \in SeriesOf(t) /\ e # None
  <2>1. e \in Dates
    BY <1>1, NextRunDateAdvances
  <2>. QED  BY <1>1, <2>1, SeriesClosed, SchedulerAssumption DEF SeriesOf
<1>3. \A s : SeriesOf(s)' = SeriesOf(s)
  BY DEF SeriesOf, WritesNext
<1>4. \A s \in Schedules : MadeDates(s)' \subseteq MadeDates(s) \cup (IF s = t THEN {d} ELSE {})
  BY <1>1, MaterializeMade DEF MadeDates
<1>5. \A x \in Runs : run'[x] = IF x = w THEN r ELSE run[x]
  BY DEF TypeInv, TypeOK
<1>6. \A s \in Schedules : nextRun'[s] = IF s = t THEN e ELSE nextRun[s]
  BY DEF WritesNext, TypeInv, TypeOK
<1>. HIDE DEF e, t, d
<1>7. \A s \in Schedules : HasDate(s)' <=> HasDate(s)
  BY <1>1, <1>2, <1>6 DEF HasDate
<1>8. \A s \in Schedules : HasDate(s) => nextRun'[s] \in SeriesOf(s)
  BY <1>2, <1>6 DEF SeriesInv
<1>9. \A s \in Schedules : /\ HasDate(s) => MadeDates(s)' \subseteq SeriesOf(s)
                           /\ ~HasDate(s) => MadeDates(s)' = {}
  BY <1>1, <1>4 DEF SeriesInv
<1>10. \A x \in Runs :
           run'[x].phase \in {"loaded", "advancing"} => run'[x].date \in SeriesOf(run'[x].at)
  BY <1>5 DEF SeriesInv
<1>11. firstRun' = firstRun
  BY DEF WritesNext
<1>. QED  BY <1>3, <1>7, <1>8, <1>9, <1>10, <1>11 DEF SeriesInv

LEMMA SeriesInit == Init => SeriesInv
BY OffType DEF Init, SeriesInv, HasDate, MadeDates

LEMMA SeriesStep == TypeInv /\ SeriesInv /\ [Next]_vars => SeriesInv'
<1>. SUFFICES ASSUME TypeInv, SeriesInv, [Next]_vars PROVE SeriesInv'
  OBVIOUS
<1>1. ASSUME NEW s \in Schedules, NEW f \in Frequencies, NEW d \in FirstDates,
             CreateSchedule(s, f, d)
      PROVE  SeriesInv'
  <2>1. d \in Dates /\ d # None /\ f \in Frequency
    BY SchedulerAssumption
  <2>2. /\ firstRun'[s] = d /\ nextRun'[s] = d /\ frequency'[s] = f
        /\ ~HasDate(s) /\ materialized' = materialized /\ run' = run
        /\ \A x \in Schedules \ {s} : /\ firstRun'[x] = firstRun[x]
                                      /\ nextRun'[x] = nextRun[x]
                                      /\ frequency'[x] = frequency[x]
    BY <1>1 DEF CreateSchedule, HasDate, TypeInv, TypeOK
  <2>3. SeriesOf(s)' = Series(d, f) /\ d \in Series(d, f)
    BY <2>1, <2>2, SeriesClosed DEF SeriesOf
  <2>4. \A x \in Schedules \ {s} : SeriesOf(x)' = SeriesOf(x) /\ (HasDate(x)' <=> HasDate(x))
    BY <2>2 DEF SeriesOf, HasDate
  <2>5. \A x : MadeDates(x)' = MadeDates(x)
    BY <2>2 DEF MadeDates
  <2>6. MadeDates(s) = {} /\ HasDate(s)'
    BY <2>1, <2>2 DEF SeriesInv, HasDate
  <2>7. \A w \in Runs : run[w].phase \in {"loaded", "advancing"} => run[w].at \in Schedules \ {s}
    BY <2>2 DEF TypeInv, RunShape
  <2>8. \A w \in Runs : run[w].phase \in {"loaded", "advancing"} => run[w].date \in SeriesOf(run[w].at)'
    <3>. SUFFICES ASSUME NEW w \in Runs, run[w].phase \in {"loaded", "advancing"}
                  PROVE  run[w].date \in SeriesOf(run[w].at)'
      OBVIOUS
    <3>1. SeriesOf(run[w].at)' = SeriesOf(run[w].at)
      BY <2>2, <2>7 DEF SeriesOf
    <3>. QED  BY <3>1 DEF SeriesInv
  <2>9. \A x \in Schedules \ {s} :
            /\ HasDate(x)' => firstRun'[x] \in Dates /\ nextRun'[x] \in SeriesOf(x)'
            /\ HasDate(x)' => MadeDates(x)' \subseteq SeriesOf(x)'
            /\ ~HasDate(x)' => MadeDates(x)' = {}
    BY <2>2, <2>4, <2>5 DEF SeriesInv
  <2>10. firstRun'[s] \in Dates /\ nextRun'[s] \in SeriesOf(s)' /\ MadeDates(s)' = {}
    BY <2>1, <2>2, <2>3, <2>5, <2>6
  <2>. QED  BY <2>2, <2>6, <2>8, <2>9, <2>10 DEF SeriesInv
<1>2. ASSUME UNCHANGED <<nextRun, frequency, firstRun, materialized, run>>
      PROVE  SeriesInv'
  BY <1>2 DEF SeriesInv, SeriesOf, MadeDates, HasDate
<1>3. ASSUME NEW s \in Schedules, Deactivate(s)
      PROVE  SeriesInv'
  BY <1>2, <1>3 DEF Deactivate
<1>4. CASE PassDay
  BY <1>2, <1>4 DEF PassDay, schedule
<1>5. ASSUME NEW w \in Runs, NEW s \in Schedules, StartRun(w, s) \/ LoadNext(w, s)
      PROVE  SeriesInv'
  <2>1. HasDate(s) /\ UNCHANGED <<nextRun, frequency, firstRun, materialized>>
    BY <1>5 DEF StartRun, LoadNext, Due, schedule, TypeInv, RunShape
  <2>2. PICK due : run' = [run EXCEPT ![w] = Loaded(s, due)]
    BY <1>5 DEF StartRun, LoadNext
  <2>3. Loaded(s, due).date \in SeriesOf(Loaded(s, due).at)
    BY <2>1 DEF Loaded, SeriesInv
  <2>. QED  BY <2>1, <2>2, <2>3, SeriesQuiet
<1>6. ASSUME NEW w \in Runs, CommitPickup(w)
      PROVE  SeriesInv'
  <2>1. Continue(w).phase \notin {"loaded", "advancing"}
    BY ContinueType
  <2>2. run[w].phase \in {"loaded", "advancing"} /\ Materialize(w)
        /\ run' = [run EXCEPT ![w] = Continue(w)]
    BY <1>6 DEF CommitPickup
  <2>. QED  BY <2>1, <2>2, MaterializeWrites, SeriesWrite
<1>7. ASSUME NEW w \in Runs, RefuseInsert(w) \/ Crash(w)
      PROVE  SeriesInv'
  BY <1>7, OffType, SeriesQuiet DEF RefuseInsert, Crash, schedule
<1>8. ASSUME NEW w \in Runs, CommitFails(w)
      PROVE  SeriesInv'
  <2>. DEFINE r == [run[w] EXCEPT !.phase = "failed"]
  <2>1. r.phase \notin {"loaded", "advancing"}
    BY DEF TypeInv, TypeOK, RunState
  <2>2. run[w].phase \in {"loaded", "advancing"} /\ run' = [run EXCEPT ![w] = r]
    BY <1>8 DEF CommitFails
  <2>. HIDE DEF r
  <2>3. CASE Materialize(w)
    BY <2>1, <2>2, <2>3, MaterializeWrites, SeriesWrite
  <2>4. CASE UNCHANGED <<schedule, materialized>>
    BY <2>1, <2>2, <2>4, SeriesQuiet DEF schedule
  <2>. QED  BY <1>8, <2>3, <2>4 DEF CommitFails
<1>9. ASSUME NEW w \in Runs, Reload(w)
      PROVE  SeriesInv'
  <2>. DEFINE t == run[w].at
              r == [run[w] EXCEPT !.phase = "advancing", !.date = nextRun[t]]
  <2>1. t \in Schedules /\ HasDate(t) /\ r.at = t /\ r.date = nextRun[t]
    BY <1>9 DEF Reload, TypeInv, TypeOK, RunShape, RunState
  <2>2. nextRun[t] \in SeriesOf(t)
    BY <2>1 DEF SeriesInv
  <2>3. run' = [run EXCEPT ![w] = r]
        /\ UNCHANGED <<nextRun, frequency, firstRun, materialized>>
    BY <1>9 DEF Reload, TypeInv, TypeOK, schedule
  <2>. HIDE DEF r
  <2>. QED  BY <2>1, <2>2, <2>3, SeriesQuiet
<1>10. ASSUME NEW w \in Runs, AdvanceAfterError(w)
       PROVE  SeriesInv'
  <2>1. Continue(w).phase \notin {"loaded", "advancing"}
    BY ContinueType
  <2>2. /\ run[w].phase \in {"loaded", "advancing"}
        /\ WritesNext(w) /\ UNCHANGED materialized
        /\ run' = [run EXCEPT ![w] = Continue(w)]
    BY <1>10 DEF AdvanceAfterError, WritesNext
  <2>. QED  BY <2>1, <2>2, SeriesWrite
<1>11. ASSUME NEW w \in Runs, AdvanceFails(w)
       PROVE  SeriesInv'
  BY <1>11, ContinueType, SeriesQuiet DEF AdvanceFails, schedule
<1>12. CASE UNCHANGED vars
  BY <1>2, <1>12 DEF vars, schedule
<1>. QED
  BY <1>1, <1>3, <1>4, <1>5, <1>6, <1>7, <1>8, <1>9, <1>10, <1>11, <1>12
  DEF Next, Work, Fail

\* The enumeration of the bound reaches as far as the schedules have come.
Enumerated ==
    \A s \in Created : \A d \in MadeDates(s) \cup {nextRun[s]} :
        NoLater(d, Occurrence(s)[MaxOccurrences])

KeepsSeries == \A s \in Created : MadeDates(s) \cup {nextRun[s]} \subseteq SeriesOf(s)

\* However runs overlap, fail and resume, every stored date and every pickup's
\* date is one of the series of its schedule, without a bound; and OnSchedule,
\* which looks at the first MaxOccurrences only, holds as long as no schedule
\* has come further than that.
THEOREM SeriesKept == Spec => [](KeepsSeries /\ (Enumerated => OnSchedule))
<1>1. ASSUME TypeInv, SeriesInv PROVE KeepsSeries /\ (Enumerated => OnSchedule)
  <2>1. KeepsSeries
    BY <1>1 DEF SeriesInv, Created, KeepsSeries
  <2>2. ASSUME Enumerated, NEW s \in Created, NEW d \in MadeDates(s) \cup {nextRun[s]}
        PROVE  d \in Occurrences(s)
    <3>1. /\ s \in Schedules /\ firstRun[s] \in Dates /\ frequency[s] \in Frequency
          /\ d \in Series(firstRun[s], frequency[s])
      BY <1>1, <2>1 DEF Created, KeepsSeries, SeriesInv, SeriesOf, TypeInv, TypeOK, RunShape
    <3>. DEFINE nth == SeriesFrom(firstRun[s], frequency[s])
    <3>2. /\ nth \in [0 .. MaxOccurrences -> Dates]
          /\ \/ \E n \in 0 .. MaxOccurrences : d = nth[n]
             \/ Precedes(nth[MaxOccurrences], d)
      BY <3>1, SeriesDef, SeriesListed
    <3>3. NoLater(d, nth[MaxOccurrences])
      BY <2>2 DEF Enumerated, Occurrence
    <3>4. d \in Dates /\ nth[MaxOccurrences] \in Dates
      BY <3>1, <3>2, SchedulerAssumption DEF Series
    <3>. HIDE DEF nth
    <3>5. ~Precedes(nth[MaxOccurrences], d)
      BY <3>3, <3>4, DateOrder DEF NoLater
    <3>. QED  BY <3>2, <3>5 DEF Occurrences, Occurrence, nth
  <2>. QED  BY <2>1, <2>2 DEF OnSchedule
<1>. QED  BY TypeInit, TypeStep, SeriesInit, SeriesStep, <1>1, PTL DEF Spec

-----------------------------------------------------------------------------
(* What is passed over is logged.                                          *)

\* A run that has logged an error and not yet written the next date.
Retrying(r, s) == r.phase \in {"failed", "advancing"} /\ r.at = s

Pending(s) == {w \in Runs : Retrying(run[w], s)}

\* The error is logged before the date is lost, so what was lost before date x
\* leaves room for every error whose advance is still to come.
Within(s, x) == Cardinality(Lost(s, x)) + Cardinality(Pending(s)) <= errors[s]

\* The losses are bounded also before the dates the runs have read: one of
\* these, however stale, may be the next to be written.
LossInv ==
    /\ \A s \in Schedules :
        /\ IsFiniteSet(Pending(s))
        /\ HasDate(s) => Within(s, nextRun[s])
    /\ \A w \in Runs :
        run[w].phase \in {"loaded", "advancing"} => Within(run[w].at, run[w].date)

\* The enumerated occurrences, hence those lost, are finitely many.
LEMMA LostFinite ==
    ASSUME TypeInv, SeriesInv, NEW s \in Schedules, HasDate(s), NEW x
    PROVE  /\ IsFiniteSet(Lost(s, x)) /\ Cardinality(Lost(s, x)) \in Nat
           /\ Lost(s, x) \subseteq Dates
<1>. DEFINE nth == Occurrence(s)
<1>1. firstRun[s] \in Dates /\ frequency[s] \in Frequency
  BY DEF TypeInv, TypeOK, RunShape, SeriesInv
<1>2. nth \in [0 .. MaxOccurrences -> Dates]
  BY <1>1, SeriesDef DEF Occurrence
<1>. HIDE DEF nth
<1>3. Occurrences(s) \subseteq Dates
      /\ nth \in Surjection(0 .. MaxOccurrences, Occurrences(s))
  BY <1>2 DEF Occurrences, Surjection, nth
<1>4. IsFiniteSet(0 .. MaxOccurrences)
  BY SchedulerAssumption, FS_Interval
<1>5. IsFiniteSet(Occurrences(s))
  BY <1>3, <1>4, FS_Surjection
<1>6. Lost(s, x) \subseteq Occurrences(s)
  BY DEF Lost
<1>. QED  BY <1>3, <1>5, <1>6, FS_Subset, FS_CardinalityType

\* How a step of one run changes the advances still to come.
LEMMA PendingStep ==
    ASSUME TypeInv, NEW w \in Runs, NEW s, IsFiniteSet(Pending(s)),
           NEW r, run' = [run EXCEPT ![w] = r]
    PROVE  /\ Cardinality(Pending(s)) \in Nat
           /\ IsFiniteSet(Pending(s)')
           /\ Pending(s)' = IF Retrying(r, s) THEN Pending(s) \cup {w}
                                              ELSE Pending(s) \ {w}
<1>1. \A x \in Runs : run'[x] = IF x = w THEN r ELSE run[x]
  BY DEF TypeInv, TypeOK
<1>2. Pending(s)' = {x \in Runs : Retrying(run'[x], s)}
  BY DEF Pending, Retrying
<1>3. Pending(s)' = IF Retrying(r, s) THEN Pending(s) \cup {w} ELSE Pending(s) \ {w}
  <2>1. CASE Retrying(r, s)
    BY <1>1, <1>2, <2>1 DEF Pending
  <2>2. CASE ~Retrying(r, s)
    BY <1>1, <1>2, <2>2 DEF Pending
  <2>. QED  BY <2>1, <2>2
<1>4. IsFiniteSet(Pending(s) \cup {w}) /\ IsFiniteSet(Pending(s) \ {w})
  BY FS_AddElement, FS_RemoveElement
<1>5. IsFiniteSet(Pending(s)')
  BY <1>3, <1>4
<1>. QED  BY <1>3, <1>5, FS_CardinalityType

\* A date that no schedule has passed before is lost at most by an advance
\* without a pickup; nothing else can fall between the two dates.
LEMMA LostByAdvance ==
    ASSUME TypeInv, SeriesInv, NEW s \in Schedules, HasDate(s), NEW d \in SeriesOf(s)
    PROVE  Lost(s, NextRunDate(d, frequency[s])) \subseteq Lost(s, d) \cup ({d} \ MadeDates(s))
<1>1. firstRun[s] \in Dates /\ frequency[s] \in Frequency
  BY DEF TypeInv, TypeOK, RunShape, SeriesInv
<1>2. SUFFICES ASSUME NEW n \in 0 .. MaxOccurrences,
                      Precedes(Occurrence(s)[n], NextRunDate(d, frequency[s]))
               PROVE  Precedes(Occurrence(s)[n], d) \/ Occurrence(s)[n] = d
  BY DEF Lost, Occurrences
<1>3. NoLater(Occurrence(s)[n], d)
  BY <1>1, <1>2, NothingBetween DEF SeriesOf, Occurrence
<1>. QED  BY <1>3 DEF NoLater

\* The errors logged in a step pay for the advances it leaves to come.
Budget(s) ==
    /\ IsFiniteSet(Pending(s)')
    /\ Cardinality(Pending(s)') + errors[s] <= Cardinality(Pending(s)) + errors'[s]

LEMMA WithinKept ==
    ASSUME TypeInv, TypeInv', SeriesInv, LossInv, NEW s \in Schedules, HasDate(s),
           Budget(s), NEW x, NEW y, Within(s, x), Lost(s, y)' \subseteq Lost(s, x)
    PROVE  Within(s, y)'
<1>1. /\ Cardinality(Lost(s, x)) \in Nat /\ Cardinality(Lost(s, y)') \in Nat
      /\ Cardinality(Lost(s, y)') <= Cardinality(Lost(s, x))
  BY LostFinite, FS_Subset, FS_CardinalityType
<1>2. Cardinality(Pending(s)) \in Nat /\ Cardinality(Pending(s)') \in Nat
  BY FS_CardinalityType DEF LossInv, Budget
<1>3. errors[s] \in Int /\ errors'[s] \in Int
  BY SchedulerAssumption DEF TypeInv, TypeOK
<1>4. Cardinality(Lost(s, x)) + Cardinality(Pending(s)) <= errors[s]
  BY DEF Within
<1>5. Cardinality(Pending(s)') + errors[s] <= Cardinality(Pending(s)) + errors'[s]
  BY DEF Budget
<1>6. Cardinality(Lost(s, y)') + Cardinality(Pending(s)') <= errors'[s]
  BY <1>1, <1>2, <1>3, <1>4, <1>5
<1>. QED  BY <1>6 DEF Within

\* A step of run w that forgets no pickup and writes and reads only dates
\* within the bound.
LEMMA LossStep ==
    ASSUME TypeInv, TypeInv', SeriesInv, LossInv, NEW w \in Runs,
           UNCHANGED <<frequency, firstRun>>,
           \A s \in Schedules : /\ MadeDates(s) \subseteq MadeDates(s)'
                                /\ HasDate(s)' <=> HasDate(s)
                                /\ Budget(s)
                                /\ HasDate(s) => \/ nextRun'[s] = nextRun[s]
                                                 \/ Within(s, nextRun[s])',
           NEW r, run' = [run EXCEPT ![w] = r],
           r.phase \in {"loaded", "advancing"} =>
               r.at \in Schedules /\ HasDate(r.at) /\ Within(r.at, r.date)
    PROVE  LossInv'
<1>1. ASSUME NEW s \in Schedules, HasDate(s), NEW x, Within(s, x)
      PROVE  Within(s, x)'
  <2>1. Lost(s, x)' \subseteq Lost(s, x)
    BY DEF Lost, Occurrences, Occurrence
  <2>. QED  BY <1>1, <2>1, WithinKept
<1>2. ASSUME NEW s \in Schedules, HasDate(s) PROVE Within(s, nextRun[s])'
  <2>1. CASE nextRun'[s] = nextRun[s]
    <3>. DEFINE x == nextRun[s]
    <3>1. Within(s, x)
      BY <1>2 DEF LossInv
    <3>. QED  BY <1>1, <1>2, <2>1, <3>1 DEF Within, Lost
  <2>. QED  BY <1>2, <2>1
<1>3. \A x \in Runs : run'[x] = IF x = w THEN r ELSE run[x]
  BY DEF TypeInv, TypeOK
<1>4. ASSUME NEW v \in Runs, run'[v].phase \in {"loaded", "advancing"}
      PROVE  Within(run[v].at, run[v].date)'
  <2>1. /\ run'[v].at \in Schedules /\ HasDate(run'[v].at)
        /\ Within(run'[v].at, run'[v].date)
    BY <1>3, <1>4 DEF TypeInv, RunShape, LossInv
  <2>. DEFINE s == run'[v].at  x == run'[v].date
  <2>. QED  BY <1>1, <2>1 DEF Within, Lost, Pending
<1>. QED  BY <1>2, <1>4 DEF LossInv, Budget

\* A step that logs nothing and starts no advance keeps to the budget.
LEMMA BudgetQuiet ==
    ASSUME TypeInv, LossInv, NEW w \in Runs, NEW s \in Schedules,
           errors' = errors, NEW r, run' = [run EXCEPT ![w] = r],
           Retrying(r, s) => Retrying(run[w], s)
    PROVE  Budget(s)
<1>1. IsFiniteSet(Pending(s)) /\ IsFiniteSet(Pending(s)')
  BY PendingStep DEF LossInv
<1>2. Pending(s)' \subseteq Pending(s)
  <2>1. CASE Retrying(r, s)
    BY <1>1, <2>1, PendingStep DEF Pending
  <2>2. CASE ~Retrying(r, s)
    BY <1>1, <2>2, PendingStep
  <2>. QED  BY <2>1, <2>2
<1>3. Cardinality(Pending(s)') <= Cardinality(Pending(s))
      /\ Cardinality(Pending(s)') \in Nat /\ Cardinality(Pending(s)) \in Nat
  BY <1>1, <1>2, FS_Subset, FS_CardinalityType
<1>4. errors[s] \in Int /\ errors'[s] = errors[s]
  BY SchedulerAssumption DEF TypeInv, TypeOK
<1>. QED  BY <1>1, <1>3, <1>4 DEF Budget

\* A step that writes no row.
LEMMA LossQuiet ==
    ASSUME TypeInv, TypeInv', SeriesInv, LossInv, NEW w \in Runs,
           UNCHANGED <<nextRun, frequency, firstRun, materialized, errors>>,
           NEW r, run' = [run EXCEPT ![w] = r],
           \A s \in Schedules : Retrying(r, s) => Retrying(run[w], s),
           r.phase \in {"loaded", "advancing"} =>
               /\ r.at \in Schedules /\ HasDate(r.at) /\ r.date = nextRun[r.at]
    PROVE  LossInv'
<1>1. \A s \in Schedules : /\ MadeDates(s) \subseteq MadeDates(s)'
                           /\ HasDate(s)' <=> HasDate(s)
                           /\ nextRun'[s] = nextRun[s]
  BY DEF MadeDates, HasDate
<1>2. \A s \in Schedules : Budget(s)
  BY BudgetQuiet
<1>3. r.phase \in {"loaded", "advancing"} =>
          r.at \in Schedules /\ HasDate(r.at) /\ Within(r.at, r.date)
  BY DEF LossInv
<1>. QED  BY <1>1, <1>2, <1>3, LossStep

\* A commit of run w with the pickup: nothing is lost by it.
LEMMA LossMaterialize ==
    ASSUME TypeInv, TypeInv', SeriesInv, LossInv, NEW w \in Runs,
           run[w].phase = "loaded", Materialize(w),
           \A s \in Schedules : Budget(s),
           NEW r, r.phase \notin {"loaded", "advancing"}, run' = [run EXCEPT ![w] = r]
    PROVE  LossInv'
<1>. DEFINE t == run[w].at  d == run[w].date  e == NextRunDate(d, frequency[t])
<1>1. /\ t \in Schedules /\ HasDate(t) /\ d \in Dates
      /\ d \in SeriesOf(t) /\ Within(t, d)
  BY DEF TypeInv, RunShape, SeriesInv, LossInv
<1>2. \A s \in Schedules : HasDate(s)' <=> HasDate(s)
  BY <1>1, MaterializeType
<1>3. \A s \in Schedules :
          MadeDates(s)' = MadeDates(s) \cup (IF s = t THEN {d} ELSE {})
  BY <1>1, MaterializeMade
<1>4. /\ UNCHANGED <<frequency, firstRun>>
      /\ \A s \in Schedules : nextRun'[s] = IF s = t THEN e ELSE nextRun[s]
  BY MaterializeWrites DEF WritesNext, TypeInv, TypeOK
<1>. HIDE DEF t, d, e
<1>5. ASSUME NEW s \in Schedules, s = t, NEW x, x = d, NEW y, y = e
      PROVE  Within(s, y)'
  <2>1. Lost(s, y) \subseteq Lost(s, x) \cup ({x} \ MadeDates(s))
    BY <1>1, <1>5, LostByAdvance DEF e
  <2>2. MadeDates(s)' = MadeDates(s) \cup {x}
    BY <1>3, <1>5
  <2>3. Lost(s, y)' \subseteq Lost(s, x)
    BY <1>4, <2>1, <2>2 DEF Lost, Occurrences, Occurrence
  <2>. QED  BY <1>1, <1>5, <2>3, WithinKept
<1>6. ASSUME NEW s \in Schedules, s = t PROVE Within(s, nextRun[s])'
  <2>1. ASSUME NEW y, y = nextRun'[s] PROVE Within(s, y)'
    BY <1>4, <1>5, <1>6, <2>1
  <2>. QED  BY <2>1 DEF Within, Lost
<1>7. \A s \in Schedules : nextRun'[s] = nextRun[s] \/ Within(s, nextRun[s])'
  BY <1>4, <1>6
<1>. QED  BY <1>2, <1>3, <1>4, <1>7, LossStep

\* The advance without a pickup: one occurrence may be lost, and one advance
\* fewer is to come.
LEMMA LossAdvance ==
    ASSUME TypeInv, TypeInv', SeriesInv, LossInv, NEW w \in Runs, AdvanceAfterError(w)
    PROVE  LossInv'
<1>. DEFINE t == run[w].at  d == run[w].date  e == NextRunDate(d, frequency[t])
            r == Continue(w)
<1>1. /\ t \in Schedules /\ HasDate(t) /\ d \in Dates
      /\ d \in SeriesOf(t) /\ Within(t, d) /\ Retrying(run[w], t)
  BY DEF AdvanceAfterError, TypeInv, RunShape, SeriesInv, LossInv, Retrying
<1>2. /\ UNCHANGED <<frequency, firstRun, materialized, errors>>
      /\ \A s \in Schedules : nextRun'[s] = IF s = t THEN e ELSE nextRun[s]
      /\ run' = [run EXCEPT ![w] = r]
  BY DEF AdvanceAfterError, TypeInv, TypeOK
<1>3. r.phase \notin {"failed", "advancing", "loaded"}
  BY ContinueType
<1>. HIDE DEF t, d, e, r
<1>4. \A s \in Schedules : Budget(s)
  BY <1>2, <1>3, BudgetQuiet DEF Retrying
<1>5. \A s \in Schedules : MadeDates(s)' = MadeDates(s)
  BY <1>2 DEF MadeDates
<1>6. \A s \in Schedules : HasDate(s)' <=> HasDate(s)
  <2>1. e \in Dates
    BY <1>1, NextRunDateAdvances DEF TypeInv, TypeOK, RunShape, e
  <2>. QED  BY <1>1, <1>2, <2>1, SchedulerAssumption DEF HasDate
<1>7. ASSUME NEW s \in Schedules, s = t, NEW x, x = d, NEW y, y = e
      PROVE  Within(s, y)'
  <2>. DEFINE L == Lost(s, x)  M == Lost(s, y)'  P == Pending(s)  Q == Pending(s)'
  <2>1. Lost(s, y) \subseteq L \cup {x}
    BY <1>1, <1>7, LostByAdvance DEF e
  <2>2. M \subseteq L \cup {x}
    BY <1>2, <1>5, <2>1 DEF Lost, Occurrences, Occurrence
  <2>3. IsFiniteSet(L) /\ IsFiniteSet(P)
    BY <1>1, <1>7, LostFinite DEF LossInv
  <2>4. w \in P /\ Q = P \ {w}
    <3>1. w \in P
      BY <1>1, <1>7 DEF Pending
    <3>2. ~Retrying(r, s)
      BY <1>3 DEF Retrying
    <3>. QED  BY <1>2, <2>3, <3>1, <3>2, PendingStep
  <2>5. Cardinality(L) + Cardinality(P) <= errors[s]
    BY <1>1, <1>7 DEF Within
  <2>. HIDE DEF L, M, P, Q
  <2>6. /\ IsFiniteSet(L \cup {x}) /\ Cardinality(L \cup {x}) <= Cardinality(L) + 1
        /\ Cardinality(L) \in Nat /\ Cardinality(L \cup {x}) \in Nat
    <3>1. IsFiniteSet(L \cup {x})
      BY <2>3, FS_AddElement
    <3>2. Cardinality(L) \in Nat /\ Cardinality(L \cup {x}) \in Nat
      BY <2>3, <3>1, FS_CardinalityType
    <3>. QED  BY <2>3, <3>1, <3>2, FS_AddElement
  <2>7. Cardinality(M) \in Nat /\ Cardinality(M) <= Cardinality(L \cup {x})
    BY <2>2, <2>6, FS_Subset, FS_CardinalityType
  <2>8. Cardinality(P) \in Nat /\ Cardinality(Q) = Cardinality(P) - 1
    BY <2>3, <2>4, FS_RemoveElement, FS_CardinalityType
  <2>9. errors'[s] = errors[s] /\ errors[s] \in Int
    BY <1>2, SchedulerAssumption DEF TypeInv, TypeOK
  <2>10. Cardinality(M) + Cardinality(Q) <= errors'[s]
    BY <2>5, <2>6, <2>7, <2>8, <2>9
  <2>. QED  BY <2>10 DEF Within, M, Q
<1>8. ASSUME NEW s \in Schedules, s = t PROVE Within(s, nextRun[s])'
  <2>1. ASSUME NEW y, y = nextRun'[s] PROVE Within(s, y)'
    BY <1>2, <1>7, <1>8, <2>1
  <2>. QED  BY <2>1 DEF Within, Lost
<1>9. \A s \in Schedules : nextRun'[s] = nextRun[s] \/ Within(s, nextRun[s])'
  BY <1>2, <1>8
<1>. QED  BY <1>2, <1>3, <1>4, <1>5, <1>6, <1>9, LossStep

\* A failed COMMIT logs the error and owes the advance.
LEMMA BudgetFail ==
    ASSUME TypeInv, LossInv, NEW w \in Runs, CommitFails(w), NEW s \in Schedules
    PROVE  Budget(s)
<1>. DEFINE t == run[w].at  r == [run[w] EXCEPT !.phase = "failed"]
            P == Pending(s)  Q == Pending(s)'
<1>1. /\ run' = [run EXCEPT ![w] = r] /\ t \in Schedules
      /\ errors'[s] = IF s = t THEN errors[s] + 1 ELSE errors[s]
      /\ errors[s] \in Int
  BY SchedulerAssumption DEF CommitFails, TypeInv, TypeOK, RunShape
<1>2. r.phase = "failed" /\ r.at = t
  BY DEF TypeInv, TypeOK, RunState
<1>. HIDE DEF t, r
<1>3. IsFiniteSet(P) /\ Cardinality(P) \in Nat
  BY FS_CardinalityType DEF LossInv
<1>4. IsFiniteSet(Q) /\ Q = IF s = t THEN P \cup {w} ELSE P \ {w}
  <2>1. Retrying(r, s) <=> s = t
    BY <1>2 DEF Retrying
  <2>. QED  BY <1>1, <1>3, <2>1, PendingStep
<1>. HIDE DEF P, Q
<1>5. CASE s = t
  <2>1. Q = P \cup {w} /\ errors'[s] = errors[s] + 1
    BY <1>1, <1>4, <1>5
  <2>2. Cardinality(Q) <= Cardinality(P) + 1 /\ Cardinality(Q) \in Nat
    <3>1. Cardinality(Q) \in Nat
      BY <1>4, FS_CardinalityType
    <3>2. Cardinality(P \cup {w}) = IF w \in P THEN Cardinality(P) ELSE Cardinality(P) + 1
      BY <1>3, FS_AddElement
    <3>. QED  BY <1>3, <2>1, <3>1, <3>2
  <2>. QED  BY <1>1, <1>3, <1>4, <2>1, <2>2 DEF Budget, P, Q
<1>6. CASE s # t
  <2>1. Q \subseteq P /\ errors'[s] = errors[s]
    BY <1>1, <1>4, <1>6
  <2>2. Cardinality(Q) <= Cardinality(P) /\ Cardinality(Q) \in Nat
    BY <1>3, <1>4, <2>1, FS_Subset, FS_CardinalityType
  <2>. QED  BY <1>1, <1>3, <1>4, <2>1, <2>2 DEF Budget, P, Q
<1>. QED  BY <1>5, <1>6

LEMMA LossInit == Init => LossInv
<1>. SUFFICES ASSUME Init PROVE LossInv
  OBVIOUS
<1>1. \A s : Pending(s) = {}
  BY OffType DEF Init, Pending, Retrying
<1>. QED  BY <1>1, OffType, FS_EmptySet DEF Init, LossInv, HasDate

LEMMA LossNext ==
    TypeInv /\ TypeInv' /\ SeriesInv /\ LossInv /\ [Next]_vars => LossInv'
<1>. SUFFICES ASSUME TypeInv, TypeInv', SeriesInv, LossInv, [Next]_vars PROVE LossInv'
  OBVIOUS
<1>1. ASSUME NEW s \in Schedules, NEW f \in Frequencies, NEW d \in FirstDates,
             CreateSchedule(s, f, d)
      PROVE  LossInv'
  <2>1. d \in Dates /\ d # None /\ f \in Frequency
    BY SchedulerAssumption
  <2>2. /\ firstRun'[s] = d /\ nextRun'[s] = d /\ frequency'[s] = f
        /\ ~HasDate(s) /\ UNCHANGED <<materialized, run, errors>>
        /\ \A x \in Schedules \ {s} : /\ firstRun'[x] = firstRun[x]
                                      /\ nextRun'[x] = nextRun[x]
                                      /\ frequency'[x] = frequency[x]
    BY <1>1 DEF CreateSchedule, HasDate, TypeInv, TypeOK
  <2>3. \A x : Pending(x)' = Pending(x)
    BY <2>2 DEF Pending
  <2>4. \A x \in Schedules \ {s} : \A y : Within(x, y) => Within(x, y)'
    <3>. SUFFICES ASSUME NEW x \in Schedules \ {s}, NEW y, Within(x, y)
                  PROVE  Within(x, y)'
      OBVIOUS
    <3>1. Lost(x, y)' = Lost(x, y)
      BY <2>2 DEF Lost, Occurrences, Occurrence, MadeDates
    <3>. QED  BY <2>2, <2>3, <3>1 DEF Within
  <2>5. ASSUME NEW x \in Schedules \ {s}, HasDate(x)' PROVE Within(x, nextRun[x])'
    <3>1. Within(x, nextRun[x]) /\ nextRun'[x] = nextRun[x]
      BY <2>2, <2>5 DEF LossInv, HasDate
    <3>. QED  BY <2>4, <3>1 DEF Within, Lost
  <2>6. ASSUME NEW w \in Runs, run'[w].phase \in {"loaded", "advancing"}
        PROVE  Within(run[w].at, run[w].date)'
    <3>1. run[w].at \in Schedules \ {s} /\ Within(run[w].at, run[w].date)
      BY <2>2, <2>6 DEF TypeInv, RunShape, LossInv
    <3>. QED  BY <2>2, <2>4, <3>1 DEF Within, Lost, Pending
  <2>7. Within(s, nextRun[s])'
    <3>. DEFINE nth == SeriesFrom(d, f)
    <3>1. \A n \in 0 .. MaxOccurrences : ~Precedes(nth[n], d)
      <4>1. nth \in [0 .. MaxOccurrences -> Dates] /\ nth[0] = d
        BY <2>1, SeriesDef
      <4>2. ASSUME NEW n \in 0 .. MaxOccurrences PROVE ~Precedes(nth[n], d)
        <5>1. 0 \in 0 .. MaxOccurrences /\ ~(n < 0)
          BY SchedulerAssumption
        <5>2. ~Precedes(nth[n], nth[0])
          BY <2>1, <5>1, SeriesGrows
        <5>. QED  BY <4>1, <5>2
      <4>. QED  BY <4>2
    <3>2. Lost(s, nextRun[s])' = {}
      BY <2>2, <3>1 DEF Lost, Occurrences, Occurrence
    <3>3. Pending(s) = {}
      BY <2>2 DEF Pending, Retrying, TypeInv, RunShape
    <3>4. errors'[s] \in Nat
      BY SchedulerAssumption DEF TypeInv, TypeOK
    <3>5. Cardinality(Lost(s, nextRun[s])') = 0 /\ Cardinality(Pending(s)') = 0
      BY <2>3, <3>2, <3>3, FS_EmptySet
    <3>. QED  BY <3>4, <3>5 DEF Within
  <2>. QED  BY <2>3, <2>5, <2>6, <2>7 DEF LossInv
<1>2. ASSUME UNCHANGED <<nextRun, frequency, firstRun, materialized, errors, run>>
      PROVE  LossInv'
  BY <1>2 DEF LossInv, Within, Lost, Occurrences, Occurrence, MadeDates, Pending, HasDate
<1>3. ASSUME NEW s \in Schedules, Deactivate(s)
      PROVE  LossInv'
  BY <1>2, <1>3 DEF Deactivate
<1>4. CASE PassDay
  BY <1>2, <1>4 DEF PassDay, schedule
<1>5. ASSUME NEW w \in Runs, NEW s \in Schedules, StartRun(w, s) \/ LoadNext(w, s)
      PROVE  LossInv'
  <2>1. HasDate(s) /\ UNCHANGED <<nextRun, frequency, firstRun, materialized, errors>>
    BY <1>5 DEF StartRun, LoadNext, Due, schedule, TypeInv, RunShape
  <2>2. PICK due : run' = [run EXCEPT ![w] = Loaded(s, due)]
    BY <1>5 DEF StartRun, LoadNext
  <2>3. /\ Loaded(s, due).phase = "loaded" /\ Loaded(s, due).at = s
        /\ Loaded(s, due).date = nextRun[s]
    BY DEF Loaded
  <2>. QED  BY <2>1, <2>2, <2>3, LossQuiet DEF Retrying
<1>6. ASSUME NEW w \in Runs, CommitPickup(w)
      PROVE  LossInv'
  <2>1. Continue(w).phase \notin {"loaded", "failed", "advancing"}
    BY ContinueType
  <2>2. /\ run[w].phase = "loaded" /\ Materialize(w)
        /\ run' = [run EXCEPT ![w] = Continue(w)] /\ errors' = errors
    BY <1>6 DEF CommitPickup
  <2>3. \A s \in Schedules : Budget(s)
    BY <2>1, <2>2, BudgetQuiet DEF Retrying
  <2>. QED  BY <2>1, <2>2, <2>3, LossMaterialize
<1>7. ASSUME NEW w \in Runs, NEW r, run' = [run EXCEPT ![w] = r],
             UNCHANGED <<today, schedule, materialized, errors>>,
             r.phase \notin {"loaded", "failed", "advancing"}
      PROVE  LossInv'
  <2>1. UNCHANGED <<nextRun, frequency, firstRun, materialized, errors>>
    BY <1>7 DEF schedule
  <2>. QED  BY <1>7, <2>1, LossQuiet DEF Retrying
<1>8. ASSUME NEW w \in Runs, RefuseInsert(w) \/ Crash(w)
      PROVE  LossInv'
  BY <1>7, <1>8, OffType DEF RefuseInsert, Crash
<1>9. ASSUME NEW w \in Runs, AdvanceFails(w)
      PROVE  LossInv'
  BY <1>7, <1>9, ContinueType DEF AdvanceFails
<1>10. ASSUME NEW w \in Runs, CommitFails(w)
       PROVE  LossInv'
  <2>. DEFINE r == [run[w] EXCEPT !.phase = "failed"]
  <2>1. r.phase \notin {"loaded", "advancing"}
    BY DEF TypeInv, TypeOK, RunState
  <2>2. run[w].phase = "loaded" /\ run' = [run EXCEPT ![w] = r]
    BY <1>10 DEF CommitFails
  <2>. HIDE DEF r
  <2>3. \A s \in Schedules : Budget(s)
    BY <1>10, BudgetFail
  <2>4. CASE Materialize(w)
    BY <2>1, <2>2, <2>3, <2>4, LossMaterialize
  <2>5. CASE UNCHANGED <<schedule, materialized>>
    <3>1. /\ UNCHANGED <<frequency, firstRun>>
          /\ \A s \in Schedules : /\ MadeDates(s) \subseteq MadeDates(s)'
                                  /\ HasDate(s)' <=> HasDate(s)
                                  /\ nextRun'[s] = nextRun[s]
      BY <2>5 DEF schedule, MadeDates, HasDate
    <3>. QED  BY <2>1, <2>2, <2>3, <3>1, LossStep
  <2>. QED  BY <1>10, <2>4, <2>5 DEF CommitFails
<1>11. ASSUME NEW w \in Runs, Reload(w)
       PROVE  LossInv'
  <2>. DEFINE t == run[w].at
              r == [run[w] EXCEPT !.phase = "advancing", !.date = nextRun[t]]
  <2>1. /\ t \in Schedules /\ HasDate(t) /\ r.at = t /\ r.date = nextRun[t]
        /\ Retrying(run[w], t)
    BY <1>11 DEF Reload, TypeInv, TypeOK, RunShape, RunState, Retrying
  <2>2. run' = [run EXCEPT ![w] = r]
        /\ UNCHANGED <<nextRun, frequency, firstRun, materialized, errors>>
    BY <1>11 DEF Reload, TypeInv, TypeOK, schedule
  <2>. HIDE DEF r
  <2>3. \A s \in Schedules : Retrying(r, s) => Retrying(run[w], s)
    BY <2>1 DEF Retrying
  <2>. QED  BY <2>1, <2>2, <2>3, LossQuiet
<1>12. ASSUME NEW w \in Runs, AdvanceAfterError(w)
       PROVE  LossInv'
  BY <1>12, LossAdvance
<1>13. CASE UNCHANGED vars
  BY <1>2, <1>13 DEF vars, schedule
<1>. QED
  BY <1>1, <1>3, <1>4, <1>5, <1>6, <1>8, <1>9, <1>10, <1>11, <1>12, <1>13
  DEF Next, Work, Fail

\* No occurrence is lost silently: however runs overlap, crash and fail, and
\* for any number of them, a schedule has moved past at most as many
\* occurrences without a pickup as errors were logged for it.
THEOREM LossCorrect == Spec => []LossIsLogged
<1>1. ASSUME TypeInv, SeriesInv, LossInv PROVE LossIsLogged
  <2>. SUFFICES ASSUME NEW s \in Created
                PROVE  Cardinality(Lost(s, nextRun[s])) <= errors[s]
    BY DEF LossIsLogged
  <2>1. s \in Schedules /\ HasDate(s)
    BY DEF Created
  <2>2. Cardinality(Lost(s, nextRun[s])) \in Nat /\ Cardinality(Pending(s)) \in Nat
    BY <1>1, <2>1, LostFinite, FS_CardinalityType DEF LossInv
  <2>3. errors[s] \in Int
    BY <1>1, <2>1, SchedulerAssumption DEF TypeInv, TypeOK
  <2>. QED  BY <1>1, <2>1, <2>2, <2>3 DEF LossInv, Within
<1>. QED
  BY TypeInit, TypeStep, SeriesInit, SeriesStep, LossInit, LossNext, <1>1, PTL DEF Spec

-----------------------------------------------------------------------------
(* Runs that do not overlap.                                               *)

\* At most one run, hence the only writer of next dates.
SerialRuns == \A w, x \in Runs : w = x

\* The pickups made lie behind the next date and not after today.
MadeBehind ==
    \A s \in Schedules : \A d \in MadeDates(s) :
        HasDate(s) /\ Precedes(d, nextRun[s]) /\ NoLater(d, today)

\* What the only run has read is still so: nothing else moves a next date, and
\* it takes a schedule off its list before it moves that one's.
ReadIsCurrent ==
    \A w \in Runs :
        /\ run[w].phase \in {"loaded", "advancing"} => run[w].date = nextRun[run[w].at]
        /\ run[w].phase = "loaded" => NoLater(run[w].date, today)
        /\ run[w].phase \in {"loaded", "failed", "advancing"} => run[w].at \notin run[w].due
        /\ \A s \in run[w].due : NoLater(nextRun[s], today)

SerialInv == MadeBehind /\ OncePerOccurrence /\ ReadIsCurrent

\* The histories stay in order if nothing is inserted and no next date moves.
LEMMA SerialQuiet ==
    ASSUME TypeInv, SerialInv, SerialRuns, NEW w \in Runs,
           UNCHANGED <<today, nextRun, materialized>>,
           NEW r, run' = [run EXCEPT ![w] = r],
           r.phase \in {"loaded", "advancing"} => r.date = nextRun[r.at],
           r.phase = "loaded" => NoLater(r.date, today),
           r.phase \in {"loaded", "failed", "advancing"} => r.at \notin r.due,
           \A s \in r.due : NoLater(nextRun[s], today)
    PROVE  SerialInv'
<1>1. \A x \in Runs : run'[x] = r
  BY DEF TypeInv, TypeOK, SerialRuns
<1>2. ReadIsCurrent'
  BY <1>1 DEF ReadIsCurrent
<1>3. MadeBehind' /\ OncePerOccurrence'
  BY DEF SerialInv, MadeBehind, OncePerOccurrence, MadeDates, HasDate
<1>. QED  BY <1>2, <1>3 DEF SerialInv

\* A commit of the only run: the schedule moves to a later date, and a pickup,
\* if any, is for the date the schedule had.
LEMMA SerialWrite ==
    ASSUME TypeInv, SerialInv, SerialRuns, NEW w \in Runs,
           run[w].phase \in {"loaded", "advancing"},
           WritesNext(w), today' = today,
           \/ Materialize(w) /\ run[w].phase = "loaded"
           \/ UNCHANGED materialized,
           NEW r, r.phase \notin {"loaded", "advancing"}, r.due = run[w].due,
           r.phase = "failed" => r.at = run[w].at,
           run' = [run EXCEPT ![w] = r]
    PROVE  SerialInv'
<1>. DEFINE t == run[w].at  d == run[w].date  e == NextRunDate(d, frequency[t])
<1>1. /\ t \in Schedules /\ d \in Dates /\ d = nextRun[t] /\ t \notin r.due
      /\ frequency[t] \in Frequency /\ HasDate(t)
  BY DEF TypeInv, TypeOK, RunShape, SerialInv, ReadIsCurrent
<1>2. e \in Dates /\ e # None /\ Precedes(d, e)
  BY <1>1, NextRunDateAdvances, SchedulerAssumption
<1>3. \A s \in Schedules : nextRun'[s] = IF s = t THEN e ELSE nextRun[s]
  BY DEF WritesNext, TypeInv, TypeOK
<1>4. \A x \in Runs : run'[x] = r
  BY DEF TypeInv, TypeOK, SerialRuns
<1>5. \A s \in Schedules : MadeDates(s) \subseteq Dates
  BY DEF TypeInv, TypeOK, MadeDates
<1>6. \A s \in Schedules : \A m \in MadeDates(s)' :
          m \in MadeDates(s) \/ (s = t /\ m = d /\ NoLater(d, today))
  <2>1. CASE UNCHANGED materialized
    BY <2>1 DEF MadeDates
  <2>2. CASE Materialize(w) /\ run[w].phase = "loaded"
    <3>1. NoLater(d, today)
      BY <2>2 DEF SerialInv, ReadIsCurrent
    <3>2. \A s \in Schedules : MadeDates(s)' = MadeDates(s) \cup (IF s = t THEN {d} ELSE {})
      BY <1>1, <2>2, MaterializeMade
    <3>. HIDE DEF t, d
    <3>. QED  BY <3>1, <3>2
  <2>. QED  BY <2>1, <2>2
<1>7. \A m \in MadeDates(t) : Precedes(m, d) /\ NoLater(m, today)
  BY <1>1 DEF SerialInv, MadeBehind
<1>8. OncePerOccurrence'
  <2>1. CASE UNCHANGED materialized
    BY <2>1 DEF SerialInv, OncePerOccurrence
  <2>2. CASE Materialize(w)
    <3>1. \A s \in Schedules \ {t} : materialized'[s] = materialized[s]
      BY <2>2 DEF Materialize, TypeInv, TypeOK
    <3>. DEFINE q == materialized[t]
    <3>2. q \in Seq(Dates) /\ materialized'[t] = Append(q, d)
      BY <1>1, <2>2 DEF Materialize, TypeInv, TypeOK
    <3>3. \A i, j \in 1 .. Len(q) : i < j => Precedes(q[i], q[j])
      BY <1>1, <3>2 DEF SerialInv, OncePerOccurrence
    <3>4. \A i \in 1 .. Len(q) : Precedes(q[i], d)
      BY <1>7, <3>2 DEF MadeDates
    <3>5. ASSUME NEW i \in DOMAIN materialized'[t], NEW j \in DOMAIN materialized'[t], i < j
          PROVE  Precedes(materialized'[t][i], materialized'[t][j])
      <4>1. i \in 1 .. Len(q) /\ j \in 1 .. Len(q) + 1
        BY <3>2, <3>5
      <4>2. materialized'[t][i] = q[i]
            /\ materialized'[t][j] = IF j = Len(q) + 1 THEN d ELSE q[j]
        BY <3>2, <4>1
      <4>3. j = Len(q) + 1 \/ j \in 1 .. Len(q)
        BY <3>2, <4>1
      <4>. HIDE DEF q, t, d
      <4>. QED  BY <3>3, <3>4, <3>5, <4>1, <4>2, <4>3
    <3>6. \A s \in Schedules \ {t} : \A i, j \in DOMAIN materialized'[s] :
              i < j => Precedes(materialized'[s][i], materialized'[s][j])
      BY <3>1 DEF SerialInv, OncePerOccurrence
    <3>. HIDE DEF t
    <3>. QED  BY <3>5, <3>6 DEF OncePerOccurrence
  <2>. QED  BY <2>1, <2>2
<1>. HIDE DEF t, d, e
<1>9. MadeBehind'
  <2>. SUFFICES ASSUME NEW s \in Schedules, NEW m \in MadeDates(s)'
                PROVE  nextRun'[s] # None /\ Precedes(m, nextRun'[s]) /\ NoLater(m, today)
    BY DEF MadeBehind, HasDate
  <2>1. CASE s = t
    <3>1. m \in Dates /\ (m = d \/ Precedes(m, d)) /\ NoLater(m, today)
      BY <1>1, <1>5, <1>6, <1>7, <2>1
    <3>. QED  BY <1>1, <1>2, <1>3, <2>1, <3>1, DateOrder
  <2>2. CASE s # t
    BY <1>3, <1>6, <2>2 DEF SerialInv, MadeBehind, HasDate
  <2>. QED  BY <2>1, <2>2
<1>10. ReadIsCurrent'
  <2>1. r.phase \in {"loaded", "failed", "advancing"} => r.at \notin r.due
    BY <1>1 DEF t
  <2>2. ASSUME NEW s \in r.due PROVE NoLater(nextRun'[s], today)
    <3>1. s # t /\ NoLater(nextRun[s], today) /\ s \in Schedules
      BY <1>1 DEF SerialInv, ReadIsCurrent, TypeInv, TypeOK, RunState
    <3>. QED  BY <1>3, <3>1
  <2>. QED  BY <1>4, <2>1, <2>2 DEF ReadIsCurrent
<1>. QED  BY <1>8, <1>9, <1>10 DEF SerialInv

LEMMA SerialInit == Init => SerialInv
BY OffType DEF Init, SerialInv, MadeBehind, OncePerOccurrence, ReadIsCurrent, MadeDates

LEMMA SerialStep ==
    SerialRuns /\ TypeInv /\ SerialInv /\ [Next]_vars => SerialInv'
<1>. SUFFICES ASSUME SerialRuns, TypeInv, SerialInv, [Next]_vars PROVE SerialInv'
  OBVIOUS
<1>1. ASSUME NEW s \in Schedules, NEW f \in Frequencies, NEW d \in FirstDates,
             CreateSchedule(s, f, d)
      PROVE  SerialInv'
  <2>1. /\ ~HasDate(s) /\ UNCHANGED <<today, materialized, run>>
        /\ \A x \in Schedules \ {s} : nextRun'[x] = nextRun[x]
    BY <1>1 DEF CreateSchedule, HasDate, TypeInv, TypeOK
  <2>2. MadeBehind' /\ OncePerOccurrence'
    BY <2>1 DEF SerialInv, MadeBehind, OncePerOccurrence, MadeDates, HasDate
  <2>3. \A w \in Runs :
            /\ run[w].due \subseteq Schedules \ {s}
            /\ run[w].phase \in {"loaded", "advancing"} => run[w].at \in Schedules \ {s}
    BY <2>1 DEF TypeInv, TypeOK, RunShape, RunState
  <2>4. ReadIsCurrent'
    BY <2>1, <2>3 DEF SerialInv, ReadIsCurrent
  <2>. QED  BY <2>2, <2>4 DEF SerialInv
<1>2. ASSUME UNCHANGED <<today, nextRun, materialized, run>>
      PROVE  SerialInv'
  BY <1>2 DEF SerialInv, MadeBehind, OncePerOccurrence, ReadIsCurrent, MadeDates, HasDate
<1>3. ASSUME NEW s \in Schedules, Deactivate(s)
      PROVE  SerialInv'
  BY <1>2, <1>3 DEF Deactivate
<1>4. CASE PassDay
  <2>1. /\ UNCHANGED <<nextRun, materialized, run>>
        /\ Precedes(today, today') /\ today \in Dates /\ today' \in Dates
    BY <1>4, SchedulerAssumption DEF PassDay, schedule, TypeInv, TypeOK
  <2>2. \A d \in Dates : NoLater(d, today) => NoLater(d, today')
    BY <2>1, DateOrder DEF NoLater
  <2>3. MadeBehind' /\ OncePerOccurrence'
    <3>1. \A s \in Schedules : MadeDates(s) \subseteq Dates
      BY DEF TypeInv, TypeOK, MadeDates
    <3>. QED  BY <2>1, <2>2, <3>1
              DEF SerialInv, MadeBehind, OncePerOccurrence, MadeDates, HasDate
  <2>4. ReadIsCurrent'
    <3>1. \A w \in Runs : /\ run[w].phase = "loaded" => run[w].date \in Dates
                          /\ \A s \in run[w].due : nextRun[s] \in Dates
      BY DEF TypeInv, TypeOK, RunShape, RunState, HasDate
    <3>. QED  BY <2>1, <2>2, <3>1 DEF SerialInv, ReadIsCurrent
  <2>. QED  BY <2>3, <2>4 DEF SerialInv
<1>5. ASSUME NEW w \in Runs, NEW s \in Schedules, StartRun(w, s)
      PROVE  SerialInv'
  <2>. DEFINE r == Loaded(s, {x \in Schedules : Due(x)} \ {s})
  <2>1. /\ r.phase = "loaded" /\ r.at = s /\ r.date = nextRun[s]
        /\ s \notin r.due /\ \A x \in r.due : NoLater(nextRun[x], today)
    BY DEF Loaded, Due
  <2>2. /\ NoLater(nextRun[s], today) /\ run' = [run EXCEPT ![w] = r]
        /\ UNCHANGED <<today, nextRun, materialized>>
    BY <1>5 DEF StartRun, Due, schedule
  <2>. HIDE DEF r
  <2>. QED  BY <2>1, <2>2, SerialQuiet
<1>6. ASSUME NEW w \in Runs, NEW s \in Schedules, LoadNext(w, s)
      PROVE  SerialInv'
  <2>. DEFINE r == Loaded(s, run[w].due \ {s})
  <2>1. /\ r.phase = "loaded" /\ r.at = s /\ r.date = nextRun[s]
        /\ s \notin r.due /\ \A x \in r.due : NoLater(nextRun[x], today)
    BY DEF Loaded, SerialInv, ReadIsCurrent
  <2>2. /\ NoLater(nextRun[s], today) /\ run' = [run EXCEPT ![w] = r]
        /\ UNCHANGED <<today, nextRun, materialized>>
    BY <1>6 DEF LoadNext, SerialInv, ReadIsCurrent, schedule
  <2>. HIDE DEF r
  <2>. QED  BY <2>1, <2>2, SerialQuiet
<1>7. ASSUME NEW w \in Runs, CommitPickup(w)
      PROVE  SerialInv'
  <2>1. /\ Continue(w).phase \notin {"loaded", "failed", "advancing"}
        /\ Continue(w).due = run[w].due
    BY ContinueType
  <2>2. /\ run[w].phase = "loaded" /\ Materialize(w) /\ today' = today
        /\ run' = [run EXCEPT ![w] = Continue(w)]
    BY <1>7 DEF CommitPickup
  <2>. QED  BY <2>1, <2>2, MaterializeWrites, SerialWrite
<1>8. ASSUME NEW w \in Runs, RefuseInsert(w) \/ Crash(w)
      PROVE  SerialInv'
  BY <1>8, OffType, SerialQuiet DEF RefuseInsert, Crash, schedule
<1>9. ASSUME NEW w \in Runs, CommitFails(w)
      PROVE  SerialInv'
  <2>. DEFINE r == [run[w] EXCEPT !.phase = "failed"]
  <2>1. r.phase = "failed" /\ r.at = run[w].at /\ r.due = run[w].due
    BY DEF TypeInv, TypeOK, RunState
  <2>2. /\ run[w].phase = "loaded" /\ today' = today
        /\ run' = [run EXCEPT ![w] = r]
    BY <1>9 DEF CommitFails
  <2>. HIDE DEF r
  <2>3. CASE Materialize(w)
    BY <2>1, <2>2, <2>3, MaterializeWrites, SerialWrite
  <2>4. CASE UNCHANGED <<schedule, materialized>>
    <3>1. UNCHANGED <<today, nextRun, materialized>>
      BY <2>2, <2>4 DEF schedule
    <3>2. r.at \notin r.due /\ \A s \in r.due : NoLater(nextRun[s], today)
      BY <2>1, <2>2 DEF SerialInv, ReadIsCurrent
    <3>. QED  BY <2>1, <2>2, <3>1, <3>2, SerialQuiet
  <2>. QED  BY <1>9, <2>3, <2>4 DEF CommitFails
<1>10. ASSUME NEW w \in Runs, Reload(w)
       PROVE  SerialInv'
  <2>. DEFINE r == [run[w] EXCEPT !.phase = "advancing", !.date = nextRun[run[w].at]]
  <2>1. /\ r.phase = "advancing" /\ r.at = run[w].at /\ r.due = run[w].due
        /\ r.date = nextRun[r.at]
    BY DEF TypeInv, TypeOK, RunState
  <2>2. /\ run[w].phase = "failed" /\ run' = [run EXCEPT ![w] = r]
        /\ UNCHANGED <<today, nextRun, materialized>>
    BY <1>10 DEF Reload, TypeInv, TypeOK, schedule
  <2>3. r.at \notin r.due /\ \A s \in r.due : NoLater(nextRun[s], today)
    BY <2>1, <2>2 DEF SerialInv, ReadIsCurrent
  <2>. HIDE DEF r
  <2>. QED  BY <2>1, <2>2, <2>3, SerialQuiet
<1>11. ASSUME NEW w \in Runs, AdvanceAfterError(w)
       PROVE  SerialInv'
  <2>1. /\ Continue(w).phase \notin {"loaded", "failed", "advancing"}
        /\ Continue(w).due = run[w].due
    BY ContinueType
  <2>2. /\ run[w].phase \in {"loaded", "advancing"} /\ WritesNext(w)
        /\ today' = today /\ UNCHANGED materialized
        /\ run' = [run EXCEPT ![w] = Continue(w)]
    BY <1>11 DEF AdvanceAfterError, WritesNext
  <2>. QED  BY <2>1, <2>2, SerialWrite
<1>12. ASSUME NEW w \in Runs, AdvanceFails(w)
       PROVE  SerialInv'
  <2>1. /\ Continue(w).phase \notin {"loaded", "failed", "advancing"}
        /\ \A s \in Continue(w).due : NoLater(nextRun[s], today)
    BY ContinueType DEF SerialInv, ReadIsCurrent
  <2>. QED  BY <1>12, <2>1, SerialQuiet DEF AdvanceFails, schedule
<1>13. CASE UNCHANGED vars
  BY <1>2, <1>13 DEF vars, schedule
<1>. QED
  BY <1>1, <1>3, <1>4, <1>5, <1>6, <1>7, <1>8, <1>9, <1>10, <1>11, <1>12, <1>13
  DEF Next, Work, Fail

\* Runs that do not overlap make one pickup per occurrence, in order, whatever
\* crashes and failed commits lie between them.
THEOREM OnceCorrect == SerialRuns => (Spec => []OncePerOccurrence)
<1>. SUFFICES ASSUME SerialRuns PROVE Spec => []OncePerOccurrence
  OBVIOUS
<1>1. SerialInv => OncePerOccurrence
  BY DEF SerialInv
<1>2. TypeInv /\ SerialInv /\ [Next]_vars => SerialInv'
  BY SerialStep
<1>. QED  BY TypeInit, TypeStep, SerialInit, <1>1, <1>2, PTL DEF Spec

\* Nor do they make one before its day.
THEOREM EarlyCorrect == SerialRuns => (Spec => []NeverEarly)
<1>. SUFFICES ASSUME SerialRuns PROVE Spec => []NeverEarly
  OBVIOUS
<1>1. SerialInv => NeverEarly
  BY DEF SerialInv, MadeBehind, NeverEarly
<1>2. TypeInv /\ SerialInv /\ [Next]_vars => SerialInv'
  BY SerialStep
<1>. QED  BY TypeInit, TypeStep, SerialInit, <1>1, <1>2, PTL DEF Spec

=============================================================================
