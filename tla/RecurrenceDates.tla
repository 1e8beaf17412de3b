-------------------------- MODULE RecurrenceDates ---------------------------
(***************************************************************************)
(* Calendar dates and the recurrence rule of                               *)
(* backend/app/services/scheduler_service.py.  A date is a day of a month; *)
(* months are numbered 12 * year + (0 for January ... 11 for December).    *)
(***************************************************************************)
EXTENDS Integers

Frequency == {"WEEKLY", "BIWEEKLY", "MONTHLY", "CUSTOM"}

LeapYear(y) == y % 4 = 0 /\ (y % 100 # 0 \/ y % 400 = 0)

DaysIn(m) ==
    CASE m % 12 = 1              -> IF LeapYear(m \div 12) THEN 29 ELSE 28
      [] m % 12 \in {3, 5, 8, 10} -> 30
      [] OTHER                   -> 31

Dates == {d \in [month : Nat, day : 1 .. 31] : d.day <= DaysIn(d.month)}

Precedes(a, b) ==
    \/ a.month < b.month
    \/ a.month = b.month /\ a.day < b.day

NoLater(a, b) == Precedes(a, b) \/ a = b

\* date + timedelta(days=n), for an n no month is shorter than.
AddDays(d, n) ==
    IF d.day + n <= DaysIn(d.month)
      THEN [month |-> d.month, day |-> d.day + n]
      ELSE [month |-> d.month + 1, day |-> d.day + n - DaysIn(d.month)]

\* The same day of the next month, but never after the 28th.
AddMonth(d) ==
    [month |-> d.month + 1, day |-> IF d.day <= 28 THEN d.day ELSE 28]

\* Broken variants of _next_run_date: a month is added without the clamp, and
\* the date of a CUSTOM schedule is left to its owner.
NextRunDateUnclamped(d, frequency) ==
    CASE frequency = "BIWEEKLY" -> AddDays(d, 14)
      [] frequency = "MONTHLY"  -> [d EXCEPT !.month = @ + 1]
      [] OTHER                  -> AddDays(d, 7)
NextRunDateManual(d, frequency) ==
    CASE frequency = "WEEKLY"   -> AddDays(d, 7)
      [] frequency = "BIWEEKLY" -> AddDays(d, 14)
      [] frequency = "MONTHLY"  -> AddMonth(d)
      [] OTHER                  -> d

\* _next_run_date: CUSTOM takes the last branch, like WEEKLY; day_of_week is
\* not looked at.
NextRunDate(d, frequency) ==
    CASE frequency = "BIWEEKLY" -> AddDays(d, 14)
      [] frequency = "MONTHLY"  -> AddMonth(d)
      [] OTHER                  -> AddDays(d, 7)

=============================================================================
