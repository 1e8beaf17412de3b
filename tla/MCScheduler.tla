---------------------------- MODULE MCScheduler -----------------------------
(***************************************************************************)
(* Values for model checking RecurringScheduler: the end of January 2023,  *)
(* where the monthly rule clamps the day and the weekly one leaves a month *)
(* of 31 days and one of 28.                                               *)
(***************************************************************************)
EXTENDS RecurringScheduler, TLC

January == 12 * 2023

Date(month, day) == [month |-> January + month, day |-> day]

LateJanuary == {Date(0, 31)}
NineDaysLate == {Date(1, 9)}
ThreeDays == {Date(0, 31), Date(1, 7), Date(1, 28)}

\* Two schedules at most, one of which the database may refuse.
AtMostTwo == Cardinality(Created) <= 2

Symmetry == Permutations(Runs) \cup Permutations(Schedules \ Broken)

=============================================================================
