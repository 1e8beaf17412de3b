\* Two overlapping runs, no fault: an occurrence gets two pickups.
SPECIFICATION Spec
CONSTANTS
    Schedules = {s1}
    Runs = {w1, w2}
    Days <- NineDaysLate
    FirstDates <- LateJanuary
    Frequencies = {"WEEKLY"}
    Broken = {}
    Faults = {}
    MaxErrors = 0
    MaxOccurrences = 8
    None = None
CHECK_DEADLOCK FALSE
INVARIANT
    NoDuplicatePickup
