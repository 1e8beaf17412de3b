\* Two runs overlap with every fault, over two schedules of which one may be
\* refused by the database; each error is logged once per schedule.
SPECIFICATION Spec
CONSTANTS
    Schedules = {s1, s2, s3}
    Runs = {w1, w2}
    Days <- NineDaysLate
    FirstDates <- LateJanuary
    Frequencies = {"WEEKLY"}
    Broken = {s3}
    Faults = {"crash", "commit"}
    MaxErrors = 1
    MaxOccurrences = 8
    None = None
SYMMETRY Symmetry
CONSTRAINT AtMostTwo
\* All schedules are served and the last day has come.
CHECK_DEADLOCK FALSE
INVARIANTS
    OnSchedule
    LossIsLogged
