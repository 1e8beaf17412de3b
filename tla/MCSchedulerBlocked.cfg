\* A schedule the database refuses ends every run before the next schedule.
SPECIFICATION FairSpec
CONSTANTS
    Schedules = {s1, s2}
    Runs = {w1}
    Days <- NineDaysLate
    FirstDates <- LateJanuary
    Frequencies = {"WEEKLY"}
    Broken = {s2}
    Faults = {}
    MaxErrors = 0
    MaxOccurrences = 8
    None = None
CHECK_DEADLOCK FALSE
PROPERTY
    BrokenDoesNotBlock
