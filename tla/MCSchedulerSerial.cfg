\* One run at a time, crashes and failed commits included; runs start again
\* and again and serve every schedule that is due.
SPECIFICATION FairSpec
CONSTANTS
    Schedules = {s1, s2}
    Runs = {w1}
    Days <- ThreeDays
    FirstDates <- LateJanuary
    Frequencies = {"WEEKLY", "BIWEEKLY", "MONTHLY", "CUSTOM"}
    Broken = {}
    Faults = {"crash", "commit", "advance"}
    MaxErrors = 1
    MaxOccurrences = 12
    None = None
CHECK_DEADLOCK FALSE
INVARIANTS
    TypeOK
    OncePerOccurrence
    NeverEarly
PROPERTY
    DueIsServed
