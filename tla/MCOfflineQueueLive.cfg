\* Two actions, one flush at a time, the page may be loaded again.
SPECIFICATION FairSpec
CONSTANTS
    Actions = {a1, a2}
    Flushes = {f1}
    Faults = {"reload"}
CHECK_DEADLOCK FALSE
PROPERTY
    QueueIsServed
