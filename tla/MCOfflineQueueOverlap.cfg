\* Two actions and two flushes that may overlap, with every fault.
SPECIFICATION Spec
CONSTANTS
    Actions = {a1, a2}
    Flushes = {f1, f2}
    Faults = {"remount", "reload", "late"}
SYMMETRY Symmetry
\* The collector need not do anything.
CHECK_DEADLOCK FALSE
INVARIANTS
    TypeOK
    NoFalseSuccess
    StoredUntilDone
    AnsweredInOrder
