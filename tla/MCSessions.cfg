\* Two accounts and two threads; four refresh tokens and one reset token.
SPECIFICATION MCSpec
CONSTANTS
    Users = {u1, u2}
    Requests = {c1, c2}
    Calls = {c1, c2}
    MaxTokens = 4
    MaxResets = 1
SYMMETRY Symmetry
INVARIANTS
    TypeOK
    RotationIsFinal
    ResetEndsSessions
    ResetsAreSpent
    
\* Tokens run out.
CHECK_DEADLOCK FALSE
