SPECIFICATION Spec
CONSTANTS
    Requests = {r1, r2, r3}
    NoRecord = NoRecord
    Idle = 1
    Abs = 3
    Skew = 0
    TokenLife = 1
    RotateRefresh = FALSE
    Faults = {}
    MaxTime = 4
SYMMETRY RequestSymmetry
INVARIANTS
    LoggedOutStaysOut
\* Every request may end and the clock may reach its bound.
CHECK_DEADLOCK FALSE
