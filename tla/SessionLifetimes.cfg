SPECIFICATION Spec
CONSTANTS
    Requests = {r1, r2, r3}
    NoRecord = NoRecord
    Idle = 2
    Abs = 3
    Skew = 0
    TokenLife = 1
    RotateRefresh = TRUE
    Faults = {"idp", "redis", "kill"}
    MaxTime = 4
SYMMETRY RequestSymmetry
INVARIANTS
    IInv
    TtlUnlessInterrupted
    OnlyOverlapRevives
    SoloRefreshSilent
PROPERTIES
    AdmissionWithinLifetimes
    NotReapedWhileValid
\* Every request may end and the clock may reach its bound.
CHECK_DEADLOCK FALSE
