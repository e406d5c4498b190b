SPECIFICATION FairSpec
CONSTANTS
    Logins = {s1}
    Tries = {1, 2}
    Callbacks = {c1, c2}
    PreTtl = 2
    MaxTime = 4
    Faults = TRUE
INVARIANTS
    RedirectedIsStored
    StaleStateRejected
    LateReplayRejected
PROPERTIES
    CallbacksAnswered
CHECK_DEADLOCK FALSE
