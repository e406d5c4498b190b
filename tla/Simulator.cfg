SPECIFICATION SimSpec
CONSTANTS
    Profiles = {"router"}
    PlainOids = {"cpu"}
    Numbers = {7}
    MaxDevices = 2
    MaxCalls = 4
INVARIANTS
    WithheldStaysAbsent
    RestoredReadsLatest
PROPERTIES
    OnlyTheNamedChanges
CHECK_DEADLOCK FALSE
