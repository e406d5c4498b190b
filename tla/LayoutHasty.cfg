SPECIFICATION FairSpec
CONSTANTS
    Unloaded = Unloaded
    Edits = {e1, e2, e3}
    MaxResets = 1
    MaxReloads = 1
    Refusals = TRUE
    LostReplies = TRUE
INVARIANTS
    IInv
    LastSaveWins
    PatientEditsPersist
PROPERTIES
    SavingEnds
CHECK_DEADLOCK FALSE
