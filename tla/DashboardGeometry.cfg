SPECIFICATION GridSpec
CONSTANTS
    Columns = 4
    MaxWidgets = 3
    MinW = 1
    MinH = 1
    MaxH = 2
    MaxY = 4
    AddH = 2
    Start <- MCStart
INVARIANTS
    RefusedOnlyWhenDeep
    OnlyAddsRefused
