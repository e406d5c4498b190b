SPECIFICATION FairSpec
CONSTANTS
    d1 = d1
    d2 = d2
    Devices = {d1, d2}
    PlaceOf <- MCPlaceOf
    Values = {0, 7}
    TopN = 1
    MaxPolls = 2
    MaxChanges = 1
    MaxFlights = 2
INVARIANTS
    ShownWasMeasured
    AbsenceWasAnswered
    ShowsTheWindow
PROPERTIES
    ViewsSettle
CHECK_DEADLOCK FALSE
