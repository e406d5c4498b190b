SPECIFICATION Spec
CONSTANTS
    Fleets <- MCFleets
    Searches = {"", "text"}
    KindFilters = {"", "p2p"}
    ReachFilters = {""}
    Columns = {"hostname", "reachability"}
    PerPage = 1
    MaxChanges = 1
    MaxFetches = 2
INVARIANTS
    RowsAnswerControls
    EmptyIsAnswered
    NumbersWereReported
CHECK_DEADLOCK FALSE
