SPECIFICATION FairSpec
CONSTANTS
    Probes = {p1}
    Requests = {r1}
    MaxFaults = 2
INVARIANTS
    UnservedStaysUp
    ReadyMeansReached
PROPERTIES
    ProbesAnswered
    Recovers
