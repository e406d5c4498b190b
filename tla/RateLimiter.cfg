SPECIFICATION LimiterSpec
CONSTANTS
    Routes = {"auth-callback", "alarm-ack"}
    Addresses = {a1, a2}
    Window = 2
    Limit = 2
    MaxTime = 5
    MaxRequests = 6
SYMMETRY AddressSymmetry
INVARIANTS
    LimiterInv
    BurstBounded
    RejectionsEarned
