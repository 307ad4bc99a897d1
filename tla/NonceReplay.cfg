SPECIFICATION FairSpec
CONSTANTS
    k1 = k1
    k2 = k2
    Keys = {k1, k2}
    Ttl = 2
    MaxNow = 4
INVARIANTS
    SweepArmed
PROPERTIES
    ImplementsGuard
    ExpiredAreSwept
