SPECIFICATION MCSpec
CONSTANTS
    a1 = a1
    a2 = a2
    n1 = n1
    n2 = n2
    n3 = n3
    n4 = n4
    n5 = n5
    k1 = k1
    k2 = k2
    t1 = t1
    t2 = t2
    Agents = {a1, a2}
    Anyone = Anyone
    Nonces = {n1, n2, n3, n4, n5}
    Kids = {t1, t2}
    SigningKeys = {k1, k2}
    Signed <- SignedRequests
    Second = 2
    Skew = 1
    Ttl = 2
    MaxNow = 5
    MarkerTtl = 2
    KeysTtl = 3
    Window = 2
    MaxPerAddress = 3
    MaxPerAgent = 1
    MaxLag = 1
    MaxArrivals = 5
    Slots = {1, 2}
    Ttls = {2, 4}
    BatchSize = 2
    MaxRetries = 1
    MaxFaults = 2
    Scenes = {"copies", "routes", "queue", "tickets"}
INVARIANTS
    AdmissionBounded
    RevokedKeptOut
    ConfirmedStands
PROPERTIES
    CacheImplementsGuard
    EventsTakeEffect
CHECK_DEADLOCK FALSE
