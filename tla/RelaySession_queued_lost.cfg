SPECIFICATION Spec
CONSTANTS
    r1 = r1
    r2 = r2
    s1 = s1
    s2 = s2
    p1 = p1
    p2 = p2
    p3 = p3
    Inbound = {r1, r2}
    Outbound = {}
    GroupRequests = {}
    Routes = {"ab"}
    Sockets = {s1}
    Procs = {p1, p2, p3}
    MaxInFlight = 2
    QueueMax = 2
    QueueTtl = 2
    RetryInitial = 1
    RetryMax = 1
    RetryMaxAttempts = 2
    JitterPercent = 0
    HeartbeatInterval = 1
    HeartbeatAckTimeout = 1
    MaxDeliveries = 2
    SubmitUntil = 1
    MaxNow = 2
SYMMETRY SymmetricProcs
INVARIANTS
    QueuedIsDurable
