SPECIFICATION MCSpec
CONSTANTS
    Scenes = {"senders", "sockets"}
    r1 = r1
    r2 = r2
    s1 = s1
    s2 = s2
    p1 = p1
    p2 = p2
    p3 = p3
    Inbound = {r1, r2}
    Outbound = {r1}
    GroupRequests = {}
    Routes = {"ab", "cb"}
    Sockets = {s1, s2}
    Procs = {p1, p2, p3}
    MaxInFlight = 2
    QueueMax = 1
    QueueTtl = 2
    RetryInitial = 1
    RetryMax = 1
    RetryMaxAttempts = 2
    JitterPercent = 0
    HeartbeatInterval = 1
    HeartbeatAckTimeout = 1
    MaxDeliveries = 2
    SubmitUntil = 1
    MaxNow = 2
SYMMETRY SymmetricSets
INVARIANTS
    LimitsKept
    WakeUpArmed
    QueuedReceiptBacked
