SPECIFICATION MCSpec
CONSTANTS
    Scenes = {"timers"}
    r1 = r1
    r2 = r2
    s1 = s1
    s2 = s2
    p1 = p1
    p2 = p2
    p3 = p3
    Inbound = {r1}
    Outbound = {r1}
    GroupRequests = {}
    Routes = {"ab"}
    Sockets = {s1}
    Procs = {p1, p2}
    MaxInFlight = 1
    QueueMax = 2
    QueueTtl = 2
    RetryInitial = 1
    RetryMax = 2
    RetryMaxAttempts = 2
    JitterPercent = 50
    HeartbeatInterval = 1
    HeartbeatAckTimeout = 2
    MaxDeliveries = 2
    SubmitUntil = 0
    MaxNow = 3
INVARIANTS
    OneEntryPerRequest
PROPERTIES
    QueueDrains
    HandlersReturn
