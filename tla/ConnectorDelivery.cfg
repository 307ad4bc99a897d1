SPECIFICATION MCSpec
CONSTANTS
    Scenes = {"messages", "notes"}
    MaxTroubles = 1
    Messages = {m1, m2}
    Notes = {n1, n2}
    InboundMaxAttempts = 3
    BatchSize = 1
    MaxForwards = 2
    MaxNotes = 1
    MaxDelivers = 2
    MaxFaults = 1
    MaxCrashes = 1
    MaxReplays = 1
INVARIANTS AckedKept ReceiptsMatch NotesInOnePlace
CHECK_DEADLOCK FALSE
PROPERTIES PendingResolved InboundReturns
