SPECIFICATION MCSpec
CONSTANTS
    Scenes = {"client", "lanes", "stops", "auth"}
    Sockets = {s1, s2, s3}
    MaxFrames = 2
    MaxBeats = 2
    MaxCrashes = 1
    None = None
    Messages = {m1, m2}
    Lanes = {l1, l2}
    Passes = {1, 2}
    BatchSize = 2
    MaxPending = 2
    MaxTries = 2
    DeadAfter = 2
    MaxInputs = 2
    MaxRestarts = 1
    Nobody = Nobody
    Calls = {c1, c2}
    MaxExchanges = 3
    NoAuth = NoAuth
INVARIANTS LinkWatched QueueKept AckedKept OneLanePerMessage ReceiptsMatch NothingStuck AuthKept
SYMMETRY Symmetry
CHECK_DEADLOCK FALSE
