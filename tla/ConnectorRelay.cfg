CONSTANTS
    Handlers = {h1}
    Loop = loop
    MaxFrames = 1
    MaxBatch = 2
    MaxPending = 2
    FlushBatch = 1
    MaxAttempts = 2
    OutCap = 1
    InCap = 1
    Pushed = {"deliver"}
SPECIFICATION FairSpec
INVARIANTS OneCopy RejectionsKnown
PROPERTIES HandlersAnswered ShutdownEnds
