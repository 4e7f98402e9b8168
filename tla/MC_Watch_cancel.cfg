SPECIFICATION Spec
CONSTANTS
    Loops = {"head"}
    Lacks = {}
    StorageFallbacks = {"head", "poll"}
    NoLimit = NoLimit
    NeedsEpoch = FALSE
    ExitsAfterDispatch = TRUE
    Faults = {}
    HasDeadline = TRUE
    MaxRu = NoLimit
    ReadCost = 2
    EpochCost = 1
    StreamCost = 1
    MaxHits = 1
    MaxQueue = 2
    MaxHeight = 1
    MaxReorgs = 0
    EpochLength = 2
    HandlersMayFail = TRUE
INVARIANT OnePayload
CHECK_DEADLOCK FALSE
