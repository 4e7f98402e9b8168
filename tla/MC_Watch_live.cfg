SPECIFICATION FairSpec
CONSTANTS
    Loops = {"head", "storage", "event", "poll", "epoch_head", "epoch_poll"}
    Lacks = {"storage"}
    StorageFallbacks = {"head", "poll"}
    NoLimit = NoLimit
    NeedsEpoch = TRUE
    ExitsAfterDispatch = FALSE
    Faults = {"transient", "rate_limited", "head_gone", "stream_failed"}
    HasDeadline = TRUE
    MaxRu = NoLimit
    ReadCost = 2
    EpochCost = 1
    StreamCost = 1
    MaxHits = 2
    MaxQueue = 1
    MaxHeight = 2
    MaxReorgs = 1
    EpochLength = 2
    HandlersMayFail = TRUE
PROPERTY DeadlineEnds
PROPERTY ShutdownEnds
CHECK_DEADLOCK FALSE
