SPECIFICATION Spec
CONSTANTS
    Loops = {"head", "storage", "event", "poll", "epoch_head", "epoch_poll"}
    Lacks = {}
    StorageFallbacks = {"head", "poll"}
    NoLimit = NoLimit
    NeedsEpoch = TRUE
    ExitsAfterDispatch = TRUE
    Faults = {"transient", "rate_limited", "head_gone", "terminal", "cu", "user_error", "stream_failed", "unsupported", "no_context"}
    HasDeadline = TRUE
    MaxRu = 7
    ReadCost = 2
    EpochCost = 1
    StreamCost = 1
    MaxHits = 1
    MaxQueue = 2
    MaxHeight = 2
    MaxReorgs = 1
    EpochLength = 2
    HandlersMayFail = FALSE
INVARIANT TypeOK
INVARIANT BudgetRespected
INVARIANT ReservedForTheRead
INVARIANT OnePayload
INVARIANT ExitIsTruthful
INVARIANT IdleIsCurrent
PROPERTY EvaluationsMoveForward
CHECK_DEADLOCK FALSE
