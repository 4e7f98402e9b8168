CONSTANTS
    NoValue = NoValue
    Labels = {"a"}
    TxLabels = {"a"}
    MaxHeight = 4
    MaxReorgs = 2
    Horizon = 2
    BodiesFrom = 2
    MaxFailures = 1
    Finalities = {"included", "finalized"}
    Confirmations = {2}
    MaxEvmFailures = 1
SPECIFICATION MCSpec
INVARIANTS
    FinalIsFinal NothingMissed
    ConfirmedAtTheHead
    ReadIsTrue MatchIsTrue
    FollowIsExact InOrder EndIsTold CloseIsNeverStuck
PROPERTY EventuallyReported
CHECK_DEADLOCK FALSE
