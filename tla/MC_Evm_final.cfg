SPECIFICATION EvmSpec
CONSTANTS
    NoValue = NoValue
    Labels = {"a"}
    TxLabels = {"a", "b"}
    MaxHeight = 3
    MaxReorgs = 2
    Finalities = {"included", "finalized"}
    Confirmations = {2}
    MaxEvmFailures = 1
INVARIANT EvmFinalIsFinal
CHECK_DEADLOCK FALSE
