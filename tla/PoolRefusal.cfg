CONSTANTS
    Txs <- TwoSenders
    Network <- Small
    Default <- Smaller
    MaxPerBlock = 2
    Target = 1
    MaxBaseFee = 100
    ReorgKeep = 2
    GenesisFee = 8
    MaxHeight = 2
    MaxReorgs = 1
    MaxRestarts = 1
SPECIFICATION PoolSpec
PROPERTY RefusalChangesNothing
CHECK_DEADLOCK FALSE
