CONSTANTS
    \* stake and bonds
    Accounts = {"a", "b"}
    BondRoles = {"RELAYER"}
    InitialBalance <- FourAndTwo
    NetworkMinStake = 2
    RegistryMinStake = 2
    UnbondingEpochs = 1
    JailEpochs = 1
    Scale = 2
    EvidenceRatio = 1
    ReportRatio = 2
    MaxMissed = 1
    LivenessSlashing = TRUE
    MaxEpoch = 1
    \* the transaction pool
    Txs <- TwoSenders
    Network <- Small
    Default <- Smaller
    MaxPerBlock = 2
    Target = 1
    MaxBaseFee = 100
    ReorgKeep = 2
    GenesisFee = 8
    MaxHeight = 2
    MaxReorgs = 1
    MaxRestarts = 1
SPECIFICATION LedgerSpec
INVARIANTS
    TypeOK
    MirrorInStep
    PoolConsistent
PROPERTIES
    ValueOnlyLost
    PunishmentIsFinal
    OutbidOnly
    ProducerTakesAll
CHECK_DEADLOCK FALSE
