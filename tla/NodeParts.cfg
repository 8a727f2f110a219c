CONSTANTS
    \* checkpoint finality
    Labels = {"p", "k"}
    is_better_chain <- MCIsBetterChain
    ValidatorsAfter <- MCValidatorsAfter
    Keys = {0, 1}
    Stake <- MCStake
    Interval = 2
    SnapshotInterval = 3
    MAX_REORG_DEPTH = 2
    max_qc_blobs = 1
    max_pending_certs = 2
    MaxTip = 4
    \* storage deals: two operators with one bond each, two shards of which one
    \* restores the object, a client who can pay twice, automatic challenges in
    \* every epoch
    Operators = {o1, o2}
    Client = client
    NoOperator = nobody
    Shards = {s1, s2}
    K = 1
    RepairMargin = 1
    Slots = {0}
    ReplicationTarget = 3
    Bond = 2
    FeeRate = 1
    FeeScale = 2
    OpenerBond = 1
    RangeKiB = 1
    AutoInterval = 1
    AutoDeadline = 1
    MinGap = 1
    MaxOpenPerDeal = 2
    MaxOpenPerOperator = 2
    AcceptanceEpochs = 1
    RetentionEpochs = 1
    OperatorFunds = 2
    ClientFunds = 2
    Terms <- TwoTerms
    Windows <- EarlyWindow
    MaxEpoch = 3
    MaxDeals = 3
    MaxChallenges = 1
    MaxPrunes = 1
    \* the bridge's tables: one user, locks that expire in the second block or
    \* never, rows kept for one block after they settle
    Domains = {d1, d2}
    Assets = {a1, a2}
    Accounts = {user}
    Recipients = {user}
    Amounts = {1}
    Expiries = {0, 2}
    Retention = 1
    MaxNonce = 3
    MaxHeight = 5
SPECIFICATION PartsSpec
SYMMETRY PartsSymmetry
INVARIANTS
    FinalizedOnChain
    EvidenceMatchesChain
    CacheCoherent
    PendingAwaitsBlob
    BondsSettledOnce
    AssetInOnePlace
    QueuesCoverRows
    ReplayMarkCovers
PROPERTIES
    FinalizedNeverReplaced
    WithdrawnBlobNotFinal
    GapsStayTicketed
    ExpiryKeepsObject
    ImplementsCustody
    DropsOnlyOldHistory
