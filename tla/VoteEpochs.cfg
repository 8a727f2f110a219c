CONSTANTS
    Validators = {v1, v2, v3, v4}
    Faulty = {}
    StakeOf <- FaultyHeavyStakeOf
    Sent <- TwoFaced
    Hashes = {A}
    Interval = 1
    EpochLen = 5
    MaxHeight = 1
    MaxMishaps = 0
    v1 = v1
    v2 = v2
    v3 = v3
    v4 = v4
    A = A
    B = B
SPECIFICATION FairSpec
PROPERTY PrevotesLeadToPrecommits
CHECK_DEADLOCK FALSE
