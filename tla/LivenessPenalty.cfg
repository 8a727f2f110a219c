\* One account whose stake clears the minimum, an absence that is reported at
\* once, and the epoch in which the jail term ends.
CONSTANTS
    Accounts = {"a"}
    BondRoles = {"RELAYER"}
    InitialBalance <- FourAndTwo
    NetworkMinStake = 2
    RegistryMinStake = 2
    UnbondingEpochs = 1
    JailEpochs = 1
    Scale = 2
    EvidenceRatio = 1
    ReportRatio = 2
    MaxMissed = 1
    LivenessSlashing = TRUE
    MaxEpoch = 2
SPECIFICATION Spec
PROPERTY AbsenceEnds
CHECK_DEADLOCK FALSE
