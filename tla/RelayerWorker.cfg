CONSTANTS
    Requests = {"r1", "r2"}
    HeightOf <- SameBlock
    Bridged = {"r1"}
    MaxHeight = 1
    MaxCopies <- TwoOfBridged
    MaxNonce = 1
    MaxRestarts = 1
    MaxFaults = 1
SPECIFICATION FairSpec
INVARIANTS
    NothingForgotten
    NoBlindResend
PROPERTY ResultsLand
