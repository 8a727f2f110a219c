SPECIFICATION FairSpec
CONSTANTS
    n1 = n1
    n2 = n2
    Nodes = {n1, n2}
    Producers = {n1, n2}
    Order <- HashOrder
    Ids = {1, 2, 3}
    HeaderLimit = 3
    MaxSyncBlocks = 2
    MaxReorgDepth = 100
    LocatorSize = 10
    MaxHeight <- ThreeAndOne
    MaxFaults = 1
INVARIANT RoundIsServed
INVARIANT NoGap
PROPERTY CatchesUpOrForks
CHECK_DEADLOCK FALSE
