\* The limits of the code, and nothing is lost.
SPECIFICATION FairSpec
CONSTANTS
    n1 = n1
    n2 = n2
    Nodes = {n1, n2}
    Producers = {n1, n2}
    Order <- HashOrder
    Ids = {1, 2, 3}
    HeaderLimit = 500
    MaxSyncBlocks = 9
    MaxReorgDepth = 100
    LocatorSize = 10
    MaxHeight <- FiveAndTwo
    MaxFaults = 0
PROPERTY ForksResolve
CHECK_DEADLOCK FALSE
