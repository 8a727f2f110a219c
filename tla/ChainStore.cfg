\* Two branches, chains of three blocks, one reorganisation and two faults;
\* a snapshot with every block and one block kept, so that pruning happens.
CONSTANTS
    Branches = {A, B}
    Keep = 1
    SnapInterval = 1
    Pruning = TRUE
    MaxHeight = 3
    MaxReorgs = 1
    MaxFaults = 2
    A = A
    B = B
SPECIFICATION FairSpec
INVARIANT CommittedSurvives
INVARIANT RecoveryTakesNothing
INVARIANT BridgeOfRestoredTip
PROPERTY ComesBack
CHECK_DEADLOCK FALSE
