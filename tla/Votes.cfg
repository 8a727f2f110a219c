\* Two honest validators and four faulty ones: a node does not count its own
\* vote, so four is the least number that can certify A at one node and B at
\* the other.  An epoch is one checkpoint interval long: only then are the
\* loop's prevotes counted.  Two mishaps let a restart follow a reorganisation
\* or come before it.
CONSTANTS
    Validators = {v1, v2, f1, f2, f3, f4}
    Faulty = {f1, f2, f3, f4}
    StakeOf <- FaultyHeavyStakeOf
    Sent <- TwoFaced
    Hashes = {A, B}
    Interval = 1
    EpochLen = 1
    MaxHeight = 1
    MaxMishaps = 2
    v1 = v1
    v2 = v2
    f1 = f1
    f2 = f2
    f3 = f3
    f4 = f4
    A = A
    B = B
SPECIFICATION Spec
SYMMETRY Symmetry
INVARIANT SignsOnce
INVARIANT ReportsSound
INVARIANT AccountableSafety
CHECK_DEADLOCK FALSE
