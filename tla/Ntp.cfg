SPECIFICATION Spec
CONSTANTS
    Servers = 2
    Units = 3
    Fracs = 4
    Epoch = 2
    Era = 5
    Timeout = 2
    Resolve = 1
    Start = 2
    MaxTime = 11
    MaxDrift = 1
    Skews <- SmallSkews
INVARIANTS
    TypeOK
    OffsetCorrects
    SyncedMeansMeasured
    PassBounded
CHECK_DEADLOCK TRUE
