SPECIFICATION Spec
CONSTANTS
    k1 = k1
    k2 = k2
    k3 = k3
    None = None
    Keys = {k1, k2, k3}
    Burst = 3
    Rate = 1
    Cost = 2
    MaxKeys = 2
    PruneAge = 3
    MaxTime = 4
    MaxGranted = 3
INVARIANTS
    TypeOK
    WithinRate
    TableBounded
PROPERTIES
    KeepsPromise
    ForgetsOnlyQuietSenders
