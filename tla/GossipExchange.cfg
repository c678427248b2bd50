SPECIFICATION Spec
CONSTANTS
    n1 = n1
    n2 = n2
    n3 = n3
    c1 = c1
    c2 = c2
    c3 = c3
    c4 = c4
    h1 = h1
    h2 = h2
    h3 = h3
    recA = recA
    NoRecords = NoRecords
    None = None
    Records = {NoRecords, recA}
    HostOf <- MCHostOf
    NonceBit <- MCNonceBit
    Bootstrap <- MCBootstrap
    Nonces = {0, 1}
    Nodes = {n1, n2, n3}
    Domains = {1, 2}
    Hosts = {h1, h2}
    Clients = {c1, c3}
    LocalClaims <- Rivals
    MaxRegs = 1
    Window = 1
    Challenges = {1, 2}
    MaxPending = 1
    Fitting <- OneRumorFits
    MaxNet = 1
    MaxTime = 0
    SlowLinks = TRUE
    Duplicates = TRUE
    Probers = {c1}
    LocalRecords <- OneSet
INVARIANTS
    TypeOK
    AnswerUsedOnce
    PendingBounded
    ReplicasWithinCap
    ReplicasAreClaims
