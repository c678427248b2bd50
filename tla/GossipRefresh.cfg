SPECIFICATION FairSpec
CONSTANTS
    n1 = n1
    n2 = n2
    n3 = n3
    c1 = c1
    c2 = c2
    c3 = c3
    c4 = c4
    h1 = h1
    h2 = h2
    h3 = h3
    recA = recA
    NoRecords = NoRecords
    None = None
    Records = {NoRecords}
    HostOf <- MCHostOf
    NonceBit <- MCNonceBit
    Bootstrap <- MCBootstrap
    Nonces = {0, 1}
    Nodes = {n1, n2}
    Domains = {1}
    Hosts = {h1}
    Clients = {c1}
    LocalClaims <- OneName
    MaxRegs = 1
    Window = 1
    Challenges = {1, 2, 3}
    MaxPending = 2
    Fitting <- AllFits
    MaxNet = 2
    MaxTime = 1
    SlowLinks = FALSE
    Duplicates = FALSE
    Probers = {c1}
    LocalRecords <- NoneSet
PROPERTY
    RefreshPropagates
