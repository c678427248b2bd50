SPECIFICATION Spec
CONSTANTS
    c1 = c1
    c2 = c2
    c3 = c3
    h1 = h1
    h2 = h2
    recA = recA
    NoRecords = NoRecords
    None = None
    HostOf <- MCHostOf
    NonceBit <- MCNonceBit
    Nonces = {0}
    Domains = {1, 2, 3}
    Hosts = {h1}
    Clients = {c1, c2}
    Records = {NoRecords}
    MaxRegs = 1
    Window = 1
    Freshness = 0
    MaxTime = 2
    PeerRumors = {}
INVARIANT LiveRegistrationsHaveProbe
