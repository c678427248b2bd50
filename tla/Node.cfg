SPECIFICATION SystemSpec
CHECK_DEADLOCK FALSE
CONSTANTS
    c1 = c1
    c2 = c2
    h1 = h1
    recA = recA
    NoRecords = NoRecords
    None = None
    Malformed = Malformed
    HostOf <- MCHostOf
    NonceBit <- MCNonceBit
    Nonces = {0}
    Domains = {1}
    Hosts = {h1}
    Clients = {c1, c2}
    Records = {NoRecords, recA}
    MaxRegs = 1
    Window = 1
    Freshness = 0
    MaxTime = 2
    PeerRumors = {}
    Ipv4Text <- MCIpv4Text
    Ipv6Text <- MCIpv6Text
    TxtChunk = 2
    Addresses <- MCAddresses
    DefaultAddr <- MCDefaultAddr
    Refusable <- MCRefusable
    Covers <- MCCovers
    Fits <- MCFits
    CommandLines <- MCCommandLines
    Confirmable = {c2}
    MaxVerify = 1
    DomainText <- MCDomainText
    RecordsOf <- MCRecordsOf
    QueueLen = 2
    DemoClient = c1
    DemoDomain = 1
    DemoRecords = recA
    DemoTimeout = 1
    DemoLine <- DemoWords
    OtherClient = c2
    DnsQueries <- MCDnsQueries
    MaxSent = 2
INVARIANTS
    SystemTypeOK
    ListenersAsTold
    HeldNamesWereConfirmed
    ApiWaitBounded
    DnsAnswerFaithful
    DemoAnswersMatch
    DemoSeesItsRecords
PROPERTIES
    LookupsAnswered
    DemoCompletes
