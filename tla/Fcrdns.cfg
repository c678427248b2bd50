SPECIFICATION Spec
CONSTANTS
    Malformed = Malformed
    Resolvers = 2
    QueryTimeout = 1
    MaxJumps = 3
    Zone <- MCZone
    ReverseName <- MCReverseName
    Claims <- MCClaims
    Ids = {1, 2}
INVARIANTS
    TypeOK
    RepliesUnderstood
    ConfirmedIsTrue
    RefusalHasCause
    VerifyBounded
    QuotaFollowsHost
PROPERTIES
    VerificationEnds
