SPECIFICATION FileSpec
CONSTANTS
    w1 = w1
    w2 = w2
    Workers <- MCWorkers
    Lanes <- MCLanes
    Refused = Refused
    Nobody <- MCNobody
    MasterLimit = 2
    RateLimit = 2
    SourceCapacity = 2
SYMMETRY Symmetric
INVARIANTS
    CredentialsAgree
    DocumentsAgree
PROPERTIES
    CallsRespectEnds
    LockHolds
CHECK_DEADLOCK FALSE
