SPECIFICATION FairPairingSpec
CONSTANTS
    PairingRequests = {r1, r2}
    Creds = {1, 2, 3}
    NoCred = NoCred
    NoOwner = NoOwner
    Existing = Existing
    Elsewhere = Elsewhere
    MaxCallers = 2
    r1 = r1
    r2 = r2
INVARIANTS
    PairingsAreSound
    NeverLockedOut
PROPERTIES
    ImplementsGrant
    PendingIsResolved
CHECK_DEADLOCK FALSE
