CONSTANTS
    Workers = {w1, w2}
    c1 = c1
    Companies = {c1}
    Requests = {r1, r2}
    Keys = {k1, k2, k3}
    Proofs = {p1, p2}
    Accounts = {a1, a2}
    Intents = {i1, i2}
    SubmitKeys = {s1}
    MasterLimit = 2
    Lanes <- MCLanes
    None = None
SYMMETRY Alike
SPECIFICATION OwnershipSpec
INVARIANTS
    OwnersAreSound
PROPERTIES
    ActsAreAuthorised
    PurgedStaysPurged
CHECK_DEADLOCK FALSE
