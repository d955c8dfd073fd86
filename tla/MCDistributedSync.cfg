SPECIFICATION Spec
CONSTANTS
    Calls = {c1, c2, c3}
    Processes = {p1, p2}
    Snapshot = TRUE
    Operations <- AllOperations
    Devices = {d1}
    NoDevice = NoDevice
    Memories = {m1}
    NoMemory = NoMemory
    ClientKeys = {k1, k2, k3}
    MaxEpoch = 2
    Readers = {r1}
    Page = 1
    NoRequest = NoRequest
    NoView = NoView
    NoReceipt = NoReceipt
    c1 = c1
    c2 = c2
    c3 = c3
    k1 = k1
    k2 = k2
    k3 = k3
    d1 = d1
    m1 = m1
    p1 = p1
    p2 = p2
    r1 = r1
CONSTRAINT Mixes
SYMMETRY Alike
INVARIANTS
    HeadsFollowTheLog
    ReceiptsAreTrue
PROPERTIES
    HeadOnlyReplacedByItsChild
    AuthorityIsCurrent
CHECK_DEADLOCK FALSE
