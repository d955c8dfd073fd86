SPECIFICATION Spec
CONSTANTS
    Calls = {c1, c2, c3}
    NoClaim = NoClaim
    Processes = {p1, p2}
    Deployments <- AllDeployments
    Operations <- AllOperations
    Agents = {a1}
    Paths = {f1}
    Hashes = {h1, h2}
    NoHash = NoHash
    Leases = {2}
    Horizon = 2
    NoRequest = NoRequest
    NoView = NoView
    NoResult = NoResult
    a1 = a1
    c1 = c1
    c2 = c2
    c3 = c3
    f1 = f1
    h1 = h1
    h2 = h2
    p1 = p1
    p2 = p2
SYMMETRY Alike
INVARIANTS
    TablesAgree
PROPERTIES
    ClosedByCompareAndSwap
    LeasesAreHonoured
CHECK_DEADLOCK FALSE
