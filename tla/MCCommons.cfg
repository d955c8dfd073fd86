SPECIFICATION Spec
CONSTANTS
    Names = {n1, n2}
    NoName = NoName
    Tokens = {t1, t2, t3}
    NoToken = NoToken
    Sessions = {s1, s2}
    NoSession = NoSession
    Messages = {m1, m2}
    NoMessage = NoMessage
    MaxRevision = 2
    Settings <- AllSettings
    n1 = n1
    n2 = n2
    t1 = t1
    t2 = t2
    t3 = t3
    s1 = s1
    s2 = s2
    m1 = m1
    m2 = m2
SYMMETRY Alike
INVARIANTS
    AgentsAreDistinct
PROPERTIES
    ChangesFollowTheReading
    ImplementsGrant
CHECK_DEADLOCK FALSE
