SPECIFICATION Spec
CONSTANTS
    Requests = {r1, r2}
    NoRequest = NoRequest
    Names = {a}
    NoName = NoName
    Tokens = {t1, t2, t3}
    NoToken = NoToken
    Intents = {i1}
    NoIntent = NoIntent
    Callers = {m}
    Processes = {p1, p2}
    Deployments <- AllDeployments
    MaxRounds = 2
SYMMETRY Alike
INVARIANTS
    TokensAreSound
    ClosedHasNoCredential
PROPERTIES
    RevocationsHold
CHECK_DEADLOCK FALSE
