SPECIFICATION FairSpec
CONSTANTS
    Controllers = {p1, p2}
    Tokens = {t1, t2}
    Installer = Installer
    MaxAttempts = 2
    Lease = 1
    Delays = {1}
    MaxCall = 1
    MaxCrashes = 1
    None = None
    p1 = p1
    p2 = p2
    t1 = t1
    t2 = t2
INVARIANTS
    EnrolmentSurvives
PROPERTIES
    AttemptsAreBounded
    AttemptsEnd
