SPECIFICATION McpSpec
CONSTANTS
    Requests = {r1, r2}
    Consents = {s1, s2}
    Codes = {c1, c2}
    Pairs = {t1, t2, t3, t4}
    Messages = {m1}
    Nobody = Nobody
SYMMETRY Symmetric
INVARIANTS
    GrantsAreSound
    WrittenOnce
PROPERTIES
    EndedStaysEnded
CHECK_DEADLOCK FALSE
