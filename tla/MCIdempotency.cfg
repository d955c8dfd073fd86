SPECIFICATION FairSpec
CONSTANTS
    r1 = r1
    r2 = r2
    r3 = r3
    Requests = {r1, r2, r3}
    k1 = k1
    k2 = k2
    Keys = {k1, k2}
    b1 = b1
    b2 = b2
    Bodies = {b1, b2}
    Free = Free
    NoOne = NoOne
INVARIANTS
    OneEffectTrulyTold
PROPERTIES
    RowsAreFinal
    ImplementsContract
    EveryRequestSettles
CHECK_DEADLOCK FALSE
