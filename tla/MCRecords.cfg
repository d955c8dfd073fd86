CONSTANTS
    Workers = {w1, w2}
    Packages = {pack}
    Paths = {identity, startup}
    Required = {identity, startup}
    Texts = {t1, t2}
    Documents = {d1, d2}
    Sources = {s1}
    Links = {x1}
    Keywords = {k1, k2}
    Projects = {g1}
    Lanes <- MCLanes
    None = None
SYMMETRY WorkersAlike
SPECIFICATION RecordsSpec
INVARIANTS
    RecordsAreTrue
PROPERTIES
    UpsertsCompareAndSwap
    LinksAccumulate
CHECK_DEADLOCK FALSE
