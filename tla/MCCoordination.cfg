CONSTANTS
    Agents = {ann, bob}
    Founders = {ann}
    Rooms = {lobby, goal}
    Defaults = {lobby}
    Workers = {w1, w2}
    Lanes <- BothLanes
    Targets <- MCTargets
    Keys = {k1}
    Statuses = {"read"}
    AckedFor = 0
    UnackedFor = 1
    MeetingFor = 0
    MaxStamps = 3
    Horizon = 2
    None = None
SYMMETRY WorkersAlike
SPECIFICATION CoordinationSpec
INVARIANTS
    ReceiptsAndCursorsAreTrue
    WalkMissesNothing
PROPERTIES
    OnlyDueIsDeleted
CHECK_DEADLOCK FALSE
