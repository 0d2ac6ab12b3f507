CONSTANTS
    Keys = {k1}
    Ttl = 3
    FlapWindow = 3
    FlapChanges = 3
    Delay = 2
    Late = 1
    MaxClock = 5
    MaxEvents = 4
    MaxFailures = 1
    Devices = {d1, d2}
    Pushes = {p1, p2}
    Sync = Sync
    MaxChanges = 2
    MaxRequests = 3
    MaxFaults = 1
    None = None
SPECIFICATION MCSpec
SYMMETRY Symmetry
CHECK_DEADLOCK FALSE
INVARIANT StatusNotBefore
PROPERTIES
    KnownKept
    SinceKept
    AlarmJustified
    FlappingEnds
    MapAgrees
    HookStartsAnew
