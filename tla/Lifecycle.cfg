CONSTANTS
    NDevices = 2
    Builders = {b1, b2}
    Operators = {o1}
    NAlerts = 4
    MaxClock = 1
    MaxEvents = 2
    MaxFailures = 1
    Told = {FALSE}
SPECIFICATION Spec
SYMMETRY Symmetry
INVARIANTS
    OneOpenAlert
    EndAfterStart
PROPERTIES
    AckOnOpen
    HistoryKept
    FrozenKept
