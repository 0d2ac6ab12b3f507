CONSTANTS
    Locations = {root, site}
    Devices = {d1}
    Root = root
    MaxTime = 4
    MaxFaults = 1
    None = None
SPECIFICATION FairSpec
CHECK_DEADLOCK FALSE
INVARIANTS
    NotSkipped
PROPERTIES
    LiveKept
    CacheSettles
