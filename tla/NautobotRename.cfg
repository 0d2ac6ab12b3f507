CONSTANTS
    Locations = {root, site}
    Devices = {d1}
    Root = root
    MaxTime = 6
    MaxFaults = 0
    None = None
SPECIFICATION Spec
CHECK_DEADLOCK FALSE
PROPERTY RenameMakesFull
