CONSTANTS
    Sites = {s1}
    Devices = {d3}
    WholeSite = site
    MaxDuration = 3
    Operators = {o1, o2}
    NWindows = 2
    MaxClock = 2
    Second = 2
    CacheTtl = 2
    MaxChanges = 2
    Starts = {1}
    Ends = {2, 3}
    ReportSite = s3
    ReportDevices = {d1, d2}
    ReportClock = 4
    NIncidents = 2
    NChanges = 2
    Retention = 2
    Batch = 2
SPECIFICATION MCSpec
SYMMETRY Symmetry
CHECK_DEADLOCK FALSE
INVARIANTS
    WindowsShown
    ReportExact
    ExportAddsUp
    HistoryCovers
PROPERTY EndedOnce
