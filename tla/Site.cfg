CONSTANTS
    Wireless = {ap1}
    Core = {core}
    WirelessApLevel = "medium"
    TierLevel <- TierLevels
    MinLevel <- MinLevels
    SiteDevices = {core, x1, x2, x3, ap1}
    Fields = {"", "low"}
    Overrides = {"", "critical", "not critical"}
    Overridden = {core, ap1}
    Percents <- LevelPercents
    NSites = 1
    Devices = {x1, x2}
    Builders = {p1, p2}
    Crits = {"", "critical"}
    PercentPairs <- TwoPercents
    Events = {"device", "window", "device window", "edit", "tier", "setting", "delete"}
    MaxEvents = 4
    None = None
    Handlers = {p1, p2}
    Names = {n1}
    Tenants = {x1, x2}
    Roles = {"admin", "status"}
    Settings <- TwoSettings
    Lifetimes <- TwoLifetimes
    Ages = {0, 1}
    Interval = 1
    NTokens = 2
    NLinks = 2
    MaxClock = 2
    MaxRequests = 3
    MaxFailures = 1
    Nobody = Nobody
SPECIFICATION MCSpec
SYMMETRY Symmetry
CHECK_DEADLOCK FALSE
INVARIANTS
    LevelIsWorst
    ChangesChain
    MessageMatchesLevel
    ShownWorks
    LinkKept
PROPERTIES
    RevokedRefused
    UsedOnce
    PageOwn
