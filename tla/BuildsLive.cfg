CONSTANTS
    NDevices = 2
    Builders = {b1, b2}
    Operators = {}
    NAlerts = 4
    MaxClock = 1
    MaxEvents = 2
    MaxFailures = 0
    Told = {TRUE, FALSE}
    NSites = 2
    SiteDevices = {d1}
    Crits = {"", "critical"}
    SiteEvents = {"device", "unreadable"}
    MaxSiteEvents = 1
    WirelessApLevel = "low"
    None = None
SPECIFICATION MCFairSpec
PROPERTIES
    AlertsSettle
    BuildsFinish
