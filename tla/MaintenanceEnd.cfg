CONSTANTS
    Wireless = {}
    Core = {}
    WirelessApLevel = "medium"
    TierLevel <- NoTierLevel
    MinLevel <- CriticalOnly
    NSites = 1
    Devices = {d1, d2}
    Builders = {b1}
    Crits = {"", "critical"}
    PercentPairs <- TwoPercents
    Events = {"device", "window", "edit"}
    MaxEvents = 5
    None = None
SPECIFICATION Spec
PROPERTY MaintenanceEndSent
