----------------------------- MODULE AlertLevels -----------------------------
(***************************************************************************)
(* A site's alert level from its devices, and which level changes are      *)
(* notified: compute_alert_level and event_kind, as operators.             *)
(*                                                                         *)
(* A site is a record: the devices the board counts, those that are down,  *)
(* each one's Nautobot criticality field ("" when not set) and override in *)
(* the app ("", "critical" or "not critical"), and the site's tier.  A     *)
(* setting that the operator can change with a restart is an argument.     *)
(***************************************************************************)
EXTENDS Naturals, FiniteSets

CONSTANTS
    Wireless,         \* devices a wireless controller watches
    Core,             \* devices whose role has a core keyword
    TierLevel,        \* TIER_DEVICE_LEVEL: [tier -> level or ""]
    WirelessApLevel,  \* WIRELESS_AP_LEVEL
    MinLevel          \* NOTIFY_MIN_LEVEL_BY_TIER: [tier -> level]

(* The levels a field or a setting may name; other values are ignored.     *)
DEVICE_LEVELS == {"critical", "medium", "low"}
OwnLevels == DEVICE_LEVELS \cup {""}

ASSUME AlertLevelsAssumption ==
    /\ TierLevel \in [DOMAIN TierLevel -> OwnLevels]
    /\ MinLevel \in [DOMAIN TierLevel -> DEVICE_LEVELS]
    /\ WirelessApLevel \in DEVICE_LEVELS

(* LEVEL_RANK.get(level, 0)                                                *)
Rank(level) ==
    CASE level = "critical" -> 3
      [] level = "medium"   -> 2
      [] level = "low"      -> 1
      [] OTHER              -> 0

Worse(a, b) == IF Rank(b) > Rank(a) THEN b ELSE a

(* What the device makes its site when it is down; "" when only the share
   of devices down counts.  The Nautobot field wins; else an access point
   has WIRELESS_AP_LEVEL unless marked critical; else the worst of the
   override, or without one the core role, and the tier's default. *)
device_level(d, site) ==
    LET own == IF site.override[d] = "critical" \/ (site.override[d] = "" /\ d \in Core)
               THEN "critical" ELSE "" IN
    IF site.crit[d] # "" THEN site.crit[d]
    ELSE IF d \in Wireless
         THEN IF site.override[d] = "critical" THEN "critical" ELSE WirelessApLevel
         ELSE Worse(own, TierLevel[site.tier])

(* An access point with no level of its own: its source is "wireless".     *)
controller_only(d, site) ==
    d \in Wireless /\ site.crit[d] = "" /\ site.override[d] # "critical"

(* The worst own level among devices, "" for none.                         *)
worst_of(devices, site) ==
    LET levels == {device_level(d, site) : d \in devices} IN
    IF levels = {} THEN ""
    ELSE CHOOSE l \in levels : \A k \in levels : Rank(k) <= Rank(l)

(* The level the share of devices down gives.                              *)
share_level(n, total, pct) ==
    IF n * 100 >= total * pct.critical THEN "critical"
    ELSE IF n * 100 > total * pct.medium THEN "medium" ELSE "low"

(* A slip: the device's own level replaces the share, instead of the worse. *)
wired_level_own(devices, site, pct) ==
    LET down  == devices \cap site.down
        worst == worst_of(down, site) IN
    IF worst = "critical" \/ down = devices THEN "critical"
    ELSE IF down = {} THEN "ok"
    ELSE IF worst # "" THEN worst
    ELSE share_level(Cardinality(down), Cardinality(devices), pct)

(* _wired_level                                                            *)
wired_level(devices, site, pct) ==
    LET down  == devices \cap site.down
        worst == worst_of(down, site) IN
    IF worst = "critical" \/ down = devices THEN "critical"
    ELSE IF down = {} THEN "ok"
    ELSE Worse(share_level(Cardinality(down), Cardinality(devices), pct), worst)

(* Access points are judged on their own, left out of the share.           *)
wired_devices(devices) == devices \ Wireless

(* compute_alert_level: the level, and whether it is only access points at
   the wireless level (then it is shown, but is no alarm). *)
compute_alert_level(devices, site, pct) ==
    LET wired == wired_devices(devices)
        alert == IF wired = {} THEN "ok" ELSE wired_level(wired, site, pct)
        aps   == devices \cap Wireless \cap site.down
        own   == {d \in aps : ~ controller_only(d, site)} IN
    IF devices = {} THEN [level |-> "no_data", wireless_only |-> FALSE]
    ELSE IF aps = {} THEN [level |-> alert, wireless_only |-> FALSE]
    ELSE IF own # {} THEN [level |-> Worse(alert, worst_of(own, site)), wireless_only |-> FALSE]
    ELSE IF alert # "ok" THEN [level |-> alert, wireless_only |-> FALSE]
    ELSE [level |-> WirelessApLevel, wireless_only |-> TRUE]

(* The level the feed and the notifications see: only access points down is
   OK there, and a site in maintenance is in maintenance. *)
observed_level(devices, site, pct) ==
    LET alert == compute_alert_level(devices, site, pct) IN
    IF alert.wireless_only THEN "ok" ELSE alert.level
------------------------------------------------------------------------------
(* event_kind: "alarm" when a site reaches the minimum or gets worse above
   it, "recovery" when it drops below; maintenance counts as nothing. *)
event_kind(from, to, tier) ==
    LET minimum == Rank(MinLevel[tier]) IN
    IF to = "maintenance" THEN "none"
    ELSE IF Rank(to) >= minimum /\ Rank(to) > Rank(from) THEN "alarm"
    ELSE IF Rank(from) >= minimum /\ minimum > Rank(to) THEN "recovery"
    ELSE "none"

dropped_below_minimum(from, to, tier) ==
    to # "maintenance" /\ Rank(to) < Rank(from) /\ Rank(from) < Rank(MinLevel[tier])
==============================================================================
