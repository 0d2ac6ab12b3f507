---------------------------- MODULE SiteFailures -----------------------------
(***************************************************************************)
(* The levels of one site over every combination of fields, overrides,     *)
(* tiers and thresholds, and every order of its devices' failures and      *)
(* recoveries.                                                             *)
(***************************************************************************)
EXTENDS AlertLevels

CONSTANTS
    SiteDevices,  \* devices the site may have
    Fields,       \* values of the criticality field; "" for not set
    Overrides,    \* values of an override; "" for none
    Overridden,   \* devices that may have one
    Percents      \* values of ALERT_MEDIUM_PERCENT, ALERT_CRITICAL_PERCENT

VARIABLES
    failing,      \* [devices, down, crit, override, tier] the site
    thresholds    \* one of Percents

failuresVars == <<failing, thresholds>>

FailuresInit ==
    /\ thresholds \in Percents
    /\ failing \in [devices : {{}}, down : {{}}, crit : [SiteDevices -> Fields],
                    override : [SiteDevices -> Overrides], tier : DOMAIN TierLevel]
    /\ \A d \in SiteDevices \ Overridden : failing.override[d] = ""

Fail(d) ==
    /\ d \in failing.devices \ failing.down
    /\ failing' = [failing EXCEPT !.down = @ \cup {d}]
    /\ thresholds' = thresholds

Recover(d) ==
    /\ d \in failing.down
    /\ failing' = [failing EXCEPT !.down = @ \ {d}]
    /\ thresholds' = thresholds

(* A sync adds or removes a device.                                        *)
Sync(d) ==
    /\ failing' = [failing EXCEPT !.devices = IF d \in @ THEN @ \ {d} ELSE @ \cup {d},
                                  !.down = @ \ {d}]
    /\ thresholds' = thresholds

FailuresNext == \E d \in SiteDevices : Fail(d) \/ Recover(d) \/ Sync(d)

FailuresSpec == FailuresInit /\ [][FailuresNext]_failuresVars

Level(s) == observed_level(s.devices, s, thresholds)

(* The site's level is the worst of its down devices' own levels, the share
   of its wired devices that is down, and Critical when all of them are:
   the order of the early returns in _wired_level and compute_alert_level
   never hides a worse one.  So access points that the controller alone
   watches neither raise nor dilute it, and a failure never lowers it. *)
LevelIsWorst ==
    LET wired == failing.devices \ Wireless
        n     == Cardinality(wired \cap failing.down)
        own   == {Rank(device_level(d, failing)) :
                    d \in {e \in failing.down : ~ controller_only(e, failing)}}
        share == IF n = 0 THEN {}
                 ELSE IF \/ n = Cardinality(wired)
                         \/ n * 100 >= Cardinality(wired) * thresholds.critical THEN {3}
                 ELSE IF n * 100 > Cardinality(wired) * thresholds.medium THEN {2} ELSE {1}
        all   == own \cup share \cup {0} IN
    Rank(Level(failing)) = CHOOSE r \in all : \A q \in all : q <= r
==============================================================================
