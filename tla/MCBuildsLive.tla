---------------------------- MODULE MCBuildsLive -----------------------------
(***************************************************************************)
(* Liveness of what a build writes, in two parts chosen initially:         *)
(* "alerts" runs AlertLifecycle, the alert instances of one site; "levels" *)
(* runs SiteLevels, the stored levels of several.  The parts never meet.   *)
(* The values are in BuildsLive.cfg.                                       *)
(***************************************************************************)
EXTENDS AlertLifecycle

CONSTANTS
    NSites, SiteDevices, Crits, SiteEvents, MaxSiteEvents,   \* SiteLevels'
    WirelessApLevel, None

VARIABLES
    part,
    tells,    \* the builders whose source tells when a device changed
    site, pct, siteEvents, row, log, outbox, told, hushed, lock,   \* SiteLevels'
    place, seen, previous, turn

S == INSTANCE SiteLevels
       WITH Wireless <- {}, Core <- {}, Devices <- SiteDevices,
            TierLevel <- [gold |-> "medium", plain |-> ""],
            MinLevel <- [gold |-> "medium", plain |-> "critical"],
            PercentPairs <- {[medium |-> 25, critical |-> 100]},
            Events <- SiteEvents, MaxEvents <- MaxSiteEvents,
            events <- siteEvents, pc <- place

siteVars == <<site, pct, siteEvents, row, log, outbox, told, hushed, lock, place,
              seen, previous, turn>>
allVars  == <<part, tells, vars, siteVars>>

(* Observe's choice of known, fixed for each builder.                      *)
Sourced == \A b \in Builders : pc'[b] = "observed" => obs'[b].known = (b \in tells)

InAlerts(A) == part = "alerts" /\ A /\ Sourced /\ UNCHANGED <<part, tells, siteVars>>
InLevels(A) == part = "levels" /\ A /\ UNCHANGED <<part, tells, vars>>

(* None of the builders is told, one or all: builders are interchangeable. *)
MCInit ==
    /\ part \in {"alerts", "levels"}
    /\ tells \in {{}, {CHOOSE b \in Builders : TRUE}, Builders}
    /\ part = "levels" => tells = {}
    /\ Init /\ S!Init

MCNext == InAlerts(Next) \/ InLevels(S!Next)

(* AlertLifecycle's FairSpec in the first part, SiteLevels' in the second. *)
MCFairSpec ==
    /\ MCInit /\ [][MCNext]_allVars
    /\ \A b \in Builders :
         /\ WF_allVars(\/ InAlerts(\E known \in Told : Observe(b, known))
                       \/ InLevels(S!Locked(b) \/ S!Record(b)))
         /\ SF_allVars(InAlerts(Build(b)) \/ InLevels(S!LockRow(b)))
    /\ \A o \in Operators : SF_allVars(InAlerts(Acknowledge(o)))
    /\ \A t \in Txns : WF_allVars(InAlerts(DeadlockAbort(t)))

(* SiteLevels' BuildsFinish: builds that lock the rows of several sites at
   once do not wait for each other for good. *)
BuildsFinish == S!BuildsFinish
==============================================================================
