---------------------------- MODULE MCSiteLevels -----------------------------
(***************************************************************************)
(* A site's level and its messages, and access to the app, on small        *)
(* instances, in three parts chosen initially: "levels" runs SiteFailures, *)
(* one site over every combination of settings; "messages" runs SiteLevels,*)
(* the builds that store levels and queue messages; "access" runs Access.  *)
(* The parts never meet.  The values are in Site.cfg.                      *)
(***************************************************************************)
EXTENDS SiteLevels, SiteFailures, Access

VARIABLE part

(* A gold site notifies from Medium, and its devices are Medium when down. *)
TierLevels == [gold |-> "medium", plain |-> ""]
MinLevels  == [gold |-> "medium", plain |-> "critical"]

DefaultPercents == [medium |-> 25, critical |-> 100]
TwoPercents     == {DefaultPercents, [medium |-> 25, critical |-> 50]}

(* Half and all of the devices, and both at one boundary.                  *)
LevelPercents   == {DefaultPercents, [medium |-> 50, critical |-> 75]}

(* Behind a sign-in proxy with the viewer role required, and without sign-in
   with every change allowed. *)
Proxied     == [mode |-> "header", viewer |-> TRUE, writes |-> FALSE]
Unsigned    == [mode |-> "disabled", viewer |-> FALSE, writes |-> TRUE]
TwoSettings == {Proxied, Unsigned}

(* No expiry, or one day.                                                  *)
TwoLifetimes == {{}, {1}}

(* The first part's site while the others run: one that never fails.       *)
Unchanging ==
    [devices |-> {}, down |-> {}, crit |-> [d \in SiteDevices |-> ""],
     override |-> [d \in SiteDevices |-> ""], tier |-> "plain"]

MCInit ==
    /\ part \in {"levels", "messages", "access"}
    /\ Init /\ FailuresInit /\ AccessInit
    /\ part # "levels" => failing = Unchanging /\ thresholds = DefaultPercents
    /\ part # "messages" => pct = DefaultPercents
    /\ part # "access" => settings = Proxied

MCNext ==
    \/ part = "messages" /\ Next /\ UNCHANGED <<part, failuresVars, accessVars>>
    \/ part = "levels" /\ FailuresNext /\ UNCHANGED <<part, vars, accessVars>>
    \/ part = "access" /\ AccessNext /\ UNCHANGED <<part, vars, failuresVars>>

MCSpec == MCInit /\ [][MCNext]_<<vars, failuresVars, accessVars, part>>

(* Builders are interchangeable, and so are the devices, none of them core;
   so are the third part's handlers and tenants.  The parts take the same
   model values for them: what they name never meets either. *)
Symmetry == Permutations(Builders) \cup Permutations(Devices)
==============================================================================
