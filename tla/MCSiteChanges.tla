---------------------------- MODULE MCSiteChanges ----------------------------
(***************************************************************************)
(* SiteLevels on one site without tiers, for what the documents say of a   *)
(* changed setting (SettingChange.cfg) and of the end of maintenance       *)
(* (MaintenanceEnd.cfg).                                                   *)
(***************************************************************************)
EXTENDS SiteLevels

NoTierLevel  == [plain |-> ""]
CriticalOnly == [plain |-> "critical"]

(* Half of the devices down is Medium, or Critical.                        *)
TwoPercents == {[medium |-> 25, critical |-> 100], [medium |-> 25, critical |-> 50]}
==============================================================================
