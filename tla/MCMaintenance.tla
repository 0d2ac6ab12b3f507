--------------------------- MODULE MCMaintenance ---------------------------
(***************************************************************************)
(* Maintenance windows on small instances, in two parts chosen initially:  *)
(* "windows" runs MaintenanceWindows, "report" runs Availability over the  *)
(* windows it plans and ends itself.  The parts share the rows and the     *)
(* clock and never meet.  The values are in Maintenance.cfg.               *)
(***************************************************************************)
EXTENDS MaintenanceWindows, Availability

VARIABLE part

windowsOnly == <<pc, req, board, build, requested, rebuilt>>
reportOnly  == <<basis, incident, change, first, keptI, keptC>>

MCInit ==
    /\ part \in {"windows", "report"}
    /\ Init /\ ReportInit
    /\ part = "windows" => basis = "critical"

MCNext ==
    \/ part = "windows" /\ Next /\ UNCHANGED <<part, reportOnly>>
    \/ part = "report" /\ ReportNext /\ UNCHANGED <<part, windowsOnly>>

MCSpec == MCInit /\ [][MCNext]_<<vars, reportVars, part>>

(* Requests are interchangeable, and so are the reported devices.           *)
Symmetry == Permutations(Operators) \cup Permutations(ReportDevices)
============================================================================
