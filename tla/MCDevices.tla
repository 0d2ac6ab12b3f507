----------------------------- MODULE MCDevices ------------------------------
(***************************************************************************)
(* Devices' states on small instances, in two parts chosen initially:      *)
(* "statuses" runs LibreNMSStatus, how LibreNMS's answers are stored;      *)
(* "states" runs DeviceStates, what builds make of the sources' statuses.  *)
(* The parts never meet.  The values are in Devices.cfg.                   *)
(***************************************************************************)
EXTENDS DeviceStates, LibreNMSStatus, TLC

VARIABLE part

MCInit ==
    /\ part \in {"statuses", "states"}
    /\ Init /\ StatusInit
    /\ part = "states" => there = {} /\ \A d \in Devices : status[d] = None

MCNext ==
    \/ part = "statuses" /\ StatusNext /\ UNCHANGED <<part, vars>>
    \/ part = "states" /\ Next /\ UNCHANGED <<part, statusVars>>

MCSpec == MCInit /\ [][MCNext]_<<vars, statusVars, part>>

(* The first part's devices are interchangeable, and so are the pushes.    *)
Symmetry == Permutations(Devices) \cup Permutations(Pushes)
=============================================================================
