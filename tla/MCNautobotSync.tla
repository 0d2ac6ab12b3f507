--------------------------- MODULE MCNautobotSync ---------------------------
(* NautobotSync on a small instance; the values are in the .cfg file.      *)
EXTENDS NautobotSync, TLC
=============================================================================
