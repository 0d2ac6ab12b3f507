-------------------------- MODULE MCAlertLifecycle --------------------------
(* AlertLifecycle on small instances; the values are in the .cfg files.    *)
EXTENDS AlertLifecycle, TLC

(* Builds are interchangeable; devices and alerts are numbered.            *)
Symmetry == Permutations(Builders)
=============================================================================
