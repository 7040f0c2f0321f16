-------------------------- MODULE MCMaintenanceQueue --------------------------
(***************************************************************************)
(* Values of the constants of MaintenanceQueue for TLC.                    *)
(***************************************************************************)
EXTENDS MaintenanceQueue, TLC

CONSTANTS j1, j2, j3, a1, a2

Symmetry == Permutations(Job) \cup Permutations(Admin)
=============================================================================
