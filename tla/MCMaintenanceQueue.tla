------------------------ MODULE MCMaintenanceQueue ------------------------
(* Small instances of MaintenanceQueue for TLC.                             *)
EXTENDS MaintenanceQueue, TLC

CONSTANT Alice

(* Every submission comes from the same caller.                             *)
OneCaller == [q \in Requests |-> Alice]

LoopSymmetry == Permutations(Workers)
===========================================================================
