-------------------------- MODULE MCCapacityWait --------------------------
(* CapacityWait for TLC: the tasks are model values, no symmetry (liveness). *)
EXTENDS CapacityWait
=============================================================================
