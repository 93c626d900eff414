-------------------------- MODULE MCToolRecovery --------------------------
(* ToolRecovery for TLC: the calls are model values, no symmetry (liveness). *)
EXTENDS ToolRecovery
=============================================================================
