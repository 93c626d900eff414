--------------------------- MODULE MCTaskControl ---------------------------
(* TaskControl for TLC: the identities are model values, no symmetry (liveness). *)
EXTENDS TaskControl
=============================================================================
