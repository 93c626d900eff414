----------------------------- MODULE MCStageRun -----------------------------
(* StageRun for TLC. *)
EXTENDS StageRun
=============================================================================
