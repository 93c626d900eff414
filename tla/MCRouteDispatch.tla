-------------------------- MODULE MCRouteDispatch --------------------------
(* RouteDispatch for TLC: the tasks are model values, no symmetry (liveness). *)
EXTENDS RouteDispatch
=============================================================================
