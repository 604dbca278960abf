-------------------------- MODULE MCHeartbeatTimer --------------------------
(* An instance of HeartbeatTimer small enough for TLC.  Handles are        *)
(* interchangeable, and no property here is temporal.                      *)
EXTENDS HeartbeatTimer, TLC

HandleSymmetry == Permutations(Timer)
=============================================================================
