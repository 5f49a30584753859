--------------------------- MODULE MCCommandLanes ---------------------------
(* Constants for TLC: two sessions that share one global lane; the first   *)
(* has two runs.                                                           *)
EXTENDS CommandLanes, TLC

CONSTANTS r1, r2, r3, s1, s2, main

MCSessionLane == (r1 :> s1) @@ (r2 :> s1) @@ (r3 :> s2)
MCGlobalLane == [r \in {r1, r2, r3} |-> main]
=============================================================================
