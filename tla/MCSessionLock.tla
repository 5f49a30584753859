---------------------------- MODULE MCSessionLock ----------------------------
(* Constants for TLC: two runs of the gateway and one of another process   *)
(* on one session.                                                         *)
EXTENDS SessionLock

CONSTANTS gateway, cli, a1, a2, b1

MCProcOf == [c \in Callers |-> IF c = b1 THEN cli ELSE gateway]
=============================================================================
