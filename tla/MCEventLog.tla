----------------------------- MODULE MCEventLog -----------------------------
(* Constants for TLC: the worker and two request threads.                  *)
EXTENDS EventLog, TLC

MCSymmetry == Permutations(Writers)
=============================================================================
