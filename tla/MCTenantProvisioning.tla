------------------------ MODULE MCTenantProvisioning ------------------------
(* Constants for TLC: the request threads are interchangeable.             *)
EXTENDS TenantProvisioning, TLC

MCSymmetry == Permutations(Threads)
=============================================================================
