--------------------------- MODULE MCOrchestrator ---------------------------
(* Constants for TLC: one ticket run, or a ticket run and a provisioning   *)
(* run side by side.                                                       *)
EXTENDS Orchestrator, TLC

CONSTANTS ticket, tenant

MCOneRun   == {ticket}
MCBothRuns == {ticket, tenant}

MCWorkflowOf ==
    [r \in Runs |-> IF r = tenant THEN "tenant_provisioning"
                                  ELSE "ticket_to_pr"]

(* Request threads are interchangeable.                                    *)
MCSymmetry == Permutations(Clients)
=============================================================================
