--------------------------- MODULE WorkflowGraph ---------------------------
(***************************************************************************)
(* The two workflow graphs of the API service, as the data the             *)
(* orchestrator and the agent runner look up: the successor of a state,    *)
(* the agent a state starts, and the states that wait for a human.         *)
(***************************************************************************)
EXTENDS Naturals, Sequences

NoState == "none"

TicketGraph ==
    [DATA_INGESTION   |-> "TICKET_INTAKE",
     TICKET_INTAKE    |-> "DESIGN_REVIEW",
     DESIGN_REVIEW    |-> "PROFILING",
     PROFILING        |-> "BUILD",
     BUILD            |-> "QA",
     QA               |-> "READY_FOR_REVIEW",
     READY_FOR_REVIEW |-> "PR_CREATION",
     PR_CREATION      |-> "DONE",
     DONE             |-> NoState]

ProvisioningGraph ==
    [PROVISIONING_REQUESTED |-> "DONE",
     DONE                   |-> NoState]

WorkflowNames == {"ticket_to_pr", "tenant_provisioning"}

States == DOMAIN TicketGraph \cup DOMAIN ProvisioningGraph

(* _get_graphs: any other workflow name gets the ticket graph.             *)
WorkflowGraph(name) ==
    IF name = "tenant_provisioning" THEN ProvisioningGraph ELSE TicketGraph

(* The state a run is created in, by POST /tickets and by the tenant       *)
(* routes.                                                                 *)
FirstState(name) ==
    IF name = "tenant_provisioning"
    THEN "PROVISIONING_REQUESTED" ELSE "DATA_INGESTION"

(* workflow_graph.get(state)                                               *)
Successor(name, state) ==
    IF state \in DOMAIN WorkflowGraph(name)
    THEN WorkflowGraph(name)[state] ELSE NoState

(* AGENT_STATE_MAP of agent_runner.py, the two STATE_AGENT_MAPs inverted.  *)
StateOfAgent ==
    [DataIngestionAgent      |-> "DATA_INGESTION",
     IntakeAgent             |-> "TICKET_INTAKE",
     DesignAgent             |-> "DESIGN_REVIEW",
     ProfilerAgent           |-> "PROFILING",
     BuilderAgent            |-> "BUILD",
     QAAgent                 |-> "QA",
     PRAgent                 |-> "PR_CREATION",
     TenantProvisioningAgent |-> "PROVISIONING_REQUESTED"]

Agents == DOMAIN StateOfAgent

(* The agents a state starts: one, or none for READY_FOR_REVIEW and DONE.  *)
AgentsOf(state) == {a \in Agents : StateOfAgent[a] = state}

GatedStates == {"DESIGN_REVIEW", "READY_FOR_REVIEW"}

(* The states of workflow name that lie behind a gate: a run that shows    *)
(* one of them has passed it.                                              *)
Beyond(name, gate) ==
    IF name = "tenant_provisioning" THEN {}
    ELSE IF gate = "DESIGN_REVIEW"
         THEN {"PROFILING", "BUILD", "QA", "READY_FOR_REVIEW",
               "PR_CREATION", "DONE"}
         ELSE {"PR_CREATION", "DONE"}
=============================================================================
