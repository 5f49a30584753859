-------------------------- MODULE WorkflowPromise --------------------------
(***************************************************************************)
(* What the workflow engine promises about a run, whatever its processes,  *)
(* their interleavings and their crashes do: the run only reaches states   *)
(* along its graph, passes a gate only when the gate is granted, launches  *)
(* an agent only in a state it reached and at most once, and is given a    *)
(* verdict only for cause.  It promises no more: not that a run is in one  *)
(* state at a time, not that it never turns back, not that its agents are  *)
(* done when it is reported as succeeded, not even one final verdict.      *)
(***************************************************************************)
EXTENDS WorkflowGraph

CONSTANTS Runs, WorkflowOf

VARIABLES
    reached,    \* the states each run has been in
    granted,    \* the gates a human has granted
    launches,   \* how often each agent was launched in each run
    broken,     \* the agents that failed in each run
    verdict     \* "none" until the run exists, then "running", ...

promise == <<reached, granted, launches, broken, verdict>>

Init ==
    /\ reached  = [r \in Runs |-> {}]
    /\ granted  = {}
    /\ launches = [r \in Runs |-> [a \in Agents |-> 0]]
    /\ broken   = [r \in Runs |-> {}]
    /\ verdict  = [r \in Runs |-> "none"]

Open(r) ==
    /\ verdict[r] = "none"
    /\ reached' = [reached EXCEPT ![r] = {FirstState(WorkflowOf[r])}]
    /\ verdict' = [verdict EXCEPT ![r] = "running"]
    /\ UNCHANGED <<granted, launches, broken>>

Grant(r, gate) ==
    /\ verdict[r] # "none"
    /\ granted' = granted \cup {<<r, gate>>}
    /\ UNCHANGED <<reached, launches, broken, verdict>>

(* From any state it has been in, not only from the latest one.            *)
Proceed(r, s) ==
    /\ s \in reached[r]
    /\ s \in GatedStates => <<r, s>> \in granted
    /\ Successor(WorkflowOf[r], s) # NoState
    /\ reached' = [reached EXCEPT ![r] = @ \cup {Successor(WorkflowOf[r], s)}]
    /\ UNCHANGED <<granted, launches, broken, verdict>>

Launch(r, agent) ==
    /\ StateOfAgent[agent] \in reached[r]
    /\ launches[r][agent] = 0
    /\ launches' = [launches EXCEPT ![r][agent] = 1]
    /\ UNCHANGED <<reached, granted, broken, verdict>>

Break(r, agent) ==
    /\ launches[r][agent] = 1
    /\ broken' = [broken EXCEPT ![r] = @ \cup {agent}]
    /\ UNCHANGED <<reached, granted, launches, verdict>>

Fail(r) ==
    /\ broken[r] # {}
    /\ verdict' = [verdict EXCEPT ![r] = "failed"]
    /\ UNCHANGED <<reached, granted, launches, broken>>

Succeed(r) ==
    /\ "DONE" \in reached[r]
    /\ verdict' = [verdict EXCEPT ![r] = "succeeded"]
    /\ UNCHANGED <<reached, granted, launches, broken>>

Next ==
    \E r \in Runs :
       \/ Open(r)
       \/ \E gate \in GatedStates : Grant(r, gate)
       \/ \E s \in States : Proceed(r, s)
       \/ \E agent \in Agents : Launch(r, agent) \/ Break(r, agent)
       \/ Fail(r) \/ Succeed(r)

Spec == Init /\ [][Next]_promise
=============================================================================
