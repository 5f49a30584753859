---------------------------- MODULE Orchestrator ----------------------------
(***************************************************************************)
(* The workflow engine of the API service: the tables it keeps, the agent  *)
(* worker that polls the task table and runs one agent at a time, and the  *)
(* request handlers that create runs, approve gates and advance runs.      *)
(*                                                                         *)
(* An action is one step between two points where another process can get  *)
(* in: a committed write together with the reads that lead up to it inside *)
(* the same transaction, or a read whose result is used later.  The store  *)
(* is SQLite: a SELECT outside a transaction takes no lock, so what it     *)
(* returned may be stale when it is used; an UPDATE or INSERT holds the    *)
(* write lock to its commit.  Where a read directly follows a commit of    *)
(* the same process and commutes with everything the others do in between  *)
(* the two are one action.                                                 *)
(*                                                                         *)
(* Of the event stream this module keeps the entries whose content matters *)
(* to the engine, state_transition and error; how every event gets its seq *)
(* is the subject of module EventLog.                                      *)
(***************************************************************************)
EXTENDS WorkflowGraph, FiniteSets

CONSTANTS
    Runs,         \* workflow_run rows that may be created
    WorkflowOf,   \* Runs -> workflow_name
    Clients,      \* request-handling threads of the API
    Operator,     \* how people and scripts use the API, see MayApprove
    MaxRequests,  \* bound: approve and advance requests in a behaviour
    MaxCrashes    \* bound: crashes of the worker or of the API

Worker == "worker"
Actors == Clients \cup {Worker}
NoRun  == "no run"

ASSUME OrchestratorAssumption ==
    /\ WorkflowOf \in [Runs -> WorkflowNames]
    /\ Worker \notin Clients
    /\ NoRun \notin Runs
    /\ Operator \in {"any", "board", "patient"}
    /\ MaxRequests \in Nat
    /\ MaxCrashes \in Nat

VARIABLES
    run,        \* workflow_run: status and current_state
    approvals,  \* gate_approval: which gates of which runs are approved
    tasks,      \* agent_task: the status of each row, by run and agent
    sessions,   \* agent_session: the status of each row, by run and agent
    log,        \* workflow_event: moves and errors of each run, as committed
    call,       \* the Orchestrator.advance call each actor is inside
    worker,     \* the worker's position and locals
    client,     \* each request thread's position
    requests,   \* approve and advance requests served so far
    crashes     \* crashes so far

store   == <<run, approvals, tasks, sessions, log>>
bounds  == <<requests, crashes>>
vars    == <<store, call, worker, client, bounds>>

NoCall     == [at |-> "none", run |-> NoRun, from |-> NoState, to |-> NoState]
NoRow      == <<>>
IdleWorker == [at |-> "polling", batch |-> {}, row |-> NoRow, outcome |-> NoState]
IdleClient == [at |-> "idle", run |-> NoRun]

Init ==
    /\ run       = [r \in Runs |-> [status |-> "absent", state |-> NoState]]
    /\ approvals = {}
    /\ tasks     = [r \in Runs |-> [a \in Agents |-> <<>>]]
    /\ sessions  = [r \in Runs |-> [a \in Agents |-> <<>>]]
    /\ log       = [r \in Runs |-> <<>>]
    /\ call      = [a \in Actors |-> NoCall]
    /\ worker    = IdleWorker
    /\ client    = [c \in Clients |-> IdleClient]
    /\ requests  = 0
    /\ crashes   = 0

Exists(r) == run[r].status # "absent"

-----------------------------------------------------------------------------
(* Rows.  A task row is named by its run, its agent and its number among   *)
(* the tasks of the two.                                                   *)

Rows ==
    UNION {{<<r, a, k>> : k \in DOMAIN tasks[r][a]} : r \in Runs, a \in Agents}
PendingTasks == {row \in Rows : tasks[row[1]][row[2]][row[3]] = "pending"}

(* AgentQueue.enqueue                                                      *)
AddTask(r, agent) ==
    tasks' = [tasks EXCEPT ![r][agent] = Append(@, "pending")]

(* append_workflow_event                                                   *)
Log(r, entry) == log' = [log EXCEPT ![r] = Append(@, entry)]

Move(from, to) == [type |-> "state_transition", from |-> from, to |-> to]
Error          == [type |-> "error", from |-> NoState, to |-> NoState]

-----------------------------------------------------------------------------
(* Orchestrator.advance, run by the worker and by request threads alike.   *)

(* A gate check that does not ask which gate was approved.                 *)
GateIsPendingAnyGate(r) ==
    /\ run[r].state \in GatedStates
    /\ \A gate \in GatedStates : <<r, gate>> \notin approvals

GateIsPending(r) ==
    run[r].state \in GatedStates /\ <<r, run[r].state>> \notin approvals

MayAdvance(r) ==
    /\ run[r].status = "running"
    /\ ~GateIsPending(r)
    /\ Successor(WorkflowOf[r], run[r].state) # NoState

(* An advance that carries on through a state without an agent.            *)
VerdictSkippingAgentless(r) ==
    LET next == Successor(WorkflowOf[r], run[r].state)
    IN  IF MayAdvance(r)
        THEN [at |-> "write", run |-> r, from |-> run[r].state,
              to |-> IF next = "READY_FOR_REVIEW"
                     THEN Successor(WorkflowOf[r], next) ELSE next]
        ELSE NoCall

(* An advance that does not ask whether there is a next state.             *)
VerdictPastDone(r) ==
    IF run[r].status = "running" /\ ~GateIsPending(r)
    THEN [at |-> "write", run |-> r, from |-> run[r].state,
          to |-> Successor(WorkflowOf[r], run[r].state)]
    ELSE NoCall

(* advance() reads the run and the approval, and either returns or goes on *)
(* to write the successor of the state it has read.                        *)
Verdict(r) ==
    IF MayAdvance(r)
    THEN [at |-> "write", run |-> r, from |-> run[r].state,
          to |-> Successor(WorkflowOf[r], run[r].state)]
    ELSE NoCall

Decide(a) ==
    /\ call[a].at = "decide"
    /\ call' = [call EXCEPT ![a] = Verdict(@.run)]
    /\ UNCHANGED <<store, worker, client, bounds>>

(* A transition that takes any state without an agent for the last one.    *)
TransitionEndingAgentless(a) ==
    /\ call[a].at = "write"
    /\ LET r == call[a].run
           s == call[a].to
       IN  /\ run' = [run EXCEPT ![r].state = s]
           /\ Log(r, Move(call[a].from, s))
           /\ call' = [call EXCEPT ![a].at =
                         IF AgentsOf(s) = {} THEN "succeed" ELSE "enqueue"]
    /\ UNCHANGED <<approvals, tasks, sessions, worker, client, bounds>>

(* A transition that reads from_state after it has overwritten it.         *)
TransitionLoggingLate(a) ==
    /\ call[a].at = "write"
    /\ LET r == call[a].run
           s == call[a].to
       IN  /\ run' = [run EXCEPT ![r].state = s]
           /\ Log(r, Move(s, s))
           /\ call' = [call EXCEPT ![a] =
                         IF s = "DONE" THEN [@ EXCEPT !.at = "succeed"]
                         ELSE IF AgentsOf(s) # {}
                              THEN [@ EXCEPT !.at = "enqueue"]
                              ELSE NoCall]
    /\ UNCHANGED <<approvals, tasks, sessions, worker, client, bounds>>

(* transition(): one transaction updates current_state by primary key,     *)
(* whatever it has become, reads the last seq and inserts the event.       *)
Transition(a) ==
    /\ call[a].at = "write"
    /\ LET r == call[a].run
           s == call[a].to
       IN  /\ run' = [run EXCEPT ![r].state = s]
           /\ Log(r, Move(call[a].from, s))
           /\ call' = [call EXCEPT ![a] =
                         IF s = "DONE" THEN [@ EXCEPT !.at = "succeed"]
                         ELSE IF AgentsOf(s) # {}
                              THEN [@ EXCEPT !.at = "enqueue"]
                              ELSE NoCall]
    /\ UNCHANGED <<approvals, tasks, sessions, worker, client,
                   bounds>>

(* ... and a second transaction enqueues the agent of the new state.       *)
Enqueue(a) ==
    /\ call[a].at = "enqueue"
    /\ \E agent \in AgentsOf(call[a].to) :
          AddTask(call[a].run, agent)
    /\ call' = [call EXCEPT ![a] = NoCall]
    /\ UNCHANGED <<run, approvals, sessions, log, worker,
                   client, bounds>>

(* complete_workflow(): after the transition to DONE, the verdict, again   *)
(* written by primary key in a transaction of its own.                     *)
MarkSucceeded(a) ==
    /\ call[a].at = "succeed"
    /\ run' = [run EXCEPT ![call[a].run].status = "succeeded"]
    /\ call' = [call EXCEPT ![a] = NoCall]
    /\ UNCHANGED <<approvals, tasks, sessions, log, worker,
                   client, bounds>>

AdvanceStep(a) == Decide(a) \/ Transition(a) \/ Enqueue(a) \/ MarkSucceeded(a)

Advancing(r) == [NoCall EXCEPT !.at = "decide", !.run = r]

-----------------------------------------------------------------------------
(* Request threads.                                                        *)

Free(c) == client[c].at = "idle" /\ call[c].at = "none"

(* POST /tickets, POST /tenants: the run row becomes visible first ...     *)
CreateRun(c, r) ==
    /\ Free(c)
    /\ ~Exists(r)
    /\ run' = [run EXCEPT ![r] = [status |-> "running",
                                  state  |-> FirstState(WorkflowOf[r])]]
    /\ client' = [client EXCEPT ![c] = [at |-> "created", run |-> r]]
    /\ UNCHANGED <<approvals, tasks, sessions, log, call,
                   worker, bounds>>

(* The first event skipped.                                                *)
LogStartNot(c) ==
    /\ client[c].at = "created"
    /\ client' = [client EXCEPT ![c].at = "logged"]
    /\ UNCHANGED <<store, call, worker, bounds>>

(* ... then its first event is inserted and the first agent enqueued.      *)
LogStart(c) ==
    /\ client[c].at = "created"
    /\ Log(client[c].run,
           Move(NoState, FirstState(WorkflowOf[client[c].run])))
    /\ client' = [client EXCEPT ![c].at = "logged"]
    /\ UNCHANGED <<run, approvals, tasks, sessions, call, worker,
                   bounds>>

EnqueueStart(c) ==
    /\ client[c].at = "logged"
    /\ \E agent \in AgentsOf(FirstState(WorkflowOf[client[c].run])) :
          AddTask(client[c].run, agent)
    /\ client' = [client EXCEPT ![c] = IdleClient]
    /\ UNCHANGED <<run, approvals, sessions, log, call, worker,
                   bounds>>

HasPendingTask(r) == \E row \in PendingTasks : row[1] = r

(* Who sends approvals, and when.  The route itself checks only that the   *)
(* run exists and the gate is one of the two; how it is used is the        *)
(* operator's choice:                                                      *)
(*   any      any request at any time (curl, a script, several users);     *)
(*   board    the Approve button, shown while the card is in the gate's    *)
(*            column; also what the dev_seed scripts do;                   *)
(*   patient  as board, but once per gate and only when the run's agents   *)
(*            have nothing left to do.                                     *)
MayApprove(r, gate) ==
    /\ Exists(r)
    /\ Operator # "any" => run[r].state = gate
    /\ Operator = "patient" =>
          /\ <<r, gate>> \notin approvals
          /\ ~HasPendingTask(r)
          /\ \A a \in Actors : call[a].run # r

(* An approval that leaves the run where it is.                            *)
ApproveGateOnly(c, r, gate) ==
    /\ Free(c)
    /\ requests < MaxRequests
    /\ MayApprove(r, gate)
    /\ approvals' = approvals \cup {<<r, gate>>}
    /\ requests' = requests + 1
    /\ UNCHANGED <<run, tasks, sessions, log, call, worker, client, crashes>>

(* POST /workflows/{id}/gates/{gate}/approve: insert the approval, advance *)
ApproveGate(c, r, gate) ==
    /\ Free(c)
    /\ requests < MaxRequests
    /\ MayApprove(r, gate)
    /\ approvals' = approvals \cup {<<r, gate>>}
    /\ call' = [call EXCEPT ![c] = Advancing(r)]
    /\ requests' = requests + 1
    /\ UNCHANGED <<run, tasks, sessions, log, worker, client,
                   crashes>>

(* POST /workflows/{id}/advance: the row read on arrival is the one advance *)
(* decides on.                                                             *)
AdvanceWorkflow(c, r) ==
    /\ Free(c)
    /\ requests < MaxRequests
    /\ Operator = "any" /\ Exists(r)
    /\ call' = [call EXCEPT ![c] = Verdict(r)]
    /\ requests' = requests + 1
    /\ UNCHANGED <<store, worker, client, crashes>>

-----------------------------------------------------------------------------
(* The agent worker: one process, one task at a time.                      *)

TheRun   == worker.row[1]
TheAgent == worker.row[2]

(* A queue that acknowledges its tasks when it hands them out.             *)
FetchTasksAcknowledging ==
    /\ worker.at = "polling"
    /\ PendingTasks # {}
    /\ worker' = [worker EXCEPT !.at = "batch", !.batch = PendingTasks]
    /\ tasks' = [r \in Runs |-> [a \in Agents |->
                    [k \in DOMAIN tasks[r][a] |->
                        IF <<r, a, k>> \in PendingTasks
                        THEN "completed" ELSE tasks[r][a][k]]]]
    /\ UNCHANGED <<run, approvals, sessions, log, call, client, bounds>>

(* One batch: every task that is pending now.  The SELECT has no ORDER BY, *)
(* so the tasks of a batch are taken in any order.                         *)
FetchTasks ==
    /\ worker.at = "polling"
    /\ PendingTasks # {}
    /\ worker' = [worker EXCEPT !.at = "batch", !.batch = PendingTasks]
    /\ UNCHANGED <<store, call, client, bounds>>

(* The status of the task is committed and the loop goes on with the rest  *)
(* of the batch, or polls again.                                           *)
Finish(row, status) ==
    /\ tasks' = [tasks EXCEPT ![row[1]][row[2]][row[3]] = status]
    /\ worker' = [IdleWorker EXCEPT
                     !.at = IF worker.batch = {row} THEN "polling" ELSE "batch",
                     !.batch = worker.batch \ {row}]

(* run_task: the idempotency guard returns early if the agent has a        *)
(* session in this run, whatever became of it ...                          *)
SkipTask(row) ==
    /\ worker.at = "batch" /\ row \in worker.batch
    /\ sessions[row[1]][row[2]] # <<>>
    /\ Finish(row, "completed")
    /\ UNCHANGED <<run, approvals, sessions, log, call, client,
                   bounds>>

(* The same start without the guard.                                       *)
StartTaskAgain(row) ==
    /\ worker.at = "batch" /\ row \in worker.batch
    /\ sessions' = [sessions EXCEPT ![row[1]][row[2]] = Append(@, "running")]
    /\ worker' = [worker EXCEPT !.at = "handler", !.row = row]
    /\ UNCHANGED <<run, approvals, tasks, log, call, client, bounds>>

(* ... otherwise the session is inserted and the handler of the agent's    *)
(* state starts.  Neither the run's status nor its state is looked at.     *)
StartTask(row) ==
    /\ worker.at = "batch" /\ row \in worker.batch
    /\ sessions[row[1]][row[2]] = <<>>
    /\ sessions' = [sessions EXCEPT ![row[1]][row[2]] = Append(@, "running")]
    /\ worker' = [worker EXCEPT !.at = "handler", !.row = row]
    /\ UNCHANGED <<run, approvals, tasks, log, call, client,
                   bounds>>

(* The session row of the task the worker is on: the last one inserted.    *)
SetSession(status) ==
    sessions' = [sessions EXCEPT ![TheRun][TheAgent] =
                                    [@ EXCEPT ![Len(@)] = status]]

(* The handler raises: a runner job failed or timed out.  What the handler *)
(* of an agent does until then is the subject of module AgentHandlers.     *)
HandlerFails ==
    /\ worker.at = "handler"
    /\ SetSession("failed")
    /\ worker' = [worker EXCEPT !.at = "failing"]
    /\ UNCHANGED <<run, approvals, tasks, log, call, client,
                   bounds>>

(* fail_workflow: the status by primary key, then the error event.         *)
FailWorkflow ==
    /\ worker.at = "failing"
    /\ run' = [run EXCEPT ![TheRun].status = "failed"]
    /\ worker' = [worker EXCEPT !.at = "reporting"]
    /\ UNCHANGED <<approvals, tasks, sessions, log, call, client,
                   bounds>>

ReportError ==
    /\ worker.at = "reporting"
    /\ Log(TheRun, Error)
    /\ worker' = [worker EXCEPT !.at = "finishing", !.outcome = "failed"]
    /\ UNCHANGED <<run, approvals, tasks, sessions, call, client,
                   bounds>>

(* mark_agent_complete as its comment warns against: it calls advance()    *)
(* and the event's consumer calls it once more.                            *)
MarkAgentCompleteAdvancing ==
    /\ worker.at = "handler"
    /\ SetSession("completed")
    /\ worker' = [worker EXCEPT !.at = "completing"]
    /\ call' = [call EXCEPT ![Worker] = Advancing(TheRun)]
    /\ UNCHANGED <<run, approvals, tasks, log, client, bounds>>

(* mark_agent_complete: the session, then the agent_completed event, whose *)
(* consumer calls advance() before the worker goes on.                     *)
MarkAgentComplete ==
    /\ worker.at = "handler"
    /\ SetSession("completed")
    /\ worker' = [worker EXCEPT !.at = "completing"]
    /\ UNCHANGED <<run, approvals, tasks, log, call, client,
                   bounds>>

EmitCompleted ==
    /\ worker.at = "completing"
    /\ call' = [call EXCEPT ![Worker] = Advancing(TheRun)]
    /\ worker' = [worker EXCEPT !.at = "finishing", !.outcome = "completed"]
    /\ UNCHANGED <<store, client, bounds>>

(* Only now, when run_task has returned or raised, does the task leave     *)
(* "pending".                                                              *)
FinishTask ==
    /\ worker.at = "finishing" /\ call[Worker].at = "none"
    /\ Finish(worker.row, worker.outcome)
    /\ UNCHANGED <<run, approvals, sessions, log, call, client,
                   bounds>>

WorkerStep ==
    \/ FetchTasks
    \/ \E row \in worker.batch : SkipTask(row) \/ StartTask(row)
    \/ HandlerFails
    \/ FailWorkflow \/ ReportError
    \/ MarkAgentComplete \/ EmitCompleted
    \/ FinishTask
    \/ AdvanceStep(Worker)

-----------------------------------------------------------------------------
(* Crashes: a process loses its position, the store keeps what is there.   *)

WorkerCrash ==
    /\ crashes < MaxCrashes /\ worker.at # "polling"
    /\ worker' = IdleWorker
    /\ call' = [call EXCEPT ![Worker] = NoCall]
    /\ crashes' = crashes + 1
    /\ UNCHANGED <<store, client, requests>>

ApiCrash ==
    /\ crashes < MaxCrashes /\ \E c \in Clients : ~Free(c)
    /\ client' = [c \in Clients |-> IdleClient]
    /\ call' = [a \in Actors |-> IF a \in Clients THEN NoCall ELSE call[a]]
    /\ crashes' = crashes + 1
    /\ UNCHANGED <<store, worker, requests>>

-----------------------------------------------------------------------------

(* The steps of a request the API has accepted.                            *)
ClientStep(c) ==
    \/ LogStart(c) \/ EnqueueStart(c)
    \/ AdvanceStep(c)

Request(c) ==
    \E r \in Runs :
       \/ CreateRun(c, r)
       \/ AdvanceWorkflow(c, r)
       \/ \E gate \in GatedStates : ApproveGate(c, r, gate)

Next ==
    \/ WorkerStep
    \/ \E c \in Clients : ClientStep(c) \/ Request(c)
    \/ WorkerCrash
    \/ ApiCrash

Spec == Init /\ [][Next]_vars

(* The worker and the threads of the API keep running: nothing in the code *)
(* waits for another process except for the store's lock and for the       *)
(* runner, which answers or times out.                                     *)
ServiceFairness ==
    /\ WF_vars(WorkerStep)
    /\ \A c \in Clients : WF_vars(ClientStep(c))

(* The operator eventually approves a gate that stays open for approval.   *)
OperatorFairness ==
    \A r \in Runs, gate \in GatedStates :
        WF_vars(\E c \in Clients : ApproveGate(c, r, gate))

FairSpec == Spec /\ ServiceFairness /\ OperatorFairness

-----------------------------------------------------------------------------
(* Types.                                                                  *)

RunTable ==
    [Runs -> [status : {"absent", "running", "succeeded", "failed"},
              state  : States \cup {NoState}]]
TaskTable ==
    [Runs -> [Agents -> Seq({"pending", "completed", "failed"})]]
SessionTable ==
    [Runs -> [Agents -> Seq({"running", "completed", "failed"})]]
Entries ==
    [type : {"state_transition", "error"},
     from : States \cup {NoState}, to : States \cup {NoState}]
EventTable ==
    [Runs -> Seq(Entries)]
Calls ==
    [at   : {"none", "decide", "write", "enqueue", "succeed"},
     run  : Runs \cup {NoRun},
     from : States \cup {NoState}, to : States \cup {NoState}]
WorkerStates ==
    [at : {"polling", "batch", "handler", "failing", "reporting",
           "completing", "finishing"},
     batch : SUBSET (Runs \X Agents \X Nat),
     row : (Runs \X Agents \X Nat) \cup {NoRow},
     outcome : {NoState, "completed", "failed"}]
ClientStates ==
    [at : {"idle", "created", "logged"}, run : Runs \cup {NoRun}]

(* The type of the state.                                                  *)
TypeOK ==
    /\ run \in RunTable
    /\ \A r \in Runs : Exists(r) <=> run[r].state # NoState
    /\ approvals \subseteq Runs \X GatedStates
    /\ tasks \in TaskTable
    /\ sessions \in SessionTable
    /\ log \in EventTable
    /\ call \in [Actors -> Calls]
    /\ worker \in WorkerStates
    /\ client \in [Clients -> ClientStates]
    /\ requests \in 0..MaxRequests
    /\ crashes \in 0..MaxCrashes

-----------------------------------------------------------------------------
(* Safety.                                                                 *)

Moves(r)   == {i \in DOMAIN log[r] : log[r][i].from # NoState}
Entered(r) == {log[r][i].to : i \in DOMAIN log[r]} \ {NoState}
Done(r, agent, status) ==
    \E k \in DOMAIN sessions[r][agent] : sessions[r][agent][k] = status

(* No run shows a state behind a gate, and no agent whose state lies       *)
(* behind it is enqueued or started, unless the gate was approved: neither *)
(* stale reads, early or repeated approvals, POST /advance nor a crash get *)
(* an agent past a human.                                                  *)
GatesRespected ==
    \A r \in Runs, gate \in GatedStates :
        <<r, gate>> \notin approvals =>
            LET behind == Beyond(WorkflowOf[r], gate)
            IN  /\ run[r].state \notin behind
                /\ \A agent \in Agents : StateOfAgent[agent] \in behind =>
                      tasks[r][agent] = <<>> /\ sessions[r][agent] = <<>>

(* An agent runs at most once in a run, although its task may be enqueued  *)
(* twice by racing transitions and is taken again after a crash.           *)
OneSessionPerAgent ==
    \A r \in Runs, agent \in Agents : Len(sessions[r][agent]) <= 1

(* A task is enqueued only for a state the run has logged an entry into.   *)
TasksFollowLog ==
    \A r \in Runs, agent \in Agents :
        tasks[r][agent] # <<>> => StateOfAgent[agent] \in Entered(r)

(* The verdict on a run is backed by the log and by the sessions: a run is *)
(* reported as succeeded only after it entered DONE, as failed only after  *)
(* one of its agents failed, and has an error event only if it was failed. *)
VerdictHasCause ==
    \A r \in Runs :
        /\ run[r].status = "succeeded" => "DONE" \in Entered(r)
        /\ (\/ run[r].status = "failed"
            \/ \E k \in DOMAIN log[r] : log[r][k].type = "error") =>
              \E agent \in Agents : Done(r, agent, "failed")

(* A crash loses no task: a task leaves "pending" only when its agent has  *)
(* had its session, and never comes back.                                  *)
TasksAreKept ==
    [][\A row \in Rows :
          LET was == tasks[row[1]][row[2]][row[3]]
          IN  tasks'[row[1]][row[2]][row[3]] # was =>
                  was = "pending" /\ sessions[row[1]][row[2]] # <<>>]_tasks

-----------------------------------------------------------------------------
(* Refinement: the engine keeps the promise of WorkflowPromise.            *)

(* The states a run has been in: the one its row was inserted with, and    *)
(* those of its log.                                                       *)
Trail(r) ==
    IF Exists(r) THEN {FirstState(WorkflowOf[r])} \cup Entered(r) ELSE {}

Promise == INSTANCE WorkflowPromise WITH
    reached  <- [r \in Runs |-> Trail(r)],
    granted  <- approvals,
    launches <- [r \in Runs |-> [a \in Agents |-> Len(sessions[r][a])]],
    broken   <- [r \in Runs |-> {a \in Agents : Done(r, a, "failed")}],
    verdict  <- [r \in Runs |-> IF Exists(r) THEN run[r].status ELSE "none"]

(* Every step of the engine is a step of the promise, or none of it.       *)
KeepsPromise == Promise!Spec

-----------------------------------------------------------------------------
(* Liveness, and what the documents say beyond it.                         *)

(* Every run that is created reaches a verdict.                            *)
RunsReachVerdict ==
    \A r \in Runs : run[r].status = "running" ~>
                        run[r].status \in {"succeeded", "failed"}

(* agent_operating_model.md: DONE records the pull request, so a run is    *)
(* reported as succeeded only when every agent of its graph has completed. *)
SucceededMeansAllAgentsDone ==
    \A r \in Runs : run[r].status = "succeeded" =>
        \A agent \in Agents :
            StateOfAgent[agent] \in DOMAIN WorkflowGraph(WorkflowOf[r]) =>
                Done(r, agent, "completed")

(* system_data_model.md: replaying the moves in order, each is valid in    *)
(* the state the ones before it lead to.                                   *)
ReplayIsValid ==
    \A r \in Runs : \A i, j \in Moves(r) :
        (i < j /\ \A k \in Moves(r) : k <= i \/ j <= k) =>
            log[r][j].from = log[r][i].to
=============================================================================
