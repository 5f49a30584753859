------------------------- MODULE OrchestratorProofs -------------------------
(***************************************************************************)
(* Safety properties of module Orchestrator, for every set of runs and     *)
(* clients, every operator and any number of requests and crashes: no run  *)
(* and no agent gets past a gate that was not approved, no agent runs      *)
(* twice in a run, a task is enqueued only for a state the log shows the   *)
(* run entered, a verdict is given only for a cause in the log or the      *)
(* sessions, and a task that was enqueued is kept; and the engine          *)
(* implements WorkflowPromise.                                             *)
(*                                                                         *)
(* GatesRespected is not inductive: a call that has read a state and is    *)
(* about to write its successor carries what it decided over the steps of  *)
(* the others.  GateInv therefore says of every state in sight - shown by  *)
(* a run, owned by an agent with a task or a session, or held in the       *)
(* locals of a call - that it is cleared; approvals are never withdrawn,   *)
(* so what is cleared stays so.                                            *)
(*                                                                         *)
(* Nor are TasksFollowLog and VerdictHasCause.  Between the commit of a    *)
(* move and what follows from it the log has to be remembered with the     *)
(* locals of the process in between (CallsLogged, ClientsLogged), and      *)
(* between the failure of a session and the failure of its run with the    *)
(* position of the worker (WorkerCaused).                                  *)
(***************************************************************************)
EXTENDS Orchestrator, SequenceTheorems, TLAPS

-----------------------------------------------------------------------------
(***************************************************************************)
(* The type invariant of module Orchestrator, together with what the       *)
(* position of a process says about its locals and the store: a process in *)
(* the middle of a call is working on a run that exists, the worker is on  *)
(* a task that is still pending and whose agent has a session.  TypeOK     *)
(* alone is not inductive: a write by a process whose locals name no run   *)
(* would leave the tables.                                                 *)
(***************************************************************************)

(* Facts about the workflow graphs, so that the proofs need not look       *)
(* inside a graph.                                                         *)

(* What a lookup in a graph yields is a state, or None.                    *)
LEMMA SuccessorType ==
    ASSUME NEW name \in WorkflowNames, NEW s
    PROVE  Successor(name, s) \in States \cup {NoState}
BY SMT DEF Successor, WorkflowGraph, States, TicketGraph, ProvisioningGraph,
           NoState

(* None is no state, and no graph starts in None.                          *)
LEMMA StatesNamed ==
    /\ NoState \notin States
    /\ \A name \in WorkflowNames : FirstState(name) \in States
BY SMT DEF States, TicketGraph, ProvisioningGraph, NoState, FirstState,
           WorkflowNames

(* The only way behind a gate leads out of the gate: the successor of a    *)
(* state lies behind a gate only if the state does or is the gate.         *)
LEMMA GatesGuard ==
    ASSUME NEW name \in WorkflowNames, NEW gate \in GatedStates, NEW s,
           Successor(name, s) \in Beyond(name, gate)
    PROVE  s \in Beyond(name, gate) \cup {gate}
BY SMT DEF Successor, WorkflowGraph, Beyond, GatedStates, TicketGraph,
           ProvisioningGraph, NoState, WorkflowNames

(* No run is created behind a gate, and None lies behind none.             *)
LEMMA NothingStartsBeyond ==
    ASSUME NEW name \in WorkflowNames, NEW gate \in GatedStates
    PROVE  FirstState(name) \notin Beyond(name, gate)
           /\ NoState \notin Beyond(name, gate)
BY SMT DEF FirstState, Beyond, GatedStates, NoState, WorkflowNames

(* The agents a state starts are those whose state it is.                  *)
LEMMA AgentsOfState ==
    ASSUME NEW s, NEW agent \in AgentsOf(s)
    PROVE  agent \in Agents /\ StateOfAgent[agent] = s
BY DEF AgentsOf

-----------------------------------------------------------------------------

RunsOK ==
    /\ run \in RunTable
    /\ \A r \in Runs : Exists(r) <=> run[r].state # NoState

TasksOK ==
    /\ tasks \in TaskTable
    /\ \A r \in Runs, agent \in Agents : tasks[r][agent] # <<>> => Exists(r)

CallsOK ==
    /\ call \in [Actors -> Calls]
    /\ \A a \in Actors : call[a].at # "none" =>
          call[a].run \in Runs /\ Exists(call[a].run)
    /\ \A a \in Actors : call[a].at \in {"write", "enqueue", "succeed"} =>
          call[a].to \in States

ClientsOK ==
    /\ client \in [Clients -> ClientStates]
    /\ \A c \in Clients : client[c].at # "idle" =>
          client[c].run \in Runs /\ Exists(client[c].run)

IsPending(row) ==
    /\ row[3] \in DOMAIN tasks[row[1]][row[2]]
    /\ tasks[row[1]][row[2]][row[3]] = "pending"

WorkerOK ==
    /\ worker \in WorkerStates
    /\ \A row \in worker.batch : IsPending(row)
    /\ worker.at \notin {"polling", "batch"} =>
          worker.row \in worker.batch /\ sessions[TheRun][TheAgent] # <<>>
    /\ worker.at = "finishing" => worker.outcome \in {"completed", "failed"}

TypeInv ==
    /\ RunsOK
    /\ approvals \subseteq Runs \X GatedStates
    /\ TasksOK
    /\ sessions \in SessionTable
    /\ log \in EventTable
    /\ CallsOK
    /\ ClientsOK
    /\ WorkerOK
    /\ requests \in 0..MaxRequests
    /\ crashes \in 0..MaxCrashes

LEMMA TypeInvImpliesTypeOK == TypeInv => TypeOK
BY DEF TypeInv, TypeOK, RunsOK, TasksOK, CallsOK, ClientsOK, WorkerOK

-----------------------------------------------------------------------------
(* What the writes to one table preserve.                                  *)

RunsGrow == \A r \in Runs : Exists(r) => Exists(r)'

(* No task disappears and no status changes, and no session disappears.    *)
RowsKept ==
    /\ \A r \in Runs, agent \in Agents : \A k \in DOMAIN tasks[r][agent] :
          /\ k \in DOMAIN tasks'[r][agent]
          /\ tasks'[r][agent][k] = tasks[r][agent][k]
    /\ \A r \in Runs, agent \in Agents :
          sessions[r][agent] # <<>> => sessions'[r][agent] # <<>>

LEMMA CallsFramed ==
    ASSUME CallsOK, RunsGrow, UNCHANGED call  PROVE CallsOK'
BY DEF CallsOK, RunsGrow

LEMMA ClientsFramed ==
    ASSUME ClientsOK, RunsGrow, UNCHANGED client  PROVE ClientsOK'
BY DEF ClientsOK, RunsGrow

LEMMA TasksFramed ==
    ASSUME TasksOK, RunsGrow, UNCHANGED tasks  PROVE TasksOK'
BY DEF TasksOK, RunsGrow

LEMMA WorkerFramed ==
    ASSUME WorkerOK, RowsKept, UNCHANGED worker  PROVE WorkerOK'
BY DEF WorkerOK, RowsKept, IsPending, WorkerStates, TheRun, TheAgent

LEMMA RowsUntouched ==
    ASSUME UNCHANGED <<tasks, sessions>>  PROVE RowsKept
BY DEF RowsKept

LEMMA RunsUntouched ==
    ASSUME RunsOK, UNCHANGED run  PROVE RunsOK' /\ RunsGrow
BY DEF RunsOK, RunsGrow, Exists

LEMMA StateWritten ==
    ASSUME RunsOK, NEW r \in Runs, Exists(r), NEW s \in States,
           run' = [run EXCEPT ![r].state = s]
    PROVE  /\ RunsOK' /\ RunsGrow
           /\ \A q \in Runs : run'[q].status = run[q].status
           /\ run'[r].state = s
           /\ \A q \in Runs \ {r} : run'[q] = run[q]
BY StatesNamed DEF RunsOK, RunTable, Exists, RunsGrow

LEMMA StatusWritten ==
    ASSUME RunsOK, NEW r \in Runs, Exists(r), NEW s \in {"succeeded", "failed"},
           run' = [run EXCEPT ![r].status = s]
    PROVE  /\ RunsOK' /\ RunsGrow
           /\ \A q \in Runs : run'[q].state = run[q].state
           /\ run'[r].status = s
           /\ \A q \in Runs \ {r} : run'[q] = run[q]
BY StatesNamed DEF RunsOK, RunTable, Exists, RunsGrow

LEMMA Logged ==
    ASSUME log \in EventTable, NEW r \in Runs, NEW e \in Entries, Log(r, e)
    PROVE  /\ log' \in EventTable
           /\ log'[r] = Append(log[r], e)
           /\ \A q \in Runs \ {r} : log'[q] = log[q]
BY DEF EventTable, Log

LEMMA EntriesTyped ==
    ASSUME NEW s \in States \cup {NoState}, NEW t \in States \cup {NoState}
    PROVE  Move(s, t) \in Entries /\ Error \in Entries
BY DEF Move, Error, Entries

(* A write of the last element of a sequence keeps its length.             *)
LEMMA LastWritten ==
    ASSUME NEW S, NEW seq \in Seq(S), seq # <<>>, NEW e \in S
    PROVE  /\ [seq EXCEPT ![Len(seq)] = e] \in Seq(S)
           /\ Len([seq EXCEPT ![Len(seq)] = e]) = Len(seq)
           /\ [seq EXCEPT ![Len(seq)] = e][Len(seq)] = e
BY ExceptSeq

LEMMA TaskAdded ==
    ASSUME TasksOK, NEW r \in Runs, Exists(r), NEW agent \in Agents,
           AddTask(r, agent), UNCHANGED <<run, sessions>>
    PROVE  TasksOK' /\ RowsKept
<1>1. TasksOK'
  BY DEF TasksOK, TaskTable, AddTask, Exists
<1>2. RowsKept
  BY DEF TasksOK, TaskTable, AddTask, RowsKept
<1>. QED BY <1>1, <1>2

(* Finish takes the task, which is pending, out of the batch.              *)
LEMMA TaskFinished ==
    ASSUME TasksOK, WorkerOK, NEW row \in worker.batch,
           NEW s \in {"completed", "failed"}, Finish(row, s), UNCHANGED run
    PROVE  /\ TasksOK' /\ WorkerOK'
           /\ \A r \in Runs, agent \in Agents :
                 Len(tasks'[r][agent]) = Len(tasks[r][agent])
<1> DEFINE r == row[1]  agent == row[2]  k == row[3]
           t == [tasks[r][agent] EXCEPT ![k] = s]
<1>1. row \in Runs \X Agents \X Nat /\ k \in DOMAIN tasks[r][agent]
  BY DEF WorkerOK, WorkerStates, IsPending
<1>2. tasks[r][agent] \in Seq({"pending", "completed", "failed"})
  BY <1>1 DEF TasksOK, TaskTable
<1>3. /\ t \in Seq({"pending", "completed", "failed"})
      /\ Len(t) = Len(tasks[r][agent])
      /\ \A i \in DOMAIN tasks[r][agent] \ {k} : t[i] = tasks[r][agent][i]
  BY <1>1, <1>2, ExceptSeq
<1>4. tasks' = [tasks EXCEPT ![r] = [tasks[r] EXCEPT ![agent] = t]]
  BY DEF Finish
<1>5. /\ tasks' \in TaskTable
      /\ \A q \in Runs, b \in Agents : Len(tasks'[q][b]) = Len(tasks[q][b])
  BY <1>1, <1>3, <1>4 DEF TasksOK, TaskTable
<1>6. TasksOK'
  BY <1>5 DEF TasksOK, TaskTable, Exists
<1>7. \A other \in worker.batch \ {row} : IsPending(other)'
  <2> SUFFICES ASSUME NEW other \in worker.batch \ {row} PROVE IsPending(other)'
    OBVIOUS
  <2>1. other \in Runs \X Agents \X Nat /\ IsPending(other)
    BY DEF WorkerOK, WorkerStates
  <2>2. CASE other[1] = r /\ other[2] = agent
    <3>1. other[3] # k
      BY <1>1, <2>1, <2>2
    <3>2. tasks'[other[1]][other[2]] = t
      BY <1>1, <1>4, <2>2 DEF TasksOK, TaskTable
    <3>. QED BY <1>3, <2>1, <2>2, <3>1, <3>2 DEF IsPending
  <2>3. CASE ~(other[1] = r /\ other[2] = agent)
    BY <1>1, <1>4, <2>1, <2>3 DEF IsPending, TasksOK, TaskTable
  <2>. QED BY <2>2, <2>3
<1>8. /\ worker'.batch = worker.batch \ {row}
      /\ worker'.at \in {"polling", "batch"}
      /\ worker' \in WorkerStates
  BY DEF Finish, IdleWorker, NoRow, WorkerOK, WorkerStates
<1>9. WorkerOK'
  BY <1>7, <1>8 DEF WorkerOK
<1>. QED BY <1>5, <1>6, <1>9

LEMMA SessionWritten ==
    ASSUME sessions \in SessionTable, WorkerOK,
           worker.at \notin {"polling", "batch"},
           NEW s \in {"completed", "failed"}, SetSession(s), UNCHANGED tasks
    PROVE  /\ sessions' \in SessionTable
           /\ RowsKept
           /\ \A r \in Runs, agent \in Agents :
                 Len(sessions'[r][agent]) = Len(sessions[r][agent])
<1> DEFINE old == sessions[TheRun][TheAgent]
           new == [old EXCEPT ![Len(old)] = s]
<1>1. TheRun \in Runs /\ TheAgent \in Agents /\ old # <<>>
  BY DEF WorkerOK, WorkerStates, TheRun, TheAgent
<1>2. old \in Seq({"running", "completed", "failed"})
  BY <1>1 DEF SessionTable
<1>3. new \in Seq({"running", "completed", "failed"}) /\ Len(new) = Len(old)
  BY <1>1, <1>2, LastWritten
<1>4. sessions' =
          [sessions EXCEPT ![TheRun] = [sessions[TheRun] EXCEPT ![TheAgent] = new]]
  BY DEF SetSession
<1>5. sessions' \in SessionTable
  BY <1>1, <1>3, <1>4 DEF SessionTable
<1>6. \A r \in Runs, agent \in Agents :
          Len(sessions'[r][agent]) = Len(sessions[r][agent])
  BY <1>1, <1>3, <1>4 DEF SessionTable
<1>7. RowsKept
  BY <1>5, <1>6 DEF RowsKept, SessionTable
<1>. QED BY <1>5, <1>6, <1>7

(* A verdict to go on names a running run and the state to write.          *)
LEMMA VerdictTyped ==
    ASSUME RunsOK, NEW r \in Runs
    PROVE  /\ Verdict(r) \in Calls
           /\ Verdict(r).at \in {"none", "write"}
           /\ Verdict(r).at = "write" =>
                 /\ MayAdvance(r) /\ Exists(r)
                 /\ Verdict(r).run = r
                 /\ Verdict(r).from = run[r].state
                 /\ Verdict(r).to = Successor(WorkflowOf[r], run[r].state)
                 /\ Verdict(r).to \in States
<1>1. Successor(WorkflowOf[r], run[r].state) \in States \cup {NoState}
  BY SuccessorType, OrchestratorAssumption
<1>2. run[r].state \in States \cup {NoState}
  BY DEF RunsOK, RunTable
<1>. QED BY <1>1, <1>2 DEF Verdict, MayAdvance, Calls, NoCall, Exists, NoState
-----------------------------------------------------------------------------
(* Orchestrator.advance                                                    *)

LEMMA DecideTyped ==
    ASSUME TypeInv, NEW a \in Actors, Decide(a)  PROVE TypeInv'
<1> DEFINE r == call[a].run
<1>1. r \in Runs
  BY DEF TypeInv, CallsOK, Decide
<1>2. RunsOK' /\ RunsGrow /\ RowsKept
  BY RunsUntouched, RowsUntouched DEF TypeInv, Decide, store
<1>3. CallsOK'
  <2>1. call' = [call EXCEPT ![a] = Verdict(r)]
    BY DEF Decide
  <2>2. run' = run
    BY DEF Decide, store
  <2>. QED BY <1>1, <2>1, <2>2, VerdictTyped DEF TypeInv, CallsOK, Exists
<1>. QED
  BY <1>2, <1>3, ClientsFramed, TasksFramed, WorkerFramed
  DEF TypeInv, Decide, store, bounds

LEMMA TransitionTyped ==
    ASSUME TypeInv, NEW a \in Actors, Transition(a)  PROVE TypeInv'
<1> DEFINE r == call[a].run
           s == call[a].to
<1>1. /\ r \in Runs /\ Exists(r) /\ s \in States
      /\ call[a].from \in States \cup {NoState}
  BY DEF TypeInv, CallsOK, Calls, Transition
<1>2. RunsOK' /\ RunsGrow
  BY <1>1, StateWritten DEF TypeInv, Transition
<1>3. log' \in EventTable
  BY <1>1, Logged, EntriesTyped DEF TypeInv, Transition
<1>4. RowsKept
  BY RowsUntouched DEF Transition
<1>5. CallsOK'
  <2>1. \E at \in {"succeed", "enqueue"} :
           call' \in {[call EXCEPT ![a].at = at], [call EXCEPT ![a] = NoCall]}
    BY DEF Transition, TypeInv, CallsOK
  <2>. QED BY <1>1, <1>2, <2>1 DEF TypeInv, CallsOK, Calls, NoCall, RunsGrow
<1>. QED
  BY <1>2, <1>3, <1>4, <1>5, ClientsFramed, TasksFramed, WorkerFramed
  DEF TypeInv, Transition, bounds

LEMMA EnqueueTyped ==
    ASSUME TypeInv, NEW a \in Actors, Enqueue(a)  PROVE TypeInv'
<1>1. call[a].run \in Runs /\ Exists(call[a].run)
  BY DEF TypeInv, CallsOK, Enqueue
<1>2. PICK agent \in AgentsOf(call[a].to) : AddTask(call[a].run, agent)
  BY DEF Enqueue
<1>3. TasksOK' /\ RowsKept
  BY <1>1, <1>2, AgentsOfState, TaskAdded DEF TypeInv, Enqueue
<1>4. RunsOK' /\ RunsGrow
  BY RunsUntouched DEF TypeInv, Enqueue
<1>5. CallsOK'
  BY <1>4 DEF TypeInv, CallsOK, Calls, NoCall, Enqueue, RunsGrow
<1>. QED
  BY <1>3, <1>4, <1>5, ClientsFramed, WorkerFramed
  DEF TypeInv, Enqueue, bounds

LEMMA MarkSucceededTyped ==
    ASSUME TypeInv, NEW a \in Actors, MarkSucceeded(a)  PROVE TypeInv'
<1>1. call[a].run \in Runs /\ Exists(call[a].run)
  BY DEF TypeInv, CallsOK, MarkSucceeded
<1>2. RunsOK' /\ RunsGrow
  BY <1>1, StatusWritten DEF TypeInv, MarkSucceeded
<1>3. RowsKept
  BY RowsUntouched DEF MarkSucceeded
<1>4. CallsOK'
  BY <1>2 DEF TypeInv, CallsOK, Calls, NoCall, MarkSucceeded, RunsGrow
<1>. QED
  BY <1>2, <1>3, <1>4, ClientsFramed, TasksFramed, WorkerFramed
  DEF TypeInv, MarkSucceeded, bounds

LEMMA AdvanceStepTyped ==
    ASSUME TypeInv, NEW a \in Actors, AdvanceStep(a)  PROVE TypeInv'
BY DecideTyped, TransitionTyped, EnqueueTyped, MarkSucceededTyped
DEF AdvanceStep

-----------------------------------------------------------------------------
(* Request threads.                                                        *)

LEMMA CreateRunTyped ==
    ASSUME TypeInv, NEW c \in Clients, NEW r \in Runs, CreateRun(c, r)
    PROVE  TypeInv'
<1>1. FirstState(WorkflowOf[r]) \in States
  BY StatesNamed, OrchestratorAssumption
<1>2. RunsOK' /\ RunsGrow /\ Exists(r)'
  BY <1>1, StatesNamed
  DEF TypeInv, RunsOK, RunTable, RunsGrow, Exists, CreateRun
<1>3. ClientsOK'
  BY <1>2 DEF TypeInv, ClientsOK, ClientStates, CreateRun, RunsGrow
<1>4. RowsKept
  BY RowsUntouched DEF CreateRun
<1>. QED
  BY <1>2, <1>3, <1>4, CallsFramed, TasksFramed, WorkerFramed
  DEF TypeInv, CreateRun, bounds

LEMMA LogStartTyped ==
    ASSUME TypeInv, NEW c \in Clients, LogStart(c)  PROVE TypeInv'
<1>1. client[c].run \in Runs
  BY DEF TypeInv, ClientsOK, LogStart
<1>2. FirstState(WorkflowOf[client[c].run]) \in States
  BY <1>1, StatesNamed, OrchestratorAssumption
<1>3. log' \in EventTable
  BY <1>1, <1>2, Logged, EntriesTyped DEF TypeInv, LogStart
<1>4. RunsOK' /\ RunsGrow /\ RowsKept
  BY RunsUntouched, RowsUntouched DEF TypeInv, LogStart
<1>5. ClientsOK'
  BY <1>4 DEF TypeInv, ClientsOK, ClientStates, LogStart, RunsGrow
<1>. QED
  BY <1>3, <1>4, <1>5, CallsFramed, TasksFramed, WorkerFramed
  DEF TypeInv, LogStart, bounds

LEMMA EnqueueStartTyped ==
    ASSUME TypeInv, NEW c \in Clients, EnqueueStart(c)  PROVE TypeInv'
<1> DEFINE r == client[c].run
<1>1. r \in Runs /\ Exists(r)
  BY DEF TypeInv, ClientsOK, EnqueueStart
<1>2. PICK agent \in AgentsOf(FirstState(WorkflowOf[r])) : AddTask(r, agent)
  BY DEF EnqueueStart
<1>3. TasksOK' /\ RowsKept
  BY <1>1, <1>2, AgentsOfState, TaskAdded DEF TypeInv, EnqueueStart
<1>4. RunsOK' /\ RunsGrow
  BY RunsUntouched DEF TypeInv, EnqueueStart
<1>5. ClientsOK'
  BY <1>4 DEF TypeInv, ClientsOK, ClientStates, IdleClient, EnqueueStart, RunsGrow
<1>. QED
  BY <1>3, <1>4, <1>5, CallsFramed, WorkerFramed
  DEF TypeInv, EnqueueStart, bounds

LEMMA ApproveGateTyped ==
    ASSUME TypeInv, NEW c \in Clients, NEW r \in Runs, NEW gate \in GatedStates,
           ApproveGate(c, r, gate)
    PROVE  TypeInv'
<1>1. RunsOK' /\ RunsGrow /\ RowsKept
  BY RunsUntouched, RowsUntouched DEF TypeInv, ApproveGate
<1>2. CallsOK'
  BY <1>1 DEF TypeInv, CallsOK, Calls, NoCall, ApproveGate, MayApprove,
              Advancing, RunsGrow
<1>3. requests' \in 0..MaxRequests
  BY OrchestratorAssumption DEF TypeInv, ApproveGate
<1>4. approvals' \subseteq Runs \X GatedStates
  BY DEF TypeInv, ApproveGate
<1>. QED
  BY <1>1, <1>2, <1>3, <1>4, ClientsFramed, TasksFramed, WorkerFramed
  DEF TypeInv, ApproveGate

LEMMA AdvanceWorkflowTyped ==
    ASSUME TypeInv, NEW c \in Clients, NEW r \in Runs, AdvanceWorkflow(c, r)
    PROVE  TypeInv'
<1>1. RunsOK' /\ RunsGrow /\ RowsKept
  BY RunsUntouched, RowsUntouched DEF TypeInv, AdvanceWorkflow, store
<1>2. CallsOK'
  <2>1. call' = [call EXCEPT ![c] = Verdict(r)]
    BY DEF AdvanceWorkflow
  <2>. QED BY <1>1, <2>1, VerdictTyped DEF TypeInv, CallsOK, RunsGrow
<1>3. requests' \in 0..MaxRequests
  BY OrchestratorAssumption DEF TypeInv, AdvanceWorkflow
<1>. QED
  BY <1>1, <1>2, <1>3, ClientsFramed, TasksFramed, WorkerFramed
  DEF TypeInv, AdvanceWorkflow, store

-----------------------------------------------------------------------------
(* The agent worker.                                                       *)

LEMMA PendingTasksTyped ==
    ASSUME TypeInv
    PROVE  /\ PendingTasks \subseteq Runs \X Agents \X Nat
           /\ \A row \in PendingTasks : IsPending(row)
BY DEF PendingTasks, Rows, IsPending, TypeInv, TasksOK, TaskTable

LEMMA FetchTasksTyped == ASSUME TypeInv, FetchTasks  PROVE TypeInv'
<1>1. RunsOK' /\ RunsGrow
  BY RunsUntouched DEF TypeInv, FetchTasks, store
<1>2. UNCHANGED tasks
  BY DEF FetchTasks, store
<1>3. WorkerOK'
  BY <1>2, PendingTasksTyped DEF TypeInv, WorkerOK, WorkerStates, FetchTasks, IsPending
<1>. QED
  BY <1>1, <1>3, CallsFramed, ClientsFramed, TasksFramed
  DEF TypeInv, FetchTasks, store, bounds

LEMMA SkipTaskTyped ==
    ASSUME TypeInv, NEW row \in worker.batch, SkipTask(row)  PROVE TypeInv'
<1>1. RunsOK' /\ RunsGrow
  BY RunsUntouched DEF TypeInv, SkipTask
<1>2. TasksOK' /\ WorkerOK'
  BY TaskFinished DEF TypeInv, SkipTask
<1>. QED
  BY <1>1, <1>2, CallsFramed, ClientsFramed DEF TypeInv, SkipTask, bounds

LEMMA StartTaskTyped ==
    ASSUME TypeInv, NEW row \in worker.batch, StartTask(row)  PROVE TypeInv'
<1>1. row[1] \in Runs /\ row[2] \in Agents /\ row \in Runs \X Agents \X Nat
  BY DEF TypeInv, WorkerOK, WorkerStates
<1>2. RunsOK' /\ RunsGrow
  BY RunsUntouched DEF TypeInv, StartTask
<1>3. sessions' \in SessionTable /\ sessions'[row[1]][row[2]] # <<>>
  BY <1>1 DEF TypeInv, SessionTable, StartTask
<1>4. WorkerOK'
  BY <1>1, <1>3
  DEF TypeInv, WorkerOK, WorkerStates, StartTask, IsPending, TheRun, TheAgent
<1>. QED
  BY <1>2, <1>3, <1>4, CallsFramed, ClientsFramed, TasksFramed
  DEF TypeInv, StartTask, bounds

(* The steps that only move the worker on within the task it is on.        *)
LEMMA WorkerMoved ==
    ASSUME WorkerOK, RowsKept, worker.at \notin {"polling", "batch"},
           NEW at \in {"failing", "reporting", "completing", "finishing"},
           NEW outcome \in {NoState, "completed", "failed"},
           at = "finishing" => outcome # NoState,
           worker' = [worker EXCEPT !.at = at, !.outcome = outcome]
    PROVE  WorkerOK'
<1>1. worker \in WorkerStates /\ worker.row \in worker.batch
  BY DEF WorkerOK
<1>2. worker' \in WorkerStates
  BY <1>1 DEF WorkerStates
<1>3. /\ worker'.at = at /\ worker'.outcome = outcome
      /\ worker'.batch = worker.batch /\ worker'.row = worker.row
  BY <1>1 DEF WorkerStates
<1>4. \A row \in worker.batch : IsPending(row)'
  BY <1>1 DEF WorkerOK, WorkerStates, RowsKept, IsPending
<1>5. sessions'[TheRun][TheAgent] # <<>> /\ UNCHANGED <<TheRun, TheAgent>>
  BY <1>1, <1>3 DEF WorkerOK, WorkerStates, RowsKept, TheRun, TheAgent
<1>. QED BY <1>1, <1>2, <1>3, <1>4, <1>5 DEF WorkerOK, NoState

LEMMA HandlerFailsTyped == ASSUME TypeInv, HandlerFails  PROVE TypeInv'
<1>1. RunsOK' /\ RunsGrow
  BY RunsUntouched DEF TypeInv, HandlerFails
<1>2. sessions' \in SessionTable /\ RowsKept
  BY SessionWritten DEF TypeInv, HandlerFails
<1>3. WorkerOK'
  <2>1. worker' = [worker EXCEPT !.at = "failing", !.outcome = worker.outcome]
    BY DEF TypeInv, WorkerOK, WorkerStates, HandlerFails
  <2>2. worker.outcome \in {NoState, "completed", "failed"}
    BY DEF TypeInv, WorkerOK, WorkerStates
  <2>. QED BY <1>2, <2>1, <2>2, WorkerMoved DEF TypeInv, HandlerFails
<1>. QED
  BY <1>1, <1>2, <1>3, CallsFramed, ClientsFramed, TasksFramed
  DEF TypeInv, HandlerFails, bounds

LEMMA FailWorkflowTyped == ASSUME TypeInv, FailWorkflow  PROVE TypeInv'
<1>1. TheRun \in Runs /\ Exists(TheRun)
  <2>1. TheRun \in Runs /\ TheAgent \in Agents /\ IsPending(worker.row)
    BY DEF TypeInv, WorkerOK, WorkerStates, FailWorkflow, TheRun, TheAgent
  <2>. QED
    BY <2>1 DEF TypeInv, TasksOK, TaskTable, IsPending, TheRun, TheAgent
<1>2. RunsOK' /\ RunsGrow
  BY <1>1, StatusWritten DEF TypeInv, FailWorkflow
<1>3. RowsKept
  BY RowsUntouched DEF FailWorkflow
<1>4. WorkerOK'
  <2>1. worker' = [worker EXCEPT !.at = "reporting", !.outcome = worker.outcome]
    BY DEF TypeInv, WorkerOK, WorkerStates, FailWorkflow
  <2>2. worker.outcome \in {NoState, "completed", "failed"}
    BY DEF TypeInv, WorkerOK, WorkerStates
  <2>. QED BY <1>3, <2>1, <2>2, WorkerMoved DEF TypeInv, FailWorkflow
<1>. QED
  BY <1>2, <1>3, <1>4, CallsFramed, ClientsFramed, TasksFramed
  DEF TypeInv, FailWorkflow, bounds

LEMMA ReportErrorTyped == ASSUME TypeInv, ReportError  PROVE TypeInv'
<1>1. TheRun \in Runs
  BY DEF TypeInv, WorkerOK, WorkerStates, ReportError, TheRun
<1>2. log' \in EventTable
  BY <1>1, Logged, EntriesTyped DEF TypeInv, ReportError
<1>3. RunsOK' /\ RunsGrow /\ RowsKept
  BY RunsUntouched, RowsUntouched DEF TypeInv, ReportError
<1>4. WorkerOK'
  BY <1>3, WorkerMoved DEF TypeInv, ReportError, NoState
<1>. QED
  BY <1>2, <1>3, <1>4, CallsFramed, ClientsFramed, TasksFramed
  DEF TypeInv, ReportError, bounds

LEMMA MarkAgentCompleteTyped ==
    ASSUME TypeInv, MarkAgentComplete  PROVE TypeInv'
<1>1. RunsOK' /\ RunsGrow
  BY RunsUntouched DEF TypeInv, MarkAgentComplete
<1>2. sessions' \in SessionTable /\ RowsKept
  BY SessionWritten DEF TypeInv, MarkAgentComplete
<1>3. WorkerOK'
  <2>1. worker' = [worker EXCEPT !.at = "completing", !.outcome = worker.outcome]
    BY DEF TypeInv, WorkerOK, WorkerStates, MarkAgentComplete
  <2>2. worker.outcome \in {NoState, "completed", "failed"}
    BY DEF TypeInv, WorkerOK, WorkerStates
  <2>. QED BY <1>2, <2>1, <2>2, WorkerMoved DEF TypeInv, MarkAgentComplete
<1>. QED
  BY <1>1, <1>2, <1>3, CallsFramed, ClientsFramed, TasksFramed
  DEF TypeInv, MarkAgentComplete, bounds

LEMMA EmitCompletedTyped == ASSUME TypeInv, EmitCompleted  PROVE TypeInv'
<1>1. TheRun \in Runs /\ Exists(TheRun)
  <2>1. TheRun \in Runs /\ TheAgent \in Agents /\ IsPending(worker.row)
    BY DEF TypeInv, WorkerOK, WorkerStates, EmitCompleted, TheRun, TheAgent
  <2>. QED
    BY <2>1 DEF TypeInv, TasksOK, TaskTable, IsPending, TheRun, TheAgent
<1>2. RunsOK' /\ RunsGrow /\ RowsKept
  BY RunsUntouched, RowsUntouched DEF TypeInv, EmitCompleted, store
<1>3. CallsOK'
  BY <1>1, <1>2
  DEF TypeInv, CallsOK, Calls, NoCall, Advancing, EmitCompleted, RunsGrow
<1>4. WorkerOK'
  BY <1>2, WorkerMoved DEF TypeInv, EmitCompleted, NoState
<1>. QED
  BY <1>2, <1>3, <1>4, ClientsFramed, TasksFramed
  DEF TypeInv, EmitCompleted, store, bounds

LEMMA FinishTaskTyped == ASSUME TypeInv, FinishTask  PROVE TypeInv'
<1>1. RunsOK' /\ RunsGrow
  BY RunsUntouched DEF TypeInv, FinishTask
<1>2. worker.row \in worker.batch /\ worker.outcome \in {"completed", "failed"}
  BY DEF TypeInv, WorkerOK, FinishTask
<1>3. TasksOK' /\ WorkerOK'
  BY <1>2, TaskFinished DEF TypeInv, FinishTask
<1>. QED
  BY <1>1, <1>3, CallsFramed, ClientsFramed DEF TypeInv, FinishTask, bounds

LEMMA WorkerStepTyped == ASSUME TypeInv, WorkerStep  PROVE TypeInv'
BY FetchTasksTyped, SkipTaskTyped, StartTaskTyped, HandlerFailsTyped,
   FailWorkflowTyped, ReportErrorTyped, MarkAgentCompleteTyped,
   EmitCompletedTyped, FinishTaskTyped, AdvanceStepTyped
DEF WorkerStep, Actors

-----------------------------------------------------------------------------
(* Crashes.                                                                *)

LEMMA WorkerCrashTyped == ASSUME TypeInv, WorkerCrash  PROVE TypeInv'
<1>1. RunsOK' /\ RunsGrow
  BY RunsUntouched DEF TypeInv, WorkerCrash, store
<1>2. CallsOK'
  BY <1>1 DEF TypeInv, CallsOK, Calls, NoCall, WorkerCrash, RunsGrow
<1>3. WorkerOK'
  BY DEF TypeInv, WorkerOK, WorkerStates, IdleWorker, NoRow, WorkerCrash
<1>4. crashes' \in 0..MaxCrashes
  BY OrchestratorAssumption DEF TypeInv, WorkerCrash
<1>. QED
  BY <1>1, <1>2, <1>3, <1>4, ClientsFramed, TasksFramed
  DEF TypeInv, WorkerCrash, store

LEMMA ApiCrashTyped == ASSUME TypeInv, ApiCrash  PROVE TypeInv'
<1>1. RunsOK' /\ RunsGrow /\ RowsKept
  BY RunsUntouched, RowsUntouched DEF TypeInv, ApiCrash, store
<1>2. CallsOK'
  BY <1>1 DEF TypeInv, CallsOK, Calls, NoCall, ApiCrash, RunsGrow
<1>3. ClientsOK'
  BY DEF TypeInv, ClientsOK, ClientStates, IdleClient, ApiCrash
<1>4. crashes' \in 0..MaxCrashes
  BY OrchestratorAssumption DEF TypeInv, ApiCrash
<1>. QED
  BY <1>1, <1>2, <1>3, <1>4, TasksFramed, WorkerFramed
  DEF TypeInv, ApiCrash, store

-----------------------------------------------------------------------------

LEMMA InitTyped == Init => TypeInv
<1> SUFFICES ASSUME Init PROVE TypeInv
  OBVIOUS
<1>1. RunsOK
  BY DEF Init, RunsOK, RunTable, Exists, NoState
<1>2. TasksOK /\ sessions \in SessionTable /\ log \in EventTable
  BY DEF Init, TasksOK, TaskTable, SessionTable, EventTable
<1>3. CallsOK /\ ClientsOK
  BY DEF Init, CallsOK, Calls, NoCall, ClientsOK, ClientStates, IdleClient
<1>4. WorkerOK
  BY DEF Init, WorkerOK, WorkerStates, IdleWorker, NoRow
<1>. QED
  BY <1>1, <1>2, <1>3, <1>4, OrchestratorAssumption DEF Init, TypeInv

LEMMA NextTyped == TypeInv /\ [Next]_vars => TypeInv'
<1> SUFFICES ASSUME TypeInv, [Next]_vars  PROVE TypeInv'
  OBVIOUS
<1>1. CASE WorkerStep
  BY <1>1, WorkerStepTyped
<1>2. CASE \E c \in Clients : ClientStep(c)
  BY <1>2, LogStartTyped, EnqueueStartTyped, AdvanceStepTyped
  DEF ClientStep, Actors
<1>3. CASE \E c \in Clients : Request(c)
  BY <1>3, CreateRunTyped, AdvanceWorkflowTyped, ApproveGateTyped DEF Request
<1>4. CASE WorkerCrash \/ ApiCrash
  BY <1>4, WorkerCrashTyped, ApiCrashTyped
<1>5. CASE UNCHANGED vars
  <2>1. RunsOK' /\ RunsGrow /\ RowsKept
    BY <1>5, RunsUntouched, RowsUntouched DEF TypeInv, vars, store
  <2>. QED
    BY <1>5, <2>1, CallsFramed, ClientsFramed, TasksFramed, WorkerFramed
    DEF TypeInv, vars, store, bounds
<1>. QED BY <1>1, <1>2, <1>3, <1>4, <1>5 DEF Next

(* Type correctness: whatever requests, interleavings and crashes, every   *)
(* table and every process stays within its type, and exactly the runs     *)
(* that were created show a state of their graph.                          *)
THEOREM TypeCorrect == Spec => []TypeOK
<1>1. Spec => []TypeInv
  BY InitTyped, NextTyped, PTL DEF Spec
<1>. QED BY <1>1, TypeInvImpliesTypeOK, PTL

-----------------------------------------------------------------------------
Cleared(r, s) ==
    \A gate \in GatedStates :
        s \in Beyond(WorkflowOf[r], gate) => <<r, gate>> \in approvals

StatesCleared == \A r \in Runs : Cleared(r, run[r].state)

AgentsCleared ==
    \A r \in Runs, agent \in Agents :
        tasks[r][agent] # <<>> \/ sessions[r][agent] # <<>> =>
            Cleared(r, StateOfAgent[agent])

CallsCleared ==
    \A a \in Actors : call[a].at \in {"write", "enqueue", "succeed"} =>
        Cleared(call[a].run, call[a].to)

GateInv == StatesCleared /\ AgentsCleared /\ CallsCleared

LEMMA GateInvImpliesGatesRespected == GateInv => GatesRespected
BY DEF GateInv, StatesCleared, AgentsCleared, Cleared, GatesRespected

-----------------------------------------------------------------------------
(* What leaves the three parts of the invariant alone.                     *)

ApprovalsGrow == approvals \subseteq approvals'

LEMMA StaysCleared ==
    ASSUME ApprovalsGrow, NEW r, NEW s, Cleared(r, s)  PROVE Cleared(r, s)'
BY DEF Cleared, ApprovalsGrow

LEMMA StatesFramed ==
    ASSUME StatesCleared, ApprovalsGrow,
           \A r \in Runs : run'[r].state = run[r].state
    PROVE  StatesCleared'
BY DEF StatesCleared, Cleared, ApprovalsGrow

LEMMA AgentsFramed ==
    ASSUME AgentsCleared, ApprovalsGrow,
           \A r \in Runs, agent \in Agents :
              /\ tasks'[r][agent] # <<>> => tasks[r][agent] # <<>>
              /\ sessions'[r][agent] # <<>> => sessions[r][agent] # <<>>
    PROVE  AgentsCleared'
BY DEF AgentsCleared, Cleared, ApprovalsGrow

LEMMA CallsKeptCleared ==
    ASSUME CallsCleared, ApprovalsGrow, UNCHANGED call  PROVE CallsCleared'
BY DEF CallsCleared, Cleared, ApprovalsGrow

(* A call that decides to go on has looked at the gate.                    *)
LEMMA VerdictCleared ==
    ASSUME TypeInv, StatesCleared, NEW r \in Runs, Verdict(r).at = "write"
    PROVE  Cleared(r, Verdict(r).to)
<1>1. /\ ~GateIsPending(r)
      /\ Verdict(r).to = Successor(WorkflowOf[r], run[r].state)
  BY VerdictTyped DEF TypeInv, MayAdvance
<1>. SUFFICES ASSUME NEW gate \in GatedStates,
                     Verdict(r).to \in Beyond(WorkflowOf[r], gate)
              PROVE  <<r, gate>> \in approvals
  BY DEF Cleared
<1>2. run[r].state \in Beyond(WorkflowOf[r], gate) \cup {gate}
  BY <1>1, GatesGuard, OrchestratorAssumption
<1>3. CASE run[r].state = gate
  BY <1>1, <1>3 DEF GateIsPending
<1>4. CASE run[r].state \in Beyond(WorkflowOf[r], gate)
  BY <1>4 DEF StatesCleared, Cleared
<1>. QED BY <1>2, <1>3, <1>4

LEMMA FirstStateCleared ==
    ASSUME NEW r \in Runs  PROVE Cleared(r, FirstState(WorkflowOf[r]))
BY NothingStartsBeyond, OrchestratorAssumption DEF Cleared

-----------------------------------------------------------------------------
(* The steps that could break the invariant.                               *)

LEMMA DecideKeepsGates ==
    ASSUME TypeInv, GateInv, NEW a \in Actors, Decide(a)  PROVE GateInv'
<1>1. call[a].run \in Runs
  BY DEF TypeInv, CallsOK, Decide
<1>2. ApprovalsGrow /\ UNCHANGED <<run, tasks, sessions>>
  BY DEF Decide, store, ApprovalsGrow
<1>3. call' = [call EXCEPT ![a] = Verdict(call[a].run)]
  BY DEF Decide
<1>4. Verdict(call[a].run).at = "write" =>
          /\ Verdict(call[a].run).run = call[a].run
          /\ Cleared(call[a].run, Verdict(call[a].run).to)
  BY <1>1, VerdictTyped, VerdictCleared DEF TypeInv, GateInv
<1>5. Verdict(call[a].run).at \in {"none", "write"}
  BY <1>1, VerdictTyped DEF TypeInv
<1>6. CallsCleared'
  BY <1>2, <1>3, <1>4, <1>5
  DEF TypeInv, CallsOK, GateInv, CallsCleared, Cleared, ApprovalsGrow
<1>. QED BY <1>2, <1>6, StatesFramed, AgentsFramed DEF GateInv

LEMMA TransitionKeepsGates ==
    ASSUME TypeInv, GateInv, NEW a \in Actors, Transition(a)  PROVE GateInv'
<1> DEFINE r == call[a].run
           s == call[a].to
<1>1. r \in Runs /\ Exists(r) /\ s \in States
  BY DEF TypeInv, CallsOK, Transition
<1>2. ApprovalsGrow /\ UNCHANGED <<tasks, sessions>> /\ Cleared(r, s)
  BY DEF Transition, ApprovalsGrow, GateInv, CallsCleared
<1>3. run' = [run EXCEPT ![r].state = s]
  BY DEF Transition
<1>4. StatesCleared'
  BY <1>1, <1>2, <1>3, StateWritten
  DEF TypeInv, GateInv, StatesCleared, Cleared, ApprovalsGrow
<1>5. CallsCleared'
  <2>1. \E at \in {"succeed", "enqueue"} :
           call' \in {[call EXCEPT ![a].at = at], [call EXCEPT ![a] = NoCall]}
    BY DEF Transition, TypeInv, CallsOK
  <2>. QED
    BY <1>2, <2>1
    DEF TypeInv, CallsOK, Calls, NoCall, GateInv, CallsCleared, Cleared,
        ApprovalsGrow
<1>. QED BY <1>2, <1>4, <1>5, AgentsFramed DEF GateInv

LEMMA TaskAddedCleared ==
    ASSUME TypeInv, GateInv, NEW r \in Runs, NEW agent \in Agents,
           Cleared(r, StateOfAgent[agent]), AddTask(r, agent),
           UNCHANGED <<approvals, sessions>>
    PROVE  AgentsCleared'
BY DEF TypeInv, TasksOK, TaskTable, AddTask, GateInv, AgentsCleared, Cleared

LEMMA EnqueueKeepsGates ==
    ASSUME TypeInv, GateInv, NEW a \in Actors, Enqueue(a)  PROVE GateInv'
<1>1. call[a].run \in Runs /\ Cleared(call[a].run, call[a].to)
  BY DEF TypeInv, CallsOK, Enqueue, GateInv, CallsCleared
<1>2. PICK agent \in AgentsOf(call[a].to) : AddTask(call[a].run, agent)
  BY DEF Enqueue
<1>3. AgentsCleared'
  BY <1>1, <1>2, AgentsOfState, TaskAddedCleared DEF Enqueue
<1>4. ApprovalsGrow /\ UNCHANGED run
  BY DEF Enqueue, ApprovalsGrow
<1>5. CallsCleared'
  BY <1>4 DEF TypeInv, CallsOK, NoCall, Enqueue, GateInv, CallsCleared, Cleared,
              ApprovalsGrow
<1>. QED BY <1>3, <1>4, <1>5, StatesFramed DEF GateInv

LEMMA MarkSucceededKeepsGates ==
    ASSUME TypeInv, GateInv, NEW a \in Actors, MarkSucceeded(a)  PROVE GateInv'
<1>1. call[a].run \in Runs /\ Exists(call[a].run)
  BY DEF TypeInv, CallsOK, MarkSucceeded
<1>2. ApprovalsGrow /\ UNCHANGED <<tasks, sessions>>
  BY DEF MarkSucceeded, ApprovalsGrow
<1>3. \A r \in Runs : run'[r].state = run[r].state
  BY <1>1, StatusWritten DEF TypeInv, MarkSucceeded
<1>4. CallsCleared'
  BY <1>2 DEF TypeInv, CallsOK, NoCall, MarkSucceeded, GateInv, CallsCleared,
              Cleared, ApprovalsGrow
<1>. QED BY <1>2, <1>3, <1>4, StatesFramed, AgentsFramed DEF GateInv

LEMMA AdvanceStepKeepsGates ==
    ASSUME TypeInv, GateInv, NEW a \in Actors, AdvanceStep(a)  PROVE GateInv'
BY DecideKeepsGates, TransitionKeepsGates, EnqueueKeepsGates,
   MarkSucceededKeepsGates
DEF AdvanceStep

LEMMA CreateRunKeepsGates ==
    ASSUME TypeInv, GateInv, NEW c \in Clients, NEW r \in Runs, CreateRun(c, r)
    PROVE  GateInv'
<1>1. StatesCleared'
  BY FirstStateCleared
  DEF TypeInv, RunsOK, RunTable, CreateRun, GateInv, StatesCleared, Cleared
<1>. QED
  BY <1>1, AgentsFramed, CallsKeptCleared
  DEF CreateRun, GateInv, ApprovalsGrow

LEMMA EnqueueStartKeepsGates ==
    ASSUME TypeInv, GateInv, NEW c \in Clients, EnqueueStart(c)  PROVE GateInv'
<1> DEFINE r == client[c].run
<1>1. r \in Runs
  BY DEF TypeInv, ClientsOK, EnqueueStart
<1>2. PICK agent \in AgentsOf(FirstState(WorkflowOf[r])) : AddTask(r, agent)
  BY DEF EnqueueStart
<1>3. AgentsCleared'
  BY <1>1, <1>2, AgentsOfState, TaskAddedCleared, FirstStateCleared
  DEF EnqueueStart
<1>. QED
  BY <1>3, StatesFramed, CallsKeptCleared DEF EnqueueStart, GateInv, ApprovalsGrow

LEMMA ApproveGateKeepsGates ==
    ASSUME TypeInv, GateInv, NEW c \in Clients, NEW r \in Runs,
           NEW gate \in GatedStates, ApproveGate(c, r, gate)
    PROVE  GateInv'
<1>1. ApprovalsGrow /\ UNCHANGED <<run, tasks, sessions>>
  BY DEF ApproveGate, ApprovalsGrow
<1>2. CallsCleared'
  BY <1>1 DEF TypeInv, CallsOK, NoCall, Advancing, ApproveGate, GateInv,
              CallsCleared, Cleared, ApprovalsGrow
<1>. QED BY <1>1, <1>2, StatesFramed, AgentsFramed DEF GateInv

LEMMA AdvanceWorkflowKeepsGates ==
    ASSUME TypeInv, GateInv, NEW c \in Clients, NEW r \in Runs,
           AdvanceWorkflow(c, r)
    PROVE  GateInv'
<1>1. ApprovalsGrow /\ UNCHANGED <<approvals, run, tasks, sessions>>
  BY DEF AdvanceWorkflow, store, ApprovalsGrow
<1>2. Verdict(r).at = "write" =>
          Verdict(r).run = r /\ Cleared(r, Verdict(r).to)
  BY VerdictTyped, VerdictCleared DEF TypeInv, GateInv
<1>3. Verdict(r).at \in {"none", "write"}
  BY VerdictTyped DEF TypeInv
<1>4. call' = [call EXCEPT ![c] = Verdict(r)]
  BY DEF AdvanceWorkflow
<1>5. CallsCleared'
  BY <1>1, <1>2, <1>3, <1>4
  DEF TypeInv, CallsOK, GateInv, CallsCleared, Cleared
<1>. QED BY <1>1, <1>5, StatesFramed, AgentsFramed DEF GateInv

(* An agent starts from a task that is in the queue.                       *)
LEMMA StartTaskKeepsGates ==
    ASSUME TypeInv, GateInv, NEW row \in worker.batch, StartTask(row)
    PROVE  GateInv'
<1>1. /\ row[1] \in Runs /\ row[2] \in Agents
      /\ tasks[row[1]][row[2]] # <<>>
  BY DEF TypeInv, WorkerOK, WorkerStates, IsPending
<1>2. AgentsCleared'
  BY <1>1 DEF TypeInv, SessionTable, StartTask, GateInv, AgentsCleared, Cleared
<1>. QED
  BY <1>2, StatesFramed, CallsKeptCleared DEF StartTask, GateInv, ApprovalsGrow

-----------------------------------------------------------------------------
(* The other steps.                                                        *)

LEMMA WorkerStepKeepsGates ==
    ASSUME TypeInv, GateInv, WorkerStep  PROVE GateInv'
<1>1. CASE FetchTasks
  BY <1>1, StatesFramed, AgentsFramed, CallsKeptCleared
  DEF FetchTasks, store, GateInv, ApprovalsGrow
<1>2. ASSUME NEW row \in worker.batch, SkipTask(row)  PROVE GateInv'
  <2>1. \A r \in Runs, agent \in Agents :
           Len(tasks'[r][agent]) = Len(tasks[r][agent])
    BY <1>2, TaskFinished DEF TypeInv, SkipTask
  <2>2. tasks \in TaskTable /\ tasks' \in TaskTable
    BY <1>2, SkipTaskTyped DEF TypeInv, TasksOK
  <2>. QED
    BY <1>2, <2>1, <2>2, StatesFramed, AgentsFramed, CallsKeptCleared
    DEF SkipTask, GateInv, ApprovalsGrow, TaskTable
<1>3. ASSUME NEW row \in worker.batch, StartTask(row)  PROVE GateInv'
  BY <1>3, StartTaskKeepsGates
<1>4. CASE HandlerFails \/ MarkAgentComplete
  <2>1. /\ sessions \in SessionTable /\ sessions' \in SessionTable
        /\ \A r \in Runs, agent \in Agents :
              Len(sessions'[r][agent]) = Len(sessions[r][agent])
    BY <1>4, SessionWritten DEF TypeInv, HandlerFails, MarkAgentComplete
  <2>. QED
    BY <1>4, <2>1, StatesFramed, AgentsFramed, CallsKeptCleared
    DEF HandlerFails, MarkAgentComplete, GateInv, ApprovalsGrow, SessionTable
<1>5. CASE FailWorkflow
  <2>1. \A r \in Runs : run'[r].state = run[r].state
    BY <1>5 DEF FailWorkflow, TypeInv, RunsOK, RunTable
  <2>. QED
    BY <1>5, <2>1, StatesFramed, AgentsFramed, CallsKeptCleared
    DEF FailWorkflow, GateInv, ApprovalsGrow
<1>6. CASE ReportError
  BY <1>6, StatesFramed, AgentsFramed, CallsKeptCleared
  DEF ReportError, GateInv, ApprovalsGrow
<1>7. CASE EmitCompleted
  <2>1. ApprovalsGrow /\ UNCHANGED <<run, tasks, sessions>>
    BY <1>7 DEF EmitCompleted, store, ApprovalsGrow
  <2>2. CallsCleared'
    BY <1>7, <2>1 DEF TypeInv, CallsOK, NoCall, Advancing, EmitCompleted, GateInv,
                      CallsCleared, Cleared, ApprovalsGrow
  <2>. QED BY <2>1, <2>2, StatesFramed, AgentsFramed DEF GateInv
<1>8. CASE FinishTask
  <2>1. worker.row \in worker.batch /\ worker.outcome \in {"completed", "failed"}
    BY <1>8 DEF TypeInv, WorkerOK, FinishTask
  <2>2. \A r \in Runs, agent \in Agents :
           Len(tasks'[r][agent]) = Len(tasks[r][agent])
    BY <1>8, <2>1, TaskFinished DEF TypeInv, FinishTask
  <2>3. tasks \in TaskTable /\ tasks' \in TaskTable
    BY <1>8, FinishTaskTyped DEF TypeInv, TasksOK
  <2>. QED
    BY <1>8, <2>2, <2>3, StatesFramed, AgentsFramed, CallsKeptCleared
    DEF FinishTask, GateInv, ApprovalsGrow, TaskTable
<1>9. CASE AdvanceStep(Worker)
  BY <1>9, AdvanceStepKeepsGates DEF Actors
<1>. QED
  BY <1>1, <1>2, <1>3, <1>4, <1>5, <1>6, <1>7, <1>8, <1>9 DEF WorkerStep

LEMMA CrashKeepsGates ==
    ASSUME TypeInv, GateInv, WorkerCrash \/ ApiCrash  PROVE GateInv'
<1>1. ApprovalsGrow /\ UNCHANGED <<run, tasks, sessions>>
  BY DEF WorkerCrash, ApiCrash, store, ApprovalsGrow
<1>2. CallsCleared'
  BY <1>1 DEF TypeInv, CallsOK, NoCall, WorkerCrash, ApiCrash, GateInv,
              CallsCleared, Cleared, ApprovalsGrow
<1>. QED BY <1>1, <1>2, StatesFramed, AgentsFramed DEF GateInv

LEMMA GateInvStep == TypeInv /\ GateInv /\ [Next]_vars => GateInv'
<1> SUFFICES ASSUME TypeInv, GateInv, [Next]_vars  PROVE GateInv'
  OBVIOUS
<1>1. CASE WorkerStep
  BY <1>1, WorkerStepKeepsGates
<1>2. ASSUME NEW c \in Clients, ClientStep(c)  PROVE GateInv'
  <2>1. CASE LogStart(c)
    BY <2>1, StatesFramed, AgentsFramed, CallsKeptCleared
    DEF LogStart, GateInv, ApprovalsGrow
  <2>. QED
    BY <1>2, <2>1, EnqueueStartKeepsGates, AdvanceStepKeepsGates
    DEF ClientStep, Actors
<1>3. ASSUME NEW c \in Clients, Request(c)  PROVE GateInv'
  BY <1>3, CreateRunKeepsGates, AdvanceWorkflowKeepsGates, ApproveGateKeepsGates
  DEF Request
<1>4. CASE WorkerCrash \/ ApiCrash
  BY <1>4, CrashKeepsGates
<1>5. CASE UNCHANGED vars
  BY <1>5, StatesFramed, AgentsFramed, CallsKeptCleared
  DEF vars, store, GateInv, ApprovalsGrow
<1>. QED BY <1>1, <1>2, <1>3, <1>4, <1>5 DEF Next

LEMMA GateInvInit == Init => GateInv
<1> SUFFICES ASSUME Init PROVE GateInv
  OBVIOUS
<1>1. StatesCleared
  BY NothingStartsBeyond, OrchestratorAssumption
  DEF Init, StatesCleared, Cleared
<1>. QED
  BY <1>1 DEF Init, NoCall, GateInv, AgentsCleared, CallsCleared

(* No run shows a state behind a gate, and no agent whose state lies       *)
(* behind it is enqueued or started, before the gate was approved.         *)
THEOREM GatesHold == Spec => []GatesRespected
<1>1. TypeInv /\ GateInv /\ [Next]_vars => (TypeInv /\ GateInv)'
  BY NextTyped, GateInvStep
<1>2. Spec => [](TypeInv /\ GateInv)
  BY <1>1, InitTyped, GateInvInit, PTL DEF Spec
<1>. QED BY <1>2, GateInvImpliesGatesRespected, PTL

-----------------------------------------------------------------------------
(* One session per agent: the guard and the insert of a session are one    *)
(* step of the only worker.                                                *)

LEMMA OneSessionStep == TypeInv /\ OneSessionPerAgent /\ [Next]_vars
                            => OneSessionPerAgent'
<1> SUFFICES ASSUME TypeInv, OneSessionPerAgent, [Next]_vars
             PROVE  OneSessionPerAgent'
  OBVIOUS
<1>1. CASE UNCHANGED sessions
  BY <1>1 DEF OneSessionPerAgent
<1>2. ASSUME NEW row \in worker.batch, StartTask(row)  PROVE OneSessionPerAgent'
  <2>1. row[1] \in Runs /\ row[2] \in Agents
    BY DEF TypeInv, WorkerOK, WorkerStates
  <2>. QED
    BY <1>2, <2>1 DEF TypeInv, SessionTable, StartTask, OneSessionPerAgent
<1>3. CASE HandlerFails \/ MarkAgentComplete
  <2>1. \A r \in Runs, agent \in Agents :
           Len(sessions'[r][agent]) = Len(sessions[r][agent])
    BY <1>3, SessionWritten DEF TypeInv, HandlerFails, MarkAgentComplete
  <2>. QED BY <2>1 DEF OneSessionPerAgent
<1>4. CASE WorkerStep
  BY <1>1, <1>2, <1>3, <1>4
  DEF WorkerStep, FetchTasks, SkipTask, FailWorkflow, ReportError, EmitCompleted,
      FinishTask, AdvanceStep, Decide, Transition, Enqueue, MarkSucceeded, store
<1>5. CASE \E c \in Clients : ClientStep(c) \/ Request(c)
  BY <1>1, <1>5
  DEF ClientStep, Request, LogStart, EnqueueStart, AdvanceStep, Decide, Transition,
      Enqueue, MarkSucceeded, CreateRun, AdvanceWorkflow, ApproveGate, store
<1>6. CASE WorkerCrash \/ ApiCrash \/ UNCHANGED vars
  BY <1>1, <1>6 DEF WorkerCrash, ApiCrash, vars, store
<1>. QED BY <1>4, <1>5, <1>6 DEF Next

(* No agent runs twice in a run, although racing transitions may enqueue   *)
(* it twice and a crashed worker takes its task again.                     *)
THEOREM AgentsRunOnce == Spec => []OneSessionPerAgent
<1>1. Init => OneSessionPerAgent
  BY DEF Init, OneSessionPerAgent
<1>2. TypeInv /\ OneSessionPerAgent /\ [Next]_vars
          => (TypeInv /\ OneSessionPerAgent)'
  BY NextTyped, OneSessionStep
<1>3. Spec => [](TypeInv /\ OneSessionPerAgent)
  BY <1>1, <1>2, InitTyped, PTL DEF Spec
<1>. QED BY <1>3, PTL

-----------------------------------------------------------------------------
(* Where tasks and verdicts come from.                                     *)

CallsLogged ==
    \A a \in Actors :
        /\ call[a].at \in {"enqueue", "succeed"} =>
              call[a].to \in Entered(call[a].run)
        /\ call[a].at = "succeed" => call[a].to = "DONE"

ClientsLogged ==
    \A c \in Clients : client[c].at = "logged" =>
        FirstState(WorkflowOf[client[c].run]) \in Entered(client[c].run)

SuccessLogged ==
    \A r \in Runs : run[r].status = "succeeded" => "DONE" \in Entered(r)

LogInv == TasksFollowLog /\ CallsLogged /\ ClientsLogged /\ SuccessLogged

Broken(r) == \E agent \in Agents : Done(r, agent, "failed")
HasError(r) == \E k \in DOMAIN log[r] : log[r][k].type = "error"

FailureCaused ==
    \A r \in Runs : run[r].status = "failed" \/ HasError(r) => Broken(r)

WorkerCaused ==
    /\ worker.at = "handler" =>
          \A k \in DOMAIN sessions[TheRun][TheAgent] :
              sessions[TheRun][TheAgent][k] # "failed"
    /\ worker.at \in {"failing", "reporting"} => Done(TheRun, TheAgent, "failed")

CauseInv == FailureCaused /\ WorkerCaused

LEMMA CausesGiveVerdicts == LogInv /\ CauseInv => VerdictHasCause
BY DEF LogInv, CauseInv, SuccessLogged, FailureCaused, Broken, HasError,
       VerdictHasCause

-----------------------------------------------------------------------------
(* The log only grows.                                                     *)

EnteredGrows == \A r \in Runs : Entered(r) \subseteq Entered(r)'

LEMMA LogUntouched ==
    ASSUME UNCHANGED log
    PROVE  EnteredGrows /\ \A r \in Runs : HasError(r)' => HasError(r)
BY DEF EnteredGrows, Entered, HasError

LEMMA EntryAdded ==
    ASSUME log \in EventTable, NEW r \in Runs, NEW e \in Entries, Log(r, e)
    PROVE  /\ EnteredGrows
           /\ e.to # NoState => e.to \in Entered(r)'
           /\ \A q \in Runs : HasError(q)' =>
                 HasError(q) \/ (q = r /\ e.type = "error")
<1>1. /\ log'[r] = Append(log[r], e)
      /\ \A q \in Runs \ {r} : log'[q] = log[q]
      /\ log[r] \in Seq(Entries)
  BY Logged DEF EventTable
<1>2. /\ DOMAIN log'[r] = DOMAIN log[r] \cup {Len(log[r]) + 1}
      /\ \A k \in DOMAIN log[r] : log'[r][k] = log[r][k]
      /\ log'[r][Len(log[r]) + 1] = e
  BY <1>1
<1>3. EnteredGrows
  BY <1>1, <1>2 DEF EnteredGrows, Entered
<1>4. e.to # NoState => e.to \in Entered(r)'
  BY <1>2 DEF Entered
<1>5. \A q \in Runs : HasError(q)' => HasError(q) \/ (q = r /\ e.type = "error")
  BY <1>1, <1>2 DEF HasError
<1>. QED BY <1>3, <1>4, <1>5

LEMMA CallsLoggedFramed ==
    ASSUME TypeInv, CallsLogged, EnteredGrows, UNCHANGED call  PROVE CallsLogged'
BY DEF TypeInv, CallsOK, CallsLogged, EnteredGrows

LEMMA ClientsLoggedFramed ==
    ASSUME TypeInv, ClientsLogged, EnteredGrows, UNCHANGED client
    PROVE  ClientsLogged'
BY DEF TypeInv, ClientsOK, ClientsLogged, EnteredGrows

LEMMA TasksLoggedFramed ==
    ASSUME TasksFollowLog, EnteredGrows,
           \A r \in Runs, agent \in Agents :
              tasks'[r][agent] # <<>> => tasks[r][agent] # <<>>
    PROVE  TasksFollowLog'
BY DEF TasksFollowLog, EnteredGrows

LEMMA SuccessFramed ==
    ASSUME SuccessLogged, EnteredGrows,
           \A r \in Runs :
              run'[r].status = "succeeded" => run[r].status = "succeeded"
    PROVE  SuccessLogged'
BY DEF SuccessLogged, EnteredGrows

(* A call that starts over, or ends, has nothing to remember.              *)
LEMMA CallReset ==
    ASSUME TypeInv, CallsLogged, EnteredGrows, NEW a \in Actors, NEW c,
           c.at \notin {"enqueue", "succeed"}, call' = [call EXCEPT ![a] = c]
    PROVE  CallsLogged'
BY DEF TypeInv, CallsOK, CallsLogged, EnteredGrows

-----------------------------------------------------------------------------
(* Every step keeps LogInv.                                                *)

LEMMA TransitionKeepsLog ==
    ASSUME TypeInv, LogInv, NEW a \in Actors, Transition(a)  PROVE LogInv'
<1>1. PICK r \in Runs, s \in States, from \in States \cup {NoState} :
          call[a].run = r /\ call[a].to = s /\ call[a].from = from /\ Exists(r)
  BY DEF TypeInv, CallsOK, Calls, Transition
<1>2. EnteredGrows /\ s \in Entered(r)'
  <2>1. /\ Move(from, s) \in Entries
        /\ Move(from, s).to = s /\ s # NoState
    BY EntriesTyped, StatesNamed DEF Move
  <2>2. Log(r, Move(from, s))
    BY <1>1 DEF Transition
  <2>. QED BY <1>1, <2>1, <2>2, EntryAdded DEF TypeInv
<1>3. CallsLogged'
  <2>1. call' = [call EXCEPT ![a] =
                   IF s = "DONE" THEN [@ EXCEPT !.at = "succeed"]
                   ELSE IF AgentsOf(s) # {}
                        THEN [@ EXCEPT !.at = "enqueue"]
                        ELSE NoCall]
    BY <1>1 DEF Transition
  <2>. QED
    BY <1>1, <1>2, <2>1
    DEF TypeInv, CallsOK, Calls, NoCall, LogInv, CallsLogged, EnteredGrows
<1>4. SuccessLogged'
  <2>1. run' = [run EXCEPT ![r].state = s]
    BY <1>1 DEF Transition
  <2>2. \A q \in Runs : run'[q].status = run[q].status
    BY <1>1, <2>1, StateWritten DEF TypeInv
  <2>. QED BY <1>2, <2>2, SuccessFramed DEF LogInv
<1>. QED
  BY <1>2, <1>3, <1>4, TasksLoggedFramed, ClientsLoggedFramed
  DEF LogInv, Transition

LEMMA TaskAddedLogged ==
    ASSUME TypeInv, LogInv, NEW r \in Runs, NEW agent \in Agents,
           StateOfAgent[agent] \in Entered(r), AddTask(r, agent), UNCHANGED log
    PROVE  TasksFollowLog'
<1>1. \A q \in Runs : Entered(q)' = Entered(q)
  BY DEF Entered
<1>2. \A q \in Runs, b \in Agents :
         tasks'[q][b] # <<>> => tasks[q][b] # <<>> \/ (q = r /\ b = agent)
  BY DEF TypeInv, TasksOK, TaskTable, AddTask
<1>. QED BY <1>1, <1>2 DEF LogInv, TasksFollowLog

LEMMA EnqueueKeepsLog ==
    ASSUME TypeInv, LogInv, NEW a \in Actors, Enqueue(a)  PROVE LogInv'
<1>1. call[a].run \in Runs /\ call[a].to \in Entered(call[a].run)
  BY DEF TypeInv, CallsOK, Enqueue, LogInv, CallsLogged
<1>2. PICK agent \in AgentsOf(call[a].to) : AddTask(call[a].run, agent)
  BY DEF Enqueue
<1>3. TasksFollowLog'
  BY <1>1, <1>2, AgentsOfState, TaskAddedLogged DEF Enqueue
<1>4. EnteredGrows
  BY LogUntouched DEF Enqueue
<1>. QED
  BY <1>3, <1>4, CallReset, ClientsLoggedFramed, SuccessFramed
  DEF LogInv, Enqueue, NoCall

LEMMA EnqueueStartKeepsLog ==
    ASSUME TypeInv, LogInv, NEW c \in Clients, EnqueueStart(c)  PROVE LogInv'
<1> DEFINE r == client[c].run
<1>1. r \in Runs /\ FirstState(WorkflowOf[r]) \in Entered(r)
  BY DEF TypeInv, ClientsOK, EnqueueStart, LogInv, ClientsLogged
<1>2. PICK agent \in AgentsOf(FirstState(WorkflowOf[r])) : AddTask(r, agent)
  BY DEF EnqueueStart
<1>3. TasksFollowLog'
  BY <1>1, <1>2, AgentsOfState, TaskAddedLogged DEF EnqueueStart
<1>4. EnteredGrows
  BY LogUntouched DEF EnqueueStart
<1>5. ClientsLogged'
  BY <1>4 DEF TypeInv, ClientsOK, IdleClient, EnqueueStart, LogInv, ClientsLogged,
              EnteredGrows
<1>. QED
  BY <1>3, <1>4, <1>5, CallsLoggedFramed, SuccessFramed DEF LogInv, EnqueueStart

LEMMA LogStartKeepsLog ==
    ASSUME TypeInv, LogInv, NEW c \in Clients, LogStart(c)  PROVE LogInv'
<1>1. PICK r \in Runs : client[c].run = r
  BY DEF TypeInv, ClientsOK, LogStart
<1> DEFINE s == FirstState(WorkflowOf[r])
<1>2. s \in States /\ s # NoState
  BY StatesNamed, OrchestratorAssumption
<1>3. EnteredGrows /\ s \in Entered(r)'
  <2>1. Move(NoState, s) \in Entries /\ Move(NoState, s).to = s
    BY <1>2, EntriesTyped DEF Move
  <2>2. Log(r, Move(NoState, s))
    BY <1>1 DEF LogStart
  <2>. QED BY <1>1, <1>2, <2>1, <2>2, EntryAdded DEF TypeInv
<1>4. ClientsLogged'
  BY <1>1, <1>3 DEF TypeInv, ClientsOK, ClientStates, LogStart, LogInv, ClientsLogged,
              EnteredGrows
<1>. QED
  BY <1>3, <1>4, TasksLoggedFramed, CallsLoggedFramed, SuccessFramed
  DEF LogInv, LogStart

LEMMA MarkSucceededKeepsLog ==
    ASSUME TypeInv, LogInv, NEW a \in Actors, MarkSucceeded(a)  PROVE LogInv'
<1> DEFINE r == call[a].run
<1>1. r \in Runs /\ Exists(r) /\ "DONE" \in Entered(r)
  BY DEF TypeInv, CallsOK, MarkSucceeded, LogInv, CallsLogged
<1>2. EnteredGrows
  BY LogUntouched DEF MarkSucceeded
<1>3. SuccessLogged'
  <2>1. \A q \in Runs \ {r} : run'[q] = run[q]
    BY <1>1, StatusWritten DEF TypeInv, MarkSucceeded
  <2>. QED BY <1>1, <1>2, <2>1 DEF LogInv, SuccessLogged, EnteredGrows
<1>. QED
  BY <1>2, <1>3, CallReset, TasksLoggedFramed, ClientsLoggedFramed
  DEF LogInv, MarkSucceeded, NoCall

LEMMA DecideKeepsLog ==
    ASSUME TypeInv, LogInv, NEW a \in Actors, Decide(a)  PROVE LogInv'
<1>1. EnteredGrows
  BY LogUntouched DEF Decide, store
<1>2. Verdict(call[a].run).at \in {"none", "write"}
  BY VerdictTyped DEF TypeInv, CallsOK, Decide
<1>3. call' = [call EXCEPT ![a] = Verdict(call[a].run)]
  BY DEF Decide
<1>4. CallsLogged'
  BY <1>1, <1>2, <1>3, CallReset DEF LogInv
<1>. QED
  BY <1>1, <1>4, TasksLoggedFramed, ClientsLoggedFramed, SuccessFramed
  DEF LogInv, Decide, store

LEMMA AdvanceStepKeepsLog ==
    ASSUME TypeInv, LogInv, NEW a \in Actors, AdvanceStep(a)  PROVE LogInv'
BY DecideKeepsLog, TransitionKeepsLog, EnqueueKeepsLog, MarkSucceededKeepsLog
DEF AdvanceStep

LEMMA RequestKeepsLog ==
    ASSUME TypeInv, LogInv, NEW c \in Clients, Request(c)  PROVE LogInv'
<1>1. EnteredGrows /\ UNCHANGED tasks
  BY LogUntouched DEF Request, CreateRun, AdvanceWorkflow, ApproveGate, store
<1>2. ASSUME NEW r \in Runs, CreateRun(c, r)  PROVE LogInv'
  <2>1. ClientsLogged'
    BY <1>1, <1>2 DEF TypeInv, ClientsOK, CreateRun, LogInv, ClientsLogged,
                      EnteredGrows
  <2>2. \A q \in Runs : run'[q].status = "succeeded" => run[q].status = "succeeded"
    BY <1>2 DEF TypeInv, RunsOK, RunTable, CreateRun
  <2>. QED
    BY <1>1, <1>2, <2>1, <2>2, TasksLoggedFramed, CallsLoggedFramed, SuccessFramed
    DEF LogInv, CreateRun
<1>3. ASSUME NEW r \in Runs, AdvanceWorkflow(c, r)  PROVE LogInv'
  <2>1. Verdict(r).at \in {"none", "write"}
    BY VerdictTyped DEF TypeInv
  <2>2. call' = [call EXCEPT ![c] = Verdict(r)] /\ UNCHANGED <<run, client>>
    BY <1>3 DEF AdvanceWorkflow, store
  <2>3. CallsLogged'
    BY <1>1, <2>1, <2>2, CallReset DEF LogInv, Actors
  <2>. QED
    BY <1>1, <2>2, <2>3, TasksLoggedFramed, ClientsLoggedFramed, SuccessFramed
    DEF LogInv
<1>4. ASSUME NEW r \in Runs, NEW gate \in GatedStates, ApproveGate(c, r, gate)
      PROVE  LogInv'
  <2>1. Advancing(r).at \notin {"enqueue", "succeed"}
    BY DEF Advancing, NoCall
  <2>2. call' = [call EXCEPT ![c] = Advancing(r)] /\ UNCHANGED <<run, client>>
    BY <1>4 DEF ApproveGate
  <2>3. CallsLogged'
    BY <1>1, <2>1, <2>2, CallReset DEF LogInv, Actors
  <2>. QED
    BY <1>1, <2>2, <2>3, TasksLoggedFramed, ClientsLoggedFramed, SuccessFramed
    DEF LogInv
<1>. QED BY <1>2, <1>3, <1>4 DEF Request

(* The worker writes statuses and at most one error entry.                 *)
LEMMA WorkerStepKeepsLog == ASSUME TypeInv, LogInv, WorkerStep  PROVE LogInv'
<1>1. CASE AdvanceStep(Worker)
  BY <1>1, AdvanceStepKeepsLog DEF Actors
<1>2. CASE ReportError
  <2>1. TheRun \in Runs
    BY <1>2 DEF TypeInv, WorkerOK, WorkerStates, ReportError, TheRun
  <2>2. EnteredGrows
    BY <1>2, <2>1, EntryAdded, EntriesTyped DEF TypeInv, ReportError
  <2>. QED
    BY <1>2, <2>2, TasksLoggedFramed, CallsLoggedFramed, ClientsLoggedFramed,
       SuccessFramed
    DEF LogInv, ReportError
<1>3. CASE EmitCompleted
  <2>1. EnteredGrows /\ Advancing(TheRun).at \notin {"enqueue", "succeed"}
    BY <1>3, LogUntouched DEF EmitCompleted, store, Advancing, NoCall
  <2>2. CallsLogged'
    BY <1>3, <2>1, CallReset DEF LogInv, EmitCompleted, Actors
  <2>. QED
    BY <1>3, <2>1, <2>2, TasksLoggedFramed, ClientsLoggedFramed, SuccessFramed
    DEF LogInv, EmitCompleted, store
<1>4. CASE FailWorkflow
  <2>1. EnteredGrows
    BY <1>4, LogUntouched DEF FailWorkflow
  <2>2. \A r \in Runs : run'[r].status = "succeeded" => run[r].status = "succeeded"
    BY <1>4 DEF FailWorkflow, TypeInv, RunsOK, RunTable
  <2>. QED
    BY <1>4, <2>1, <2>2, TasksLoggedFramed, CallsLoggedFramed,
       ClientsLoggedFramed, SuccessFramed
    DEF LogInv, FailWorkflow
<1>5. CASE FetchTasks \/ HandlerFails \/ MarkAgentComplete
           \/ \E row \in worker.batch : StartTask(row)
  <2>1. UNCHANGED <<run, tasks, log, call, client>>
    BY <1>5 DEF FetchTasks, HandlerFails, MarkAgentComplete, StartTask, store
  <2>. QED
    BY <2>1, LogUntouched, TasksLoggedFramed, CallsLoggedFramed,
       ClientsLoggedFramed, SuccessFramed
    DEF LogInv
<1>6. CASE FinishTask \/ \E row \in worker.batch : SkipTask(row)
  <2>1. UNCHANGED <<run, log, call, client>>
    BY <1>6 DEF FinishTask, SkipTask
  <2>2. \E row \in worker.batch, s \in {"completed", "failed"} : Finish(row, s)
    BY <1>6 DEF TypeInv, WorkerOK, FinishTask, SkipTask
  <2>3. /\ tasks' \in TaskTable
        /\ \A r \in Runs, agent \in Agents :
              Len(tasks'[r][agent]) = Len(tasks[r][agent])
    BY <2>1, <2>2, TaskFinished DEF TypeInv, TasksOK
  <2>4. \A r \in Runs, agent \in Agents :
           tasks'[r][agent] # <<>> => tasks[r][agent] # <<>>
    BY <2>3 DEF TypeInv, TasksOK, TaskTable
  <2>. QED
    BY <2>1, <2>4, LogUntouched, TasksLoggedFramed, CallsLoggedFramed,
       ClientsLoggedFramed, SuccessFramed
    DEF LogInv
<1>. QED BY <1>1, <1>2, <1>3, <1>4, <1>5, <1>6 DEF WorkerStep

LEMMA CrashKeepsLog ==
    ASSUME TypeInv, LogInv, WorkerCrash \/ ApiCrash  PROVE LogInv'
<1>1. EnteredGrows /\ UNCHANGED <<run, tasks>>
  BY LogUntouched DEF WorkerCrash, ApiCrash, store
<1>2. CallsLogged'
  BY <1>1 DEF TypeInv, CallsOK, NoCall, WorkerCrash, ApiCrash, LogInv, CallsLogged,
              EnteredGrows
<1>3. ClientsLogged'
  BY <1>1 DEF TypeInv, ClientsOK, IdleClient, WorkerCrash, ApiCrash, LogInv,
              ClientsLogged, EnteredGrows
<1>. QED BY <1>1, <1>2, <1>3, TasksLoggedFramed, SuccessFramed DEF LogInv

LEMMA LogInvStep == TypeInv /\ LogInv /\ [Next]_vars => LogInv'
<1> SUFFICES ASSUME TypeInv, LogInv, [Next]_vars  PROVE LogInv'
  OBVIOUS
<1>1. ASSUME NEW c \in Clients, ClientStep(c)  PROVE LogInv'
  BY <1>1, LogStartKeepsLog, EnqueueStartKeepsLog, AdvanceStepKeepsLog
  DEF ClientStep, Actors
<1>2. CASE UNCHANGED vars
  BY <1>2, LogUntouched, TasksLoggedFramed, CallsLoggedFramed,
     ClientsLoggedFramed, SuccessFramed
  DEF vars, store, LogInv
<1>. QED
  BY <1>1, <1>2, RequestKeepsLog, WorkerStepKeepsLog, CrashKeepsLog DEF Next

LEMMA LogInvInit == Init => LogInv
BY DEF Init, NoCall, IdleClient, LogInv, TasksFollowLog, CallsLogged, ClientsLogged,
       SuccessLogged

(* A task is enqueued only for a state the run has logged an entry into.   *)
THEOREM TasksAreLogged == Spec => []TasksFollowLog
<1>1. TypeInv /\ LogInv /\ [Next]_vars => (TypeInv /\ LogInv)'
  BY NextTyped, LogInvStep
<1>2. Spec => [](TypeInv /\ LogInv)
  BY <1>1, InitTyped, LogInvInit, PTL DEF Spec
<1>3. LogInv => TasksFollowLog
  BY DEF LogInv
<1>. QED BY <1>2, <1>3, PTL

-----------------------------------------------------------------------------
(* Every step keeps CauseInv.                                              *)

FailuresKept ==
    \A r \in Runs, agent \in Agents :
        Done(r, agent, "failed") => Done(r, agent, "failed")'

LEMMA SessionsUntouched ==
    ASSUME UNCHANGED sessions  PROVE FailuresKept
BY DEF FailuresKept, Done

LEMMA FailureFramed ==
    ASSUME FailureCaused, FailuresKept,
           \A r \in Runs : run'[r].status = "failed" \/ HasError(r)' =>
               run[r].status = "failed" \/ HasError(r) \/ Broken(r)
    PROVE  FailureCaused'
<1>1. \A r \in Runs : Broken(r) => Broken(r)'
  BY DEF FailuresKept, Broken
<1>. QED BY <1>1 DEF FailureCaused

(* A write of the worker's session leaves the others alone.                *)
LEMMA SessionSet ==
    ASSUME TypeInv, worker.at \notin {"polling", "batch"},
           NEW s \in {"completed", "failed"}, SetSession(s)
    PROVE  /\ TheRun \in Runs /\ TheAgent \in Agents
           /\ \A r \in Runs, agent \in Agents :
                 ~(r = TheRun /\ agent = TheAgent) =>
                     sessions'[r][agent] = sessions[r][agent]
           /\ \E k \in DOMAIN sessions'[TheRun][TheAgent] :
                 sessions'[TheRun][TheAgent][k] = s
<1> DEFINE old == sessions[TheRun][TheAgent]
           new == [old EXCEPT ![Len(old)] = s]
<1>1. TheRun \in Runs /\ TheAgent \in Agents /\ old # <<>>
  BY DEF TypeInv, WorkerOK, WorkerStates, TheRun, TheAgent
<1>2. old \in Seq({"running", "completed", "failed"})
  BY <1>1 DEF TypeInv, SessionTable
<1>3. /\ new \in Seq({"running", "completed", "failed"})
      /\ Len(new) = Len(old) /\ new[Len(old)] = s
  BY <1>1, <1>2, LastWritten
<1>4. sessions' =
          [sessions EXCEPT ![TheRun] = [sessions[TheRun] EXCEPT ![TheAgent] = new]]
  BY DEF SetSession
<1>5. /\ sessions'[TheRun][TheAgent] = new
      /\ \A r \in Runs, agent \in Agents :
            ~(r = TheRun /\ agent = TheAgent) =>
                sessions'[r][agent] = sessions[r][agent]
  BY <1>1, <1>4 DEF TypeInv, SessionTable
<1>6. Len(old) \in DOMAIN new
  BY <1>1, <1>2, <1>3
<1>. QED BY <1>1, <1>3, <1>5, <1>6

LEMMA StartTaskKeepsCause ==
    ASSUME TypeInv, CauseInv, NEW row \in worker.batch, StartTask(row)
    PROVE  CauseInv'
<1>1. row[1] \in Runs /\ row[2] \in Agents
  BY DEF TypeInv, WorkerOK, WorkerStates
<1>2. /\ sessions'[row[1]][row[2]] = <<"running">>
      /\ \A r \in Runs, agent \in Agents :
            ~(r = row[1] /\ agent = row[2]) =>
                sessions'[r][agent] = sessions[r][agent]
      /\ sessions[row[1]][row[2]] = <<>>
  BY <1>1 DEF TypeInv, SessionTable, StartTask
<1>3. FailuresKept
  BY <1>1, <1>2 DEF FailuresKept, Done
<1>4. \A r \in Runs : HasError(r)' => HasError(r)
  BY LogUntouched DEF StartTask
<1>5. FailureCaused'
  BY <1>3, <1>4, FailureFramed DEF CauseInv, StartTask
<1>6. worker'.at = "handler" /\ worker'.row = row
  BY DEF TypeInv, WorkerOK, WorkerStates, StartTask
<1>7. WorkerCaused'
  BY <1>2, <1>6 DEF WorkerCaused, TheRun, TheAgent
<1>. QED BY <1>5, <1>7 DEF CauseInv

LEMMA HandlerFailsKeepsCause ==
    ASSUME TypeInv, CauseInv, HandlerFails  PROVE CauseInv'
<1>1. PICK r \in Runs, agent \in Agents :
          /\ r = TheRun /\ agent = TheAgent
          /\ \A q \in Runs, b \in Agents :
                ~(q = r /\ b = agent) => sessions'[q][b] = sessions[q][b]
          /\ \E k \in DOMAIN sessions'[r][agent] : sessions'[r][agent][k] = "failed"
  BY SessionSet DEF HandlerFails
<1>2. FailuresKept
  BY <1>1 DEF FailuresKept, Done
<1>3. \A q \in Runs : HasError(q)' => HasError(q)
  BY LogUntouched DEF HandlerFails
<1>4. FailureCaused'
  BY <1>2, <1>3, FailureFramed DEF CauseInv, HandlerFails
<1>5. worker'.at = "failing" /\ UNCHANGED <<TheRun, TheAgent>>
  BY DEF TypeInv, WorkerOK, WorkerStates, HandlerFails, TheRun, TheAgent
<1>6. WorkerCaused'
  BY <1>1, <1>5 DEF WorkerCaused, Done
<1>. QED BY <1>4, <1>6 DEF CauseInv

LEMMA MarkAgentCompleteKeepsCause ==
    ASSUME TypeInv, CauseInv, MarkAgentComplete  PROVE CauseInv'
<1>1. /\ TheRun \in Runs /\ TheAgent \in Agents
      /\ \A q \in Runs, b \in Agents :
            ~(q = TheRun /\ b = TheAgent) => sessions'[q][b] = sessions[q][b]
  BY SessionSet DEF MarkAgentComplete
<1>2. ~Done(TheRun, TheAgent, "failed")
  BY DEF CauseInv, WorkerCaused, Done, MarkAgentComplete
<1>3. FailuresKept
  BY <1>1, <1>2 DEF FailuresKept, Done
<1>4. \A q \in Runs : HasError(q)' => HasError(q)
  BY LogUntouched DEF MarkAgentComplete
<1>5. FailureCaused'
  BY <1>3, <1>4, FailureFramed DEF CauseInv, MarkAgentComplete
<1>6. worker'.at = "completing"
  BY DEF TypeInv, WorkerOK, WorkerStates, MarkAgentComplete
<1>. QED BY <1>5, <1>6 DEF CauseInv, WorkerCaused

LEMMA FailWorkflowKeepsCause ==
    ASSUME TypeInv, CauseInv, FailWorkflow  PROVE CauseInv'
<1>1. TheRun \in Runs /\ TheAgent \in Agents /\ Done(TheRun, TheAgent, "failed")
  BY DEF TypeInv, WorkerOK, WorkerStates, TheRun, TheAgent, CauseInv, WorkerCaused,
         FailWorkflow
<1>2. FailuresKept /\ \A q \in Runs : HasError(q)' => HasError(q)
  BY SessionsUntouched, LogUntouched DEF FailWorkflow
<1>3. \A q \in Runs : run'[q].status = "failed" =>
                          run[q].status = "failed" \/ q = TheRun
  BY DEF FailWorkflow, TypeInv, RunsOK, RunTable
<1>4. Broken(TheRun)
  BY <1>1 DEF Broken
<1>5. FailureCaused'
  BY <1>2, <1>3, <1>4, FailureFramed DEF CauseInv
<1>6. worker'.at = "reporting" /\ UNCHANGED <<TheRun, TheAgent, sessions>>
  BY DEF TypeInv, WorkerOK, WorkerStates, FailWorkflow, TheRun, TheAgent
<1>7. WorkerCaused'
  BY <1>1, <1>6 DEF WorkerCaused, Done
<1>. QED BY <1>5, <1>7 DEF CauseInv

LEMMA ReportErrorKeepsCause ==
    ASSUME TypeInv, CauseInv, ReportError  PROVE CauseInv'
<1>1. PICK r \in Runs : r = TheRun
  BY DEF TypeInv, WorkerOK, WorkerStates, TheRun, ReportError
<1>2. TheAgent \in Agents /\ Done(r, TheAgent, "failed")
  BY <1>1 DEF TypeInv, WorkerOK, WorkerStates, TheAgent, CauseInv, WorkerCaused,
              ReportError
<1>3. \A q \in Runs : HasError(q)' => HasError(q) \/ q = r
  BY <1>1, EntryAdded, EntriesTyped DEF TypeInv, ReportError
<1>4. FailuresKept /\ Broken(r)
  BY <1>2, SessionsUntouched DEF ReportError, Broken
<1>5. FailureCaused'
  BY <1>3, <1>4, FailureFramed DEF CauseInv, ReportError
<1>6. worker'.at = "finishing"
  BY DEF TypeInv, WorkerOK, WorkerStates, ReportError
<1>. QED BY <1>5, <1>6 DEF CauseInv, WorkerCaused

(* The steps that neither fail a run nor touch a session.                  *)
LEMMA CauseFramed ==
    ASSUME CauseInv, UNCHANGED sessions,
           \A r \in Runs : run'[r].status = "failed" => run[r].status = "failed",
           \A r \in Runs : HasError(r)' => HasError(r),
           \/ UNCHANGED worker
           \/ worker'.at \notin {"handler", "failing", "reporting"}
    PROVE  CauseInv'
<1>1. FailureCaused'
  BY SessionsUntouched, FailureFramed DEF CauseInv
<1>2. WorkerCaused'
  BY DEF CauseInv, WorkerCaused, Done, TheRun, TheAgent
<1>. QED BY <1>1, <1>2 DEF CauseInv

LEMMA AdvanceStepKeepsCause ==
    ASSUME TypeInv, CauseInv, NEW a \in Actors, AdvanceStep(a)  PROVE CauseInv'
<1>1. UNCHANGED <<sessions, worker>>
  BY DEF AdvanceStep, Decide, Transition, Enqueue, MarkSucceeded, store
<1>2. \A r \in Runs : run'[r].status = "failed" => run[r].status = "failed"
  BY DEF AdvanceStep, Decide, Transition, Enqueue, MarkSucceeded, store, TypeInv,
         RunsOK, RunTable
<1>3. \A r \in Runs : HasError(r)' => HasError(r)
  <2>1. CASE Transition(a)
    <3>1. PICK r \in Runs, s \in States, from \in States \cup {NoState} :
              call[a].run = r /\ call[a].to = s /\ call[a].from = from
      BY <2>1 DEF TypeInv, CallsOK, Calls, Transition
    <3>2. Move(from, s) \in Entries /\ Move(from, s).type # "error"
      BY EntriesTyped DEF Move
    <3>3. Log(r, Move(from, s))
      BY <2>1, <3>1 DEF Transition
    <3>. QED BY <3>2, <3>3, EntryAdded DEF TypeInv
  <2>2. CASE UNCHANGED log
    BY <2>2, LogUntouched
  <2>. QED
    BY <2>1, <2>2 DEF AdvanceStep, Decide, Enqueue, MarkSucceeded, store
<1>. QED BY <1>1, <1>2, <1>3, CauseFramed

LEMMA ClientKeepsCause ==
    ASSUME TypeInv, CauseInv, NEW c \in Clients, ClientStep(c) \/ Request(c)
    PROVE  CauseInv'
<1>1. CASE AdvanceStep(c)
  BY <1>1, AdvanceStepKeepsCause DEF Actors
<1>2. CASE LogStart(c)
  <2>1. PICK r \in Runs : client[c].run = r
    BY <1>2 DEF TypeInv, ClientsOK, LogStart
  <2>2. FirstState(WorkflowOf[r]) \in States
    BY StatesNamed, OrchestratorAssumption
  <2>3. \A q \in Runs : HasError(q)' => HasError(q)
    BY <1>2, <2>1, <2>2, EntryAdded, EntriesTyped DEF TypeInv, LogStart, Move
  <2>. QED BY <1>2, <2>3, CauseFramed DEF LogStart
<1>3. CASE EnqueueStart(c) \/ Request(c)
  <2>1. UNCHANGED <<sessions, log, worker>>
    BY <1>3 DEF EnqueueStart, Request, CreateRun, AdvanceWorkflow, ApproveGate, store
  <2>2. \A r \in Runs : run'[r].status = "failed" => run[r].status = "failed"
    BY <1>3 DEF EnqueueStart, Request, CreateRun, AdvanceWorkflow, ApproveGate, store,
                TypeInv, RunsOK, RunTable
  <2>. QED BY <2>1, <2>2, LogUntouched, CauseFramed
<1>. QED BY <1>1, <1>2, <1>3 DEF ClientStep

LEMMA WorkerStepKeepsCause ==
    ASSUME TypeInv, CauseInv, WorkerStep  PROVE CauseInv'
<1>1. CASE FetchTasks \/ EmitCompleted \/ FinishTask
           \/ \E row \in worker.batch : SkipTask(row)
  <2>1. UNCHANGED <<run, sessions, log>>
    BY <1>1 DEF FetchTasks, EmitCompleted, FinishTask, SkipTask, store
  <2>2. worker'.at \in {"polling", "batch", "finishing"}
    BY <1>1 DEF TypeInv, WorkerOK, WorkerStates, FetchTasks, EmitCompleted,
                FinishTask, SkipTask, Finish, IdleWorker
  <2>. QED BY <2>1, <2>2, LogUntouched, CauseFramed
<1>2. CASE AdvanceStep(Worker)
  BY <1>2, AdvanceStepKeepsCause DEF Actors
<1>. QED
  BY <1>1, <1>2, StartTaskKeepsCause, HandlerFailsKeepsCause, FailWorkflowKeepsCause,
     ReportErrorKeepsCause, MarkAgentCompleteKeepsCause
  DEF WorkerStep

LEMMA CauseInvStep == TypeInv /\ CauseInv /\ [Next]_vars => CauseInv'
<1> SUFFICES ASSUME TypeInv, CauseInv, [Next]_vars  PROVE CauseInv'
  OBVIOUS
<1>1. CASE WorkerCrash
  BY <1>1, LogUntouched, CauseFramed DEF WorkerCrash, IdleWorker, store
<1>2. CASE ApiCrash \/ UNCHANGED vars
  BY <1>2, LogUntouched, CauseFramed DEF ApiCrash, vars, store
<1>. QED BY <1>1, <1>2, ClientKeepsCause, WorkerStepKeepsCause DEF Next

LEMMA CauseInvInit == Init => CauseInv
BY DEF Init, IdleWorker, CauseInv, FailureCaused, HasError, WorkerCaused

(* A run is reported as succeeded only after it entered DONE, as failed    *)
(* only after an agent of it failed, and has an error event only then.     *)
THEOREM VerdictsHaveCause == Spec => []VerdictHasCause
<1>1. TypeInv /\ LogInv /\ CauseInv /\ [Next]_vars
          => (TypeInv /\ LogInv /\ CauseInv)'
  BY NextTyped, LogInvStep, CauseInvStep
<1>2. Spec => [](TypeInv /\ LogInv /\ CauseInv)
  BY <1>1, InitTyped, LogInvInit, CauseInvInit, PTL DEF Spec
<1>. QED BY <1>2, CausesGiveVerdicts, PTL

-----------------------------------------------------------------------------
(* Tasks are kept.                                                         *)

RowKept(row) ==
    LET was == tasks[row[1]][row[2]][row[3]]
    IN  tasks'[row[1]][row[2]][row[3]] # was =>
            was = "pending" /\ sessions[row[1]][row[2]] # <<>>

LEMMA RowsTyped ==
    ASSUME NEW row \in Rows
    PROVE  /\ row[1] \in Runs /\ row[2] \in Agents
           /\ row[3] \in DOMAIN tasks[row[1]][row[2]]
BY DEF Rows

LEMMA AddTaskKeepsRows ==
    ASSUME TypeInv, NEW r, NEW agent, AddTask(r, agent), NEW row \in Rows
    PROVE  RowKept(row)
BY RowsTyped DEF TypeInv, TasksOK, TaskTable, AddTask, RowKept

LEMMA FinishKeepsRows ==
    ASSUME TypeInv, NEW done \in worker.batch, NEW s, Finish(done, s),
           sessions[done[1]][done[2]] # <<>>, NEW row \in Rows
    PROVE  RowKept(row)
<1>1. IsPending(done) /\ done \in Runs \X Agents \X Nat
  BY DEF TypeInv, WorkerOK, WorkerStates
<1>2. tasks' = [tasks EXCEPT ![done[1]][done[2]][done[3]] = s]
  BY DEF Finish
<1>3. CASE row[1] = done[1] /\ row[2] = done[2] /\ row[3] = done[3]
  BY <1>1, <1>3 DEF IsPending, RowKept
<1>4. CASE ~(row[1] = done[1] /\ row[2] = done[2] /\ row[3] = done[3])
  BY <1>1, <1>2, <1>4, RowsTyped DEF TypeInv, TasksOK, TaskTable, RowKept
<1>. QED BY <1>3, <1>4

LEMMA RowsAreKept ==
    TypeInv /\ [Next]_vars => [\A row \in Rows : RowKept(row)]_tasks
<1> SUFFICES ASSUME TypeInv, [Next]_vars, tasks' # tasks, NEW row \in Rows
             PROVE  RowKept(row)
  OBVIOUS
<1>1. ASSUME NEW a \in Actors, Enqueue(a)  PROVE RowKept(row)
  BY <1>1, AddTaskKeepsRows DEF Enqueue
<1>2. ASSUME NEW c \in Clients, EnqueueStart(c)  PROVE RowKept(row)
  BY <1>2, AddTaskKeepsRows DEF EnqueueStart
<1>3. ASSUME NEW done \in worker.batch, SkipTask(done)  PROVE RowKept(row)
  BY <1>3, FinishKeepsRows DEF SkipTask
<1>4. CASE FinishTask
  <2>1. worker.row \in worker.batch /\ sessions[TheRun][TheAgent] # <<>>
    BY <1>4 DEF TypeInv, WorkerOK, FinishTask
  <2>. QED BY <1>4, <2>1, FinishKeepsRows DEF FinishTask, TheRun, TheAgent
<1>5. CASE WorkerStep
  BY <1>1, <1>3, <1>4, <1>5
  DEF WorkerStep, FetchTasks, StartTask, HandlerFails, FailWorkflow, ReportError,
      MarkAgentComplete, EmitCompleted, AdvanceStep, Decide, Transition,
      MarkSucceeded, Actors, store
<1>6. CASE \E c \in Clients : ClientStep(c) \/ Request(c)
  BY <1>1, <1>2, <1>6
  DEF ClientStep, Request, LogStart, CreateRun, AdvanceWorkflow, ApproveGate,
      AdvanceStep, Decide, Transition, MarkSucceeded, Actors, store
<1>7. CASE WorkerCrash \/ ApiCrash \/ UNCHANGED vars
  BY <1>7 DEF WorkerCrash, ApiCrash, vars, store
<1>. QED BY <1>5, <1>6, <1>7 DEF Next

(* No crash and no race loses a task: its status changes only away from    *)
(* pending, and only once its agent has had its session.                   *)
THEOREM TasksStayKept == Spec => TasksAreKept
<1>1. TypeInv /\ [Next]_vars => [\A row \in Rows : RowKept(row)]_tasks
  BY RowsAreKept
<1>2. Spec => [][\A row \in Rows : RowKept(row)]_tasks
  BY <1>1, InitTyped, NextTyped, PTL DEF Spec
<1>. QED BY <1>2 DEF TasksAreKept, RowKept

-----------------------------------------------------------------------------
(***************************************************************************)
(* The engine implements WorkflowPromise, for every set of runs and        *)
(* clients, every operator and any number of requests and crashes: under   *)
(* the refinement mapping of Orchestrator every step of the engine is a    *)
(* step of the promise, or none of it.                                     *)
(*                                                                         *)
(* A transition is a Proceed although the run may by then be in another    *)
(* state than the one the call has read: what counts is that the run has   *)
(* been there, which the trail remembers, and that its gate was approved,  *)
(* which nobody takes back.  TrailInv keeps both for every call between    *)
(* its decision and its write.                                             *)
(***************************************************************************)

StatesOnTrail == \A r \in Runs : Exists(r) => run[r].state \in Trail(r)

NothingLoggedBefore == \A r \in Runs : ~Exists(r) => Entered(r) = {}

(* What a call has decided to write is a step the promise allows.          *)
Allowed(r, from, to) ==
    /\ from \in Trail(r)
    /\ from \in GatedStates => <<r, from>> \in approvals
    /\ to = Successor(WorkflowOf[r], from)

CallsOnTrail ==
    \A a \in Actors : call[a].at = "write" =>
        Allowed(call[a].run, call[a].from, call[a].to)

TrailInv == StatesOnTrail /\ NothingLoggedBefore /\ CallsOnTrail

-----------------------------------------------------------------------------
(* The trail of a run only grows.                                          *)

TrailsGrow == \A r \in Runs : Trail(r) \subseteq Trail(r)'

LEMMA TrailsFramed ==
    ASSUME RunsGrow, EnteredGrows  PROVE TrailsGrow
BY DEF RunsGrow, EnteredGrows, TrailsGrow, Trail

LEMMA TrailsUntouched ==
    ASSUME UNCHANGED log, \A r \in Runs : Exists(r)' <=> Exists(r)
    PROVE  TrailsGrow /\ \A r \in Runs : Trail(r)' = Trail(r)
BY DEF TrailsGrow, Trail, Entered

LEMMA StatesOnTrailFramed ==
    ASSUME StatesOnTrail, TrailsGrow,
           \A r \in Runs : Exists(r)' <=> Exists(r),
           \A r \in Runs : run'[r].state = run[r].state
    PROVE  StatesOnTrail'
BY DEF StatesOnTrail, TrailsGrow

LEMMA NothingLoggedFramed ==
    ASSUME NothingLoggedBefore, UNCHANGED log, RunsGrow
    PROVE  NothingLoggedBefore'
BY DEF NothingLoggedBefore, RunsGrow, Entered

LEMMA AllowedFramed ==
    ASSUME TrailsGrow, ApprovalsGrow, NEW r \in Runs, NEW s, NEW t,
           Allowed(r, s, t)
    PROVE  Allowed(r, s, t)'
BY DEF Allowed, TrailsGrow, ApprovalsGrow

LEMMA CallsOnTrailFramed ==
    ASSUME TypeInv, CallsOnTrail, TrailsGrow, ApprovalsGrow,
           \A a \in Actors : call'[a].at = "write" => call'[a] = call[a]
    PROVE  CallsOnTrail'
<1> SUFFICES ASSUME NEW a \in Actors, call'[a].at = "write"
             PROVE  Allowed(call[a].run, call[a].from, call[a].to)'
                    /\ call'[a] = call[a]
  BY DEF CallsOnTrail, Allowed
<1>1. call'[a] = call[a] /\ call[a].run \in Runs
  BY DEF TypeInv, CallsOK
<1>. QED BY <1>1, AllowedFramed DEF CallsOnTrail, Allowed, TrailsGrow, ApprovalsGrow

(* A call that decides to go on has seen the state and its approval.       *)
LEMMA VerdictAllowed ==
    ASSUME TypeInv, StatesOnTrail, NEW r \in Runs, Verdict(r).at = "write"
    PROVE  /\ Verdict(r).run = r
           /\ Allowed(r, Verdict(r).from, Verdict(r).to)
<1>1. MayAdvance(r) /\ Exists(r)
  BY VerdictTyped DEF TypeInv
<1>2. Verdict(r) = [at |-> "write", run |-> r, from |-> run[r].state,
                    to |-> Successor(WorkflowOf[r], run[r].state)]
  BY <1>1 DEF Verdict
<1>. QED
  BY <1>1, <1>2 DEF MayAdvance, GateIsPending, Allowed, StatesOnTrail

-----------------------------------------------------------------------------
(* The mapping.  The promise comes with a copy of the graph of its own.    *)

LEMMA SameGraph ==
    /\ \A name : Promise!FirstState(name) = FirstState(name)
    /\ \A name, s : Promise!Successor(name, s) = Successor(name, s)
    /\ Promise!States = States /\ Promise!GatedStates = GatedStates
    /\ Promise!NoState = NoState /\ Promise!Agents = Agents
    /\ Promise!StateOfAgent = StateOfAgent
BY DEF Promise!FirstState, FirstState, Promise!Successor, Successor,
       Promise!WorkflowGraph, WorkflowGraph, Promise!TicketGraph, TicketGraph,
       Promise!ProvisioningGraph, ProvisioningGraph, Promise!States, States,
       Promise!GatedStates, GatedStates, Promise!NoState, NoState,
       Promise!Agents, Agents, Promise!StateOfAgent, StateOfAgent

(* The parts of the promise that a step leaves alone.                      *)
ReachedKept  == \A r \in Runs : Trail(r)' = Trail(r)
LaunchesKept ==
    \A r \in Runs, a \in Agents : Len(sessions'[r][a]) = Len(sessions[r][a])
BrokenKept   ==
    \A r \in Runs, a \in Agents : Done(r, a, "failed")' <=> Done(r, a, "failed")
VerdictsKept == \A r \in Runs : run'[r].status = run[r].status

LEMMA MappedKept ==
    /\ ReachedKept => UNCHANGED [r \in Runs |-> Trail(r)]
    /\ LaunchesKept =>
          UNCHANGED [r \in Runs |-> [a \in Agents |-> Len(sessions[r][a])]]
    /\ BrokenKept =>
          UNCHANGED [r \in Runs |-> {a \in Agents : Done(r, a, "failed")}]
BY DEF ReachedKept, LaunchesKept, BrokenKept

LEMMA NoStepOfThePromise ==
    ASSUME ReachedKept, LaunchesKept, BrokenKept, VerdictsKept,
           UNCHANGED approvals
    PROVE  UNCHANGED Promise!promise
BY DEF ReachedKept, LaunchesKept, BrokenKept, VerdictsKept, Promise!promise, Exists

LEMMA SessionsKept ==
    ASSUME UNCHANGED sessions  PROVE LaunchesKept /\ BrokenKept
BY DEF LaunchesKept, BrokenKept, Done

LEMMA RunsKept ==
    ASSUME UNCHANGED run  PROVE VerdictsKept /\ \A r \in Runs : Exists(r)' <=> Exists(r)
BY DEF VerdictsKept, Exists

-----------------------------------------------------------------------------
(* Each step keeps TrailInv and is a step of the promise.                  *)

Kept == TrailInv' /\ [Promise!Next]_Promise!promise

LEMMA TransitionProceeds ==
    ASSUME TypeInv, TrailInv, NEW a \in Actors, Transition(a)  PROVE Kept
<1>1. PICK r \in Runs, s \in States, from \in States \cup {NoState} :
          /\ call[a].run = r /\ call[a].to = s /\ call[a].from = from
          /\ Exists(r)
  BY DEF TypeInv, CallsOK, Calls, Transition
<1>2. Allowed(r, from, s)
  BY <1>1 DEF TrailInv, CallsOnTrail, Transition
<1>3. /\ run' = [run EXCEPT ![r].state = s]
      /\ Log(r, Move(from, s))
      /\ UNCHANGED <<approvals, sessions>>
  BY <1>1 DEF Transition
<1>4. /\ RunsGrow
      /\ \A q \in Runs : run'[q].status = run[q].status
      /\ run'[r].state = s
      /\ \A q \in Runs \ {r} : run'[q] = run[q]
  BY <1>1, <1>3, StateWritten DEF TypeInv
<1>5. \A q \in Runs : Exists(q)' <=> Exists(q)
  BY <1>4 DEF Exists
<1>6. /\ Entered(r)' = Entered(r) \cup {s}
      /\ \A q \in Runs \ {r} : Entered(q)' = Entered(q)
  <2>1. Move(from, s) \in Entries /\ Move(from, s).to = s /\ s # NoState
    BY EntriesTyped, StatesNamed DEF Move
  <2>2. /\ log'[r] = Append(log[r], Move(from, s))
        /\ \A q \in Runs \ {r} : log'[q] = log[q]
        /\ log[r] \in Seq(Entries)
    BY <1>3, <2>1, Logged DEF TypeInv, EventTable
  <2>3. /\ DOMAIN log'[r] = DOMAIN log[r] \cup {Len(log[r]) + 1}
        /\ \A k \in DOMAIN log[r] : log'[r][k] = log[r][k]
        /\ log'[r][Len(log[r]) + 1] = Move(from, s)
    BY <2>2
  <2>. QED BY <2>1, <2>2, <2>3 DEF Entered
<1>7. /\ Trail(r)' = Trail(r) \cup {s}
      /\ \A q \in Runs \ {r} : Trail(q)' = Trail(q)
  BY <1>1, <1>5, <1>6 DEF Trail
<1>8. TrailsGrow
  BY <1>7 DEF TrailsGrow
<1>9. TrailInv'
  <2>1. StatesOnTrail'
    BY <1>4, <1>5, <1>7 DEF TrailInv, StatesOnTrail
  <2>2. NothingLoggedBefore'
    BY <1>1, <1>5, <1>6 DEF TrailInv, NothingLoggedBefore
  <2>3. \A b \in Actors : call'[b].at = "write" => call'[b] = call[b]
    BY DEF TypeInv, CallsOK, Calls, NoCall, Transition
  <2>4. CallsOnTrail'
    BY <1>3, <1>8, <2>3, CallsOnTrailFramed DEF TrailInv, ApprovalsGrow
  <2>. QED BY <2>1, <2>2, <2>4 DEF TrailInv
<1>10. Promise!Proceed(r, from)
  <2>1. Promise!Successor(WorkflowOf[r], from) = s /\ s # Promise!NoState
    BY <1>2, SameGraph, StatesNamed DEF Allowed
  <2>2. /\ UNCHANGED approvals /\ VerdictsKept /\ LaunchesKept /\ BrokenKept
    BY <1>3, <1>4, SessionsKept DEF VerdictsKept
  <2>. QED
    BY <1>2, <1>5, <1>7, <2>1, <2>2, SameGraph
    DEF Promise!Proceed, Allowed, VerdictsKept, LaunchesKept, BrokenKept
<1>11. from \in Promise!States
  BY <1>2, SameGraph, StatesNamed, OrchestratorAssumption
  DEF Allowed, Trail, Entered, TypeInv, EventTable, Entries
<1>. QED BY <1>9, <1>10, <1>11 DEF Kept, Promise!Next

(* Steps that leave the log, the states and the statuses of the runs and   *)
(* the approvals alone.                                                    *)
LEMMA QuietStep ==
    ASSUME TypeInv, TrailInv, UNCHANGED <<run, log, approvals>>,
           CallsOnTrail', LaunchesKept, BrokenKept
    PROVE  Kept
<1>1. VerdictsKept /\ \A r \in Runs : Exists(r)' <=> Exists(r)
  BY RunsKept
<1>2. TrailsGrow /\ ReachedKept
  BY <1>1, TrailsUntouched DEF ReachedKept
<1>3. RunsGrow
  BY <1>1 DEF RunsGrow
<1>4. StatesOnTrail' /\ NothingLoggedBefore'
  BY <1>1, <1>2, <1>3, StatesOnTrailFramed, NothingLoggedFramed DEF TrailInv
<1>. QED
  BY <1>1, <1>2, <1>4, NoStepOfThePromise DEF Kept, TrailInv

LEMMA TrailsStay ==
    ASSUME UNCHANGED <<run, log, approvals>>
    PROVE  TrailsGrow /\ ApprovalsGrow
BY RunsKept, TrailsUntouched DEF ApprovalsGrow

(* ... and start no call on a write, or one that has just decided.         *)
LEMMA CallsAllowed ==
    ASSUME TypeInv, TrailInv, UNCHANGED <<run, log, approvals>>,
           \A a \in Actors : call'[a].at = "write" =>
              call'[a] = call[a] \/ \E r \in Runs : call'[a] = Verdict(r)
    PROVE  CallsOnTrail'
<1> SUFFICES ASSUME NEW a \in Actors, call'[a].at = "write"
             PROVE  Allowed(call[a].run, call[a].from, call[a].to)'
  BY DEF CallsOnTrail
<1>1. TrailsGrow /\ ApprovalsGrow
  BY TrailsStay
<1>2. PICK r \in Runs :
          /\ call'[a].run = r
          /\ Allowed(r, call'[a].from, call'[a].to)
  <2>1. CASE call'[a] = call[a]
    BY <2>1 DEF TypeInv, CallsOK, TrailInv, CallsOnTrail
  <2>2. ASSUME NEW r \in Runs, call'[a] = Verdict(r)
        PROVE  call'[a].run = r /\ Allowed(r, call'[a].from, call'[a].to)
    BY <2>2, VerdictAllowed DEF TrailInv
  <2>. QED BY <2>1, <2>2
<1>. QED BY <1>1, <1>2 DEF Allowed, TrailsGrow, ApprovalsGrow

LEMMA DecideAllowed ==
    ASSUME TypeInv, TrailInv, NEW a \in Actors, Decide(a)  PROVE Kept
<1>1. UNCHANGED <<run, log, approvals, sessions>>
  BY DEF Decide, store
<1>2. \A b \in Actors : call'[b].at = "write" =>
         call'[b] = call[b] \/ \E r \in Runs : call'[b] = Verdict(r)
  BY DEF TypeInv, CallsOK, Decide
<1>. QED BY <1>1, <1>2, CallsAllowed, SessionsKept, QuietStep

LEMMA EnqueueAllowed ==
    ASSUME TypeInv, TrailInv, NEW a \in Actors, Enqueue(a)  PROVE Kept
<1>1. UNCHANGED <<run, log, approvals, sessions>>
  BY DEF Enqueue
<1>2. \A b \in Actors : call'[b].at = "write" => call'[b] = call[b]
  BY DEF TypeInv, CallsOK, NoCall, Enqueue
<1>. QED BY <1>1, <1>2, CallsAllowed, SessionsKept, QuietStep

(* The verdict of one run changes.                                         *)
VerdictGiven(r, s) ==
    [q \in Runs |-> IF Exists(q) THEN run[q].status ELSE "none"]' =
        [[q \in Runs |-> IF Exists(q) THEN run[q].status ELSE "none"]
            EXCEPT ![r] = s]

(* A step that changes a run's status and not its state.                   *)
LEMMA StatusStep ==
    ASSUME TypeInv, TrailInv, NEW r \in Runs, Exists(r),
           NEW s \in {"succeeded", "failed"},
           run' = [run EXCEPT ![r].status = s],
           UNCHANGED <<log, approvals, sessions>>,
           \A a \in Actors : call'[a].at = "write" => call'[a] = call[a]
    PROVE  /\ TrailInv' /\ ReachedKept /\ LaunchesKept /\ BrokenKept
           /\ run'[r].status = s
           /\ \A q \in Runs \ {r} : run'[q] = run[q]
           /\ \A q \in Runs : Exists(q)' <=> Exists(q)
<1>1. /\ RunsGrow
      /\ \A q \in Runs : run'[q].state = run[q].state
      /\ run'[r].status = s
      /\ \A q \in Runs \ {r} : run'[q] = run[q]
  BY StatusWritten DEF TypeInv
<1>2. \A q \in Runs : Exists(q)' <=> Exists(q)
  BY <1>1 DEF Exists
<1>3. TrailsGrow /\ ReachedKept
  BY <1>2, TrailsUntouched DEF ReachedKept
<1>4. ApprovalsGrow
  BY DEF ApprovalsGrow
<1>5. TrailInv'
  BY <1>1, <1>2, <1>3, <1>4, StatesOnTrailFramed, NothingLoggedFramed,
     CallsOnTrailFramed
  DEF TrailInv
<1>. QED BY <1>1, <1>2, <1>3, <1>5, SessionsKept

LEMMA MarkSucceededSucceeds ==
    ASSUME TypeInv, LogInv, TrailInv, NEW a \in Actors, MarkSucceeded(a)
    PROVE  Kept
<1>1. PICK r \in Runs : call[a].run = r /\ Exists(r) /\ "DONE" \in Entered(r)
  BY DEF TypeInv, CallsOK, MarkSucceeded, LogInv, CallsLogged
<1>2. /\ run' = [run EXCEPT ![r].status = "succeeded"]
      /\ UNCHANGED <<log, approvals, sessions>>
      /\ \A b \in Actors : call'[b].at = "write" => call'[b] = call[b]
  BY <1>1 DEF TypeInv, CallsOK, NoCall, MarkSucceeded
<1>3. /\ TrailInv' /\ ReachedKept /\ LaunchesKept /\ BrokenKept
      /\ run'[r].status = "succeeded"
      /\ \A q \in Runs \ {r} : run'[q] = run[q]
      /\ \A q \in Runs : Exists(q)' <=> Exists(q)
  BY <1>1, <1>2, StatusStep
<1>4. Promise!Succeed(r)
  <2>1. "DONE" \in Trail(r)
    BY <1>1 DEF Trail
  <2>2. VerdictGiven(r, "succeeded")
    BY <1>1, <1>3 DEF VerdictGiven, Exists
  <2>. QED
    BY <1>2, <1>3, <2>1, <2>2, MappedKept DEF Promise!Succeed, VerdictGiven
<1>. QED BY <1>3, <1>4 DEF Kept, Promise!Next

LEMMA FailWorkflowFails ==
    ASSUME TypeInv, CauseInv, TrailInv, FailWorkflow  PROVE Kept
<1>1. PICK r \in Runs, agent \in Agents :
          /\ r = TheRun /\ agent = TheAgent /\ Exists(r)
          /\ Done(r, agent, "failed")
  BY DEF TypeInv, TasksOK, TaskTable, WorkerOK, WorkerStates, IsPending, TheRun,
         TheAgent, CauseInv, WorkerCaused, FailWorkflow
<1>2. /\ run' = [run EXCEPT ![r].status = "failed"]
      /\ UNCHANGED <<log, approvals, sessions, call>>
  BY <1>1 DEF FailWorkflow
<1>3. /\ TrailInv' /\ ReachedKept /\ LaunchesKept /\ BrokenKept
      /\ run'[r].status = "failed"
      /\ \A q \in Runs \ {r} : run'[q] = run[q]
      /\ \A q \in Runs : Exists(q)' <=> Exists(q)
  BY <1>1, <1>2, StatusStep
<1>4. Promise!Fail(r)
  <2>1. agent \in {a \in Agents : Done(r, a, "failed")}
    BY <1>1
  <2>2. VerdictGiven(r, "failed")
    BY <1>1, <1>3 DEF VerdictGiven, Exists
  <2>. QED
    BY <1>2, <1>3, <2>1, <2>2, MappedKept, SameGraph
    DEF Promise!Fail, VerdictGiven
<1>. QED BY <1>3, <1>4 DEF Kept, Promise!Next

LEMMA CreateRunOpens ==
    ASSUME TypeInv, TrailInv, NEW c \in Clients, NEW r \in Runs, CreateRun(c, r)
    PROVE  Kept
<1> DEFINE first == FirstState(WorkflowOf[r])
<1>1. /\ run'[r] = [status |-> "running", state |-> first]
      /\ \A q \in Runs \ {r} : run'[q] = run[q]
      /\ ~Exists(r)
      /\ UNCHANGED <<log, approvals, sessions, call>>
  BY DEF TypeInv, RunsOK, RunTable, CreateRun
<1>2. /\ Exists(r)'
      /\ \A q \in Runs \ {r} : Exists(q)' <=> Exists(q)
  BY <1>1 DEF Exists
<1>3. \A q \in Runs : Entered(q)' = Entered(q)
  BY <1>1 DEF Entered
<1>4. /\ Trail(r) = {} /\ Trail(r)' = {first}
      /\ \A q \in Runs \ {r} : Trail(q)' = Trail(q)
  BY <1>1, <1>2, <1>3 DEF Trail, TrailInv, NothingLoggedBefore
<1>5. TrailsGrow /\ RunsGrow /\ ApprovalsGrow
  BY <1>1, <1>2, <1>4 DEF TrailsGrow, RunsGrow, ApprovalsGrow
<1>6. TrailInv'
  <2>1. StatesOnTrail'
    BY <1>1, <1>2, <1>4 DEF TrailInv, StatesOnTrail
  <2>. QED
    BY <1>1, <1>5, <2>1, NothingLoggedFramed, CallsOnTrailFramed DEF TrailInv
<1>7. Promise!Open(r)
  <2>1. LaunchesKept /\ BrokenKept
    BY <1>1, SessionsKept
  <2>2. VerdictGiven(r, "running")
    <3> DEFINE V(q) == IF Exists(q) THEN run[q].status ELSE "none"
    <3>1. V(r)' = "running" /\ \A q \in Runs \ {r} : V(q)' = V(q)
      BY <1>1, <1>2
    <3>2. [q \in Runs |-> V(q)]' = [[q \in Runs |-> V(q)] EXCEPT ![r] = "running"]
      <4> HIDE DEF V
      <4>. QED BY <3>1
    <3>. QED BY <3>2 DEF VerdictGiven
  <2>3. [q \in Runs |-> Trail(q)]' = [[q \in Runs |-> Trail(q)] EXCEPT ![r] = {first}]
    BY <1>4
  <2>. QED
    BY <1>1, <2>1, <2>2, <2>3, MappedKept, SameGraph
    DEF Promise!Open, VerdictGiven
<1>. QED BY <1>6, <1>7 DEF Kept, Promise!Next

LEMMA ApproveGateGrants ==
    ASSUME TypeInv, TrailInv, NEW c \in Clients, NEW r \in Runs,
           NEW gate \in GatedStates, ApproveGate(c, r, gate)
    PROVE  Kept
<1>1. /\ UNCHANGED <<run, log, sessions>>
      /\ approvals' = approvals \cup {<<r, gate>>}
      /\ Exists(r)
  BY DEF ApproveGate, MayApprove
<1>2. VerdictsKept /\ \A q \in Runs : Exists(q)' <=> Exists(q)
  BY <1>1, RunsKept
<1>3. TrailsGrow /\ ReachedKept /\ RunsGrow /\ ApprovalsGrow
  BY <1>1, <1>2, TrailsUntouched DEF ReachedKept, RunsGrow, ApprovalsGrow
<1>4. \A a \in Actors : call'[a].at = "write" => call'[a] = call[a]
  BY DEF TypeInv, CallsOK, NoCall, Advancing, ApproveGate
<1>5. TrailInv'
  BY <1>1, <1>2, <1>3, <1>4, StatesOnTrailFramed, NothingLoggedFramed,
     CallsOnTrailFramed
  DEF TrailInv
<1>6. Promise!Grant(r, gate)
  <2>1. UNCHANGED [q \in Runs |-> IF Exists(q) THEN run[q].status ELSE "none"]
    BY <1>2 DEF VerdictsKept
  <2>2. run[r].status # "none"
    BY DEF TypeInv, RunsOK, RunTable
  <2>. QED
    BY <1>1, <1>3, <2>1, <2>2, SessionsKept, MappedKept DEF Promise!Grant
<1>. QED BY <1>5, <1>6, SameGraph DEF Kept, Promise!Next

LEMMA AdvanceWorkflowAllowed ==
    ASSUME TypeInv, TrailInv, NEW c \in Clients, NEW r \in Runs,
           AdvanceWorkflow(c, r)
    PROVE  Kept
<1>1. UNCHANGED <<run, log, approvals, sessions>>
  BY DEF AdvanceWorkflow, store
<1>2. \A b \in Actors : call'[b].at = "write" =>
         call'[b] = call[b] \/ \E q \in Runs : call'[b] = Verdict(q)
  BY DEF TypeInv, CallsOK, AdvanceWorkflow
<1>. QED BY <1>1, <1>2, CallsAllowed, SessionsKept, QuietStep

(* The first event of a run tells of the state it was created in, an error *)
(* of none: neither lengthens the trail.                                   *)
LEMMA EntryOnTrail ==
    ASSUME TypeInv, TrailInv, NEW r \in Runs, Exists(r), NEW e \in Entries,
           Log(r, e), e.to \in {NoState, FirstState(WorkflowOf[r])},
           UNCHANGED <<run, approvals, sessions, call>>
    PROVE  Kept
<1>1. /\ log'[r] = Append(log[r], e)
      /\ \A q \in Runs \ {r} : log'[q] = log[q]
      /\ log[r] \in Seq(Entries)
  BY Logged DEF TypeInv, EventTable
<1>2. /\ DOMAIN log'[r] = DOMAIN log[r] \cup {Len(log[r]) + 1}
      /\ \A k \in DOMAIN log[r] : log'[r][k] = log[r][k]
      /\ log'[r][Len(log[r]) + 1] = e
  BY <1>1
<1>3. /\ Entered(r)' = Entered(r) \cup ({e.to} \ {NoState})
      /\ \A q \in Runs \ {r} : Entered(q)' = Entered(q)
  BY <1>1, <1>2 DEF Entered
<1>4. VerdictsKept /\ \A q \in Runs : Exists(q)' <=> Exists(q)
  BY RunsKept
<1>5. ReachedKept
  BY <1>3, <1>4 DEF ReachedKept, Trail
<1>6. TrailsGrow /\ ApprovalsGrow
  BY <1>5 DEF ReachedKept, TrailsGrow, ApprovalsGrow
<1>7. TrailInv'
  <2>1. NothingLoggedBefore'
    BY <1>3, <1>4 DEF TrailInv, NothingLoggedBefore
  <2>. QED
    BY <1>4, <1>6, <2>1, StatesOnTrailFramed, CallsOnTrailFramed DEF TrailInv
<1>. QED BY <1>4, <1>5, <1>7, SessionsKept, NoStepOfThePromise DEF Kept

LEMMA LogStartAllowed ==
    ASSUME TypeInv, TrailInv, NEW c \in Clients, LogStart(c)  PROVE Kept
<1>1. PICK r \in Runs : client[c].run = r /\ Exists(r)
  BY DEF TypeInv, ClientsOK, LogStart
<1>2. FirstState(WorkflowOf[r]) \in States
  BY StatesNamed, OrchestratorAssumption
<1> DEFINE e == Move(NoState, FirstState(WorkflowOf[r]))
<1>3. e \in Entries /\ e.to = FirstState(WorkflowOf[r])
  BY <1>2, EntriesTyped DEF Move
<1>. QED BY <1>1, <1>3, EntryOnTrail DEF LogStart

LEMMA ReportErrorAllowed ==
    ASSUME TypeInv, TrailInv, ReportError  PROVE Kept
<1>1. PICK r \in Runs : r = TheRun /\ Exists(r)
  BY DEF TypeInv, TasksOK, TaskTable, WorkerOK, WorkerStates, IsPending, TheRun,
         ReportError
<1>2. Error \in Entries /\ Error.to = NoState
  BY EntriesTyped DEF Error
<1>. QED BY <1>1, <1>2, EntryOnTrail DEF ReportError

LEMMA EnqueueStartAllowed ==
    ASSUME TypeInv, TrailInv, NEW c \in Clients, EnqueueStart(c)  PROVE Kept
<1>1. UNCHANGED <<run, log, approvals, sessions, call>>
  BY DEF EnqueueStart
<1>. QED BY <1>1, CallsAllowed, SessionsKept, QuietStep

-----------------------------------------------------------------------------
(* The worker's writes of sessions.                                        *)

LEMMA StartTaskLaunches ==
    ASSUME TypeInv, LogInv, TrailInv, NEW row \in worker.batch, StartTask(row)
    PROVE  Kept
<1>1. PICK r \in Runs, agent \in Agents :
          row[1] = r /\ row[2] = agent /\ tasks[r][agent] # <<>>
  BY DEF TypeInv, WorkerOK, WorkerStates, IsPending
<1>2. /\ sessions[r][agent] = <<>>
      /\ sessions'[r][agent] = <<"running">>
      /\ \A q \in Runs, b \in Agents :
            ~(q = r /\ b = agent) => sessions'[q][b] = sessions[q][b]
      /\ UNCHANGED <<run, log, approvals, call>>
  BY <1>1 DEF TypeInv, SessionTable, StartTask
<1>3. BrokenKept
  BY <1>2 DEF BrokenKept, Done
<1>4. CallsOnTrail'
  BY <1>2, CallsAllowed
<1>5. TrailInv' /\ ReachedKept /\ VerdictsKept
  <2>1. VerdictsKept /\ \A q \in Runs : Exists(q)' <=> Exists(q)
    BY <1>2, RunsKept
  <2>2. TrailsGrow /\ ReachedKept /\ RunsGrow
    BY <1>2, <2>1, TrailsUntouched DEF ReachedKept, RunsGrow
  <2>. QED
    BY <1>2, <1>4, <2>1, <2>2, StatesOnTrailFramed, NothingLoggedFramed
    DEF TrailInv
<1>6. Promise!Launch(r, agent)
  <2>1. StateOfAgent[agent] \in Trail(r)
    BY <1>1 DEF LogInv, TasksFollowLog, Trail, TypeInv, TasksOK
  <2>2. [q \in Runs |-> [a \in Agents |-> Len(sessions[q][a])]]' =
            [[q \in Runs |-> [a \in Agents |-> Len(sessions[q][a])]]
                EXCEPT ![r][agent] = 1]
    <3> DEFINE L(q, a) == Len(sessions[q][a])
    <3>1. /\ L(r, agent)' = 1
          /\ \A q \in Runs, a \in Agents :
                ~(q = r /\ a = agent) => L(q, a)' = L(q, a)
      BY <1>2
    <3>2. [q \in Runs |-> [a \in Agents |-> L(q, a)]]' =
              [[q \in Runs |-> [a \in Agents |-> L(q, a)]]
                  EXCEPT ![r][agent] = 1]
      <4> HIDE DEF L
      <4>. QED BY <3>1
    <3>. QED BY <3>2
  <2>3. UNCHANGED [q \in Runs |-> IF Exists(q) THEN run[q].status ELSE "none"]
    BY <1>2 DEF Exists
  <2>. QED
    BY <1>2, <1>3, <1>5, <2>1, <2>2, <2>3, MappedKept, SameGraph
    DEF Promise!Launch
<1>. QED BY <1>5, <1>6, SameGraph DEF Kept, Promise!Next

LEMMA AtMostOne == \A n \in Nat \ {0} : n <= 1 => n = 1
OBVIOUS

LEMMA HandlerFailsBreaks ==
    ASSUME TypeInv, OneSessionPerAgent, TrailInv, HandlerFails  PROVE Kept
<1>1. PICK r \in Runs, agent \in Agents :
          /\ r = TheRun /\ agent = TheAgent
          /\ \A q \in Runs, b \in Agents :
                ~(q = r /\ b = agent) => sessions'[q][b] = sessions[q][b]
          /\ \E k \in DOMAIN sessions'[r][agent] : sessions'[r][agent][k] = "failed"
  BY SessionSet DEF HandlerFails
<1>2. LaunchesKept
  BY SessionWritten DEF TypeInv, HandlerFails, LaunchesKept
<1>3. Len(sessions[r][agent]) = 1
  <2>1. sessions[r][agent] # <<>>
    BY <1>1 DEF TypeInv, WorkerOK, HandlerFails
  <2>2. sessions[r][agent] \in Seq({"running", "completed", "failed"})
    BY DEF TypeInv, SessionTable
  <2>3. Len(sessions[r][agent]) \in Nat \ {0}
    BY <2>1, <2>2, EmptySeq
  <2>. QED BY <2>3, AtMostOne DEF OneSessionPerAgent
<1>4. UNCHANGED <<run, log, approvals, call>>
  BY DEF HandlerFails
<1>5. CallsOnTrail'
  BY <1>4, CallsAllowed
<1>6. TrailInv' /\ ReachedKept /\ VerdictsKept
  <2>1. VerdictsKept /\ \A q \in Runs : Exists(q)' <=> Exists(q)
    BY <1>4, RunsKept
  <2>2. TrailsGrow /\ ReachedKept /\ RunsGrow
    BY <1>4, <2>1, TrailsUntouched DEF ReachedKept, RunsGrow
  <2>. QED
    BY <1>4, <1>5, <2>1, <2>2, StatesOnTrailFramed, NothingLoggedFramed
    DEF TrailInv
<1>7. Promise!Break(r, agent)
  <2>1. /\ \A q \in Runs \ {r} : {a \in Agents : Done(q, a, "failed")}'
                                 = {a \in Agents : Done(q, a, "failed")}
        /\ {a \in Agents : Done(r, a, "failed")}' =
               {a \in Agents : Done(r, a, "failed")} \cup {agent}
    BY <1>1 DEF Done
  <2>2. UNCHANGED [q \in Runs |-> IF Exists(q) THEN run[q].status ELSE "none"]
    BY <1>4 DEF Exists
  <2>3. [q \in Runs |-> {a \in Agents : Done(q, a, "failed")}]' =
            [[q \in Runs |-> {a \in Agents : Done(q, a, "failed")}]
                EXCEPT ![r] = @ \cup {agent}]
    <3> DEFINE B(q) == {a \in Agents : Done(q, a, "failed")}
    <3>1. B(r)' = B(r) \cup {agent} /\ \A q \in Runs \ {r} : B(q)' = B(q)
      BY <2>1
    <3>2. [q \in Runs |-> B(q)]' = [[q \in Runs |-> B(q)]
                                       EXCEPT ![r] = @ \cup {agent}]
      <4> HIDE DEF B
      <4>. QED BY <3>1
    <3>. QED BY <3>2
  <2>. QED
    BY <1>2, <1>3, <1>4, <1>6, <2>2, <2>3, MappedKept DEF Promise!Break
<1>. QED BY <1>6, <1>7, SameGraph DEF Kept, Promise!Next

LEMMA MarkAgentCompleteAllowed ==
    ASSUME TypeInv, CauseInv, TrailInv, MarkAgentComplete  PROVE Kept
<1>1. /\ TheRun \in Runs /\ TheAgent \in Agents
      /\ \A q \in Runs, b \in Agents :
            ~(q = TheRun /\ b = TheAgent) => sessions'[q][b] = sessions[q][b]
  BY SessionSet DEF MarkAgentComplete
<1>2. LaunchesKept
  BY SessionWritten DEF TypeInv, MarkAgentComplete, LaunchesKept
<1>3. \A k \in DOMAIN sessions'[TheRun][TheAgent] :
          sessions'[TheRun][TheAgent][k] # "failed"
  <2> DEFINE old == sessions[TheRun][TheAgent]
  <2>1. old \in Seq({"running", "completed", "failed"}) /\ old # <<>>
    BY <1>1 DEF TypeInv, WorkerOK, SessionTable, MarkAgentComplete
  <2>2. \A k \in DOMAIN old : old[k] # "failed"
    BY DEF CauseInv, WorkerCaused, MarkAgentComplete
  <2>3. sessions'[TheRun][TheAgent] = [old EXCEPT ![Len(old)] = "completed"]
    BY <1>1 DEF TypeInv, SessionTable, SetSession, MarkAgentComplete
  <2>. QED BY <2>1, <2>2, <2>3
<1>4. ~Done(TheRun, TheAgent, "failed")
  BY DEF CauseInv, WorkerCaused, Done, MarkAgentComplete
<1>5. BrokenKept
  BY <1>1, <1>3, <1>4 DEF BrokenKept, Done
<1>6. UNCHANGED <<run, log, approvals, call>>
  BY DEF MarkAgentComplete
<1>. QED BY <1>2, <1>5, <1>6, CallsAllowed, QuietStep

(* The steps of the worker that the promise does not see.                  *)
LEMMA WorkerMovesAllowed ==
    ASSUME TypeInv, TrailInv,
           \/ FetchTasks \/ EmitCompleted \/ FinishTask
           \/ \E row \in worker.batch : SkipTask(row)
    PROVE  Kept
<1>1. UNCHANGED <<run, log, approvals, sessions>>
  BY DEF FetchTasks, EmitCompleted, FinishTask, SkipTask, store
<1>2. \A a \in Actors : call'[a].at = "write" => call'[a] = call[a]
  BY DEF TypeInv, CallsOK, NoCall, Advancing, FetchTasks, EmitCompleted,
         FinishTask, SkipTask
<1>. QED BY <1>1, <1>2, CallsAllowed, SessionsKept, QuietStep

LEMMA CrashAllowed ==
    ASSUME TypeInv, TrailInv, WorkerCrash \/ ApiCrash  PROVE Kept
<1>1. UNCHANGED <<run, log, approvals, sessions>>
  BY DEF WorkerCrash, ApiCrash, store
<1>2. \A a \in Actors : call'[a].at = "write" => call'[a] = call[a]
  BY DEF TypeInv, CallsOK, NoCall, WorkerCrash, ApiCrash
<1>. QED BY <1>1, <1>2, CallsAllowed, SessionsKept, QuietStep

-----------------------------------------------------------------------------

AllInv == TypeInv /\ OneSessionPerAgent /\ LogInv /\ CauseInv /\ TrailInv

LEMMA AdvanceStepAllowed ==
    ASSUME AllInv, NEW a \in Actors, AdvanceStep(a)  PROVE Kept
BY DecideAllowed, TransitionProceeds, EnqueueAllowed, MarkSucceededSucceeds
DEF AllInv, AdvanceStep

LEMMA StepKeepsPromise == AllInv /\ [Next]_vars => Kept
<1> SUFFICES ASSUME AllInv, [Next]_vars  PROVE Kept
  OBVIOUS
<1>1. CASE WorkerStep
  BY <1>1, AdvanceStepAllowed, WorkerMovesAllowed, StartTaskLaunches,
     HandlerFailsBreaks, FailWorkflowFails, ReportErrorAllowed,
     MarkAgentCompleteAllowed
  DEF WorkerStep, AllInv, Actors
<1>2. ASSUME NEW c \in Clients, ClientStep(c)  PROVE Kept
  BY <1>2, LogStartAllowed, EnqueueStartAllowed, AdvanceStepAllowed
  DEF ClientStep, AllInv, Actors
<1>3. ASSUME NEW c \in Clients, Request(c)  PROVE Kept
  BY <1>3, CreateRunOpens, AdvanceWorkflowAllowed, ApproveGateGrants
  DEF Request, AllInv
<1>4. CASE WorkerCrash \/ ApiCrash
  BY <1>4, CrashAllowed DEF AllInv
<1>5. CASE UNCHANGED vars
  <2>1. UNCHANGED <<run, log, approvals, sessions, call>>
    BY <1>5 DEF vars, store
  <2>. QED BY <2>1, CallsAllowed, SessionsKept, QuietStep DEF AllInv
<1>. QED BY <1>1, <1>2, <1>3, <1>4, <1>5 DEF Next

LEMMA PromiseInit == Init => TrailInv /\ Promise!Init
<1> SUFFICES ASSUME Init  PROVE TrailInv /\ Promise!Init
  OBVIOUS
<1>1. \A r \in Runs : ~Exists(r) /\ Entered(r) = {} /\ Trail(r) = {}
  BY DEF Init, Exists, Entered, Trail
<1>2. TrailInv
  BY <1>1 DEF Init, NoCall, TrailInv, StatesOnTrail, NothingLoggedBefore,
              CallsOnTrail
<1>3. \A r \in Runs, a \in Agents :
          Len(sessions[r][a]) = 0 /\ ~Done(r, a, "failed")
  BY DEF Init, Done
<1>4. Promise!Init
  BY <1>1, <1>3, SameGraph DEF Init, Promise!Init
<1>. QED BY <1>2, <1>4

(* The engine keeps the promise: every behaviour of the processes, however *)
(* they interleave and crash, is one of WorkflowPromise.                   *)
THEOREM PromiseIsKept == Spec => KeepsPromise
<1>1. Init => AllInv /\ Promise!Init
  BY InitTyped, LogInvInit, CauseInvInit, PromiseInit
  DEF AllInv, Init, OneSessionPerAgent
<1>2. AllInv /\ [Next]_vars => AllInv'
  BY NextTyped, OneSessionStep, LogInvStep, CauseInvStep, StepKeepsPromise
  DEF AllInv, Kept
<1>3. AllInv /\ [Next]_vars => [Promise!Next]_Promise!promise
  BY StepKeepsPromise DEF Kept
<1>. QED BY <1>1, <1>2, <1>3, PTL DEF Spec, KeepsPromise, Promise!Spec

-----------------------------------------------------------------------------
(***************************************************************************)
(* What the engine owes to an operator who approves each gate once, while  *)
(* the card is in it and the agents of the run have nothing left to do:    *)
(* the log of a run replays, and as long as no process crashes a run that  *)
(* is reported as succeeded has seen every agent of its graph complete.    *)
(* For an operator who only clicks where the board shows a button TLC      *)
(* violates both, so Operator = "patient" is a hypothesis of both          *)
(* theorems.  So is crashes = 0 of the second: a crash between the commit  *)
(* of a transition and the enqueue of its agent leaves the run in the gate *)
(* DESIGN_REVIEW with nothing pending and an agent that has not run, and   *)
(* the approval passes it by.                                              *)
(*                                                                         *)
(* PatientInv says that a run is never worked on by two at once: one call  *)
(* at a time advances it, and requests only while no task of it waits.     *)
(* Then what a call has read is still true when it writes, and each move   *)
(* in the log starts where the one before it ended.                        *)
(*                                                                         *)
(* SettledInv follows a run through its graph: all agents of the states    *)
(* behind it have completed, and those of the state it is in have, too,    *)
(* when a call is about to leave that state.  The rest of it remembers     *)
(* between the commits of a transition who will do what is left to do.     *)
(***************************************************************************)

(* Who is at a run: a call of advance_workflow for it, a client between    *)
(* the commits of its creation, a task that waits for the worker or is in  *)
(* its hands.                                                              *)
OnCall(a, r)   == call[a].at # "none" /\ call[a].run = r
Starting(c, r) == client[c].at # "idle" /\ client[c].run = r
Waits(r, agent, k) ==
    k \in DOMAIN tasks[r][agent] /\ tasks[r][agent][k] = "pending"
Waiting(r) ==
    \E agent \in Agents : \E k \in DOMAIN tasks[r][agent] : Waits(r, agent, k)

(* At most one call advances a run, ...                                    *)
CallsAlone(r) ==
    \A a, b \in Actors : OnCall(a, r) /\ OnCall(b, r) => a = b

(* ... a request does so only while no task of the run waits, ...          *)
RequestsQuiet(r) == \A c \in Clients : OnCall(c, r) => ~Waiting(r)

(* ... and while a run is being created nothing else happens to it.        *)
StartsQuiet(r) ==
    \A c \in Clients : Starting(c, r) =>
        /\ run[r].state = FirstState(WorkflowOf[r])
        /\ ~Waiting(r)
        /\ \A a \in Actors : ~OnCall(a, r)
        /\ \A d \in Clients : Starting(d, r) => d = c

(* What a call has read or decided is still what the store says.           *)
Fresh(a, r) ==
    /\ call[a].at = "write" =>
          /\ call[a].from = run[r].state
          /\ call[a].to = Successor(WorkflowOf[r], run[r].state)
    /\ call[a].at \in {"enqueue", "succeed"} => call[a].to = run[r].state

CallsFresh(r) == \A a \in Actors : OnCall(a, r) => Fresh(a, r)

(* The last move of the log ends in the state the run shows.               *)
TailShown(r) ==
    \A i \in Moves(r) :
        (\A k \in Moves(r) : k <= i) => log[r][i].to = run[r].state

(* A run that moved is there.                                              *)
MovedExists(r) == Moves(r) # {} => run[r].state # NoState

(* The body of ReplayIsValid: of two moves next to each other the second   *)
(* starts where the first ended.                                           *)
Replays(r) ==
    \A i, j \in Moves(r) :
        (i < j /\ \A k \in Moves(r) : k <= i \/ j <= k) =>
            log[r][j].from = log[r][i].to

Quiet(r) ==
    /\ CallsAlone(r) /\ RequestsQuiet(r) /\ StartsQuiet(r)
    /\ CallsFresh(r) /\ TailShown(r) /\ MovedExists(r) /\ Replays(r)

(* The worker advances only the run whose task it has just finished.       *)
WorkerHome ==
    call[Worker].at # "none" =>
        worker.at = "finishing" /\ call[Worker].run = TheRun

PatientInv == WorkerHome /\ \A r \in Runs : Quiet(r)

LEMMA PatientReplays == PatientInv => ReplayIsValid
BY DEF PatientInv, Quiet, Replays, ReplayIsValid

-----------------------------------------------------------------------------

(* The guard of the patient operator, HasPendingTask, in these terms.      *)
LEMMA PendingIsWaiting ==
    ASSUME TypeInv, NEW r \in Runs  PROVE HasPendingTask(r) <=> Waiting(r)
<1>1. ASSUME HasPendingTask(r)  PROVE Waiting(r)
  BY <1>1 DEF HasPendingTask, PendingTasks, Rows, Waiting, Waits
<1>2. ASSUME NEW agent \in Agents, NEW k \in DOMAIN tasks[r][agent],
             Waits(r, agent, k)
      PROVE  HasPendingTask(r)
  <2> DEFINE Of(q, b) == {<<q, b, j>> : j \in DOMAIN tasks[q][b]}
  <2>1. <<r, agent, k>> \in Of(r, agent)
    OBVIOUS
  <2>2. Of(r, agent) \in {Of(q, b) : q \in Runs, b \in Agents}
    <3> HIDE DEF Of
    <3>. QED OBVIOUS
  <2>3. Rows = UNION {Of(q, b) : q \in Runs, b \in Agents}
    BY DEF Rows
  <2>4. <<r, agent, k>> \in Rows
    <3> HIDE DEF Of
    <3>. QED BY <2>1, <2>2, <2>3
  <2>. QED BY <1>2, <2>4 DEF HasPendingTask, PendingTasks, Waits
<1>. QED BY <1>1, <1>2 DEF Waiting

(* The task the worker is on is waiting.                                   *)
LEMMA WorkerTaskWaits ==
    ASSUME TypeInv, worker.at \notin {"polling", "batch"}
    PROVE  /\ TheRun \in Runs /\ TheAgent \in Agents /\ worker.row[3] \in Nat
           /\ worker.row = <<TheRun, TheAgent, worker.row[3]>>
           /\ Waits(TheRun, TheAgent, worker.row[3])
           /\ Waiting(TheRun) /\ Exists(TheRun)
<1>1. worker.row \in Runs \X Agents \X Nat /\ IsPending(worker.row)
  BY DEF TypeInv, WorkerOK, WorkerStates
<1>2. /\ TheRun \in Runs /\ TheAgent \in Agents
      /\ Waits(TheRun, TheAgent, worker.row[3])
  BY <1>1 DEF IsPending, TheRun, TheAgent, Waits
<1>3. tasks[TheRun][TheAgent] # <<>>
  BY <1>2 DEF Waits
<1>. QED
  BY <1>1, <1>2, <1>3 DEF TypeInv, TasksOK, Waiting, Waits, TheRun, TheAgent

(* An assignment to the locals of one process leaves those of the others.  *)
LEMMA CallSet ==
    ASSUME TypeInv, NEW a \in Actors, NEW c, call' = [call EXCEPT ![a] = c]
    PROVE  call'[a] = c /\ \A b \in Actors \ {a} : call'[b] = call[b]
BY DEF TypeInv, CallsOK

LEMMA ClientSet ==
    ASSUME TypeInv, NEW c \in Clients, NEW p, client' = [client EXCEPT ![c] = p]
    PROVE  client'[c] = p /\ \A d \in Clients \ {c} : client'[d] = client[d]
BY DEF TypeInv, ClientsOK

(* A move that is logged becomes the last of the moves of its run.         *)
LEMMA MoveLogged ==
    ASSUME TypeInv, NEW r \in Runs, NEW s \in States, NEW t \in States,
           Log(r, Move(s, t)), NEW n, n = Len(log[r]) + 1
    PROVE  /\ Moves(r)' = Moves(r) \cup {n} /\ n \notin Moves(r)
           /\ log'[r][n].from = s /\ log'[r][n].to = t
           /\ \A i \in Moves(r) : i \in Nat /\ i < n /\ log'[r][i] = log[r][i]
           /\ n \in Nat
           /\ \A q \in Runs \ {r} : log'[q] = log[q]
<1>1. Move(s, t) \in Entries /\ s # NoState
  BY EntriesTyped, StatesNamed
<1>2. /\ log'[r] = Append(log[r], Move(s, t))
      /\ \A q \in Runs \ {r} : log'[q] = log[q]
      /\ log[r] \in Seq(Entries)
  BY <1>1, Logged DEF TypeInv, EventTable
<1>3. /\ DOMAIN log'[r] = DOMAIN log[r] \cup {n} /\ n \in Nat
      /\ n \notin DOMAIN log[r]
      /\ \A k \in DOMAIN log[r] : k \in Nat /\ k < n /\ log'[r][k] = log[r][k]
      /\ log'[r][n] = Move(s, t)
  BY <1>1, <1>2
<1>. QED BY <1>1, <1>2, <1>3 DEF Moves, Move

(* What is not a move leaves the moves alone.                              *)
LEMMA OtherLogged ==
    ASSUME TypeInv, NEW r \in Runs, NEW e \in Entries, e.from = NoState, Log(r, e),
           NEW q \in Runs
    PROVE  Moves(q)' = Moves(q) /\ \A i \in Moves(q) : log'[q][i] = log[q][i]
<1>1. /\ log'[r] = Append(log[r], e)
      /\ \A p \in Runs \ {r} : log'[p] = log[p]
      /\ log[r] \in Seq(Entries)
  BY Logged DEF TypeInv, EventTable
<1>2. /\ DOMAIN log'[r] = DOMAIN log[r] \cup {Len(log[r]) + 1}
      /\ \A k \in DOMAIN log[r] : log'[r][k] = log[r][k]
      /\ log'[r][Len(log[r]) + 1] = e
  BY <1>1
<1>. QED BY <1>1, <1>2 DEF Moves

(* A run whose log is not written keeps its moves.                         *)
LEMMA LogSame ==
    ASSUME NEW q \in Runs, log'[q] = log[q]
    PROVE  Moves(q)' = Moves(q) /\ \A i \in Moves(q) : log'[q][i] = log[q][i]
BY DEF Moves

-----------------------------------------------------------------------------

(* Steps after which everything PatientInv says of a run is as before: no  *)
(* move, no new task, no new call or creation.                             *)
Calm(r) ==
    /\ run'[r].state = run[r].state
    /\ Waiting(r)' => Waiting(r)
    /\ Moves(r)' = Moves(r) /\ \A i \in Moves(r) : log'[r][i] = log[r][i]
    /\ \A a \in Actors : OnCall(a, r)' =>
          OnCall(a, r) /\ (call'[a] = call[a] \/ Fresh(a, r)')
    /\ \A c \in Clients : Starting(c, r)' => Starting(c, r)

LEMMA CalmStaysQuiet ==
    ASSUME NEW r \in Runs, Quiet(r), Calm(r)  PROVE Quiet(r)'
<1>1. CallsAlone(r)' /\ RequestsQuiet(r)'
  BY DEF Calm, Quiet, CallsAlone, RequestsQuiet, Actors
<1>2. StartsQuiet(r)'
  BY DEF Calm, Quiet, StartsQuiet
<1>3. CallsFresh(r)'
  BY DEF Calm, Quiet, CallsFresh, Fresh
<1>4. TailShown(r)' /\ MovedExists(r)'
  BY DEF Calm, Quiet, TailShown, MovedExists
<1>5. Replays(r)'
  BY DEF Calm, Quiet, Replays
<1>. QED BY <1>1, <1>2, <1>3, <1>4, <1>5 DEF Quiet

(* Only a write to the tasks of a run changes which of them wait.          *)
LEMMA WaitingSame ==
    ASSUME NEW r \in Runs, tasks'[r] = tasks[r]  PROVE Waiting(r)' = Waiting(r)
BY DEF Waiting, Waits

(* Finish makes one task leave "pending", and nothing else.                *)
LEMMA FinishCalms ==
    ASSUME TypeInv, NEW row \in worker.batch, NEW s \in {"completed", "failed"},
           Finish(row, s), NEW r \in Runs
    PROVE  \A agent \in Agents : \A k : Waits(r, agent, k)' <=>
              Waits(r, agent, k) /\ <<r, agent, k>> # row
<1>1. row \in Runs \X Agents \X Nat /\ IsPending(row)
  BY DEF TypeInv, WorkerOK, WorkerStates
<1> DEFINE q == row[1]  b == row[2]  j == row[3]
           t == [tasks[q][b] EXCEPT ![j] = s]
<1>2. tasks[q][b] \in Seq({"pending", "completed", "failed"})
  BY <1>1 DEF TypeInv, TasksOK, TaskTable
<1>3. /\ DOMAIN t = DOMAIN tasks[q][b] /\ t[j] = s
      /\ \A i \in DOMAIN tasks[q][b] \ {j} : t[i] = tasks[q][b][i]
  BY <1>1, <1>2 DEF IsPending
<1>4. tasks' = [tasks EXCEPT ![q] = [tasks[q] EXCEPT ![b] = t]]
  BY DEF Finish
<1>. SUFFICES ASSUME NEW agent \in Agents, NEW k
              PROVE  Waits(r, agent, k)' <=>
                        Waits(r, agent, k) /\ <<r, agent, k>> # row
  OBVIOUS
<1>5. CASE r = q /\ agent = b
  <2>1. tasks'[r][agent] = t
    BY <1>1, <1>4, <1>5 DEF TypeInv, TasksOK, TaskTable
  <2>2. <<r, agent, k>> = row <=> k = j
    BY <1>1, <1>5
  <2>3. CASE k = j
    BY <1>1, <1>3, <1>5, <2>1, <2>2, <2>3 DEF Waits, IsPending
  <2>4. CASE k # j
    BY <1>1, <1>3, <1>5, <2>1, <2>2, <2>4 DEF Waits
  <2>. QED BY <2>3, <2>4
<1>6. CASE ~(r = q /\ agent = b)
  <2>1. tasks'[r][agent] = tasks[r][agent]
    BY <1>1, <1>4, <1>6 DEF TypeInv, TasksOK, TaskTable
  <2>. QED BY <1>1, <1>6, <2>1 DEF Waits
<1>. QED BY <1>5, <1>6

-----------------------------------------------------------------------------
(* The steps after which every run is as quiet as before.                  *)

LEMMA DecideCalms ==
    ASSUME TypeInv, NEW a \in Actors, Decide(a), NEW r \in Runs  PROVE Calm(r)
<1> DEFINE q == call[a].run
<1>1. q \in Runs
  BY DEF TypeInv, CallsOK, Decide
<1>2. /\ call'[a] = Verdict(q)
      /\ \A b \in Actors \ {a} : call'[b] = call[b]
  BY CallSet DEF Decide
<1>3. UNCHANGED <<run, tasks, log, client>>
  BY DEF Decide, store
<1>4. OnCall(a, r)' => OnCall(a, r) /\ Fresh(a, r)'
  BY <1>1, <1>2, <1>3, VerdictTyped DEF TypeInv, Decide, OnCall, Fresh
<1>5. Waiting(r)' = Waiting(r) /\ Moves(r)' = Moves(r)
  BY <1>3, WaitingSame, LogSame
<1>. QED BY <1>2, <1>3, <1>4, <1>5 DEF Calm, OnCall, Starting

LEMMA MarkSucceededCalms ==
    ASSUME TypeInv, NEW a \in Actors, MarkSucceeded(a), NEW r \in Runs
    PROVE  Calm(r)
<1>1. /\ call'[a] = NoCall
      /\ \A b \in Actors \ {a} : call'[b] = call[b]
  BY CallSet DEF MarkSucceeded
<1>2. UNCHANGED <<tasks, log, client>>
  BY DEF MarkSucceeded
<1>3. run'[r].state = run[r].state
  BY StatusWritten DEF TypeInv, CallsOK, MarkSucceeded
<1>4. Waiting(r)' = Waiting(r) /\ Moves(r)' = Moves(r)
  BY <1>2, WaitingSame, LogSame
<1>. QED BY <1>1, <1>2, <1>3, <1>4 DEF Calm, OnCall, Starting, NoCall

LEMMA LogStartCalms ==
    ASSUME TypeInv, NEW c \in Clients, LogStart(c), NEW r \in Runs
    PROVE  Calm(r)
<1>1. PICK q \in Runs : client[c].run = q
  BY DEF TypeInv, ClientsOK, LogStart
<1>2. FirstState(WorkflowOf[q]) \in States
  BY StatesNamed, OrchestratorAssumption
<1> DEFINE e == Move(NoState, FirstState(WorkflowOf[q]))
<1>3. e \in Entries /\ e.from = NoState /\ Log(q, e)
  BY <1>1, <1>2, EntriesTyped DEF LogStart, Move
<1>4. Moves(r)' = Moves(r) /\ \A i \in Moves(r) : log'[r][i] = log[r][i]
  <2> HIDE DEF e
  <2>. QED BY <1>3, OtherLogged
<1>5. UNCHANGED <<run, tasks, call>>
  BY DEF LogStart
<1>6. Starting(c, r)' => Starting(c, r)
  BY DEF LogStart, TypeInv, ClientsOK, ClientStates, Starting
<1>7. \A d \in Clients \ {c} : client'[d] = client[d]
  BY DEF LogStart, TypeInv, ClientsOK
<1>8. Waiting(r)' = Waiting(r)
  BY <1>5, WaitingSame
<1>. QED BY <1>4, <1>5, <1>6, <1>7, <1>8 DEF Calm, OnCall, Starting

(* Steps of the worker between its calls.                                  *)
LEMMA WorkerCalms ==
    ASSUME TypeInv, NEW r \in Runs,
           \/ FetchTasks \/ HandlerFails \/ FailWorkflow \/ ReportError
           \/ MarkAgentComplete \/ FinishTask
           \/ \E row \in worker.batch : SkipTask(row) \/ StartTask(row)
    PROVE  Calm(r)
<1>1. UNCHANGED <<call, client>>
  BY DEF FetchTasks, HandlerFails, FailWorkflow, ReportError, MarkAgentComplete,
         FinishTask, SkipTask, StartTask
<1>2. run'[r].state = run[r].state
  <2>1. CASE FailWorkflow
    BY <2>1, WorkerTaskWaits, StatusWritten DEF TypeInv, FailWorkflow
  <2>2. CASE UNCHANGED run
    BY <2>2
  <2>. QED
    BY <2>1, <2>2 DEF FetchTasks, HandlerFails, ReportError, MarkAgentComplete,
                      FinishTask, SkipTask, StartTask, store
<1>3. Waiting(r)' => Waiting(r)
  <2>1. CASE FinishTask \/ \E row \in worker.batch : SkipTask(row)
    <3>1. PICK row \in worker.batch, s \in {"completed", "failed"} : Finish(row, s)
      BY <2>1 DEF TypeInv, WorkerOK, FinishTask, SkipTask
    <3>. QED BY <3>1, FinishCalms DEF Waiting, Waits
  <2>2. CASE UNCHANGED tasks
    BY <2>2, WaitingSame
  <2>. QED
    BY <2>1, <2>2 DEF FetchTasks, HandlerFails, FailWorkflow, ReportError,
                      MarkAgentComplete, StartTask, store
<1>4. Moves(r)' = Moves(r) /\ \A i \in Moves(r) : log'[r][i] = log[r][i]
  <2>1. CASE ReportError
    <3>1. TheRun \in Runs
      BY <2>1, WorkerTaskWaits DEF ReportError
    <3>2. Error \in Entries /\ Error.from = NoState
      BY EntriesTyped DEF Error
    <3>. QED BY <2>1, <3>1, <3>2, OtherLogged DEF ReportError
  <2>2. CASE UNCHANGED log
    BY <2>2, LogSame
  <2>. QED
    BY <2>1, <2>2 DEF FetchTasks, HandlerFails, FailWorkflow, FinishTask, SkipTask,
                      MarkAgentComplete, StartTask, store
<1>. QED BY <1>1, <1>2, <1>3, <1>4 DEF Calm, OnCall, Starting

LEMMA CrashCalms ==
    ASSUME TypeInv, NEW r \in Runs, WorkerCrash \/ ApiCrash  PROVE Calm(r)
<1>1. UNCHANGED <<run, tasks, log>>
  BY DEF WorkerCrash, ApiCrash, store
<1>2. \A a \in Actors : call'[a] = call[a] \/ call'[a] = NoCall
  BY DEF TypeInv, CallsOK, WorkerCrash, ApiCrash
<1>3. \A c \in Clients : client'[c] = client[c] \/ client'[c] = IdleClient
  BY DEF WorkerCrash, ApiCrash
<1>4. Waiting(r)' = Waiting(r) /\ Moves(r)' = Moves(r)
  BY <1>1, WaitingSame, LogSame
<1>. QED
  BY <1>1, <1>2, <1>3, <1>4 DEF Calm, OnCall, Starting, NoCall, IdleClient

-----------------------------------------------------------------------------
(* The steps that move a run on: the others stay as quiet as they were.    *)

LEMMA TransitionKeepsQuiet ==
    ASSUME TypeInv, NEW a \in Actors, Transition(a), NEW r \in Runs, Quiet(r)
    PROVE  Quiet(r)'
<1>1. PICK q \in Runs, s \in States :
          /\ call[a].run = q /\ call[a].to = s /\ Exists(q)
          /\ call'[a].at \in {"none", "enqueue", "succeed"}
          /\ call'[a].at # "none" => call'[a].run = q /\ call'[a].to = s
          /\ \A b \in Actors \ {a} : call'[b] = call[b]
  BY DEF TypeInv, CallsOK, Calls, NoCall, Transition
<1>2. UNCHANGED <<tasks, client>> /\ OnCall(a, q) /\ call[a].at = "write"
  BY <1>1 DEF Transition, OnCall
<1>3. /\ run'[q].state = s
      /\ \A p \in Runs \ {q} : run'[p] = run[p]
  BY <1>1, StateWritten DEF TypeInv, Transition
<1>4. call[a].from = NoState \/ call[a].from \in States
  BY DEF TypeInv, CallsOK, Calls
<1>5. CASE r # q
  <2>1. log'[r] = log[r]
    <3>1. Move(call[a].from, s) \in Entries /\ Log(q, Move(call[a].from, s))
      BY <1>1, <1>4, EntriesTyped DEF Transition
    <3>. QED BY <1>5, <3>1, Logged DEF TypeInv
  <2>2. Calm(r)
    BY <1>1, <1>2, <1>3, <1>5, <2>1, WaitingSame, LogSame
    DEF Calm, OnCall, Starting
  <2>. QED BY <2>2, CalmStaysQuiet
<1>6. CASE r = q
  <2>1. call[a].from = run[r].state /\ run[r].state \in States
    <3>1. call[a].from = run[r].state
      BY <1>2, <1>6 DEF Quiet, CallsFresh, Fresh
    <3>2. run[r].state # NoState
      BY <1>1, <1>6 DEF TypeInv, RunsOK
    <3>. QED BY <3>1, <3>2 DEF TypeInv, RunsOK, RunTable
  <2>2. \A b \in Actors : OnCall(b, r)' => b = a
    BY <1>1, <1>2, <1>6 DEF Quiet, CallsAlone, OnCall
  <2>3. CallsAlone(r)' /\ CallsFresh(r)'
    BY <1>1, <1>3, <1>6, <2>2 DEF CallsAlone, CallsFresh, Fresh, OnCall
  <2>4. RequestsQuiet(r)'
    BY <1>2, <1>6, <2>2, WaitingSame DEF Quiet, RequestsQuiet, Actors
  <2>5. StartsQuiet(r)'
    BY <1>2, <1>6 DEF Quiet, StartsQuiet, Starting
  <2>6. PICK n :
           /\ Moves(r)' = Moves(r) \cup {n} /\ n \notin Moves(r)
           /\ log'[r][n].from = run[r].state /\ log'[r][n].to = s
           /\ \A i \in Moves(r) : i \in Nat /\ i < n /\ log'[r][i] = log[r][i]
           /\ n \in Nat
    BY <1>1, <1>6, <2>1, MoveLogged DEF Transition
  <2>7. TailShown(r)'
    <3>. SUFFICES ASSUME NEW i \in Moves(r)', \A k \in Moves(r)' : k <= i
                  PROVE  log'[r][i].to = run'[r].state
      BY DEF TailShown
    <3>. QED BY <1>3, <1>6, <2>6
  <2>8. MovedExists(r)'
    BY <1>1, <1>3, <1>6, StatesNamed DEF MovedExists
  <2>9. Replays(r)'
    <3>. SUFFICES ASSUME NEW i \in Moves(r)', NEW j \in Moves(r)', i < j,
                         \A k \in Moves(r)' : k <= i \/ j <= k
                  PROVE  log'[r][j].from = log'[r][i].to
      BY DEF Replays
    <3>1. i \in Moves(r)
      BY <2>6
    <3>2. CASE j \in Moves(r)
      BY <2>6, <3>1, <3>2 DEF Quiet, Replays
    <3>3. CASE j = n
      <4>1. \A k \in Moves(r) : k <= i
        BY <2>6, <3>3
      <4>. QED BY <2>6, <3>1, <3>3, <4>1 DEF Quiet, TailShown
    <3>. QED BY <2>6, <3>2, <3>3
  <2>. QED BY <2>3, <2>4, <2>5, <2>7, <2>8, <2>9 DEF Quiet
<1>. QED BY <1>5, <1>6

LEMMA TaskAddedWaits ==
    ASSUME TypeInv, NEW q \in Runs, NEW agent \in Agents, AddTask(q, agent)
    PROVE  \A r \in Runs \ {q} : tasks'[r] = tasks[r]
BY DEF TypeInv, TasksOK, TaskTable, AddTask

LEMMA EnqueueKeepsQuiet ==
    ASSUME TypeInv, NEW a \in Actors, Enqueue(a), NEW r \in Runs, Quiet(r)
    PROVE  Quiet(r)'
<1>1. PICK q \in Runs, agent \in Agents : call[a].run = q /\ AddTask(q, agent)
  BY AgentsOfState DEF TypeInv, CallsOK, Enqueue
<1>2. UNCHANGED <<run, log, client>> /\ OnCall(a, q)
  BY <1>1 DEF Enqueue, OnCall
<1>3. /\ call'[a] = NoCall
      /\ \A b \in Actors \ {a} : call'[b] = call[b]
  BY CallSet DEF Enqueue
<1>4. CASE r # q
  <2>1. Calm(r)
    BY <1>1, <1>2, <1>3, <1>4, TaskAddedWaits, WaitingSame, LogSame
    DEF Calm, OnCall, Starting, NoCall
  <2>. QED BY <2>1, CalmStaysQuiet
<1>5. CASE r = q
  <2>1. \A b \in Actors : ~OnCall(b, r)'
    BY <1>2, <1>3, <1>5 DEF Quiet, CallsAlone, OnCall, NoCall
  <2>2. \A c \in Clients : ~Starting(c, r)'
    BY <1>2, <1>5 DEF Quiet, StartsQuiet, Starting
  <2>3. CallsAlone(r)' /\ RequestsQuiet(r)' /\ StartsQuiet(r)' /\ CallsFresh(r)'
    BY <2>1, <2>2 DEF CallsAlone, RequestsQuiet, StartsQuiet, CallsFresh, Actors
  <2>. QED BY <1>2, <2>3 DEF Quiet, TailShown, MovedExists, Replays, Moves
<1>. QED BY <1>4, <1>5

LEMMA EnqueueStartKeepsQuiet ==
    ASSUME TypeInv, NEW c \in Clients, EnqueueStart(c), NEW r \in Runs, Quiet(r)
    PROVE  Quiet(r)'
<1>1. PICK q \in Runs, agent \in Agents : client[c].run = q /\ AddTask(q, agent)
  BY AgentsOfState DEF TypeInv, ClientsOK, EnqueueStart
<1>2. UNCHANGED <<run, log, call>> /\ Starting(c, q)
  BY <1>1 DEF EnqueueStart, Starting
<1>3. /\ client'[c] = IdleClient
      /\ \A d \in Clients \ {c} : client'[d] = client[d]
  BY ClientSet DEF EnqueueStart
<1>4. CASE r # q
  <2>1. Calm(r)
    BY <1>1, <1>2, <1>3, <1>4, TaskAddedWaits, WaitingSame, LogSame
    DEF Calm, OnCall, Starting, IdleClient
  <2>. QED BY <2>1, CalmStaysQuiet
<1>5. CASE r = q
  <2>1. \A b \in Actors : ~OnCall(b, r)'
    BY <1>2, <1>5 DEF Quiet, StartsQuiet, OnCall
  <2>2. \A d \in Clients : ~Starting(d, r)'
    BY <1>2, <1>3, <1>5 DEF Quiet, StartsQuiet, Starting, IdleClient
  <2>3. CallsAlone(r)' /\ RequestsQuiet(r)' /\ StartsQuiet(r)' /\ CallsFresh(r)'
    BY <2>1, <2>2 DEF CallsAlone, RequestsQuiet, StartsQuiet, CallsFresh, Actors
  <2>. QED BY <1>2, <2>3 DEF Quiet, TailShown, MovedExists, Replays, Moves
<1>. QED BY <1>4, <1>5

(* No run starts in a gate.                                                *)
LEMMA NoGateFirst ==
    ASSUME NEW name  PROVE FirstState(name) \notin GatedStates
BY DEF FirstState, GatedStates

LEMMA CreateRunKeepsQuiet ==
    ASSUME TypeInv, NEW c \in Clients, NEW q \in Runs, CreateRun(c, q),
           NEW r \in Runs, Quiet(r)
    PROVE  Quiet(r)'
<1>1. UNCHANGED <<tasks, log, call>>
  BY DEF CreateRun
<1>2. /\ client'[c] = [at |-> "created", run |-> q]
      /\ \A d \in Clients \ {c} : client'[d] = client[d]
  BY ClientSet DEF CreateRun
<1>3. /\ run'[q].state = FirstState(WorkflowOf[q])
      /\ \A p \in Runs \ {q} : run'[p] = run[p]
  BY DEF TypeInv, RunsOK, RunTable, CreateRun
<1>4. CASE r # q
  <2>1. Calm(r)
    BY <1>1, <1>2, <1>3, <1>4, WaitingSame, LogSame DEF Calm, OnCall, Starting
  <2>. QED BY <2>1, CalmStaysQuiet
<1>5. CASE r = q
  <2>1. ~Exists(r) /\ run[r].state = NoState
    BY <1>5 DEF CreateRun, TypeInv, RunsOK
  <2>2. \A a \in Actors : ~OnCall(a, r)'
    BY <1>1, <2>1 DEF TypeInv, CallsOK, OnCall
  <2>3. \A d \in Clients : Starting(d, r)' => d = c
    BY <1>2, <2>1 DEF TypeInv, ClientsOK, Starting
  <2>4. ~Waiting(r)'
    BY <1>1, <2>1 DEF TypeInv, TasksOK, TaskTable, Waiting, Waits
  <2>5. CallsAlone(r)' /\ RequestsQuiet(r)' /\ StartsQuiet(r)' /\ CallsFresh(r)'
    BY <1>3, <1>5, <2>2, <2>3, <2>4
    DEF CallsAlone, RequestsQuiet, StartsQuiet, CallsFresh, Actors
  <2>6. Moves(r)' = {}
    BY <1>1, <2>1 DEF Quiet, MovedExists, Moves
  <2>. QED BY <2>5, <2>6 DEF Quiet, TailShown, MovedExists, Replays
<1>. QED BY <1>4, <1>5

LEMMA ApproveGateKeepsQuiet ==
    ASSUME TypeInv, Operator = "patient", NEW c \in Clients, NEW q \in Runs,
           NEW gate \in GatedStates, ApproveGate(c, q, gate),
           NEW r \in Runs, Quiet(r)
    PROVE  Quiet(r)'
<1>1. UNCHANGED <<run, tasks, log, client>>
  BY DEF ApproveGate
<1>2. /\ call'[c] = Advancing(q)
      /\ \A b \in Actors \ {c} : call'[b] = call[b]
  BY CallSet DEF ApproveGate, Actors
<1>3. Advancing(q).at = "decide" /\ Advancing(q).run = q
  BY DEF Advancing, NoCall
<1>4. CASE r # q
  <2>1. Calm(r)
    BY <1>1, <1>2, <1>3, <1>4, WaitingSame, LogSame DEF Calm, OnCall, Starting
  <2>. QED BY <2>1, CalmStaysQuiet
<1>5. CASE r = q
  <2>1. \A a \in Actors : OnCall(a, r)' => a = c
    BY <1>2, <1>5 DEF ApproveGate, MayApprove, OnCall
  <2>2. ~Waiting(r)'
    BY <1>1, <1>5, PendingIsWaiting, WaitingSame DEF ApproveGate, MayApprove
  <2>3. \A d \in Clients : ~Starting(d, r)'
    BY <1>1, <1>5, NoGateFirst
    DEF ApproveGate, MayApprove, Quiet, StartsQuiet, Starting
  <2>4. CallsAlone(r)' /\ RequestsQuiet(r)' /\ StartsQuiet(r)' /\ CallsFresh(r)'
    BY <1>2, <1>3, <2>1, <2>2, <2>3
    DEF CallsAlone, RequestsQuiet, StartsQuiet, CallsFresh, Fresh
  <2>. QED BY <1>1, <2>4 DEF Quiet, TailShown, MovedExists, Replays, Moves
<1>. QED BY <1>4, <1>5

LEMMA EmitCompletedKeepsQuiet ==
    ASSUME TypeInv, WorkerHome, EmitCompleted, NEW r \in Runs, Quiet(r)
    PROVE  Quiet(r)'
<1> DEFINE q == TheRun
<1>1. UNCHANGED <<run, tasks, log, client>>
  BY DEF EmitCompleted, store
<1>2. /\ call'[Worker] = Advancing(q)
      /\ \A b \in Actors \ {Worker} : call'[b] = call[b]
  BY CallSet DEF EmitCompleted, Actors
<1>3. Advancing(q).at = "decide" /\ Advancing(q).run = q
  BY DEF Advancing, NoCall
<1>4. q \in Runs /\ Waiting(q)
  BY WorkerTaskWaits DEF EmitCompleted
<1>5. CASE r # q
  <2>1. Calm(r)
    BY <1>1, <1>2, <1>3, <1>5, WaitingSame, LogSame DEF Calm, OnCall, Starting
  <2>. QED BY <2>1, CalmStaysQuiet
<1>6. CASE r = q
  <2>1. \A a \in Actors : OnCall(a, r)' => a = Worker
    BY <1>2, <1>4, <1>6 DEF Quiet, RequestsQuiet, OnCall, Actors
  <2>2. \A d \in Clients : ~Starting(d, r)'
    BY <1>1, <1>4, <1>6 DEF Quiet, StartsQuiet, Starting
  <2>3. Worker \notin Clients
    BY OrchestratorAssumption
  <2>4. CallsAlone(r)' /\ RequestsQuiet(r)' /\ StartsQuiet(r)' /\ CallsFresh(r)'
    BY <1>2, <1>3, <2>1, <2>2, <2>3
    DEF CallsAlone, RequestsQuiet, StartsQuiet, CallsFresh, Fresh, Actors
  <2>. QED BY <1>1, <2>4 DEF Quiet, TailShown, MovedExists, Replays, Moves
<1>. QED BY <1>5, <1>6

(* The worker calls advance_workflow in EmitCompleted only, and is back    *)
(* before it goes on.                                                      *)
LEMMA WorkerHomeKept ==
    TypeInv /\ WorkerHome /\ [Next]_vars => WorkerHome'
<1> SUFFICES ASSUME TypeInv, WorkerHome, [Next]_vars  PROVE WorkerHome'
  OBVIOUS
<1>1. ASSUME NEW a \in Actors, AdvanceStep(a)  PROVE WorkerHome'
  <2>1. UNCHANGED worker
    BY <1>1 DEF AdvanceStep, Decide, Transition, Enqueue, MarkSucceeded
  <2>2. call'[Worker].at # "none" =>
            call[Worker].at # "none" /\ call'[Worker].run = call[Worker].run
    <3>1. CASE a # Worker
      BY <1>1, <3>1
      DEF AdvanceStep, Decide, Transition, Enqueue, MarkSucceeded, TypeInv, CallsOK,
          Actors
    <3>2. CASE a = Worker
      <4>1. CASE Decide(a)
        <5>1. call[a].run \in Runs
          BY <4>1 DEF Decide, TypeInv, CallsOK
        <5>2. call'[a] = Verdict(call[a].run)
          BY <4>1, CallSet DEF Decide
        <5>. QED BY <3>2, <4>1, <5>1, <5>2, VerdictTyped DEF Decide, TypeInv
      <4>2. CASE Transition(a)
        BY <3>2, <4>2 DEF Transition, TypeInv, CallsOK, Calls, NoCall
      <4>3. CASE Enqueue(a) \/ MarkSucceeded(a)
        BY <3>2, <4>3 DEF Enqueue, MarkSucceeded, TypeInv, CallsOK, NoCall
      <4>. QED BY <1>1, <4>1, <4>2, <4>3 DEF AdvanceStep
    <3>. QED BY <3>1, <3>2
  <2>. QED BY <2>1, <2>2 DEF WorkerHome, TheRun
<1>2. CASE EmitCompleted
  <2>1. call'[Worker] = Advancing(TheRun)
    BY <1>2, CallSet DEF EmitCompleted, Actors
  <2>2. worker'.at = "finishing" /\ worker'.row = worker.row
    BY <1>2 DEF EmitCompleted, TypeInv, WorkerOK, WorkerStates
  <2>. QED BY <2>1, <2>2 DEF WorkerHome, Advancing, NoCall, TheRun
<1>3. CASE \/ FetchTasks \/ HandlerFails \/ FailWorkflow \/ ReportError
           \/ MarkAgentComplete \/ FinishTask
           \/ \E row \in worker.batch : SkipTask(row) \/ StartTask(row)
  <2>1. call[Worker].at = "none" /\ UNCHANGED call
    BY <1>3
    DEF FetchTasks, HandlerFails, FailWorkflow, ReportError, MarkAgentComplete,
        FinishTask, SkipTask, StartTask, WorkerHome
  <2>. QED BY <2>1 DEF WorkerHome
<1>4. ASSUME NEW c \in Clients, Request(c) \/ LogStart(c) \/ EnqueueStart(c)
      PROVE  WorkerHome'
  <2>1. UNCHANGED worker /\ call'[Worker] = call[Worker]
    BY <1>4, OrchestratorAssumption
    DEF Request, LogStart, EnqueueStart, CreateRun, AdvanceWorkflow, ApproveGate,
        TypeInv, CallsOK, Actors
  <2>. QED BY <2>1 DEF WorkerHome, TheRun
<1>5. CASE WorkerCrash
  <2>1. call'[Worker] = NoCall
    BY <1>5, CallSet DEF WorkerCrash, Actors
  <2>. QED BY <2>1 DEF WorkerHome, NoCall
<1>6. CASE ApiCrash \/ UNCHANGED vars
  <2>1. UNCHANGED worker /\ call'[Worker] = call[Worker]
    BY <1>6, OrchestratorAssumption DEF ApiCrash, vars, Actors
  <2>. QED BY <2>1 DEF WorkerHome, TheRun
<1>. QED
  BY <1>1, <1>2, <1>3, <1>4, <1>5, <1>6 DEF Next, WorkerStep, ClientStep, Actors

(* Every step of a system with a patient operator keeps PatientInv.  A     *)
(* request to advance that is no approval (AdvanceWorkflow) is not one of  *)
(* its steps.                                                              *)
LEMMA PatientInvStep ==
    ASSUME Operator = "patient", TypeInv, PatientInv, [Next]_vars
    PROVE  PatientInv'
<1>1. WorkerHome'
  BY WorkerHomeKept DEF PatientInv
<1>. SUFFICES ASSUME NEW r \in Runs PROVE Quiet(r)'
  BY <1>1 DEF PatientInv
<1>2. Quiet(r) /\ WorkerHome
  BY DEF PatientInv
<1>3. ASSUME NEW a \in Actors, AdvanceStep(a)  PROVE Quiet(r)'
  BY <1>2, <1>3, DecideCalms, MarkSucceededCalms, CalmStaysQuiet,
     TransitionKeepsQuiet, EnqueueKeepsQuiet
  DEF AdvanceStep
<1>4. CASE WorkerStep
  BY <1>2, <1>3, <1>4, WorkerCalms, CalmStaysQuiet, EmitCompletedKeepsQuiet
  DEF WorkerStep, Actors
<1>5. ASSUME NEW c \in Clients, ClientStep(c)  PROVE Quiet(r)'
  BY <1>2, <1>3, <1>5, LogStartCalms, CalmStaysQuiet, EnqueueStartKeepsQuiet
  DEF ClientStep, Actors
<1>6. ASSUME NEW c \in Clients, Request(c)  PROVE Quiet(r)'
  <2>1. ASSUME NEW q \in Runs, AdvanceWorkflow(c, q)  PROVE FALSE
    BY <2>1 DEF AdvanceWorkflow
  <2>. QED
    BY <1>2, <1>6, <2>1, CreateRunKeepsQuiet, ApproveGateKeepsQuiet DEF Request
<1>7. CASE WorkerCrash \/ ApiCrash
  BY <1>2, <1>7, CrashCalms, CalmStaysQuiet
<1>8. CASE UNCHANGED vars
  BY <1>2, <1>8
  DEF vars, store, Quiet, CallsAlone, RequestsQuiet, StartsQuiet, CallsFresh,
      TailShown, MovedExists, Replays, OnCall, Starting, Waiting, Waits, Fresh, Moves
<1>. QED BY <1>4, <1>5, <1>6, <1>7, <1>8 DEF Next

LEMMA PatientInvInit == Init => PatientInv
<1> SUFFICES ASSUME Init PROVE PatientInv
  OBVIOUS
<1>1. /\ \A a \in Actors : call[a].at = "none"
      /\ \A c \in Clients : client[c].at = "idle"
  BY DEF Init, NoCall, IdleClient
<1>2. \A r \in Runs : Moves(r) = {}
  BY DEF Init, Moves
<1>3. WorkerHome
  BY <1>1 DEF WorkerHome, Actors
<1>. QED
  BY <1>1, <1>2, <1>3
  DEF PatientInv, Quiet, CallsAlone, RequestsQuiet, StartsQuiet, CallsFresh,
      TailShown, MovedExists, Replays, OnCall, Starting, Actors

(* With a patient operator the log of a run replays: each move starts in   *)
(* the state the one before it ended in, although the state is read,       *)
(* written and logged in separate commits by the worker and the API.       *)
THEOREM PatientReplay ==
    ASSUME Operator = "patient"  PROVE Spec => []ReplayIsValid
<1>1. TypeInv /\ PatientInv /\ [Next]_vars => (TypeInv /\ PatientInv)'
  BY NextTyped, PatientInvStep
<1>2. Spec => [](TypeInv /\ PatientInv)
  BY <1>1, InitTyped, PatientInvInit, PTL DEF Spec
<1>. QED BY <1>2, PatientReplays, PTL

-----------------------------------------------------------------------------
(* Both graphs are chains: Rank orders the states of each along its edges, *)
(* and Before are the states a run has left behind.                        *)

Rank ==
    [DATA_INGESTION |-> 0, PROVISIONING_REQUESTED |-> 0, TICKET_INTAKE |-> 1,
     DESIGN_REVIEW |-> 2, PROFILING |-> 3, BUILD |-> 4, QA |-> 5,
     READY_FOR_REVIEW |-> 6, PR_CREATION |-> 7, DONE |-> 8]

Before(name, s) == {t \in DOMAIN WorkflowGraph(name) : Rank[t] < Rank[s]}

(* The successor of a state comes right after it, so ...                   *)
LEMMA NextInGraph ==
    ASSUME NEW name \in WorkflowNames, NEW s \in DOMAIN WorkflowGraph(name),
           Successor(name, s) \in States
    PROVE  /\ Successor(name, s) \in DOMAIN WorkflowGraph(name)
           /\ Rank[Successor(name, s)] \in Nat /\ Rank[s] \in Nat
           /\ \A t \in DOMAIN WorkflowGraph(name) :
                 Rank[t] < Rank[Successor(name, s)] <=> Rank[t] < Rank[s] \/ t = s
BY StatesNamed
DEF Successor, WorkflowGraph, TicketGraph, ProvisioningGraph, Rank, WorkflowNames,
    NoState

(* ... a transition leaves one state more behind.                          *)
LEMMA BeforeNext ==
    ASSUME NEW name \in WorkflowNames, NEW s \in DOMAIN WorkflowGraph(name),
           Successor(name, s) \in States
    PROVE  /\ Successor(name, s) \in DOMAIN WorkflowGraph(name)
           /\ Before(name, Successor(name, s)) = Before(name, s) \cup {s}
BY NextInGraph DEF Before

LEMMA NotBefore ==
    ASSUME NEW name \in WorkflowNames, NEW s \in DOMAIN WorkflowGraph(name)
    PROVE  s \notin Before(name, s)
BY DEF Before, WorkflowGraph, TicketGraph, ProvisioningGraph, Rank, WorkflowNames

LEMMA NothingBeforeFirst ==
    ASSUME NEW name \in WorkflowNames
    PROVE  /\ FirstState(name) \in DOMAIN WorkflowGraph(name)
           /\ Before(name, FirstState(name)) = {}
BY DEF Before, FirstState, WorkflowGraph, TicketGraph, ProvisioningGraph, Rank,
       WorkflowNames

(* DONE is the last state, starts no agent and has everything before it.   *)
LEMMA DoneIsLast ==
    ASSUME NEW name \in WorkflowNames
    PROVE  /\ Successor(name, "DONE") \notin States
           /\ AgentsOf("DONE") = {}
           /\ DOMAIN WorkflowGraph(name) \ {"DONE"} \subseteq Before(name, "DONE")
<1>1. Successor(name, "DONE") \notin States
  BY StatesNamed DEF Successor, WorkflowGraph, TicketGraph, ProvisioningGraph,
                     WorkflowNames
<1>2. AgentsOf("DONE") = {}
  BY DEF AgentsOf, StateOfAgent, Agents
<1>3. DOMAIN WorkflowGraph(name) \ {"DONE"} \subseteq Before(name, "DONE")
  BY DEF Before, WorkflowGraph, TicketGraph, ProvisioningGraph, Rank, WorkflowNames
<1>. QED BY <1>1, <1>2, <1>3

LEMMA OneAgentPerState ==
    ASSUME NEW a \in Agents, NEW b \in Agents, StateOfAgent[a] = StateOfAgent[b]
    PROVE  a = b
BY DEF Agents, StateOfAgent

-----------------------------------------------------------------------------

(* Every agent of a state has completed.                                   *)
DoneAt(r, s) == \A agent \in AgentsOf(s) : Done(r, agent, "completed")

(* The task the worker has in its hands.                                   *)
WorkerOn(r) == worker.at \notin {"polling", "batch"} /\ TheRun = r
Held(r, agent, k) == WorkerOn(r) /\ worker.row = <<r, agent, k>>

(* A task that still has to lead to something.                             *)
Unspent(r, agent, k) ==
    Waits(r, agent, k) /\ ~(Held(r, agent, k) /\ worker.at = "finishing")

(* A call, or a client that creates the run, is about to enqueue.          *)
Enqueues(r) == \E a \in Actors : OnCall(a, r) /\ call[a].at = "enqueue"
Starts(r)   == \E c \in Clients : Starting(c, r)

(* The agents of every state the run has left have completed.              *)
BehindDone(r) ==
    Exists(r) =>
        /\ run[r].state \in DOMAIN WorkflowGraph(WorkflowOf[r])
        /\ \A s \in Before(WorkflowOf[r], run[r].state) : DoneAt(r, s)

(* A call that will move the run on has found the agents of the state it   *)
(* is in completed.                                                        *)
GoesOn(a, r) ==
    /\ OnCall(a, r)
    /\ \/ call[a].at = "write"
       \/ call[a].at = "decide" /\ run[r].status = "running"

DeciderDone(r) == \A a \in Actors : GoesOn(a, r) => DoneAt(r, run[r].state)

(* A running run has a task to come, a task left to do, or no agent of its *)
(* state to wait for.                                                      *)
IdleDone(r) ==
    \/ run[r].status # "running"
    \/ Starts(r) \/ Enqueues(r)
    \/ \E agent \in Agents : \E k \in DOMAIN tasks[r][agent] :
          Unspent(r, agent, k)
    \/ DoneAt(r, run[r].state)

(* Success is given in DONE only.                                          *)
SucceededLast(r) == run[r].status = "succeeded" => run[r].state = "DONE"

(* A task that is left to do is the only one, belongs to the state the run *)
(* is in, and nobody advances the run meanwhile.                           *)
UnspentNow(r) ==
    \A agent \in Agents : \A k : Unspent(r, agent, k) =>
        /\ StateOfAgent[agent] = run[r].state
        /\ \A a \in Actors : ~OnCall(a, r)
        /\ \A other \in Agents : \A j :
              Unspent(r, other, j) => other = agent /\ j = k

(* A task the worker has not taken up belongs to an agent with no session, *)
(* so the guard against a second session will not skip it.                 *)
WaitersFresh(r) ==
    \A agent \in Agents : \A k :
        Waits(r, agent, k) /\ ~Held(r, agent, k) => sessions[r][agent] = <<>>

(* Agents of the states ahead have no session yet, ...                     *)
SessionsBehind(r) ==
    \A agent \in Agents : sessions[r][agent] # <<>> =>
        /\ Exists(r)
        /\ StateOfAgent[agent] \in
              Before(WorkflowOf[r], run[r].state) \cup {run[r].state}

(* ... nor have those of the state whose task is about to be enqueued.     *)
AheadFresh(r) ==
    Starts(r) \/ Enqueues(r) =>
        \A agent \in AgentsOf(run[r].state) : sessions[r][agent] = <<>>

(* What the worker has yet to do with its task agrees with what it has     *)
(* written of it: a completed session before it reports completion, a run  *)
(* that is no longer running before it reports an error.                   *)
WorkerReports(r) ==
    WorkerOn(r) =>
        /\ worker.at = "completing" => Done(r, TheAgent, "completed")
        /\ worker.at = "reporting" => run[r].status # "running"
        /\ worker.at = "finishing" /\ worker.outcome = "failed" =>
              run[r].status # "running"

Settled(r) ==
    /\ BehindDone(r) /\ DeciderDone(r) /\ IdleDone(r) /\ SucceededLast(r)
    /\ UnspentNow(r) /\ WaitersFresh(r) /\ SessionsBehind(r) /\ AheadFresh(r)
    /\ WorkerReports(r)

SettledInv == crashes = 0 => \A r \in Runs : Settled(r)

(* In DONE every other state of the graph is behind the run.               *)
LEMMA SettledSucceeds ==
    TypeInv /\ SettledInv => (crashes = 0 => SucceededMeansAllAgentsDone)
<1>. SUFFICES ASSUME TypeInv, SettledInv, crashes = 0,
                     NEW r \in Runs, run[r].status = "succeeded",
                     NEW agent \in Agents,
                     StateOfAgent[agent] \in DOMAIN WorkflowGraph(WorkflowOf[r])
              PROVE  Done(r, agent, "completed")
  BY DEF SucceededMeansAllAgentsDone
<1>1. Settled(r) /\ Exists(r) /\ WorkflowOf[r] \in WorkflowNames
  BY OrchestratorAssumption DEF SettledInv, Exists
<1>2. run[r].state = "DONE"
  BY <1>1 DEF Settled, SucceededLast
<1>3. StateOfAgent[agent] # "DONE"
  BY <1>1, DoneIsLast DEF AgentsOf
<1>4. DoneAt(r, StateOfAgent[agent])
  BY <1>1, <1>2, <1>3, DoneIsLast DEF Settled, BehindDone
<1>. QED BY <1>4 DEF DoneAt, AgentsOf

-----------------------------------------------------------------------------

(* Steps that do nothing to a run SettledInv could tell.                   *)
Same(r) ==
    /\ run'[r] = run[r] /\ tasks'[r] = tasks[r] /\ sessions'[r] = sessions[r]
    /\ \A a \in Actors : OnCall(a, r)' <=> OnCall(a, r)
    /\ \A a \in Actors : OnCall(a, r) => call'[a].at = call[a].at
    /\ \A c \in Clients : Starting(c, r)' <=> Starting(c, r)
    /\ WorkerOn(r)' <=> WorkerOn(r)
    /\ WorkerOn(r) =>
          /\ worker'.at = worker.at /\ worker'.row = worker.row
          /\ worker'.outcome = worker.outcome

LEMMA SameStaysSettled ==
    ASSUME NEW r \in Runs, Settled(r), Same(r)  PROVE Settled(r)'
<1>1. /\ \A agent, k : Waits(r, agent, k)' <=> Waits(r, agent, k)
      /\ \A agent, k : Held(r, agent, k)' <=> Held(r, agent, k)
      /\ \A agent, k : Unspent(r, agent, k)' <=> Unspent(r, agent, k)
  BY DEF Same, Waits, Held, Unspent
<1>2. /\ \A agent, status : Done(r, agent, status)' <=> Done(r, agent, status)
      /\ \A s : DoneAt(r, s)' <=> DoneAt(r, s)
      /\ Exists(r)' <=> Exists(r)
      /\ Starts(r)' <=> Starts(r)
      /\ Enqueues(r)' <=> Enqueues(r)
  BY DEF Same, Done, DoneAt, Exists, Starts, Enqueues
<1>3. BehindDone(r)' /\ SucceededLast(r)' /\ SessionsBehind(r)'
  BY <1>2 DEF Same, Settled, BehindDone, SucceededLast, SessionsBehind
<1>4. DeciderDone(r)' /\ AheadFresh(r)'
  BY <1>2 DEF Same, Settled, DeciderDone, GoesOn, AheadFresh
<1>5. IdleDone(r)'
  BY <1>1, <1>2 DEF Same, Settled, IdleDone
<1>6. UnspentNow(r)' /\ WaitersFresh(r)'
  BY <1>1 DEF Same, Settled, UnspentNow, WaitersFresh
<1>7. WorkerReports(r)'
  BY <1>2 DEF Same, Settled, WorkerReports, TheAgent
<1>. QED BY <1>3, <1>4, <1>5, <1>6, <1>7 DEF Settled

(* The worker is alone with the run whose task it has not finished.        *)
LEMMA WorkerAlone ==
    ASSUME TypeInv, NEW r \in Runs, Quiet(r), UnspentNow(r),
           worker.at \notin {"polling", "batch", "finishing"}, TheRun = r
    PROVE  /\ StateOfAgent[TheAgent] = run[r].state
           /\ \A a \in Actors : ~OnCall(a, r)
           /\ ~Starts(r) /\ ~Enqueues(r)
           /\ \A agent \in Agents : \A k : Waits(r, agent, k) => Held(r, agent, k)
           /\ \E k \in DOMAIN tasks[r][TheAgent] : Unspent(r, TheAgent, k)
           /\ TheAgent \in Agents
<1>1. PICK k : /\ worker.row = <<r, TheAgent, k>> /\ TheAgent \in Agents
               /\ Waits(r, TheAgent, k) /\ Waiting(r)
  BY WorkerTaskWaits
<1>2. Unspent(r, TheAgent, k) /\ k \in DOMAIN tasks[r][TheAgent]
  BY <1>1 DEF Unspent, Waits
<1>3. /\ StateOfAgent[TheAgent] = run[r].state
      /\ \A a \in Actors : ~OnCall(a, r)
      /\ \A other \in Agents : \A j :
            Unspent(r, other, j) => other = TheAgent /\ j = k
  BY <1>1, <1>2 DEF UnspentNow
<1>4. ~Starts(r) /\ ~Enqueues(r)
  BY <1>1, <1>3 DEF Quiet, StartsQuiet, Starts, Enqueues
<1>5. \A agent \in Agents : \A j : Waits(r, agent, j) => Held(r, agent, j)
  BY <1>1, <1>3 DEF Unspent, Held, WorkerOn
<1>. QED BY <1>1, <1>2, <1>3, <1>4, <1>5

(* A step of the worker on its task, up to the call: what the run and its  *)
(* sessions become is all there is to look at.                             *)
LEMMA OnTask ==
    ASSUME TypeInv, NEW r \in Runs, Quiet(r), Settled(r),
           worker.at \notin {"polling", "batch", "finishing"}, TheRun = r,
           UNCHANGED <<tasks, call, client>>,
           worker'.row = worker.row, worker'.at \notin {"polling", "batch"},
           run'[r].state = run[r].state, Exists(r)',
           run'[r].status \in {run[r].status, "failed"},
           worker'.at = "finishing" => run'[r].status # "running",
           \A agent \in Agents : sessions'[r][agent] # <<>> =>
              sessions[r][agent] # <<>>,
           \A agent \in Agents \ {TheAgent} : sessions'[r][agent] = sessions[r][agent]
    PROVE  Settled(r)' <=> WorkerReports(r)'
<1>1. /\ StateOfAgent[TheAgent] = run[r].state
      /\ \A a \in Actors : ~OnCall(a, r)
      /\ ~Starts(r) /\ ~Enqueues(r)
      /\ \A agent \in Agents : \A k : Waits(r, agent, k) => Held(r, agent, k)
      /\ TheAgent \in Agents
  BY WorkerAlone DEF Settled
<1>2. PICK b \in Agents, k \in Nat :
          b = TheAgent /\ k \in DOMAIN tasks[r][b] /\ Unspent(r, b, k)
  BY WorkerAlone DEF Settled, TypeInv, TasksOK, TaskTable
<1>3. TheRun' = r /\ TheAgent' = TheAgent
  BY DEF TheRun, TheAgent
<1>4. /\ \A agent, j : Waits(r, agent, j)' <=> Waits(r, agent, j)
      /\ \A agent, j : Held(r, agent, j)' <=> Held(r, agent, j)
      /\ \A agent, j : Unspent(r, agent, j)' => Unspent(r, agent, j)
      /\ worker'.at # "finishing" =>
            \A agent, j : Unspent(r, agent, j)' <=> Unspent(r, agent, j)
  BY <1>3 DEF Waits, Held, WorkerOn, Unspent
<1>5. /\ \A a \in Actors : ~OnCall(a, r)'
      /\ ~Starts(r)' /\ ~Enqueues(r)'
  BY <1>1 DEF OnCall, Starts, Starting, Enqueues
<1>6. BehindDone(r)'
  <2>1. WorkflowOf[r] \in WorkflowNames /\ Exists(r)
    BY WorkerTaskWaits, OrchestratorAssumption
  <2>2. /\ run[r].state \in DOMAIN WorkflowGraph(WorkflowOf[r])
        /\ \A s \in Before(WorkflowOf[r], run[r].state) : DoneAt(r, s)
    BY <2>1 DEF Settled, BehindDone
  <2>3. ASSUME NEW s \in Before(WorkflowOf[r], run[r].state)  PROVE DoneAt(r, s)'
    <3>1. s # run[r].state
      BY <2>1, <2>2, <2>3, NotBefore
    <3>2. \A agent \in AgentsOf(s) : sessions'[r][agent] = sessions[r][agent]
      BY <1>1, <3>1, AgentsOfState
    <3>. QED BY <2>2, <2>3, <3>2 DEF DoneAt, Done
  <2>. QED BY <2>2, <2>3 DEF BehindDone
<1>7. DeciderDone(r)' /\ AheadFresh(r)'
  BY <1>5 DEF DeciderDone, GoesOn, AheadFresh
<1>8. IdleDone(r)'
  <2>1. CASE worker'.at = "finishing"
    BY <2>1 DEF IdleDone
  <2>2. CASE worker'.at # "finishing"
    <3>1. k \in DOMAIN tasks'[r][b] /\ Unspent(r, b, k)'
      BY <1>2, <1>4, <2>2
    <3>. QED BY <1>1, <3>1 DEF IdleDone
  <2>. QED BY <2>1, <2>2
<1>9. SucceededLast(r)'
  BY DEF Settled, SucceededLast
<1>10. UnspentNow(r)' /\ WaitersFresh(r)'
  BY <1>1, <1>4, <1>5 DEF Settled, UnspentNow, WaitersFresh
<1>11. SessionsBehind(r)'
  BY DEF Settled, SessionsBehind
<1>. QED BY <1>6, <1>7, <1>8, <1>9, <1>10, <1>11 DEF Settled

(* Steps that leave a run of another task alone.                           *)
LEMMA OffTask ==
    ASSUME NEW r \in Runs, Settled(r), UNCHANGED client,
           run'[r] = run[r], tasks'[r] = tasks[r], sessions'[r] = sessions[r],
           \A a \in Actors : OnCall(a, r)' <=> OnCall(a, r),
           \A a \in Actors : OnCall(a, r) => call'[a].at = call[a].at,
           ~WorkerOn(r), ~WorkerOn(r)'
    PROVE  Settled(r)'
<1>1. Same(r)
  BY DEF Same, Starting
<1>. QED BY <1>1, SameStaysSettled

(* What SetSession does to the other sessions, and to the one it sets.     *)
LEMMA SessionOfTask ==
    ASSUME TypeInv, worker.at \notin {"polling", "batch"},
           NEW s \in {"completed", "failed"}, SetSession(s), NEW r \in Runs
    PROVE  /\ r # TheRun => sessions'[r] = sessions[r]
           /\ \A agent \in Agents \ {TheAgent} :
                 sessions'[r][agent] = sessions[r][agent]
           /\ \A agent \in Agents : sessions'[r][agent] # <<>> =>
                 sessions[r][agent] # <<>>
           /\ r = TheRun => \E k \in DOMAIN sessions'[r][TheAgent] :
                 sessions'[r][TheAgent][k] = s
<1> DEFINE old == sessions[TheRun][TheAgent]
           new == [old EXCEPT ![Len(old)] = s]
<1>1. TheRun \in Runs /\ TheAgent \in Agents /\ old # <<>>
  BY DEF TypeInv, WorkerOK, WorkerStates, TheRun, TheAgent
<1>2. old \in Seq({"running", "completed", "failed"})
  BY <1>1 DEF TypeInv, SessionTable
<1>3. /\ new \in Seq({"running", "completed", "failed"}) /\ Len(new) = Len(old)
      /\ new[Len(old)] = s
  BY <1>1, <1>2, LastWritten
<1>4. sessions' =
          [sessions EXCEPT ![TheRun] = [sessions[TheRun] EXCEPT ![TheAgent] = new]]
  BY DEF SetSession
<1>5. Len(old) \in DOMAIN new
  BY <1>1, <1>2, <1>3
<1>6. sessions'[TheRun][TheAgent] = new
  BY <1>1, <1>4 DEF TypeInv, SessionTable
<1>7. /\ r # TheRun => sessions'[r] = sessions[r]
      /\ \A agent \in Agents \ {TheAgent} :
            sessions'[r][agent] = sessions[r][agent]
  BY <1>1, <1>4 DEF TypeInv, SessionTable
<1>. QED BY <1>1, <1>3, <1>5, <1>6, <1>7

(* The actions of the worker, in the order of its code.                    *)
LEMMA HandlerEndsSettled ==
    ASSUME TypeInv, HandlerFails \/ MarkAgentComplete,
           NEW r \in Runs, Quiet(r), Settled(r)
    PROVE  Settled(r)'
<1>1. PICK s \in {"completed", "failed"}, at \in {"failing", "completing"} :
          /\ SetSession(s) /\ worker' = [worker EXCEPT !.at = at]
          /\ at = "completing" => s = "completed"
  BY DEF HandlerFails, MarkAgentComplete
<1>2. UNCHANGED <<run, tasks, call, client>> /\ worker.at = "handler"
  BY DEF HandlerFails, MarkAgentComplete
<1>3. worker'.at = at /\ worker'.row = worker.row
  BY <1>1 DEF TypeInv, WorkerOK, WorkerStates
<1>4. /\ r # TheRun => sessions'[r] = sessions[r]
      /\ \A agent \in Agents \ {TheAgent} :
            sessions'[r][agent] = sessions[r][agent]
      /\ \A agent \in Agents : sessions'[r][agent] # <<>> =>
            sessions[r][agent] # <<>>
      /\ r = TheRun => \E k \in DOMAIN sessions'[r][TheAgent] :
            sessions'[r][TheAgent][k] = s
  BY <1>1, <1>2, SessionOfTask
<1>5. CASE r # TheRun
  BY <1>2, <1>3, <1>4, <1>5, OffTask DEF WorkerOn, TheRun, OnCall
<1>6. CASE r = TheRun
  <2>1. Exists(r)'
    BY <1>2, <1>6, WorkerTaskWaits DEF Exists
  <2>2. WorkerReports(r)'
    BY <1>1, <1>3, <1>4, <1>6 DEF WorkerReports, Done, TheAgent
  <2>. QED BY <1>2, <1>3, <1>4, <1>6, <2>1, <2>2, OnTask
<1>. QED BY <1>5, <1>6

LEMMA FailWorkflowSettled ==
    ASSUME TypeInv, FailWorkflow, NEW r \in Runs, Quiet(r), Settled(r)
    PROVE  Settled(r)'
<1>1. UNCHANGED <<tasks, sessions, call, client>> /\ worker.at = "failing"
  BY DEF FailWorkflow
<1>2. worker'.at = "reporting" /\ worker'.row = worker.row
  BY DEF FailWorkflow, TypeInv, WorkerOK, WorkerStates
<1>3. /\ TheRun \in Runs
      /\ r = TheRun => Exists(r)'
      /\ run'[TheRun].state = run[TheRun].state
      /\ run'[TheRun].status = "failed"
      /\ \A q \in Runs \ {TheRun} : run'[q] = run[q]
  <2>1. TheRun \in Runs /\ Exists(TheRun) /\ RunsOK
    BY <1>1, WorkerTaskWaits DEF TypeInv
  <2>2. run' = [run EXCEPT ![TheRun].status = "failed"]
    BY DEF FailWorkflow
  <2>. QED BY <2>1, <2>2, StatusWritten DEF RunsGrow
<1>4. CASE r # TheRun
  BY <1>1, <1>2, <1>3, <1>4, OffTask DEF WorkerOn, TheRun, OnCall
<1>5. CASE r = TheRun
  <2>1. WorkerReports(r)'
    BY <1>2, <1>3, <1>5 DEF WorkerReports
  <2>. QED BY <1>1, <1>2, <1>3, <1>5, <2>1, OnTask
<1>. QED BY <1>4, <1>5

LEMMA ReportErrorSettled ==
    ASSUME TypeInv, ReportError, NEW r \in Runs, Quiet(r), Settled(r)
    PROVE  Settled(r)'
<1>1. /\ UNCHANGED <<run, tasks, sessions, call, client>>
      /\ worker.at = "reporting"
  BY DEF ReportError
<1>2. worker'.at = "finishing" /\ worker'.row = worker.row
  BY DEF ReportError, TypeInv, WorkerOK, WorkerStates
<1>3. CASE r # TheRun
  BY <1>1, <1>2, <1>3, OffTask DEF WorkerOn, TheRun, OnCall
<1>4. CASE r = TheRun
  <2>1. run[r].status # "running" /\ Exists(r)
    BY <1>1, <1>4, WorkerTaskWaits DEF Settled, WorkerReports, WorkerOn
  <2>2. WorkerReports(r)'
    BY <1>1, <1>2, <2>1 DEF WorkerReports
  <2>. QED BY <1>1, <1>2, <1>4, <2>1, <2>2, OnTask DEF Exists
<1>. QED BY <1>3, <1>4

LEMMA StartTaskSettled ==
    ASSUME TypeInv, NEW row \in worker.batch, StartTask(row),
           NEW r \in Runs, Quiet(r), Settled(r)
    PROVE  Settled(r)'
<1>1. PICK q \in Runs, b \in Agents, k \in Nat : row = <<q, b, k>>
  BY DEF TypeInv, WorkerOK, WorkerStates
<1>2. UNCHANGED <<run, tasks, call, client>> /\ worker.at = "batch"
  BY DEF StartTask
<1>3. worker'.at = "handler" /\ worker'.row = <<q, b, k>>
  BY <1>1 DEF StartTask, TypeInv, WorkerOK, WorkerStates
<1>4. /\ Waits(q, b, k) /\ tasks[q][b] # <<>>
      /\ \A p : ~WorkerOn(p)
      /\ \A p : WorkerOn(p)' <=> p = q
  BY <1>1, <1>2, <1>3
  DEF TypeInv, WorkerOK, IsPending, Waits, WorkerOn, TheRun
<1>5. \A p \in Runs, agent \in Agents :
         ~(p = q /\ agent = b) => sessions'[p][agent] = sessions[p][agent]
  BY <1>1 DEF StartTask, TypeInv, SessionTable
<1>6. CASE r # q
  <2>1. sessions'[r] = sessions[r]
    BY <1>1, <1>6 DEF StartTask, TypeInv, SessionTable
  <2>. QED BY <1>2, <1>4, <1>6, <2>1, OffTask DEF OnCall
<1>7. CASE r = q
  <2>1. Unspent(r, b, k) /\ Exists(r) /\ Waiting(r)
    BY <1>4, <1>7 DEF Unspent, Held, TypeInv, TasksOK, Waiting, Waits
  <2>2. /\ StateOfAgent[b] = run[r].state
        /\ \A a \in Actors : ~OnCall(a, r)
        /\ \A agent \in Agents : \A j :
              Waits(r, agent, j) => agent = b /\ j = k
    BY <1>4, <2>1 DEF Settled, UnspentNow, Unspent, Held
  <2>3. /\ \A a \in Actors : ~OnCall(a, r)'
        /\ ~Starts(r)' /\ ~Enqueues(r)'
    BY <1>2, <2>1, <2>2
    DEF OnCall, Quiet, StartsQuiet, Starts, Starting, Enqueues
  <2>4. /\ \A agent, j : Waits(r, agent, j)' <=> Waits(r, agent, j)
        /\ Held(r, b, k)' /\ Unspent(r, b, k)'
        /\ \A agent, j : Unspent(r, agent, j)' => Waits(r, agent, j)
    BY <1>2, <1>3, <1>4, <1>7 DEF Waits, Held, Unspent
  <2>5. BehindDone(r)'
    <3>1. WorkflowOf[r] \in WorkflowNames
      BY OrchestratorAssumption
    <3>2. /\ run[r].state \in DOMAIN WorkflowGraph(WorkflowOf[r])
          /\ \A s \in Before(WorkflowOf[r], run[r].state) : DoneAt(r, s)
      BY <2>1 DEF Settled, BehindDone
    <3>3. ASSUME NEW s \in Before(WorkflowOf[r], run[r].state)  PROVE DoneAt(r, s)'
      <4>1. s # run[r].state
        BY <3>1, <3>2, <3>3, NotBefore
      <4>2. \A agent \in AgentsOf(s) : sessions'[r][agent] = sessions[r][agent]
        BY <1>5, <2>2, <4>1, AgentsOfState
      <4>. QED BY <3>2, <3>3, <4>2 DEF DoneAt, Done
    <3>. QED BY <1>2, <3>2, <3>3 DEF BehindDone
  <2>6. DeciderDone(r)' /\ AheadFresh(r)'
    BY <2>3 DEF DeciderDone, GoesOn, AheadFresh
  <2>7. IdleDone(r)'
    BY <2>4 DEF IdleDone, Unspent, Waits
  <2>8. SucceededLast(r)'
    BY <1>2 DEF Settled, SucceededLast
  <2>9. UnspentNow(r)' /\ WaitersFresh(r)'
    BY <1>2, <2>2, <2>3, <2>4 DEF UnspentNow, WaitersFresh
  <2>10. SessionsBehind(r)'
    BY <1>2, <1>5, <1>7, <2>1, <2>2 DEF Settled, SessionsBehind, Exists
  <2>11. WorkerReports(r)'
    BY <1>3 DEF WorkerReports
  <2>. QED
    BY <2>5, <2>6, <2>7, <2>8, <2>9, <2>10, <2>11 DEF Settled
<1>. QED BY <1>6, <1>7

(* With no crash the worker never comes back to a task: its guard against  *)
(* a second session has nothing to do.                                     *)
LEMMA NothingSkipped ==
    ASSUME TypeInv, \A r \in Runs : Settled(r)
    PROVE  \A row \in worker.batch : ~SkipTask(row)
<1>. SUFFICES ASSUME NEW row \in worker.batch, SkipTask(row)  PROVE FALSE
  OBVIOUS
<1>1. PICK q \in Runs, b \in Agents, k \in Nat : row = <<q, b, k>>
  BY DEF TypeInv, WorkerOK, WorkerStates
<1>2. Waits(q, b, k) /\ ~Held(q, b, k)
  BY <1>1 DEF TypeInv, WorkerOK, IsPending, Waits, Held, WorkerOn, SkipTask
<1>. QED BY <1>1, <1>2 DEF Settled, WaitersFresh, SkipTask

LEMMA EmitCompletedSettled ==
    ASSUME TypeInv, WorkerHome, EmitCompleted, NEW r \in Runs, Quiet(r), Settled(r)
    PROVE  Settled(r)'
<1>1. UNCHANGED <<run, tasks, sessions, client>> /\ worker.at = "completing"
  BY DEF EmitCompleted, store
<1>2. PICK q \in Runs : q = TheRun /\ Exists(q)
  BY <1>1, WorkerTaskWaits
<1>3. /\ worker'.at = "finishing" /\ worker'.row = worker.row
      /\ worker'.outcome = "completed"
      /\ \A p : WorkerOn(p) <=> p = q
      /\ \A p : WorkerOn(p)' <=> p = q
  BY <1>1, <1>2 DEF EmitCompleted, TypeInv, WorkerOK, WorkerStates, WorkerOn, TheRun
<1>4. /\ call'[Worker] = Advancing(q)
      /\ \A a \in Actors \ {Worker} : call'[a] = call[a]
      /\ call[Worker].at = "none"
  BY <1>1, <1>2, CallSet DEF EmitCompleted, WorkerHome, Actors
<1>5. Advancing(q).at = "decide" /\ Advancing(q).run = q
  BY DEF Advancing, NoCall
<1>6. CASE r # q
  BY <1>1, <1>3, <1>4, <1>5, <1>6, OffTask DEF OnCall
<1>7. CASE r = q
  <2>1. /\ StateOfAgent[TheAgent] = run[r].state
        /\ \A a \in Actors : ~OnCall(a, r)
        /\ ~Starts(r)
        /\ \A agent \in Agents : \A k : Waits(r, agent, k) => Held(r, agent, k)
        /\ TheAgent \in Agents
    BY <1>1, <1>2, <1>7, WorkerAlone DEF Settled
  <2>2. DoneAt(r, run[r].state)
    <3>1. Done(r, TheAgent, "completed")
      BY <1>1, <1>3, <1>7 DEF Settled, WorkerReports
    <3>2. \A agent \in AgentsOf(run[r].state) : agent = TheAgent
      BY <2>1, AgentsOfState, OneAgentPerState
    <3>. QED BY <3>1, <3>2 DEF DoneAt
  <2>3. DoneAt(r, run[r].state)'
    BY <1>1, <2>2 DEF DoneAt, Done
  <2>4. ~Starts(r)' /\ ~Enqueues(r)'
    <3>1. \A a \in Actors : OnCall(a, r)' => call'[a].at = "decide"
      BY <1>4, <1>5, <2>1 DEF OnCall
    <3>. QED BY <1>1, <2>1, <3>1 DEF Starts, Starting, Enqueues
  <2>5. /\ \A agent, k : Waits(r, agent, k)' <=> Waits(r, agent, k)
        /\ \A agent, k : Held(r, agent, k)' <=> Held(r, agent, k)
        /\ \A agent \in Agents : \A k : ~Unspent(r, agent, k)'
    BY <1>1, <1>3, <1>7, <2>1 DEF Waits, Held, Unspent
  <2>6. BehindDone(r)' /\ SucceededLast(r)' /\ SessionsBehind(r)'
    BY <1>1 DEF Settled, BehindDone, SucceededLast, SessionsBehind, Exists, DoneAt,
                Done
  <2>7. DeciderDone(r)' /\ IdleDone(r)'
    BY <2>3 DEF DeciderDone, IdleDone
  <2>8. UnspentNow(r)' /\ WaitersFresh(r)' /\ AheadFresh(r)'
    BY <1>1, <2>4, <2>5 DEF Settled, UnspentNow, WaitersFresh, AheadFresh
  <2>9. WorkerReports(r)'
    BY <1>3 DEF WorkerReports
  <2>. QED BY <2>6, <2>7, <2>8, <2>9 DEF Settled
<1>. QED BY <1>6, <1>7

LEMMA FinishTaskSettled ==
    ASSUME TypeInv, FinishTask, NEW r \in Runs, Settled(r)  PROVE Settled(r)'
<1>1. UNCHANGED <<run, sessions, call, client>> /\ worker.at = "finishing"
  BY DEF FinishTask
<1>2. PICK q \in Runs, b \in Agents, k \in Nat :
          q = TheRun /\ worker.row = <<q, b, k>> /\ Waits(q, b, k)
  BY <1>1, WorkerTaskWaits
<1>3. worker.row \in worker.batch /\ worker.outcome \in {"completed", "failed"}
  BY <1>1 DEF TypeInv, WorkerOK
<1>4. /\ \A p : ~WorkerOn(p)'
      /\ \A p : WorkerOn(p) <=> p = q
  BY <1>1, <1>2 DEF FinishTask, Finish, IdleWorker, WorkerOn, TheRun
<1>5. CASE r # q
  <2>1. tasks'[r] = tasks[r]
    BY <1>2, <1>5 DEF FinishTask, Finish, TypeInv, TasksOK, TaskTable
  <2>. QED BY <1>1, <1>4, <1>5, <2>1, OffTask DEF OnCall
<1>6. CASE r = q
  <2>1. \A agent \in Agents : \A j :
           Waits(r, agent, j)' <=> Waits(r, agent, j) /\ <<r, agent, j>> # worker.row
    BY <1>3, FinishCalms DEF FinishTask
  <2>2. \A agent \in Agents : \A j :
           /\ ~Held(r, agent, j)'
           /\ Unspent(r, agent, j)' <=> Unspent(r, agent, j)
           /\ Waits(r, agent, j)' => Waits(r, agent, j) /\ ~Held(r, agent, j)
    BY <1>1, <1>4, <1>6, <2>1 DEF Held, Unspent
  <2>3. BehindDone(r)' /\ SucceededLast(r)' /\ SessionsBehind(r)'
    BY <1>1 DEF Settled, BehindDone, SucceededLast, SessionsBehind, Exists, DoneAt,
                Done
  <2>4. DeciderDone(r)' /\ AheadFresh(r)'
    BY <1>1 DEF Settled, DeciderDone, GoesOn, AheadFresh, OnCall, DoneAt, Done,
                Starts, Starting, Enqueues
  <2>5. IdleDone(r)'
    <3>1. ASSUME NEW agent \in Agents, NEW j \in DOMAIN tasks[r][agent],
                 Unspent(r, agent, j)
          PROVE  j \in DOMAIN tasks'[r][agent] /\ Unspent(r, agent, j)'
      BY <2>2, <3>1 DEF Unspent, Waits
    <3>. QED
      BY <1>1, <3>1
      DEF Settled, IdleDone, Starts, Starting, Enqueues, OnCall, DoneAt, Done
  <2>6. UnspentNow(r)' /\ WaitersFresh(r)'
    BY <1>1, <2>2 DEF Settled, UnspentNow, WaitersFresh, OnCall
  <2>7. WorkerReports(r)'
    BY <1>4 DEF WorkerReports
  <2>. QED BY <2>3, <2>4, <2>5, <2>6, <2>7 DEF Settled
<1>. QED BY <1>5, <1>6

-----------------------------------------------------------------------------
(* Calls and requests leave the worker and the sessions alone.             *)

(* What the worker and the sessions say of a run, they still say.          *)
LEMMA RowsSame ==
    ASSUME NEW r \in Runs, UNCHANGED <<sessions, worker>>
    PROVE  /\ \A s : DoneAt(r, s)' <=> DoneAt(r, s)
           /\ WorkerOn(r)' <=> WorkerOn(r)
           /\ \A agent, k : Held(r, agent, k)' <=> Held(r, agent, k)
           /\ tasks'[r] = tasks[r] =>
                 /\ \A agent, k : Waits(r, agent, k)' <=> Waits(r, agent, k)
                 /\ \A agent, k : Unspent(r, agent, k)' <=> Unspent(r, agent, k)
BY DEF DoneAt, Done, WorkerOn, TheRun, Held, Waits, Unspent

(* A step of a call or a request on another run.                           *)
LEMMA OtherRun ==
    ASSUME NEW r \in Runs, Settled(r), UNCHANGED <<sessions, worker>>,
           run'[r] = run[r], tasks'[r] = tasks[r],
           \A a \in Actors : OnCall(a, r)' <=> OnCall(a, r),
           \A a \in Actors : OnCall(a, r) => call'[a].at = call[a].at,
           \A c \in Clients : Starting(c, r)' <=> Starting(c, r)
    PROVE  Settled(r)'
<1>1. Same(r)
  BY RowsSame DEF Same
<1>. QED BY <1>1, SameStaysSettled

(* What a step that writes neither the run nor its tasks keeps.            *)
LEMMA RunSame ==
    ASSUME NEW r \in Runs, Settled(r), UNCHANGED <<sessions, worker>>,
           run'[r] = run[r], tasks'[r] = tasks[r]
    PROVE  /\ BehindDone(r)' /\ SucceededLast(r)' /\ SessionsBehind(r)'
           /\ WaitersFresh(r)' /\ WorkerReports(r)'
<1>1. BehindDone(r)' /\ SucceededLast(r)' /\ SessionsBehind(r)'
  BY RowsSame DEF Settled, BehindDone, SucceededLast, SessionsBehind, Exists
<1>2. WaitersFresh(r)' /\ WorkerReports(r)'
  BY RowsSame DEF Settled, WaitersFresh, WorkerReports, TheAgent, Done
<1>. QED BY <1>1, <1>2

LEMMA DecideSettled ==
    ASSUME TypeInv, NEW a \in Actors, Decide(a), NEW r \in Runs, Quiet(r), Settled(r)
    PROVE  Settled(r)'
<1>1. PICK q \in Runs : q = call[a].run /\ OnCall(a, q)
  BY DEF Decide, TypeInv, CallsOK, OnCall
<1>2. /\ call'[a] = Verdict(q)
      /\ \A b \in Actors \ {a} : call'[b] = call[b]
  BY <1>1, CallSet DEF Decide
<1>3. UNCHANGED <<run, tasks, sessions, worker, client>>
  BY DEF Decide, store
<1>4. /\ Verdict(q).at \in {"none", "write"}
      /\ Verdict(q).at = "write" => Verdict(q).run = q /\ run[q].status = "running"
  BY VerdictTyped DEF TypeInv, MayAdvance
<1>5. CASE r # q
  BY <1>1, <1>2, <1>3, <1>4, <1>5, OtherRun DEF OnCall, Starting
<1>6. CASE r = q
  <2>1. \A b \in Actors : OnCall(b, r)' => b = a
    BY <1>1, <1>2, <1>6 DEF Quiet, CallsAlone, OnCall
  <2>2. ~Enqueues(r) /\ ~Enqueues(r)' /\ (Starts(r)' <=> Starts(r))
    BY <1>1, <1>2, <1>3, <1>4, <1>6, <2>1
    DEF Quiet, CallsAlone, Decide, OnCall, Enqueues, Starts, Starting
  <2>3. DeciderDone(r)'
    <3>. SUFFICES ASSUME NEW b \in Actors, GoesOn(b, r)'
                  PROVE  DoneAt(r, run[r].state)
      BY <1>3, RowsSame DEF DeciderDone
    <3>1. b = a /\ run[r].status = "running"
      BY <1>2, <1>4, <1>6, <2>1 DEF GoesOn, OnCall
    <3>. QED BY <1>1, <1>6, <3>1 DEF Settled, DeciderDone, GoesOn, Decide
  <2>4. IdleDone(r)' /\ AheadFresh(r)'
    BY <1>3, <2>2, RowsSame DEF Settled, IdleDone, AheadFresh
  <2>5. UnspentNow(r)'
    <3>1. \A agent \in Agents : \A k : ~Unspent(r, agent, k)
      BY <1>1, <1>6 DEF Settled, UnspentNow
    <3>. QED BY <1>3, <3>1, RowsSame DEF UnspentNow
  <2>. QED BY <1>3, <2>3, <2>4, <2>5, RunSame DEF Settled
<1>. QED BY <1>5, <1>6

LEMMA TransitionSettled ==
    ASSUME TypeInv, NEW a \in Actors, Transition(a),
           NEW r \in Runs, Quiet(r), Settled(r)
    PROVE  Settled(r)'
<1>1. PICK q \in Runs, s \in States :
          /\ call[a].run = q /\ call[a].to = s /\ Exists(q)
          /\ call'[a].at \in {"none", "enqueue", "succeed"}
          /\ call'[a].at # "none" => call'[a].run = q
          /\ call'[a].at # "enqueue" => s = "DONE" \/ AgentsOf(s) = {}
          /\ \A b \in Actors \ {a} : call'[b] = call[b]
  BY DEF TypeInv, CallsOK, Calls, NoCall, Transition
<1>2. /\ UNCHANGED <<tasks, sessions, worker, client>>
      /\ OnCall(a, q) /\ call[a].at = "write"
  BY <1>1 DEF Transition, OnCall
<1>3. /\ run'[q].state = s /\ Exists(q)'
      /\ \A p \in Runs : run'[p].status = run[p].status
      /\ \A p \in Runs \ {q} : run'[p] = run[p]
  BY <1>1, StateWritten DEF TypeInv, Transition, RunsGrow
<1>4. CASE r # q
  BY <1>1, <1>2, <1>3, <1>4, OtherRun DEF OnCall, Starting
<1>5. CASE r = q
  <2> DEFINE name == WorkflowOf[r]  was == run[r].state
  <2>1. name \in WorkflowNames /\ was \in DOMAIN WorkflowGraph(name)
    BY <1>1, <1>5, OrchestratorAssumption DEF Settled, BehindDone
  <2>2. s = Successor(name, was)
    BY <1>1, <1>2, <1>5 DEF Quiet, CallsFresh, Fresh
  <2>3. /\ s \in DOMAIN WorkflowGraph(name)
        /\ Before(name, s) = Before(name, was) \cup {was}
        /\ s \notin Before(name, s)
    BY <2>1, <2>2, BeforeNext, NotBefore
  <2>4. DoneAt(r, was) /\ \A t \in Before(name, was) : DoneAt(r, t)
    BY <1>1, <1>2, <1>5 DEF Settled, DeciderDone, GoesOn, BehindDone
  <2>5. /\ \A b \in Actors : OnCall(b, r)' => b = a
        /\ ~Starts(r)'
    BY <1>1, <1>2, <1>5
    DEF Quiet, CallsAlone, StartsQuiet, OnCall, Starts, Starting
  <2>6. \A agent \in Agents : \A k : ~Unspent(r, agent, k)
    BY <1>2, <1>5 DEF Settled, UnspentNow
  <2>7. BehindDone(r)'
    BY <1>2, <1>3, <1>5, <2>3, <2>4, RowsSame DEF BehindDone
  <2>8. DeciderDone(r)'
    BY <1>1, <2>5 DEF DeciderDone, GoesOn
  <2>9. IdleDone(r)'
    <3>1. CASE call'[a].at = "enqueue"
      BY <1>1, <1>5, <3>1 DEF IdleDone, Enqueues, OnCall
    <3>2. CASE call'[a].at # "enqueue"
      <4>1. AgentsOf(s) = {}
        BY <1>1, <2>1, <3>2, DoneIsLast
      <4>. QED BY <1>3, <1>5, <4>1 DEF IdleDone, DoneAt
    <3>. QED BY <3>1, <3>2
  <2>10. SucceededLast(r)'
    BY <1>3, <2>1, <2>2, DoneIsLast DEF Settled, SucceededLast
  <2>11. UnspentNow(r)' /\ WaitersFresh(r)'
    BY <1>2, <2>6, RowsSame DEF Settled, UnspentNow, WaitersFresh
  <2>12. SessionsBehind(r)'
    BY <1>2, <1>3, <1>5, <2>3 DEF Settled, SessionsBehind
  <2>13. AheadFresh(r)'
    <3>1. ASSUME NEW agent \in AgentsOf(s)  PROVE sessions[r][agent] = <<>>
      BY <2>3, AgentsOfState DEF Settled, SessionsBehind
    <3>. QED BY <1>2, <1>3, <1>5, <3>1 DEF AheadFresh
  <2>14. WorkerReports(r)'
    BY <1>2, <1>3, RowsSame DEF Settled, WorkerReports, TheAgent, Done
  <2>. QED
    BY <2>7, <2>8, <2>9, <2>10, <2>11, <2>12, <2>13, <2>14 DEF Settled
<1>. QED BY <1>4, <1>5

LEMMA MarkSucceededSettled ==
    ASSUME TypeInv, LogInv, NEW a \in Actors, MarkSucceeded(a),
           NEW r \in Runs, Quiet(r), Settled(r)
    PROVE  Settled(r)'
<1>1. PICK q \in Runs : q = call[a].run /\ OnCall(a, q) /\ Exists(q)
  BY DEF MarkSucceeded, TypeInv, CallsOK, OnCall
<1>2. /\ call'[a] = NoCall /\ NoCall.at = "none"
      /\ \A b \in Actors \ {a} : call'[b] = call[b]
  BY CallSet DEF MarkSucceeded, NoCall
<1>3. UNCHANGED <<tasks, sessions, worker, client>> /\ call[a].at = "succeed"
  BY DEF MarkSucceeded
<1>4. /\ \A p \in Runs : run'[p].state = run[p].state
      /\ run'[q].status = "succeeded"
      /\ \A p \in Runs \ {q} : run'[p] = run[p]
  BY <1>1, StatusWritten DEF TypeInv, MarkSucceeded
<1>5. CASE r # q
  BY <1>1, <1>2, <1>3, <1>4, <1>5, OtherRun DEF OnCall, Starting
<1>6. CASE r = q
  <2>1. run[r].state = "DONE"
    BY <1>1, <1>3, <1>6 DEF Quiet, CallsFresh, Fresh, LogInv, CallsLogged
  <2>2. \A b \in Actors : ~OnCall(b, r)'
    BY <1>1, <1>2, <1>6 DEF Quiet, CallsAlone, OnCall
  <2>3. ~Starts(r)' /\ ~Enqueues(r)'
    BY <1>1, <1>3, <1>6, <2>2
    DEF Quiet, StartsQuiet, Starts, Starting, Enqueues
  <2>4. BehindDone(r)' /\ SessionsBehind(r)'
    BY <1>1, <1>3, <1>4, <1>6, RowsSame
    DEF Settled, BehindDone, SessionsBehind, Exists
  <2>5. DeciderDone(r)' /\ AheadFresh(r)'
    BY <2>2, <2>3 DEF DeciderDone, GoesOn, AheadFresh
  <2>6. IdleDone(r)' /\ SucceededLast(r)' /\ WorkerReports(r)'
    BY <1>3, <1>4, <1>6, <2>1, RowsSame
    DEF IdleDone, SucceededLast, Settled, WorkerReports, TheAgent, Done
  <2>7. UnspentNow(r)' /\ WaitersFresh(r)'
    BY <1>3, <1>4, <2>2, RowsSame DEF Settled, UnspentNow, WaitersFresh
  <2>. QED BY <2>4, <2>5, <2>6, <2>7 DEF Settled
<1>. QED BY <1>5, <1>6

-----------------------------------------------------------------------------
(* A task is enqueued for the state the run is in, when nothing else is    *)
(* left to do for the run.                                                 *)

LEMMA OneTaskMore ==
    ASSUME TypeInv, NEW q \in Runs, NEW b \in Agents, AddTask(q, b), NEW n,
           n = Len(tasks[q][b]) + 1, UNCHANGED <<sessions, worker>>
    PROVE  /\ n \in DOMAIN tasks'[q][b]
           /\ ~Held(q, b, n)
           /\ \A agent \in Agents : \A k : Waits(q, agent, k)' <=>
                 Waits(q, agent, k) \/ (agent = b /\ k = n)
           /\ \A r \in Runs \ {q} : tasks'[r] = tasks[r]
<1>1. tasks[q][b] \in Seq({"pending", "completed", "failed"})
  BY DEF TypeInv, TasksOK, TaskTable
<1>2. /\ tasks'[q][b] = Append(tasks[q][b], "pending")
      /\ \A agent \in Agents \ {b} : tasks'[q][agent] = tasks[q][agent]
      /\ \A r \in Runs \ {q} : tasks'[r] = tasks[r]
  BY DEF TypeInv, TasksOK, TaskTable, AddTask
<1>3. /\ DOMAIN tasks'[q][b] = DOMAIN tasks[q][b] \cup {n}
      /\ n \notin DOMAIN tasks[q][b]
      /\ \A k \in DOMAIN tasks[q][b] : tasks'[q][b][k] = tasks[q][b][k]
      /\ tasks'[q][b][n] = "pending"
  BY <1>1, <1>2
<1>4. ~Held(q, b, n)
  <2>. SUFFICES ASSUME Held(q, b, n)  PROVE FALSE
    OBVIOUS
  <2>1. /\ worker.row = <<TheRun, TheAgent, worker.row[3]>>
        /\ Waits(TheRun, TheAgent, worker.row[3])
    BY WorkerTaskWaits DEF Held, WorkerOn
  <2>2. TheRun = q /\ TheAgent = b /\ worker.row[3] = n
    BY DEF Held, TheRun, TheAgent
  <2>. QED BY <1>3, <2>1, <2>2 DEF Waits
<1>5. \A agent \in Agents : \A k : Waits(q, agent, k)' <=>
         Waits(q, agent, k) \/ (agent = b /\ k = n)
  BY <1>2, <1>3 DEF Waits
<1>. QED BY <1>2, <1>3, <1>4, <1>5

LEMMA TaskAddedSettled ==
    ASSUME TypeInv, NEW r \in Runs, NEW b \in Agents, AddTask(r, b), Settled(r),
           UNCHANGED <<run, sessions, worker>>,
           StateOfAgent[b] = run[r].state, sessions[r][b] = <<>>,
           \A agent \in Agents : \A k : ~Unspent(r, agent, k),
           \A a \in Actors : ~OnCall(a, r)', ~Starts(r)', ~Enqueues(r)'
    PROVE  Settled(r)'
<1>0. PICK n : n = Len(tasks[r][b]) + 1
  OBVIOUS
<1>1. /\ n \in DOMAIN tasks'[r][b]
      /\ ~Held(r, b, n)
      /\ \A agent \in Agents : \A k : Waits(r, agent, k)' <=>
            Waits(r, agent, k) \/ (agent = b /\ k = n)
  BY <1>0, OneTaskMore
<1>2. /\ Unspent(r, b, n)'
      /\ \A agent \in Agents : \A k :
            Unspent(r, agent, k)' => agent = b /\ k = n
  BY <1>1, RowsSame DEF Unspent
<1>3. BehindDone(r)' /\ SucceededLast(r)' /\ SessionsBehind(r)'
  BY RowsSame DEF Settled, BehindDone, SucceededLast, SessionsBehind, Exists
<1>4. DeciderDone(r)' /\ AheadFresh(r)'
  BY DEF DeciderDone, GoesOn, AheadFresh
<1>5. IdleDone(r)'
  BY <1>1, <1>2 DEF IdleDone
<1>6. UnspentNow(r)'
  BY <1>2 DEF UnspentNow
<1>7. WaitersFresh(r)'
  BY <1>1, RowsSame DEF Settled, WaitersFresh
<1>8. WorkerReports(r)'
  BY RowsSame DEF Settled, WorkerReports, TheAgent, Done
<1>. QED BY <1>3, <1>4, <1>5, <1>6, <1>7, <1>8 DEF Settled

LEMMA EnqueueSettled ==
    ASSUME TypeInv, NEW a \in Actors, Enqueue(a),
           NEW r \in Runs, Quiet(r), Settled(r)
    PROVE  Settled(r)'
<1>1. PICK q \in Runs, b \in Agents :
          /\ call[a].run = q /\ AddTask(q, b)
          /\ b \in AgentsOf(call[a].to)
  BY AgentsOfState DEF TypeInv, CallsOK, Enqueue
<1>2. /\ UNCHANGED <<run, sessions, worker, client>>
      /\ OnCall(a, q) /\ call[a].at = "enqueue"
  BY <1>1 DEF Enqueue, OnCall
<1>3. /\ call'[a] = NoCall /\ NoCall.at = "none"
      /\ \A c \in Actors \ {a} : call'[c] = call[c]
  BY CallSet DEF Enqueue, NoCall
<1>4. CASE r # q
  <2>1. tasks'[r] = tasks[r]
    BY <1>1, <1>4, TaskAddedWaits
  <2>. QED BY <1>1, <1>2, <1>3, <1>4, <2>1, OtherRun DEF OnCall, Starting
<1>5. CASE r = q
  <2>1. call[a].to = run[r].state
    BY <1>2, <1>5 DEF Quiet, CallsFresh, Fresh
  <2>2. StateOfAgent[b] = run[r].state /\ b \in AgentsOf(run[r].state)
    BY <1>1, <2>1, AgentsOfState
  <2>3. sessions[r][b] = <<>>
    BY <1>2, <1>5, <2>2 DEF Settled, AheadFresh, Enqueues
  <2>4. \A agent \in Agents : \A k : ~Unspent(r, agent, k)
    BY <1>2, <1>5 DEF Settled, UnspentNow
  <2>5. \A c \in Actors : ~OnCall(c, r)'
    BY <1>2, <1>3, <1>5 DEF Quiet, CallsAlone, OnCall
  <2>6. ~Starts(r)' /\ ~Enqueues(r)'
    BY <1>2, <1>5, <2>5
    DEF Quiet, StartsQuiet, Starts, Starting, Enqueues
  <2>. QED
    BY <1>1, <1>2, <1>5, <2>2, <2>3, <2>4, <2>5, <2>6, TaskAddedSettled
<1>. QED BY <1>4, <1>5

LEMMA EnqueueStartSettled ==
    ASSUME TypeInv, NEW c \in Clients, EnqueueStart(c),
           NEW r \in Runs, Quiet(r), Settled(r)
    PROVE  Settled(r)'
<1>1. PICK q \in Runs, b \in Agents :
          /\ client[c].run = q /\ AddTask(q, b)
          /\ b \in AgentsOf(FirstState(WorkflowOf[q]))
  BY AgentsOfState DEF TypeInv, ClientsOK, EnqueueStart
<1>2. UNCHANGED <<run, sessions, worker, call>> /\ Starting(c, q)
  BY <1>1 DEF EnqueueStart, Starting
<1>3. /\ client'[c] = IdleClient /\ IdleClient.at = "idle"
      /\ \A d \in Clients \ {c} : client'[d] = client[d]
  BY ClientSet DEF EnqueueStart, IdleClient
<1>4. CASE r # q
  <2>1. tasks'[r] = tasks[r]
    BY <1>1, <1>4, TaskAddedWaits
  <2>. QED BY <1>1, <1>2, <1>3, <1>4, <2>1, OtherRun DEF OnCall, Starting
<1>5. CASE r = q
  <2>1. /\ run[r].state = FirstState(WorkflowOf[r])
        /\ ~Waiting(r)
        /\ \A a \in Actors : ~OnCall(a, r)
        /\ \A d \in Clients : Starting(d, r) => d = c
    BY <1>2, <1>5 DEF Quiet, StartsQuiet
  <2>2. StateOfAgent[b] = run[r].state /\ b \in AgentsOf(run[r].state)
    BY <1>1, <1>5, <2>1, AgentsOfState
  <2>3. sessions[r][b] = <<>>
    BY <1>2, <1>5, <2>2 DEF Settled, AheadFresh, Starts
  <2>4. \A agent \in Agents : \A k : ~Unspent(r, agent, k)
    BY <2>1 DEF Waiting, Waits, Unspent
  <2>5. \A a \in Actors : ~OnCall(a, r)'
    BY <1>2, <2>1 DEF OnCall
  <2>6. ~Starts(r)' /\ ~Enqueues(r)'
    BY <1>3, <2>1, <2>5 DEF Starts, Starting, Enqueues
  <2>. QED
    BY <1>1, <1>2, <1>5, <2>2, <2>3, <2>4, <2>5, <2>6, TaskAddedSettled
<1>. QED BY <1>4, <1>5

-----------------------------------------------------------------------------
(* Requests.                                                               *)

LEMMA CreateRunSettled ==
    ASSUME TypeInv, NEW c \in Clients, NEW q \in Runs, CreateRun(c, q),
           NEW r \in Runs, Quiet(r), Settled(r)
    PROVE  Settled(r)'
<1>1. UNCHANGED <<tasks, sessions, call, worker>>
  BY DEF CreateRun
<1>2. /\ client'[c] = [at |-> "created", run |-> q]
      /\ \A d \in Clients \ {c} : client'[d] = client[d]
      /\ client[c].at = "idle"
  BY ClientSet DEF CreateRun, Free
<1>3. /\ run'[q].state = FirstState(WorkflowOf[q])
      /\ run'[q].status = "running"
      /\ \A p \in Runs \ {q} : run'[p] = run[p]
  BY DEF TypeInv, RunsOK, RunTable, CreateRun
<1>4. CASE r # q
  BY <1>1, <1>2, <1>3, <1>4, OtherRun DEF OnCall, Starting
<1>5. CASE r = q
  <2>1. ~Exists(r)
    BY <1>5 DEF CreateRun
  <2>2. \A a \in Actors : ~OnCall(a, r)'
    BY <1>1, <2>1 DEF TypeInv, CallsOK, OnCall
  <2>3. Starts(r)' /\ ~Enqueues(r)'
    BY <1>2, <1>5, <2>2 DEF Starts, Starting, Enqueues
  <2>4. \A agent \in Agents : \A k : ~Waits(r, agent, k)'
    BY <1>1, <2>1 DEF TypeInv, TasksOK, TaskTable, Waits
  <2>5. \A agent \in Agents : sessions'[r][agent] = <<>>
    BY <1>1, <2>1 DEF Settled, SessionsBehind
  <2>6. ~WorkerOn(r)'
    BY <1>1, <2>1, WorkerTaskWaits DEF WorkerOn, TheRun
  <2>7. BehindDone(r)'
    BY <1>3, <1>5, NothingBeforeFirst, OrchestratorAssumption DEF BehindDone
  <2>8. DeciderDone(r)' /\ AheadFresh(r)'
    BY <2>2, <2>5, AgentsOfState DEF DeciderDone, GoesOn, AheadFresh
  <2>9. IdleDone(r)' /\ SucceededLast(r)'
    BY <1>3, <1>5, <2>3 DEF IdleDone, SucceededLast
  <2>10. UnspentNow(r)' /\ WaitersFresh(r)' /\ SessionsBehind(r)'
    BY <2>4, <2>5 DEF UnspentNow, Unspent, WaitersFresh, SessionsBehind
  <2>11. WorkerReports(r)'
    BY <2>6 DEF WorkerReports
  <2>. QED BY <2>7, <2>8, <2>9, <2>10, <2>11 DEF Settled
<1>. QED BY <1>4, <1>5

LEMMA LogStartSettled ==
    ASSUME TypeInv, NEW c \in Clients, LogStart(c), NEW r \in Runs, Settled(r)
    PROVE  Settled(r)'
<1>1. UNCHANGED <<run, tasks, sessions, call, worker>>
  BY DEF LogStart
<1>2. \A d \in Clients : Starting(d, r)' <=> Starting(d, r)
  BY DEF LogStart, TypeInv, ClientsOK, ClientStates, Starting
<1>. QED BY <1>1, <1>2, OtherRun DEF OnCall

LEMMA ApproveGateSettled ==
    ASSUME TypeInv, Operator = "patient", NEW c \in Clients, NEW q \in Runs,
           NEW gate \in GatedStates, ApproveGate(c, q, gate),
           NEW r \in Runs, Quiet(r), Settled(r)
    PROVE  Settled(r)'
<1>1. UNCHANGED <<run, tasks, sessions, worker, client>> /\ call[c].at = "none"
  BY DEF ApproveGate, Free
<1>2. /\ call'[c] = Advancing(q)
      /\ \A b \in Actors \ {c} : call'[b] = call[b]
  BY CallSet DEF ApproveGate, Actors
<1>3. Advancing(q).at = "decide" /\ Advancing(q).run = q
  BY DEF Advancing, NoCall
<1>4. CASE r # q
  BY <1>1, <1>2, <1>3, <1>4, OtherRun DEF OnCall, Starting
<1>5. CASE r = q
  <2>1. \A a \in Actors : ~OnCall(a, r)
    BY <1>5 DEF ApproveGate, MayApprove, OnCall
  <2>2. \A agent \in Agents : \A k : ~Unspent(r, agent, k)
    <3>1. ~Waiting(r)
      BY <1>5, PendingIsWaiting DEF ApproveGate, MayApprove
    <3>. QED BY <3>1 DEF Waiting, Waits, Unspent
  <2>3. ~Starts(r)
    BY <1>5, NoGateFirst
    DEF ApproveGate, MayApprove, Quiet, StartsQuiet, Starts
  <2>4. run[r].status = "running" => DoneAt(r, run[r].state)
    BY <2>1, <2>2, <2>3 DEF Settled, IdleDone, Enqueues
  <2>5. /\ \A a \in Actors : OnCall(a, r)' => a = c
        /\ ~Starts(r)' /\ ~Enqueues(r)'
    BY <1>1, <1>2, <1>3, <2>1, <2>3 DEF OnCall, Starts, Starting, Enqueues
  <2>6. DeciderDone(r)'
    BY <1>1, <1>2, <1>3, <2>4, <2>5, RowsSame DEF DeciderDone, GoesOn
  <2>7. IdleDone(r)' /\ AheadFresh(r)'
    BY <1>1, <2>4, <2>5, RowsSame DEF IdleDone, AheadFresh
  <2>8. UnspentNow(r)'
    BY <1>1, <2>2, RowsSame DEF UnspentNow
  <2>. QED BY <1>1, <2>6, <2>7, <2>8, RunSame DEF Settled
<1>. QED BY <1>4, <1>5

LEMMA FetchTasksSettled ==
    ASSUME TypeInv, FetchTasks, NEW r \in Runs, Settled(r)  PROVE Settled(r)'
<1>1. UNCHANGED <<run, tasks, sessions, call, client>> /\ worker.at = "polling"
  BY DEF FetchTasks, store
<1>2. worker'.at = "batch"
  BY DEF FetchTasks, TypeInv, WorkerOK, WorkerStates
<1>. QED BY <1>1, <1>2, OffTask DEF WorkerOn, OnCall

-----------------------------------------------------------------------------

(* Every step of a system with a patient operator keeps SettledInv.  A     *)
(* call about to give a verdict gives it in DONE, as LogInv knows.         *)
LEMMA SettledInvStep ==
    ASSUME Operator = "patient", TypeInv, LogInv, PatientInv, SettledInv, [Next]_vars
    PROVE  SettledInv'
<1>. SUFFICES ASSUME crashes' = 0, NEW r \in Runs  PROVE Settled(r)'
  BY DEF SettledInv
<1>1. crashes = 0 /\ ~WorkerCrash /\ ~ApiCrash
  <2>1. crashes \in Nat
    BY OrchestratorAssumption DEF TypeInv
  <2>2. WorkerCrash \/ ApiCrash => crashes' = crashes + 1
    BY DEF WorkerCrash, ApiCrash
  <2>3. \/ UNCHANGED crashes
        \/ WorkerCrash \/ ApiCrash
    BY DEF Next, vars, bounds, WorkerStep, FetchTasks, SkipTask, StartTask,
           HandlerFails, FailWorkflow, ReportError, MarkAgentComplete, EmitCompleted,
           FinishTask, AdvanceStep, Decide, Transition, Enqueue, MarkSucceeded,
           ClientStep, LogStart, EnqueueStart, Request, CreateRun, AdvanceWorkflow,
           ApproveGate
  <2>. QED BY <2>1, <2>2, <2>3
<1>2. /\ Settled(r) /\ Quiet(r) /\ WorkerHome
      /\ \A q \in Runs : Settled(q)
  BY <1>1 DEF SettledInv, PatientInv
<1>3. ASSUME NEW a \in Actors, AdvanceStep(a)  PROVE Settled(r)'
  BY <1>2, <1>3, DecideSettled, TransitionSettled, EnqueueSettled,
     MarkSucceededSettled
  DEF AdvanceStep
<1>4. CASE WorkerStep
  BY <1>2, <1>3, <1>4, FetchTasksSettled, NothingSkipped, StartTaskSettled,
     HandlerEndsSettled, FailWorkflowSettled, ReportErrorSettled,
     EmitCompletedSettled, FinishTaskSettled
  DEF WorkerStep, Actors
<1>5. ASSUME NEW c \in Clients, ClientStep(c)  PROVE Settled(r)'
  BY <1>2, <1>3, <1>5, LogStartSettled, EnqueueStartSettled
  DEF ClientStep, Actors
<1>6. ASSUME NEW c \in Clients, Request(c)  PROVE Settled(r)'
  <2>1. ASSUME NEW q \in Runs, AdvanceWorkflow(c, q)  PROVE FALSE
    BY <2>1 DEF AdvanceWorkflow
  <2>. QED
    BY <1>2, <1>6, <2>1, CreateRunSettled, ApproveGateSettled DEF Request
<1>7. CASE UNCHANGED vars
  BY <1>2, <1>7, OtherRun DEF vars, store, OnCall, Starting
<1>. QED BY <1>1, <1>4, <1>5, <1>6, <1>7 DEF Next

LEMMA SettledInvInit == Init => SettledInv
<1> SUFFICES ASSUME Init, NEW r \in Runs  PROVE Settled(r)
  BY DEF SettledInv
<1>1. /\ \A a \in Actors : ~OnCall(a, r)
      /\ ~Starts(r) /\ ~Enqueues(r) /\ ~WorkerOn(r) /\ ~Exists(r)
      /\ run[r].status = "absent"
  BY DEF Init, NoCall, IdleClient, IdleWorker, OnCall, Starts, Starting, Enqueues,
         WorkerOn, Exists
<1>2. \A agent \in Agents : \A k : ~Waits(r, agent, k)
  BY DEF Init, Waits
<1>3. \A agent \in Agents : sessions[r][agent] = <<>>
  BY DEF Init
<1>. QED
  BY <1>1, <1>2, <1>3, AgentsOfState
  DEF Settled, BehindDone, DeciderDone, GoesOn, IdleDone, SucceededLast, UnspentNow,
      Unspent, WaitersFresh, SessionsBehind, AheadFresh, WorkerReports

(* With a patient operator, and as long as neither the worker nor the API  *)
(* crashes, a run is reported as succeeded only when every agent of its    *)
(* graph has completed: no transition of the racing calls passes a state   *)
(* whose agents are still at work or have failed.                          *)
THEOREM PatientSuccess ==
    ASSUME Operator = "patient"
    PROVE  Spec => [](crashes = 0 => SucceededMeansAllAgentsDone)
<1> DEFINE Inv == TypeInv /\ LogInv /\ PatientInv /\ SettledInv
<1>1. Inv /\ [Next]_vars => Inv'
  BY NextTyped, LogInvStep, PatientInvStep, SettledInvStep
<1>2. Init => Inv
  BY InitTyped, LogInvInit, PatientInvInit, SettledInvInit
<1>3. Spec => []Inv
  BY <1>1, <1>2, PTL DEF Spec
<1>4. Inv => (crashes = 0 => SucceededMeansAllAgentsDone)
  BY SettledSucceeds
<1>. QED BY <1>3, <1>4, PTL
=============================================================================
