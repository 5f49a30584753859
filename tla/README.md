# Factoria: a verification development

TLA+ modules for Factoria, a service that takes a data ticket
through a fixed graph of states, with an AI agent working in most of them and a
human approving two of them, and for the parts of the OpenClaw gateway it ships
that queue work and lock its sessions. The reference is the code under `src/api/app`, `src/runner/app`
and `src/gateway/openclaw/src`; every definition that stands for code is listed
with its file and lines in `PROJECT.json` under `map`.

- [The system](#the-system): components, state, operations, what is hard
- [Modules](#modules): which module models what, and how
- [Runs](#runs): what TLC checks, with which bounds
- [Proofs](#proofs): what TLAPS proves, and along which argument
- [Findings](#findings): where the code and its documents disagree
- [Limits](#limits), [Not modelled](#not-modelled) and [Plan](#plan)

## The system

Three processes share one SQLite file and one workspace directory, and a chat
gateway runs beside them:

    web board ──HTTP──> API (FastAPI, a thread per request) ──┐
                                                              ├── SQLite
    agent worker (one process, polls every second)  ──────────┘
         │ HTTP, 30 s timeout
         v
    runner (FastAPI: files, SQL, dbt, git inside a workspace)

    agent worker ──HTTP, answer unused──> gateway (node, one event loop)
    chat channels ──> followup queue ──> command lanes ──> agent runs
                  <── delivery queue <── replies
    agent runs, other processes of the gateway ──> session files, each with a lock file

### Components

| component | state | operations | what makes it correct |
|---|---|---|---|
| Workflow engine (`services/orchestrator.py`, `agent_queue.py`, `workers/agent_worker.py`, `routes/workflows.py`) | `workflow_run`, `gate_approval`, `agent_task`, `agent_session` | create a run, `advance`, `transition`, `complete_workflow`, `fail_workflow`, approve a gate, poll, run a task | no run and no agent gets past a gate without a human; an agent runs once per run; tasks are not lost; a verdict has a cause; every run reaches one |
| Event stream (`services/workflow_events.py`) | `workflow_event` | append with the next `seq` | numbers without holes; moves in the order they were made |
| Tenants (`routes/tenants.py`, `AgentRunner._run_tenant_provisioning`) | `tenant`, `runner_job`, workspace directory | create, retry, reset, provision in four tracked jobs | `ready` is earned and what it promises is built, a ready tenant has its workspace, no request is lost, a failure shows |
| Agent handlers (`services/agent_runner.py`, `artifact_service.py`) | `artifact`, files in the workspace | one handler per agent, through the runner | artifacts of a run belong to its agents; the PR follows the QA result |
| Runner (`runner/app/main.py`, `runner_client.py`) | files, SQL tables, dbt project | one HTTP request per job | a job repeated or interrupted leaves usable state |
| Uploads and ingestion (`routes/tickets.py`, `_run_data_ingestion`) | `uploaded_file`, ingested tables | upload, list, ingest | every upload is ingested, under its own table |
| Workspace manager | directories | paths, create | pure path building |
| Client of the gateway (`openclaw_service.py`) | none | one call per handler, answer unused | returns |
| Gateway: command lanes, restart inside the process (`process/command-queue.ts`, `cli/gateway-cli/run-loop.ts`, the two lanes of an agent run in `agents/pi-embedded-runner/run.ts`) | lanes with waiting and executing commands, a generation each, the draining flag | enqueue, pump, completion, clear, reload of the concurrency, drain, timeout, reset | no command is lost or settled twice, none waits beside a free slot, a session runs one turn at a time, every command settles |
| Gateway: followup queue (`auto-reply/reply/queue/*`) | a map of queue objects, one drain per object | a message arrives, is queued or run; debounce, followup and collected turns, overflow, failed turns, stop | no message is removed without a turn of its own, none is repeated without a failure, order is kept, drains end |
| Gateway: outbound delivery queue (`infra/outbound/delivery-queue.ts`, `deliver.ts`) | a file per message, a directory of failed ones | enqueue, send payload by payload, acknowledge, fail, recover at a start | nothing persisted is lost, nothing is given up without a cause, resends are bounded |
| Gateway: session write lock (`agents/session-write-lock.ts`, `shared/pid-alive.ts`) | a lock file per session, a table of held locks per process | acquire (wait, reclaim, share), release, watchdog, signal and exit handlers, cleaner | those who write at once share one lock, unless the watchdog took it from them; the last of them removes the file; no lock is lost for good |
| Gateway: the rest | sessions, cron jobs, plugins, channels, configuration | | see [Not modelled](#not-modelled) |
| Read-only routes, runtime graphs, schema | none | reads | change nothing |
| Web board | none of its own | shows the Approve button in a gate's column | |
| Seed scripts | none | drive the API | |

### How they interact

A request thread creates a run in three commits: the run, its first event, the
task of the first agent. The worker reads every pending task as one batch, and
for each of them inserts a session, runs the handler, marks the session,
appends `agent_completed`, and only then marks the task. The event's consumer is
called in the same process and calls `Orchestrator.advance`, which reads the
run, reads the approval, and writes the successor state, the `state_transition`
event and the next task. `POST /workflows/{id}/gates/{gate}/approve` inserts an
approval and calls the same `advance` from a request thread, and
`POST /workflows/{id}/advance` calls it outright. So the one function that moves
a run is executed by several processes at once, and writes by primary key.

In the gateway everything shares one event loop, and what others do comes between
two awaits. A message for a busy session waits in the followup queue; its drain
runs a turn in the session's command lane, which holds its slot while a second
command, with the model's work, waits in a global lane. What the agent answers is
written to the delivery queue before the channel is called. A restart keeps the
process and its memory: it waits for executing commands, gives up after 30 s,
resets the lanes, and starts another recovery pass beside what still runs. The
transcript of a session is also written by other processes (the command line, the
doctor), so a run takes its lock file; the processes know each other only by what the
file says and how old it is.

### What is hard

- **Stale decisions.** `advance` decides on a row that others change before it
  writes, and the write does not compare.
- **A completion moves the run whatever it is in**, so an early approval shifts
  every later completion onto a later state.
- **Several commits per operation**: a crash between any two of them leaves the
  later ones undone, and no process repairs it.
- **The idempotency guard** of `run_task` takes any session, also one that a
  crash left running, for a finished agent.
- **Numbering events** by reading the last one, in two processes.
- **A reset that renames, then clears**, against a second reset or a retry.
- **Files that arrive after the ticket**, while the agent that ingests them may
  already have listed them; several file names that mean one table.
- **A runner job outlives the call that asked for it**: the client gives up after
  30 s, the files, tables or pull request exist all the same.
- **A job tells by a file that it was done before**, and the file is opened, then
  written, by attempts that may run side by side.
- **Ends of commands that a restart has given up on**, which must free no slot of
  the lanes that were reset meanwhile.
- **A queue object that a drain holds and the map no longer does**, after a stop
  command; items removed by count after a turn, when an overflow has shifted them.
- **Rewriting a file by reading and renaming** while another actor acknowledges
  or moves it, and a crash between any two file operations.
- **A lock file judged by its contents and removed by its path**, several awaits later;
  a lock that the watchdog or a signal takes from its holders, who write on.
- **One catalog file, two kinds of connection**: previews open it read-only, the
  profiler's queries for writing, and the two exclude each other.

Every hazard is listed at its line under `hazards` in `PROJECT.json`, with the
properties aimed at it, or the reason none is yet.

## Modules

| module | models |
|---|---|
| `WorkflowGraph` | the two graphs, the agent of a state, the gates |
| `WorkflowPromise` | abstract specification: what the engine promises about a run |
| `Orchestrator` | the engine: store, worker, request threads, crashes |
| `MCOrchestrator` | its instance: a ticket run and a provisioning run, symmetry of the clients |
| `EventLog`, `MCEventLog` | the numbering of one run's events |
| `TenantProvisioning`, `MCTenantProvisioning` | tenants and their provisioning |
| `Ingestion` | uploads, the ingestion and profiling agents, the runner's catalog jobs |
| `TicketAgents`, `MCTicketAgents` | the other five ticket agents, composed with `Ingestion` into one run |
| `CommandLanes`, `MCCommandLanes` | the gateway's command queue, its agent runs and its restart |
| `FollowupQueue`, `MCFollowupQueue` | the messages of one chat session that arrive while its agent is busy |
| `DeliveryQueue`, `MCDeliveryQueue` | the write-ahead queue of outbound messages and its recovery |
| `SessionLock`, `MCSessionLock` | the write lock of one session file, in several processes |
| `OrchestratorProofs` | facts about the graphs; proofs of the engine's types, that gates hold, agents run once, of where tasks and verdicts come from, that the engine implements `WorkflowPromise`, and what it owes a patient operator: logs replay, success means all agents done |
| `EventLogProofs` | proof of the numbering |
| `TenantProvisioningProofs` | proofs about tenants and their workspaces |
| `CommandLanesProofs` | proofs about the lanes |
| `FollowupQueueProofs` | proofs about the followup queue |
| `DeliveryQueueProofs` | proofs about the delivery queue |
| `SessionLockProofs` | proofs about the session write lock |
| `TicketAgentsProofs` | proofs about uploads, schemas, files and artifacts of a ticket run |

**Granularity.** An action is one committed write with the reads that led to it
inside the same transaction, or a read whose result is used after others may
have run. SQLite gives a SELECT outside a transaction no lock, while an UPDATE
or INSERT holds the write lock to its commit. `advance` is therefore four
actions: `Decide` (reads run and approval, keeps what it decided in `call`),
`Transition` (state and event, one commit), `Enqueue` (the next agent's task),
`MarkSucceeded` (the verdict after DONE). `call[a]` holds the locals of the
call actor `a` is inside; the worker and the request threads run the same four
actions. `POST /advance` hands `advance` the row it has already read, so
`AdvanceWorkflow` contains the decision.

**The worker** is `worker.at`: polling, batch, handler, then either
`HandlerFails`, `FailWorkflow`, `ReportError` or `MarkAgentComplete`,
`EmitCompleted` and the four actions of `advance`, and last `FinishTask`. The
SELECT of a batch has no ORDER BY, so a batch is worked off in any order.

**Operators.** The approve route checks that the run exists and the gate has one
of the two names, and nothing else; when it is called is a matter of who calls.
The constant `Operator` names three uses: `any` (any request at any time: curl,
scripts, several users), `board` (the Approve button, shown while the card is
in the gate's column, and the seed scripts, which poll for the state), and
`patient` (once per gate, when the run's agents have nothing left to do).

**`EventLog`** separates the read of the last number (`ReadLast`) from the insert
(`Insert`) for all events but a move: in `Orchestrator.transition` the changed
`current_state` is pending in the session, is flushed before the read, and holds
the store's write lock until the commit (`AppendTransition`). The event of a run's
creation has the same type, `state_transition`, and no such protection: the routes
commit the run first and append with nothing pending, so it is numbered like the
others (kind `creation`), and a `POST /advance` may get in before it.

**`TenantProvisioning`** has every commit of the three routes, of the
provisioning handler, and the runner's side of its jobs. A reset is three steps: test whether the workspace is
there, rename it, clear the tenant. A workspace is named by the run that built
it. `RequestId` is the id of a tracked job with its last component, the attempt
for the first job and a constant for the others. The queue, the sessions and
the run's own states are those of `Orchestrator`, reduced to what touches the
tenant: the set of runs with a pending task, taken in any order, and the set of
runs with a session. Inside the runner a call is known by run, job and attempt,
for a call whose client has given up goes on beside the next attempt. A job looks
for its file, works (`made`), opens the file (`marked`) and writes it (`whole`);
looking and working are one step, because work done twice changes nothing. A
timeout is the worker's `CallFails` while the call has no answer; a runner that
goes down loses the calls and keeps the files. A job that begins only after a reset
has renamed the workspace makes a directory that no tenant points to, and is left
out.

**`Ingestion`** reduces a file name to what its table name depends on: a `RAW_`
prefix, whether the rest begins with a digit, the suffix. `TableName` is what the
runner's `_safe_stem` and the stripping after it do with these: `2024.csv`
becomes `T_2024`, `raw_2024.csv` becomes `2024`, which the catalog does not take
for a table, and `raw_orders.csv` and `orders.json` both become `ORDERS` (the instance
has the last three; the theorems hold for any names). The
bytes of a file are the number of the upload they came from, and whether they are
all there: an upload empties the file of its name, writes it, and then commits
its row. A schema is the bytes it was inferred from. The loader takes one file
per step, so that uploads come between. The profiler finds the catalog there or not, and
lists its tables in a call of its own (`TablesListed`), read-only, which a loader at work
excludes; if it lists none, or the call fails, the handler sends a placeholder query.

**`TicketAgents`** EXTENDS it and adds the handlers before and after profiling.
`worker` is the position of the run in the chain of its agents. What all handlers
share is written once: `Deliver` hands over drafted files, request by request;
`WriteFiles` is the runner's job; `RegisterArtifact` the row and its event.
`JobLost` is a call the client gives up on, with or without the job's effect.
A title matters by its slug: a plain identifier, a word reserved in SQL (a title
such as "Order", fine as part of the view that `dbt_compile` creates and not as
the table that `dbt_build` creates), or a name beginning with a digit. How the
orchestrator moves the run between agents is `Orchestrator`'s. Here the next agent
follows the last and a gate is passed when it is approved, unless an agent is
*started early*: neither the approve route nor `POST /advance` waits for the agent in
front, so the worker may find the task of any agent that has not run, take it before
the one whose turn it is, or take it after a failure. `StartEarly` begins such a handler
between two others, at most `MaxRushes` times; `rushed` counts them, and `InTurn` says that
there was none. `sessions` has the agents with a row in `agent_session`; the guard of
`run_task` (`InSession`) begins no handler twice. After an early start the chain goes on
from the agent started, as the pending tasks of those in front may be taken never, or
by another early start.

**`CommandLanes`** models an agent run as two nested commands, in the lane of its
session and in a global lane, so a lane's queue is a sequence of runs. The code
between two awaits is one step; the pump, which starts commands until a lane is
full, is the only part that takes several actions, and nothing else happens while
`toDrain` is not empty. A command that executes since before a reset is in `stale`
instead of `active`: what the generation a command captures at its start amounts
to. The restart is `RequestRestart`, `Drained` or `DrainTimeout`, `ResetAllLanes`.

**`FollowupQueue`** has queue objects, because a drain keeps the object it began
with while the map may already hold another (`current`). A drain is idle, in its
debounce, or has a turn waiting or active in the session's lane; `batch` and
`lines` are what that turn's prompt was made of. Both modes that queue are there
(one message per turn, collected turns), and the three drop policies. A handler
reads whether a turn is active and acts on it after an await: `Arrive`, then
`RunNow` or `EnqueueFollowup`. A turn may fail before it begins: it is refused
(`OwnRefused`, `FollowupRefused`: the gateway drains, or no auth profile is out of its
cooldown), or gives up at the head of the lane (`OwnFails`, `FollowupMissed`: no write
lock, no key, no model). The sender of an own message gets the error as its reply; of a
followup it is logged, and the drain takes the turn for done. `missed` has the messages
of such turns.

**`DeliveryQueue`** has as actors the live delivery of each message and the
recovery pass of each start, all at the same files. `job[a]` is an actor's place
and locals. A step is one file operation or one call of the channel; `failDelivery`
is a read and a rename, with others in between. `Restart` starts another pass
beside what runs, `Crash` ends all actors and keeps the files.

**`SessionLock`** names a lock by the request that would make it. `caller[c].at` is the
place of a caller between two awaits of `acquireSessionWriteLock`: each open, read,
stat and removal of the file is a step of its own. `file` is what lies on the disk:
who made it, whether its payload is written, and whether it is older than 30 minutes.
`held` is the process's table with its count; a caller that shares a lock keeps the
lock's name, as the closure of the code keeps the entry. `Restart` covers a kill (the
file stays), an exit (the handlers remove it) and a new process under the old pid;
`Signal` is the handler in a process that lives on because its run loop listens to
the signal too. What may leave a file behind or take one away without its holder
is a *disturbance*: `Restart`, `Signal`, a removal that fails, a pass of the cleaner.

**Crashes** of the worker or of the API lose the locals and keep the store; the
process is restarted by its supervisor and begins idle. In `TicketAgents` a
worker that crashes in a handler leaves the run where it is for good, because
`run_task` finds the session and skips.

Definitions with names such as `StartTaskAgain` or `NextSeqByCount` precede some
actions. They are faulty versions of what follows them, used to confirm that
each property notices the fault; no behaviour of the models contains them.

## Runs

Deadlock is not checked: the system stops when all runs have their verdict and
no request arrives, and in the models also when the bounds are used up.

| run | checks | instance | shows |
|---|---|---|---|
| `orchestrator_races` | `TypeOK`, `GatesRespected`, `OneSessionPerAgent`, `KeepsPromise` | 1 ticket run, 2 clients, operator `any`, 2 requests | approvals and advances at any time, racing each other and the worker, get no agent past a human and start none twice; every step is a step of `WorkflowPromise` (which lets a run turn back or repeat a state: a move undone or made twice is `ReplayIsValid`'s to find) |
| `orchestrator_crashes` | `TasksFollowLog`, `VerdictHasCause`, `TasksAreKept` | 1 run, 1 client, operator `any`, 2 requests, 1 crash | a crash at any step loses no task and gives no verdict without a cause |
| `orchestrator_patient` | `SucceededMeansAllAgentsDone`, `ReplayIsValid`, `RunsReachVerdict` | a ticket run and a provisioning run, 2 clients, operator `patient` | used as intended, both runs reach a verdict, and the log replays |
| `orchestrator_crash_stuck` | `RunsReachVerdict` | 1 run, `patient`, 1 crash | violated: finding 1 |
| `event_log` | `SeqsHaveNoHoles`, `TransitionsInOrder` | 3 writers, 5 events | racing writers leave no hole, and moves stay in order |
| `tenant_provisioning` | `TypeOK`, `ReadyIsEarned`, `ReadyIsBuilt`, `ReadyHasWorkspace`, `WorkInPlace`, `SettledTenant` | 1 tenant, 2 threads, 3 runs, 1 fault, 1 crash | creates, retries and resets against the worker and the runner, with a job that fails or outlives its caller, and a crash of any of the three |
| `ticket_agents` | `TypeOK`, `SchemasMatchCatalog`, `ListedAreIngested`, `ProfileMatchesData`, `ArtifactsAreWritten`, `EvidenceBehindPR`, `FailureHasCause` | 1 run, its slug a reserved word or with a digit in front, 4 file names: two of one table, one the catalog does not take, one refused; 2 uploads, 1 preview, 1 fault, 1 early start (2.9 million states, 2 to 3 minutes) | with files arriving, a preview, a lost call or crash and an agent started before its turn at any time: schemas are those of the catalog, what was listed in time is ingested, artifacts are files that were written, branch and pull request are made once; with the agents in turn the profile counts what was loaded and the pull request has its evidence behind it |
| `command_lanes` | `NoIdleLane`, `CommandsAreKept`, `OneRunPerSession`, `EveryRunSettles` | 3 runs of 2 sessions in 1 global lane, concurrency up to 2, any number of clears, reloads and restarts | no command is lost or settled twice, none idles beside a free slot, a session's runs overlap only after a restart that gave up, every accepted run settles |
| `followup_queue` | `TypeOK`, `NoSilentLoss`, `NoRepeat`, `OrderKept`, `DrainsSettle` | 4 messages from 2 threads of a chat, 4 settings with a cap of 2, 1 failed delivery, 1 turn that fails before it begins, 1 stop | without overflow every queued message gets a turn, if only a failed one, nothing is repeated without a failed delivery, order is kept until the stop, and drains end |
| `delivery_queue` | `NothingLost`, `FailedHasCause`, `ResendsBounded` | a message of 2 payloads, 3 starts, 2 faults, 2 retries | whatever crashes, restarts, aborts and errors fall between two file operations, a persisted message is kept until sent, given up only for a cause, and resent only by starts |
| `session_lock` | `SingleWriter`, `SharedUntilLast`, `WaitersGetIn` | 2 callers in the gateway and 1 in another process, 3 requests, 1 disturbance | until a file is left behind or taken away writers exclude each other, except that a holder the watchdog released the lock of writes on; the last sharer and no earlier one removes the file; whoever waits gets in, also past a file that was left behind (requests are bounded: a lock that is lost would show, starvation by ever new holders would not) |
| `delivery_best_effort` | `BestEffortIsRetried` | the same as `delivery_queue` | violated: finding 2 |

The type invariants of `EventLog`, `CommandLanes`, `DeliveryQueue` and `SessionLock`
are proved and have no place in the runs.

**Bounds and why they suffice.** `MaxRequests` bounds approvals and advances, not
the creation of runs or the steps of the worker. Two requests are the least that
race with each other and with the worker, and the two a ticket run needs to pass
both gates. One run is enough for the race properties: runs share nothing but
the worker's batch, and `orchestrator_patient` has two. One crash leaves each
operation of several commits half done once. In `tenant_provisioning` one fault
suffices: a call that is too late, with its file open and not yet written, makes
the next two attempts fail too and so exhausts all three; `MaxRuns` = 3 lets a
reset follow a finished run while another request is under way. Five events let
three writers share a number and then all move on. Two uploads are the least of
which one overwrites, or shares the table of, the other, or comes too late; one
preview is open during any one step of the profiler; after one fault the agent at
work is over, and only an early start goes on behind it; one early start skips any number
of agents. A plain slug adds no step to those of a reserved word: its build passes where the
other's fails, and nothing reads the result but the report. One turn that fails before it begins may still be a collected one, and so miss
several messages. Two runs of one session and one of another are the least that wait for each
other in both kinds of lane. Four messages fill a queue of two while a drain is
under way and overflow it. Two payloads are the least of which one can be sent and
the other not; three starts let a pass run beside an earlier one and a third see
what both left; messages share nothing but the directory, so one is enough for
TLC, and the proofs have any number. A lock needs two callers of one process to be
shared and one of another to be fought for; with three requests a reclaimed lock is
taken by another caller while its late holder still has to release, and one
disturbance leaves one file behind; the proofs have any number of each. Clients and threads are interchangeable, so
the safety runs use symmetry; the liveness runs do not.

**Fairness** (`FairSpec`). Weak fairness of `WorkerStep` and of `ClientStep(c)`:
the worker loops for ever and a thread finishes its request; nothing in the code
waits for another process except for the store's write lock and for the
runner, whose client has a timeout. The call to the OpenClaw gateway has none
(`openclaw_service.py:22`): that it returns is an assumption. Weak fairness of
`ApproveGate` under the operator `patient`: a human eventually approves. There is
no fairness on arriving requests and none on crashes.

In `CommandLanes`, weak fairness of `Pump` (synchronous code) and strong fairness
of the ends of commands: an agent run has a timeout, so each command ends, but the
pump disables the action again and again for a moment. Draining, its timeout and
the reset have none and need none. In `FollowupQueue`, weak fairness of each
handler's steps, of each drain's steps and of the beginnings and ends of turns:
timers fire, awaited I/O completes, turns end. Messages and stop commands need not
come. In `SessionLock`, weak fairness of a caller's steps towards its lock and away from
it (awaited file operations complete, the release stands in a `finally`), of a removal
or cleaning that has begun, and of `GrowOld`: time passes. None on requests, giving up,
the watchdog's decision, restarts or the cleaner.

## Proofs

The theorems hold for every set of runs, clients, tenants, lanes and messages, every
operator, and any number of requests, failures, crashes and restarts, under the
named assumptions on the constants: `OrchestratorAssumption` (runs have one of the
two workflow names, names of different kinds differ), `EventLogAssumption`,
`TenantAssumption` (finitely many threads, the placeholder is no tenant),
`LanesAssumption` (finitely many runs, each with a lane of either kind, no lane of
both), `DeliveryAssumption` (finitely many messages, none a pass, each with a
payload), `FollowupAssumption` (finitely many messages, none a queue, settings with a
mode, a policy and a cap of at least 1), `LockAssumption` (finitely many callers, each with a process), `IngestionAssumption`
(a file name has the prefix or not; the bounds are numbers), `TicketAssumption`
(a slug is of one of the three kinds; the bound on early starts is a number).

| theorem | statement |
|---|---|
| `OrchestratorProofs!TypeCorrect` | `Spec => []TypeOK` |
| `OrchestratorProofs!GatesHold` | `Spec => []GatesRespected` |
| `OrchestratorProofs!AgentsRunOnce` | `Spec => []OneSessionPerAgent` |
| `OrchestratorProofs!TasksAreLogged` | `Spec => []TasksFollowLog` |
| `OrchestratorProofs!VerdictsHaveCause` | `Spec => []VerdictHasCause` |
| `OrchestratorProofs!TasksStayKept` | `Spec => TasksAreKept` (an action property) |
| `OrchestratorProofs!PromiseIsKept` | `Spec => KeepsPromise`: the engine implements `WorkflowPromise` |
| `OrchestratorProofs!PatientReplay` | with `Operator = "patient"`: `Spec => []ReplayIsValid` |
| `OrchestratorProofs!PatientSuccess` | with `Operator = "patient"`: `Spec => [](crashes = 0 => SucceededMeansAllAgentsDone)` |
| `EventLogProofs!LogTyped`, `NoHoles`, `MovesAreOrdered`, `SharersAreDistinct` | types and the three invariants of the numbering |
| `TenantProvisioningProofs!TenantsTyped` | `Spec => []TypeOK` |
| `TenantProvisioningProofs!HandlerWorksInPlace` | `Spec => []WorkInPlace` |
| `TenantProvisioningProofs!ReadyTenantsEarnIt`, `ReadyTenantsAreBuilt`, `ReadyTenantsHaveWorkspaces` | `Spec => []ReadyIsEarned`, `[]ReadyIsBuilt`, `[]ReadyHasWorkspace` |
| `TenantProvisioningProofs!RequestsSettle` | `Spec => []SettledTenant` |
| `CommandLanesProofs!LanesTyped`, `LanesNeverIdle`, `CommandsStayKept`, `SessionsRunOnce` | types, `NoIdleLane`, `CommandsAreKept`, `OneRunPerSession` |
| `FollowupQueueProofs!FollowupsTypeCorrect`, `NothingRepeated`, `FollowupsAreKept` | `Spec => []TypeOK`, `[]NoRepeat`, `[]NoSilentLoss` |
| `FollowupQueueProofs!FollowupsInOrder` | `Spec => OrderKept` (an action property) |
| `DeliveryQueueProofs!DeliveryTyped`, `NothingIsLost`, `GivenUpWithCause`, `SendsStayBounded` | types, `NothingLost`, `FailedHasCause`, `ResendsBounded` |
| `SessionLockProofs!SessionLocksTyped`, `LocksSharedUntilLast`, `SessionsHaveOneWriter` | types, `SharedUntilLast`, `SingleWriter` |
| `TicketAgentsProofs!AgentsTypeCorrect`, `ArtifactsExist`, `PullRequestsStand`, `FailuresHaveCause` | `Spec => []TypeOK`, `[]ArtifactsAreWritten`, `[]EvidenceBehindPR`, `[]FailureHasCause` |
| `TicketAgentsProofs!SchemasAreTrue`, `UploadsAreIngested`, `ProfilesAreTrue` | `Spec => []SchemasMatchCatalog`, `[]ListedAreIngested`, `[]ProfileMatchesData` |

**Types.** `TypeOK` is not inductive: a write through locals that name no run
would leave the tables. `TypeInv` adds what a position implies: a process in a
call works on a run that exists and writes a state of its graph; every task of
the worker's batch is still pending; the task at hand has a session.

**Gates.** `GatesRespected` speaks of the store, but a call that has decided and
not yet written carries its decision past the steps of others. `GateInv` says of
every state in sight, whether shown by a run, owned by an agent with a task or
a session, or held in a call, that it is *cleared*: each gate it lies behind is
approved. A verdict is cleared because the gate of the state it was read from
was looked at (`GatesGuard`: a successor lies behind the same gates and at most
the one of the state itself), and stays so because approvals are never
withdrawn. That the read is stale by the time of the write does not matter, and
this is the reason.

**Causes.** `LogInv` remembers in `call` and `client` that what is about to be
enqueued was logged, and that only DONE leads to the verdict. `CauseInv` ties the
worker's position to the session it has just written: in a handler its session
holds no failure, on the failure path it does. `VerdictsHaveCause` follows from
both, `TasksStayKept` from `TypeInv` alone: only the task at hand changes, it was
pending when read and no other process changes it.

**The patient operator.** For a `board` operator TLC finds both properties violated
(see Findings), so the operator is a hypothesis, not a convenience. `PatientInv` says
that nobody advances a run beside somebody else: at most one call is inside
`advance` for it, a request only while no task of the run waits or is in the worker's
hands, and nothing at all while its creation is between commits. What a call has
read is then still true when it writes (`Fresh`), and the last move in the log ends in
the state the run shows (`TailShown`), so the next one replays. The worker's own call
is the delicate one: it begins while its task is still pending, and is allowed to
because the task is the one it has just finished.

`SettledInv` follows a run without crashes along its graph, using that both graphs are
chains (`Rank`): every agent of a state behind the run has completed (`BehindDone`), a
call that goes on has found those of the present state completed (`DeciderDone`), and a
run at rest has nobody left to wait for (`IdleDone`). The approval of DESIGN_REVIEW
needs the last one, because that gate has an agent of its own: a crash between the
commit of the transition and the enqueue leaves the gate with nothing pending and its
agent not run, and TLC shows the approval passing it by. Hence `crashes = 0`. The
other parts say who will do what is left between the commits: one task at most, for the
present state (`UnspentNow`), whose agent has no session yet (`WaitersFresh`,
`AheadFresh`), so the guard against a second session skips nothing.

**Ticket agents.** `AgentsInv` is one invariant for seven properties, in two parts. What
it says in whatever order the agents run leans on the guard of `run_task`: no handler
begins twice, and each file has one author (`Author`), so the files of the handler at hand
are not there yet and its rows are new (`Course`). This is why no row is without its file
or there twice, and, with `OnceRemote`, why there is one push and one pull request. `Loads`
says who owns the catalog: the loader alone writes it, one whose client gave up goes on
loading, and no schema will be saved then, because the handler that would is over and
does not begin again. `Listings` carries one upload from its row over the loader's list
and answer to its schema; what is uploaded later can take its claim to the name away and
never give it one, and `RowsOnDisk` leaves the loader no choice about a file with a claim,
so the guess at a half-written file is never about such a one.

The second part holds while the agents wait their turn (`InTurn`). `InDelivery` says at
every position of the worker which files are due, written and registered, from the
order of the handlers (`Rank`, `Turn`) and the few shapes a handler's list of requests
takes (`Writings`, `Registrations`): the evidence is there when the branch is pushed. By
`LoadsInTurn` the loader is at rest before the first schema and the first file of a run
that goes on, so the schemas, the dictionary and the profile all read the same tables
(`Contents`), although they come from separate calls. `Published` keeps what stands behind
the push. An early start ends this part for good, and what it shows of
`ProfileMatchesData` and `EvidenceBehindPR`.

**Numbering.** The numbers in use are 1..m for some m; a number read and not yet
used is at most m + 1 and above all numbers of its own writer. A transition is
numbered m + 1 in the step that inserts it.

**Refinement.** A `Transition` of the engine is a `Proceed` of the promise although
the run may by then be in another state than the call has read. `TrailInv` says
why: what a call is about to write is the successor of a state on the run's trail
whose gate, if it has one, is approved; the trail only grows, and approvals are
never withdrawn. The other steps change one of the mapped variables each, or none;
that an agent is launched once comes from the guard on sessions, and that a
verdict is given for cause from `CauseInv`.

**Tenants.** `TypeInv` counts the threads that are still to open a run, for the
bound on the runs. `PlaceInv` is what the rest leans on: a run whose workspace a
tenant, a reset or the archive knows has been started, and while its handler works
nobody knows it; so a ready tenant's run is never the one at hand, and no step of
a handler can disturb what it earned. `EarnedInv` and `BuiltInv` follow the jobs
the worker has behind it: an answer "ok" rests on a file or on work just done, a
file on work, and work is never undone. `HomeInv` says that a reset works on a
workspace of its own tenant, so whoever renames the workspace of a ready tenant is
about to clear it. `SettleInv` names what will settle a tenant: a reset or request
that is to open a run, a run in the queue, or a failed run; without a crash no run
in the queue but the one at hand has been started, so none is skipped.

**Lanes.** `NoIdleLane` is inductive with the types once `toDrain` says which lanes
the pump owes a visit. `CommandsAreKept` needs that a run is once in each queue
(`QueuedOnce`), only in its own two lanes (`OwnLanes`), and that its global command
is new until the pump takes it out of its session's lane (`InnerNew`).
`OneRunPerSession` follows from that and a session lane's one slot (`OneSlot`).

**Followups.** The actions are first reduced to what they do to one queue (it is
kept, its drain restarts, takes, begins, ends or finishes a turn, it fills, it is
stopped) and to the map, and `StepKind` sorts the steps into four kinds: a message has
its own turn, a followup turn begins, a message is queued, and the quiet rest. Each
invariant then takes one lemma per kind. `ShapeInv` ties the lane to the positions of
the turns, `draining` to the drain and the number of queues to the messages that were
queued. `QueuedInv` says that a message is in one place of one queue only, although a
drain may hold a queue that has left the map, and that the messages of a turn are among
the first items, as many as will be removed; so what a turn put to the agent is gone
with it, unless the delivery failed: `NothingRepeated`. `OrderInv` adds the order, and
that until a stop command only the queue in the map has messages or a drain
(`OneDrain`); hence a message that is queued behind those of a turn is in the queue of
that turn (`FollowupsInOrder`). `KeepInv` says that without overflow and stop what a
turn removes is exactly what it had (`BatchIsPrefix`) and put to the agent
(`BatchWasTold`), or would have had it not failed before it began (`BatchWasMissed`),
so the rest stays in the map (`NoneLost`, `FollowupsAreKept`).

The proof showed that `OrderKept` needs its condition `clears = 0`. Without it the run
`followup_queue` passes, too, but five messages are enough to break it, one more than
the run has: a stop command empties a queue whose drain is under way, the next message
gets a new queue and drain, and the old drain, at its end, deletes the map entry by its
key (`drain.ts`, the `finally` of `scheduleFollowupDrain`) although it is the new
queue's; the message after that gets a third queue, and the two drains race for the
lane. No document promises an order beyond a stop command, so this is a bound of the
property and not a finding.

**Deliveries.** `NothingLost` needs what a delivery before its acknowledgement has
sent (`SentSoFar`). `FailedHasCause` counts: the retries in a file and the failures
that actors still owe it are errors that attempts met. `ResendsBounded` counts the
sends of a payload and the actors that are still able to send it: at most one more
than the starts.

**Session lock.** `SharedUntilLast` needs that a caller on its way to a lock has a name
for it nobody else has, so a new entry of the table starts with one sharer. For
`SingleWriter`, `CalmInv` follows one claim to the file from hand to hand: it is the
caller's that made the file, then the table's of its process, then whoever's removes
it; there is never more than one, none without the file, and nobody is about to reclaim
(`OneHand`). A holder either owns the lock in the table or was overrun by the watchdog
(`OwnersHold`). That a file in use is not old, and its process known by its start time,
is what makes the judgement of the onlookers right; the first disturbance ends the
argument, and the property.

Every invariant and every action property of the passing runs has its theorem, two of
them for the patient operator only. Only model-checked is liveness
(`RunsReachVerdict`, `EveryRunSettles`, `DrainsSettle`, `WaitersGetIn`), being out of
the prover's reach. What the runs with an expected violation and the findings say is
shown by TLC's counterexamples.

## Findings

Two disagreements between the code and its documents, each with a run that shows
the counterexample:

1. **A crash between two commits strands the run** (`orchestrator_crash_stuck`):
   status `running`, no task, no error event; `docs/milestones.md:304` says every
   failure path emits an error event, marks the run failed and offers a retry.
2. **A best-effort delivery that fails again in recovery is acknowledged**
   (`delivery_best_effort`). Partial failures are noticed only if the caller passed
   an `onError`, and recovery passes none; the comment at `deliver.ts:487` says the
   failure is tracked so that the entry is kept.

Others are stated as properties and have no run of their own. Each is seen by
adding the property to the configuration named:

- *An early approval puts a run ahead of its agents for good*:
  `SucceededMeansAllAgentsDone` in `orchestrator_patient.cfg` with one run, one
  client and `Operator = "board"`. Approving DESIGN_REVIEW while its agent still
  runs moves the run to PROFILING, the agent's completion to BUILD, and each later
  completion is credited to the state after its own. `docs/agent_operating_model.md:439`
  says DONE records the PR.
- *Two approvals of one gate make one move twice*: `ReplayIsValid` in the same, with
  two clients. `docs/design.md:966` asks for compare-and-swap,
  `docs/system_data_model.md:503` for a log that replays.
- *A failed provisioning never shows on its tenant*: `FailureShowsAsError` in
  `tenant_provisioning.cfg`. It stays `provisioning_running`, which neither the retry
  nor the reset accepts; `docs/milestones.md:313` says `status=error`, then a retry.
- *A late upload is never ingested*: `UploadsHaveSchemas` in `ticket_agents.cfg`. The
  first agent is enqueued before the web form sends the first file, and lists the
  uploads once. `docs/milestones.md:382` has every upload returned with its schema.
- *A failed QA goes on to review*: `ReviewFollowsPassingQA` in `ticket_agents.cfg`. A
  title that is a reserved word compiles and does not build; the QA agent writes a
  report that says FAILED and completes. `docs/agent_operating_model.md:595` sends
  the run back to BUILD.
- *A pull request may lack QA's evidence*: `QABehindPR` in `ticket_agents.cfg`. Nothing in
  the approve route (`routes/workflows.py:55-86`) or in `advance` waits for the agent of the
  state in front; the PR agent started early pushes and opens its pull request while QA has
  registered nothing. `docs/agent_operating_model.md:195` has the PR agent open it with QA
  evidence.
- *A restart refuses queued work*: `QueuedWorkSurvives` in `command_lanes.cfg`. The
  comment at `command-queue.ts:237` says queued entries are preserved; a run that
  waited in its session's lane while the gateway drains has its inner command
  refused when it gets its turn.
- *An overflow during a collected turn forgets messages*: `SummarizeForgetsNone` in
  `followup_queue.cfg` with `Settings <- MCDefault`. The oldest items, those in the
  turn, are shifted into the summary; after the turn the drain removes as many items
  as its batch had, by now the newcomers, and clears the summary with the lines of
  what overflowed (`drain.ts:125`). `docs/concepts/queue.md:69` says the dropped messages
  are summarised in a followup prompt. With `Settings <- MCSettings` it shows another
  way: in mode followup the turn for the summary takes the first item out of the queue
  with it, which no prompt has (`drain.ts:139`).
- *A followup whose turn fails before it begins is gone*: `FailedTurnKeepsItems` in
  `followup_queue.cfg`. The followup runner logs the error and returns
  (`followup-runner.ts:228-231`), so the drain removes the items (`drain.ts:125`, `:156`),
  where after a failed delivery it would keep them; neither agent nor sender hears of
  it. `docs/concepts/queue.md:30` says the message is enqueued for the next turn.
- *A followup may wait for the next message*: `FollowupsRun` in `followup_queue.cfg`. A
  message queued for a turn that has ended meanwhile is not run until another
  comes; `docs/concepts/queue.md:30` says it is enqueued for the next turn.
- *Recovery sends beside a live delivery*: `SentOnce` in `delivery_queue.cfg`. A pass
  that lists the directory while a message is being sent sends it too.
- *A session lock admits two writers*: `AlwaysSingleWriter` in `session_lock.cfg`;
  `CHANGELOG.md:3464` (of the gateway) says session locks are single-writer. One pass of
  the cleaner is enough: it takes a file that is being written for stale, having no
  payload, without asking for its age as `acquireSessionWriteLock` does
  (`session-write-lock.ts:429`). So is a file left by a process that died: of two callers
  that judge it stale, the second removes the file of the first (`:541`). With
  `MaxDisturbances = 0` the watchdog does it: it drops the entry and the file of a lock
  (`:193-211`) and tells nobody, so its holders, and those who came to share it and are
  timed from the first acquisition (`:471-478`), write on while another process takes
  the lock. `CHANGELOG.md:1545` speaks of *recovering hung lock owners*. Two more ways
  without disturbances are `HasStarttime = FALSE` (not Linux), where a caller takes the file
  another caller of its process is making for an orphan (`:384`), or
  `LongRuns = TRUE`, where a run whose timeout exceeds 28 minutes is judged too old
  while it writes (`:327`), which the same entry means to prevent.

Seen while reading, and not run: the table name the board asks a preview for is
derived without stripping `RAW_` in `TicketDrawer.tsx:124`, and with the digit
looked for after the stripping in `CreateTicketModal.tsx:15`, so neither always
names the table the runner created.

## Limits

- SQLite's own failures ("database is locked" after its timeout) are left out; a
  step that meets one would end like a crash of its thread.
- `Orchestrator` sees a handler as success or failure; `TicketAgents` sees the
  handlers of one run, and of the races of the engine around them what `StartEarly` says.
- What a file of the workspace says is kept only where another step or a reader
  relies on it: verdicts, tables, uploads, markers. Rendered text is left out.
- That connections of one process to a catalog must agree on being read-only, and
  which names it takes for tables, is the behaviour of the DuckDB library.
- Branches no state reaches are left out: an unknown agent or workflow name, a
  run without its ticket or tenant.
- `Log` keeps moves and errors only; the events that carry no decision are
  counted in `EventLog` as `other`, and the event of the creation as `creation`.
- The web board is modelled by when it offers its button.
- `CommandLanes`: what an agent run does inside its command is one step at its end;
  the run loop's stop ends the process and is left out.
- `FollowupQueue`: the modes steer, steer-backlog and interrupt act on the agent's
  stream and are left out, as are deduplication by message id (messages differ
  here) and settings that change while items wait. The attempts of one turn (fallback
  models, the one repetition after a transient error of the provider) count as one: it
  begins with the first that becomes active and fails unbegun if none does.
- `SessionLock`: one session file; processes have different pids at any time; a stat that
  fails for another reason than a missing file is left out.
- `DeliveryQueue`: the temporary file of a rewrite and its rename are one write;
  chunking and media within a payload, and entries of an older format, are left out.

## Not modelled

- **Most of the gateway.** `src/gateway/openclaw` is a vendored product of some 3400
  TypeScript files, more than 99 % of the repository's lines: channel adapters, CLI,
  web and mobile UI, model providers, plugins, configuration and its migrations,
  formatting. Factoria calls it through one HTTP request whose answer it does not
  use. Nearly all of it is I/O and the shaping of text without shared state between
  steps; what can be said of it is what its unit tests say. The share of the
  repository's lines under `map` is therefore small and stays so. Modelled are the
  parts with state that several callbacks, tasks or restarts share and that all
  messages pass through.
- **Client of the gateway**: a call whose answer is logged. That it has no timeout is
  an assumption of the fairness above.
- **Read-only routes, graph views, schema**: they change no state.
- **Rendering of the web board, seed scripts**: one-shot callers of the same API.

## Plan

In this order:

1. The gateway's cron service: jobs that are due while the store is reloaded or the
   previous turn of the job still runs.
2. `Orchestrator` and `TicketAgents` in one module, where an early start follows from the
   approvals, advances and batches that `StartEarly` stands for.
3. Abstract specifications of what the two message queues of the gateway promise (a
   message is sent, kept or given up; a message is put to the agent or kept), and the
   proofs that `DeliveryQueue` and `FollowupQueue` implement them, from the invariants
   proved here.
