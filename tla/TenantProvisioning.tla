-------------------------- MODULE TenantProvisioning --------------------------
(***************************************************************************)
(* The life of a tenant: the routes that create it, retry its provisioning *)
(* and reset it, the worker's provisioning handler with its tracked runner *)
(* jobs, and these jobs inside the runner.  Every request starts a         *)
(* provisioning run of its own; the queue, the sessions and the run's own  *)
(* states are those of module Orchestrator, here reduced to what touches   *)
(* the tenant.                                                             *)
(*                                                                         *)
(* As in Orchestrator, an action ends where a commit lets others in.       *)
(***************************************************************************)
EXTENDS Naturals, Sequences, FiniteSets

CONSTANTS
    Tenants,
    Threads,      \* request-handling threads of the API
    MaxRuns,      \* bound: provisioning runs in a behaviour
    MaxFaults,    \* bound: jobs and file writes that fail or are too slow
    MaxCrashes    \* bound: crashes of the worker, the API or the runner

NoTenant == "no tenant"

ASSUME TenantAssumption ==
    /\ NoTenant \notin Tenants
    /\ IsFiniteSet(Threads)
    /\ MaxRuns \in Nat /\ MaxFaults \in Nat /\ MaxCrashes \in Nat

VARIABLES
    tenant,     \* status, and the run whose workspace is workspace_root, or 0
    runs,       \* provisioning runs in creation order: tenant and status
    queue,      \* the runs with a pending agent_task
    started,    \* the runs with an agent_session
    jobs,       \* runner_job: request_id -> status
    archived,   \* the runs whose workspace a reset has renamed away
    thread,     \* each request thread's position and locals
    worker,     \* the worker's position and locals
    calls,      \* the jobs inside the runner: position, or answer
    made,       \* <<run, job>>: the job's work is in the run's workspace
    marked,     \* <<run, job>>: the file that says so exists
    whole,      \* <<run, job>>: and has been written to its end
    faults,     \* failures so far
    crashes     \* crashes so far

runnerVars == <<calls, made, marked, whole>>
vars == <<tenant, runs, queue, started, jobs, archived, thread, worker,
          faults, crashes, runnerVars>>

IdleThread == [at |-> "idle", tenant |-> NoTenant, root |-> 0, run |-> 0]
IdleWorker == [at |-> "polling", run |-> 0, job |-> 1, attempt |-> 1]

(* The four jobs of the handler, in order, and how often it tries each.    *)
JobTypes == <<"snowflake_provision", "snowflake_seed_demo_data",
              "dbt_bootstrap", "dbt_smoke">>
MaxAttempts(job) == IF job = 1 THEN 3 ELSE 1

(* "<run>:<type>:<seq>": the attempt for the first job, a constant for the *)
(* others.                                                                 *)
RequestId(n, job, attempt) ==
    <<n, JobTypes[job], IF job = 1 THEN attempt ELSE job>>

Init ==
    /\ tenant   = [t \in Tenants |-> [status |-> "absent", root |-> 0]]
    /\ runs     = <<>>
    /\ queue    = {}
    /\ started  = {}
    /\ jobs     = <<>>
    /\ archived = {}
    /\ thread   = [c \in Threads |-> IdleThread]
    /\ worker   = IdleWorker
    /\ calls    = <<>>
    /\ made = {} /\ marked = {} /\ whole = {}
    /\ faults   = 0
    /\ crashes  = 0

-----------------------------------------------------------------------------
(* The routes.                                                             *)

RunsInFlight == Cardinality({c \in Threads : thread[c].at # "idle"})
Accept(c) == thread[c].at = "idle" /\ Len(runs) + RunsInFlight < MaxRuns

At(c, at, t, root) ==
    thread' = [thread EXCEPT ![c] = [at |-> at, tenant |-> t, root |-> root,
                                     run |-> 0]]

(* POST /tenants.  The key is unique in the table, so of two requests that *)
(* both found no such tenant one fails at the insert.                      *)
CreateTenant(c, t) ==
    /\ Accept(c) /\ tenant[t].status = "absent"
    /\ tenant' = [tenant EXCEPT ![t].status = "requested"]
    /\ At(c, "opening", t, 0)
    /\ UNCHANGED <<runs, queue, started, jobs, archived, worker, faults,
                   crashes, runnerVars>>

(* POST /tenants/{id}/provision: from "requested" the write that follows   *)
(* the check changes nothing; "error" is the other status it accepts.      *)
RetryProvision(c, t) ==
    /\ Accept(c) /\ tenant[t].status \in {"error", "requested"}
    /\ tenant' = [tenant EXCEPT ![t].status = "requested"]
    /\ At(c, "opening", t, 0)
    /\ UNCHANGED <<runs, queue, started, jobs, archived, worker, faults,
                   crashes, runnerVars>>

(* POST /tenants/{id}/reset: the check reads status and workspace_root ... *)
ResetTenant(c, t) ==
    /\ Accept(c) /\ tenant[t].status \in {"ready", "error", "disabled"}
    /\ At(c, "archiving", t, tenant[t].root)
    /\ UNCHANGED <<tenant, runs, queue, started, jobs, archived, worker,
                   faults, crashes, runnerVars>>

(* ... the workspace is renamed if it is still there ...                    *)
TestWorkspace(c) ==
    /\ thread[c].at = "archiving"
    /\ thread' = [thread EXCEPT ![c].at =
                     IF thread[c].root \notin archived \cup {0}
                     THEN "renaming" ELSE "clearing"]
    /\ UNCHANGED <<tenant, runs, queue, started, jobs, archived, worker,
                   faults, crashes, runnerVars>>

(* ... and if another reset renamed it after the test, this one raises ... *)
RenameWorkspace(c) ==
    /\ thread[c].at = "renaming"
    /\ thread' = IF thread[c].root \in archived
                 THEN [thread EXCEPT ![c] = IdleThread]
                 ELSE [thread EXCEPT ![c].at = "clearing"]
    /\ archived' = archived \cup {thread[c].root}
    /\ UNCHANGED <<tenant, runs, queue, started, jobs, worker, faults,
                   crashes, runnerVars>>

(* The change of the tenant not committed.                                 *)
ClearTenantUnsaved(c) ==
    /\ thread[c].at = "clearing"
    /\ thread' = [thread EXCEPT ![c].at = "opening"]
    /\ UNCHANGED <<tenant, runs, queue, started, jobs, archived, worker,
                   faults, crashes, runnerVars>>

(* ... and status and workspace_root are overwritten by primary key.       *)
ClearTenant(c) ==
    /\ thread[c].at = "clearing"
    /\ tenant' = [tenant EXCEPT ![thread[c].tenant] =
                                   [status |-> "requested", root |-> 0]]
    /\ thread' = [thread EXCEPT ![c].at = "opening"]
    /\ UNCHANGED <<runs, queue, started, jobs, archived, worker, faults,
                   crashes, runnerVars>>

(* _enqueue_provisioning: the run, later its task.                         *)
OpenRun(c) ==
    /\ thread[c].at = "opening"
    /\ runs' = Append(runs, [tenant |-> thread[c].tenant, status |-> "running"])
    /\ thread' = [thread EXCEPT ![c].at = "queueing", ![c].run = Len(runs) + 1]
    /\ UNCHANGED <<tenant, queue, started, jobs, archived, worker, faults,
                   crashes, runnerVars>>

(* A run not enqueued because its tenant has one in the queue.             *)
EnqueueRunUnlessQueued(c) ==
    /\ thread[c].at = "queueing"
    /\ queue' = IF \E n \in queue : runs[n].tenant = thread[c].tenant
                THEN queue ELSE queue \cup {thread[c].run}
    /\ thread' = [thread EXCEPT ![c] = IdleThread]
    /\ UNCHANGED <<tenant, runs, started, jobs, archived, worker, faults,
                   crashes, runnerVars>>

EnqueueRun(c) ==
    /\ thread[c].at = "queueing"
    /\ queue' = queue \cup {thread[c].run}
    /\ thread' = [thread EXCEPT ![c] = IdleThread]
    /\ UNCHANGED <<tenant, runs, started, jobs, archived, worker, faults,
                   crashes, runnerVars>>

ThreadStep(c) ==
    \/ TestWorkspace(c) \/ RenameWorkspace(c) \/ ClearTenant(c)
    \/ OpenRun(c) \/ EnqueueRun(c)

-----------------------------------------------------------------------------
(* The worker.                                                             *)

N == worker.run
T == runs[N].tenant

Goto(at) == worker' = [worker EXCEPT !.at = at]

MayFail == faults < MaxFaults

(* run_task's guard: a run whose agent already had a session is skipped.   *)
SkipRun(n) ==
    /\ worker.at = "polling" /\ n \in queue /\ n \in started
    /\ queue' = queue \ {n}
    /\ UNCHANGED <<tenant, runs, started, jobs, archived, thread, worker,
                   faults, crashes, runnerVars>>

(* A start without the guard.                                              *)
StartRunAgain(n) ==
    /\ worker.at = "polling" /\ n \in queue
    /\ started' = started \cup {n}
    /\ worker' = [IdleWorker EXCEPT !.at = "starting", !.run = n]
    /\ UNCHANGED <<tenant, runs, queue, jobs, archived, thread, faults,
                   crashes, runnerVars>>

StartRun(n) ==
    /\ worker.at = "polling" /\ n \in queue /\ n \notin started
    /\ started' = started \cup {n}
    /\ worker' = [IdleWorker EXCEPT !.at = "starting", !.run = n]
    /\ UNCHANGED <<tenant, runs, queue, jobs, archived, thread, faults,
                   crashes, runnerVars>>

(* _run_tenant_provisioning                                                *)
MarkProvisioning ==
    /\ worker.at = "starting"
    /\ tenant' = [tenant EXCEPT ![T].status = "provisioning_running"]
    /\ Goto("planning")
    /\ UNCHANGED <<runs, queue, started, jobs, archived, thread, faults,
                   crashes, runnerVars>>

(* The plan before the jobs and the report after them are files written    *)
(* through the runner.                                                     *)
WriteFile(at, then) ==
    /\ worker.at = at
    /\ \/ Goto(then) /\ UNCHANGED faults
       \/ MayFail /\ Goto("failing") /\ faults' = faults + 1
    /\ UNCHANGED <<tenant, runs, queue, started, jobs, archived, thread,
                   crashes, runnerVars>>

WritePlan   == WriteFile("planning", "submitting")
WriteReport == WriteFile("writing report", "delivering")

TheRequest == RequestId(N, worker.job, worker.attempt)

SetJob(status) ==
    jobs' = [id \in DOMAIN jobs \cup {TheRequest} |->
                IF id = TheRequest THEN status ELSE jobs[id]]

(* The call of the runner that the worker has made last.                   *)
Call == <<N, worker.job, worker.attempt>>

Without(c) == [d \in DOMAIN calls \ {c} |-> calls[d]]
Answered(answer) == Call \in DOMAIN calls /\ calls[Call] = answer

(* _run_job_tracked: the row is inserted, the runner is called ...          *)
SubmitJob ==
    /\ worker.at = "submitting"
    /\ SetJob("running")
    /\ calls' = [c \in DOMAIN calls \cup {Call} |->
                    IF c = Call THEN "working" ELSE calls[c]]
    /\ Goto("calling")
    /\ UNCHANGED <<tenant, runs, queue, started, archived, thread, faults,
                   crashes, made, marked, whole>>

(* ... and its answer recorded.                                            *)
JobSucceeds ==
    /\ worker.at = "calling" /\ Answered("ok")
    /\ SetJob("succeeded")
    /\ calls' = Without(Call)
    /\ worker' = IF worker.job = Len(JobTypes)
                 THEN [worker EXCEPT !.at = "writing report"]
                 ELSE [worker EXCEPT !.at = "submitting", !.job = @ + 1,
                                     !.attempt = 1]
    /\ UNCHANGED <<tenant, runs, queue, started, archived, thread, faults,
                   crashes, made, marked, whole>>

(* The call fails: the runner answers so, or went down meanwhile, or does  *)
(* not answer in time; then the job goes on without its caller.            *)
CallFails ==
    \/ Answered("error") /\ calls' = Without(Call) /\ UNCHANGED faults
    \/ Call \notin DOMAIN calls /\ UNCHANGED <<calls, faults>>
    \/ MayFail /\ faults' = faults + 1 /\ UNCHANGED calls
       /\ ~Answered("ok") /\ ~Answered("error")

(* One attempt too many.                                                   *)
JobFailsLate ==
    /\ worker.at = "calling" /\ CallFails
    /\ SetJob("failed")
    /\ worker' = IF worker.attempt <= MaxAttempts(worker.job)
                 THEN [worker EXCEPT !.at = "submitting", !.attempt = @ + 1]
                 ELSE [worker EXCEPT !.at = "failing"]
    /\ UNCHANGED <<tenant, runs, queue, started, archived, thread, crashes,
                   made, marked, whole>>

(* The last failure of the first job swallowed by its retry loop.          *)
JobFailsQuietly ==
    /\ worker.at = "calling" /\ CallFails
    /\ SetJob("failed")
    /\ worker' = IF worker.attempt < MaxAttempts(worker.job)
                 THEN [worker EXCEPT !.at = "submitting", !.attempt = @ + 1]
                 ELSE IF worker.job = 1
                      THEN [worker EXCEPT !.at = "submitting", !.job = 2,
                                          !.attempt = 1]
                      ELSE [worker EXCEPT !.at = "failing"]
    /\ UNCHANGED <<tenant, runs, queue, started, archived, thread, crashes,
                   made, marked, whole>>

(* A job that fails is tried again while it has attempts left.             *)
JobFails ==
    /\ worker.at = "calling" /\ CallFails
    /\ SetJob("failed")
    /\ worker' = IF worker.attempt < MaxAttempts(worker.job)
                 THEN [worker EXCEPT !.at = "submitting", !.attempt = @ + 1]
                 ELSE [worker EXCEPT !.at = "failing"]
    /\ UNCHANGED <<tenant, runs, queue, started, archived, thread, crashes,
                   made, marked, whole>>

MarkReady ==
    /\ worker.at = "delivering"
    /\ tenant' = [tenant EXCEPT ![T] = [status |-> "ready", root |-> N]]
    /\ Goto("completing")
    /\ UNCHANGED <<runs, queue, started, jobs, archived, thread, faults,
                   crashes, runnerVars>>

(* run_task returns or raises: the run's verdict, then the task's.  The    *)
(* failure path writes the run and the ticket, not the tenant.             *)
SetRun(at, status, then) ==
    /\ worker.at = at
    /\ runs' = [runs EXCEPT ![N].status = status]
    /\ Goto(then)
    /\ UNCHANGED <<tenant, queue, started, jobs, archived, thread, faults,
                   crashes, runnerVars>>

CompleteRun == SetRun("completing", "succeeded", "finishing")
FailRun     == SetRun("failing", "failed", "finishing")

FinishTask ==
    /\ worker.at = "finishing"
    /\ queue' = queue \ {N}
    /\ worker' = IdleWorker
    /\ UNCHANGED <<tenant, runs, started, jobs, archived, thread, faults,
                   crashes, runnerVars>>

WorkerStep ==
    \/ \E n \in queue : SkipRun(n) \/ StartRun(n)
    \/ MarkProvisioning \/ WritePlan
    \/ SubmitJob \/ JobSucceeds \/ JobFails
    \/ WriteReport \/ MarkReady
    \/ CompleteRun \/ FailRun \/ FinishTask

-----------------------------------------------------------------------------
(* The runner: a job looks for the file it leaves when it is through, does *)
(* its work, and writes the file.  Calls run in threads of their own, also *)
(* those whose caller has given up.                                        *)

Marker(c) == <<c[1], c[2]>>
In(c, place) == c \in DOMAIN calls /\ calls[c] = place
Proceed(c, place) == calls' = [calls EXCEPT ![c] = place]

(* The answer reaches the caller if it still waits for it.                 *)
Answer(c, answer) ==
    calls' = IF worker.at = "calling" /\ Call = c
             THEN [calls EXCEPT ![c] = answer] ELSE Without(c)

others == <<tenant, runs, queue, started, jobs, archived, thread, worker,
            crashes>>

(* The file written although the work failed.                              *)
DoJobMarking(c) ==
    /\ In(c, "working")
    /\ IF Marker(c) \in marked
       THEN /\ Answer(c, IF Marker(c) \in whole \/ c[2] = 3 THEN "ok" ELSE "error")
            /\ UNCHANGED <<faults, made, marked, whole>>
       ELSE \/ /\ made' = made \cup {Marker(c)}
               /\ Proceed(c, "marking")
               /\ UNCHANGED <<faults, marked, whole>>
            \/ /\ MayFail /\ faults' = faults + 1
               /\ Answer(c, "error")
               /\ marked' = marked \cup {Marker(c)}
               /\ whole' = whole \cup {Marker(c)}
               /\ UNCHANGED made
    /\ UNCHANGED others

(* The file answers for the job; unless it is still being written, when it *)
(* cannot be read.  dbt_bootstrap only asks whether its files are there.   *)
(* Without the file the work is done: schemas, tables, a query or the      *)
(* first of two files, each in place already when it was done before; test *)
(* and work are one step, for repeating the work changes nothing.          *)
DoJob(c) ==
    /\ In(c, "working")
    /\ IF Marker(c) \in marked
       THEN /\ Answer(c, IF Marker(c) \in whole \/ c[2] = 3 THEN "ok" ELSE "error")
            /\ UNCHANGED <<faults, made>>
       ELSE \/ /\ made' = made \cup {Marker(c)}
               /\ Proceed(c, "marking")
               /\ UNCHANGED faults
            \/ /\ MayFail /\ faults' = faults + 1
               /\ Answer(c, "error")
               /\ UNCHANGED made
    /\ UNCHANGED <<others, marked, whole>>

(* The file is opened, which empties it, and then written; a workspace     *)
(* that was renamed meanwhile has no place for it.  (A job that only       *)
(* begins then makes a directory that no tenant points to: left out.)      *)
OpenMarker(c) ==
    /\ In(c, "marking")
    /\ IF c[1] \in archived
       THEN Answer(c, "error") /\ UNCHANGED <<marked, whole>>
       ELSE /\ marked' = marked \cup {Marker(c)}
            /\ whole' = whole \ {Marker(c)}
            /\ Proceed(c, "writing")
    /\ UNCHANGED <<others, faults, made>>

WriteMarker(c) ==
    /\ In(c, "writing")
    /\ whole' = whole \cup {Marker(c)}
    /\ Answer(c, "ok")
    /\ UNCHANGED <<others, faults, made, marked>>

RunnerStep ==
    \E c \in DOMAIN calls :
        DoJob(c) \/ OpenMarker(c) \/ WriteMarker(c)

-----------------------------------------------------------------------------

WorkerCrash ==
    /\ crashes < MaxCrashes /\ worker.at # "polling"
    /\ worker' = IdleWorker
    /\ calls' = [c \in {d \in DOMAIN calls : calls[d] \notin {"ok", "error"}} |->
                    calls[c]]
    /\ crashes' = crashes + 1
    /\ UNCHANGED <<tenant, runs, queue, started, jobs, archived, thread, faults,
                   made, marked, whole>>

ApiCrash ==
    /\ crashes < MaxCrashes /\ \E c \in Threads : thread[c].at # "idle"
    /\ thread' = [c \in Threads |-> IdleThread]
    /\ crashes' = crashes + 1
    /\ UNCHANGED <<tenant, runs, queue, started, jobs, archived, worker, faults,
                   runnerVars>>

RunnerCrash ==
    /\ crashes < MaxCrashes /\ calls # <<>>
    /\ calls' = <<>>
    /\ crashes' = crashes + 1
    /\ UNCHANGED <<tenant, runs, queue, started, jobs, archived, thread, worker,
                   faults, made, marked, whole>>

Request(c) ==
    \E t \in Tenants :
        CreateTenant(c, t) \/ RetryProvision(c, t) \/ ResetTenant(c, t)

Next ==
    \/ WorkerStep
    \/ \E c \in Threads : ThreadStep(c) \/ Request(c)
    \/ RunnerStep
    \/ WorkerCrash \/ ApiCrash \/ RunnerCrash

Spec == Init /\ [][Next]_vars

-----------------------------------------------------------------------------

(* The type of the state.                                                  *)
TypeOK ==
    /\ tenant \in [Tenants -> [status : {"absent", "requested", "ready",
                                         "provisioning_running"},
                               root : 0..MaxRuns]]
    /\ runs \in Seq([tenant : Tenants,
                     status : {"running", "succeeded", "failed"}])
    /\ Len(runs) <= MaxRuns
    /\ queue \subseteq DOMAIN runs
    /\ started \subseteq DOMAIN runs
    /\ \A id \in DOMAIN jobs : jobs[id] \in {"running", "succeeded", "failed"}
    /\ archived \subseteq DOMAIN runs
    /\ thread \in [Threads -> [at : {"idle", "archiving", "renaming", "clearing",
                                     "opening", "queueing"},
                               tenant : Tenants \cup {NoTenant},
                               root : 0..MaxRuns, run : 0..MaxRuns]]
    /\ worker \in [at : {"polling", "starting", "planning", "submitting",
                         "calling", "writing report", "delivering",
                         "completing", "failing", "finishing"},
                   run : 0..MaxRuns, job : DOMAIN JobTypes, attempt : 1..3]
    /\ \A c \in DOMAIN calls :
          /\ c \in (DOMAIN runs) \X (DOMAIN JobTypes) \X (1..3)
          /\ calls[c] \in {"working", "marking", "writing", "ok",
                           "error"}
    /\ made \cup marked \cup whole \subseteq (DOMAIN runs) \X (DOMAIN JobTypes)
    /\ faults \in 0..MaxFaults
    /\ crashes \in 0..MaxCrashes

(* A tenant shown as ready owns the workspace it points to, and all four   *)
(* jobs of the run that built it have succeeded, whatever retries, resets  *)
(* and crashes came between.                                               *)
ReadyIsEarned ==
    \A t \in Tenants : tenant[t].status = "ready" =>
        /\ tenant[t].root \in {n \in DOMAIN runs : runs[n].tenant = t}
        /\ \A job \in DOMAIN JobTypes : \E attempt \in 1..MaxAttempts(job) :
              LET id == RequestId(tenant[t].root, job, attempt)
              IN  id \in DOMAIN jobs /\ jobs[id] = "succeeded"

(* What the four jobs make is in the workspace of a ready tenant, also     *)
(* when the runner answered for a job it had done, or was doing, for an    *)
(* attempt whose caller gave up, or when it went down half way.  (The      *)
(* worker believes the answer, the answer the file, the file the work.)    *)
ReadyIsBuilt ==
    \A t \in Tenants : tenant[t].status = "ready" =>
        \A job \in DOMAIN JobTypes : <<tenant[t].root, job>> \in made

(* The workspace of a ready tenant is away only while the reset that       *)
(* renamed it is about to clear the tenant, if no process has crashed.     *)
ReadyHasWorkspace ==
    \A t \in Tenants :
        /\ tenant[t].status = "ready" /\ tenant[t].root \in archived
        /\ crashes = 0
        => \E c \in Threads :
              /\ thread[c].at = "clearing"
              /\ thread[c].tenant = t /\ thread[c].root = tenant[t].root

(* The handler never writes into a workspace that a reset has renamed.     *)
WorkInPlace ==
    worker.at \in {"planning", "submitting", "calling", "writing report"} =>
        N \notin archived

(* Nothing is under way for tenant t.                                      *)
Settled(t) ==
    /\ \A n \in queue : runs[n].tenant # t
    /\ \A c \in Threads : thread[c].tenant # t

(* No request is lost between racing creates, retries and resets: once     *)
(* nothing is under way and no process has crashed, the tenant is ready or *)
(* one of its runs has failed.                                             *)
SettledTenant ==
    \A t \in Tenants :
        (Settled(t) /\ crashes = 0 /\ tenant[t].status # "absent") =>
            \/ tenant[t].status = "ready"
            \/ \E n \in DOMAIN runs : runs[n] = [tenant |-> t, status |-> "failed"]

(* milestones.md: a run that fails leaves the tenant in "error", the       *)
(* status a retry and a reset accept.                                      *)
FailureShowsAsError ==
    \A t \in Tenants :
        (/\ Settled(t) /\ runs # <<>>
         /\ runs[Len(runs)] = [tenant |-> t, status |-> "failed"]) =>
            tenant[t].status = "error"
=============================================================================
