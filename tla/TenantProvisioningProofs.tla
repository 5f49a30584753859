---------------------- MODULE TenantProvisioningProofs ----------------------
(***************************************************************************)
(* Proofs about TenantProvisioning, for any tenants, threads, failures and *)
(* crashes.  The types come first; then where a run's workspace can be     *)
(* (PlaceInv), on which the rest rests: what makes a tenant ready was      *)
(* earned (EarnedInv) and built (BuiltInv), a reset works at home          *)
(* (HomeInv), and every request settles (SettleInv).                       *)
(***************************************************************************)
EXTENDS TenantProvisioning, FiniteSetTheorems, SequenceTheorems, TLAPS

RunRows == [tenant : Tenants, status : {"running", "succeeded", "failed"}]

RunsOK == runs \in Seq(RunRows)

TenantsOK ==
    /\ tenant \in [Tenants -> [status : {"absent", "requested", "ready",
                                         "provisioning_running"},
                               root : Nat]]
    /\ \A t \in Tenants : tenant[t].root \in DOMAIN runs \cup {0}

RunSetsOK ==
    queue \subseteq DOMAIN runs /\ started \subseteq DOMAIN runs
          /\ archived \subseteq DOMAIN runs

JobsOK == \A id \in DOMAIN jobs : jobs[id] \in {"running", "succeeded", "failed"}

(* A thread that has accepted a request is about a tenant, renames a       *)
(* workspace that some run has built, and enqueues a run that exists.      *)
ThreadsOK ==
    /\ thread \in [Threads -> [at : {"idle", "archiving", "renaming", "clearing",
                                     "opening", "queueing"},
                               tenant : Tenants \cup {NoTenant},
                               root : Nat, run : Nat]]
    /\ \A c \in Threads :
          /\ thread[c].root \in DOMAIN runs \cup {0}
          /\ thread[c].run \in DOMAIN runs \cup {0}
          /\ thread[c].at # "idle" => thread[c].tenant \in Tenants
          /\ thread[c].at = "renaming" => thread[c].root # 0
          /\ thread[c].at = "queueing" => thread[c].run # 0

Places == {"polling", "starting", "planning", "submitting", "calling",
           "writing report", "delivering", "completing", "failing", "finishing"}

WorkerOK ==
    /\ worker \in [at : Places, run : Nat, job : 1..4, attempt : 1..3]
    /\ worker.run \in DOMAIN runs \cup {0}
    /\ worker.attempt <= MaxAttempts(worker.job)
    /\ worker.at # "polling" => N # 0

CallsOK ==
    \A c \in DOMAIN calls :
        /\ c \in (DOMAIN runs) \X (1..4) \X (1..3)
        /\ calls[c] \in {"working", "marking", "writing", "ok", "error"}

MarksOK == made \cup marked \cup whole \subseteq (DOMAIN runs) \X (1..4)

(* The threads that are still to open a run.                               *)
Openers ==
    {c \in Threads : thread[c].at \in {"archiving", "renaming", "clearing",
                                       "opening"}}

CountOK == Len(runs) + Cardinality(Openers) <= MaxRuns

BoundsOK == faults \in 0..MaxFaults /\ crashes \in 0..MaxCrashes

TypeInv ==
    /\ RunsOK /\ TenantsOK /\ RunSetsOK /\ JobsOK /\ ThreadsOK /\ WorkerOK
    /\ CallsOK /\ MarksOK /\ CountOK /\ BoundsOK

LEMMA JobNumbers == DOMAIN JobTypes = 1..4 /\ Len(JobTypes) = 4
BY DEF JobTypes

LEMMA TypeInvImpliesTypeOK == TypeInv => TypeOK
<1> SUFFICES ASSUME TypeInv  PROVE TypeOK
  OBVIOUS
<1>1. Cardinality(Openers) \in Nat
  BY FS_Subset, FS_CardinalityType, TenantAssumption DEF Openers
<1>2. Len(runs) \in Nat /\ DOMAIN runs = 1..Len(runs)
  BY LenProperties DEF TypeInv, RunsOK
<1>3. Len(runs) <= MaxRuns
  BY <1>1, <1>2, TenantAssumption DEF TypeInv, CountOK
<1>4. DOMAIN runs \cup {0} \subseteq 0..MaxRuns
  BY <1>2, <1>3, TenantAssumption
<1>5. tenant \in [Tenants -> [status : {"absent", "requested", "ready",
                                      "provisioning_running"},
                            root : 0..MaxRuns]]
  BY <1>4 DEF TypeInv, TenantsOK
<1>6. thread \in [Threads -> [at : {"idle", "archiving", "renaming", "clearing",
                                  "opening", "queueing"},
                            tenant : Tenants \cup {NoTenant},
                            root : 0..MaxRuns, run : 0..MaxRuns]]
  BY <1>4 DEF TypeInv, ThreadsOK
<1>7. worker \in [at : {"polling", "starting", "planning", "submitting",
                       "calling", "writing report", "delivering",
                       "completing", "failing", "finishing"},
                 run : 0..MaxRuns, job : DOMAIN JobTypes, attempt : 1..3]
  BY <1>4, JobNumbers DEF TypeInv, WorkerOK, Places
<1>8. /\ \A c \in DOMAIN calls :
            /\ c \in (DOMAIN runs) \X (DOMAIN JobTypes) \X (1..3)
            /\ calls[c] \in {"working", "marking", "writing", "ok", "error"}
      /\ made \cup marked \cup whole \subseteq (DOMAIN runs) \X (DOMAIN JobTypes)
  BY JobNumbers DEF TypeInv, CallsOK, MarksOK
<1>. QED
  BY <1>3, <1>5, <1>6, <1>7, <1>8
  DEF TypeInv, TypeOK, RunsOK, RunRows, RunSetsOK, JobsOK, BoundsOK

-----------------------------------------------------------------------------
(* How many threads are still to open a run.                               *)

LEMMA OpenersFinite ==
    /\ IsFiniteSet(Openers) /\ Cardinality(Openers) \in Nat
    /\ IsFiniteSet(Openers') /\ Cardinality(Openers') \in Nat
BY FS_Subset, FS_CardinalityType, TenantAssumption DEF Openers

LEMMA CountFramed ==
    ASSUME RunsOK, CountOK, UNCHANGED runs, Openers' \subseteq Openers
    PROVE  CountOK'
<1>1. Cardinality(Openers') <= Cardinality(Openers)
  BY OpenersFinite, FS_Subset
<1>2. Len(runs) \in Nat
  BY LenProperties DEF RunsOK
<1>. QED BY <1>1, <1>2, OpenersFinite, TenantAssumption DEF CountOK

(* A request is accepted only while there is room for its run.             *)
LEMMA CountAccepted ==
    ASSUME RunsOK, NEW c \in Threads, Accept(c), UNCHANGED runs,
           \A d \in Threads \ {c} : thread'[d] = thread[d]
    PROVE  CountOK'
<1> DEFINE busy == {d \in Threads : thread[d].at # "idle"}
<1>1. IsFiniteSet(busy) /\ Cardinality(busy) \in Nat
  BY FS_Subset, FS_CardinalityType, TenantAssumption
<1>2. /\ IsFiniteSet(busy \cup {c})
      /\ Cardinality(busy \cup {c}) = Cardinality(busy) + 1
  BY <1>1, FS_AddElement DEF Accept
<1>3. Cardinality(Openers') <= Cardinality(busy) + 1
  <2>1. Openers' \subseteq busy \cup {c}
    BY DEF Openers
  <2>. QED BY <1>2, <2>1, FS_Subset
<1>4. Len(runs) \in Nat /\ Len(runs) + Cardinality(busy) < MaxRuns
  BY LenProperties DEF RunsOK, Accept, RunsInFlight
<1> HIDE DEF busy
<1>. QED BY <1>1, <1>3, <1>4, OpenersFinite, TenantAssumption DEF CountOK

-----------------------------------------------------------------------------
(* The routes.                                                             *)

LEMMA RequestTyped ==
    ASSUME TypeInv, NEW c \in Threads, Request(c)  PROVE TypeInv'
<1> PICK t \in Tenants :
        CreateTenant(c, t) \/ RetryProvision(c, t) \/ ResetTenant(c, t)
  BY DEF Request
<1>1. /\ UNCHANGED <<runs, queue, started, jobs, archived, worker, faults,
                     crashes, runnerVars>>
      /\ Accept(c)
  BY DEF CreateTenant, RetryProvision, ResetTenant
<1>2. TenantsOK'
  BY <1>1 DEF TypeInv, TenantsOK, CreateTenant, RetryProvision, ResetTenant
<1>3. ThreadsOK'
  BY <1>1 DEF TypeInv, ThreadsOK, TenantsOK, CreateTenant, RetryProvision,
              ResetTenant, At
<1>4. CountOK'
  <2>1. \A d \in Threads \ {c} : thread'[d] = thread[d]
    BY DEF TypeInv, ThreadsOK, CreateTenant, RetryProvision, ResetTenant, At
  <2>. QED BY <1>1, <2>1, CountAccepted DEF TypeInv
<1>. QED
  BY <1>1, <1>2, <1>3, <1>4
  DEF TypeInv, RunsOK, RunSetsOK, JobsOK, WorkerOK, CallsOK, MarksOK, BoundsOK,
      runnerVars, N

(* A reset under way: the position of its thread, the tenant, what is      *)
(* renamed.                                                                *)
LEMMA ResetTyped ==
    ASSUME TypeInv, NEW c \in Threads,
           TestWorkspace(c) \/ RenameWorkspace(c) \/ ClearTenant(c)
    PROVE  TypeInv'
<1>1. UNCHANGED <<runs, queue, started, jobs, worker, faults, crashes,
                  runnerVars>>
  BY DEF TestWorkspace, RenameWorkspace, ClearTenant
<1>2. TenantsOK'
  <2>1. CASE ClearTenant(c)
    BY <1>1, <2>1 DEF TypeInv, TenantsOK, ClearTenant
  <2>2. CASE UNCHANGED tenant
    BY <1>1, <2>2 DEF TypeInv, TenantsOK
  <2>. QED BY <2>1, <2>2 DEF TestWorkspace, RenameWorkspace
<1>3. ThreadsOK'
  <2>1. CASE TestWorkspace(c)
    BY <1>1, <2>1 DEF TypeInv, ThreadsOK, TestWorkspace
  <2>2. CASE RenameWorkspace(c)
    BY <1>1, <2>2 DEF TypeInv, ThreadsOK, RenameWorkspace, IdleThread
  <2>3. CASE ClearTenant(c)
    BY <1>1, <2>3 DEF TypeInv, ThreadsOK, ClearTenant
  <2>. QED BY <2>1, <2>2, <2>3
<1>4. archived' \subseteq DOMAIN runs
  BY DEF TypeInv, RunSetsOK, ThreadsOK, TestWorkspace, RenameWorkspace,
         ClearTenant
<1>5. CountOK'
  <2>1. Openers' \subseteq Openers
    BY DEF TypeInv, ThreadsOK, Openers, TestWorkspace, RenameWorkspace,
           ClearTenant
  <2>. QED BY <1>1, <2>1, CountFramed DEF TypeInv
<1>. QED
  BY <1>1, <1>2, <1>3, <1>4, <1>5
  DEF TypeInv, RunsOK, RunSetsOK, JobsOK, WorkerOK, CallsOK, MarksOK, BoundsOK,
      runnerVars, N

LEMMA RunAppended ==
    ASSUME RunsOK, NEW t \in Tenants,
           runs' = Append(runs, [tenant |-> t, status |-> "running"])
    PROVE  /\ RunsOK' /\ Len(runs)' = Len(runs) + 1 /\ Len(runs) \in Nat
           /\ DOMAIN runs' = DOMAIN runs \cup {Len(runs) + 1}
           /\ Len(runs) + 1 \notin DOMAIN runs /\ Len(runs) + 1 # 0
           /\ \A n \in DOMAIN runs : runs'[n] = runs[n]
           /\ runs'[Len(runs) + 1] = [tenant |-> t, status |-> "running"]
<1>1. [tenant |-> t, status |-> "running"] \in RunRows
  BY DEF RunRows
<1>. QED BY <1>1 DEF RunsOK

LEMMA OpenRunTyped ==
    ASSUME TypeInv, NEW c \in Threads, OpenRun(c)  PROVE TypeInv'
<1> DEFINE n == Len(runs) + 1
<1>1. /\ RunsOK' /\ Len(runs)' = n /\ Len(runs) \in Nat /\ n # 0
      /\ DOMAIN runs' = DOMAIN runs \cup {n}
  BY RunAppended DEF TypeInv, ThreadsOK, OpenRun
<1>2. UNCHANGED <<tenant, queue, started, jobs, archived, worker, faults,
                  crashes, runnerVars>>
  BY DEF OpenRun
<1>3. ThreadsOK'
  <2>1. thread' = [thread EXCEPT ![c].at = "queueing", ![c].run = n]
    BY DEF OpenRun
  <2> HIDE DEF n
  <2>2. n \in Nat
    BY <1>1 DEF n
  <2>3. thread[c].tenant \in Tenants
    BY DEF TypeInv, ThreadsOK, OpenRun
  <2>4. ThreadsOK
    BY DEF TypeInv
  <2> DEFINE Row == [at : {"idle", "archiving", "renaming", "clearing",
                           "opening", "queueing"},
                     tenant : Tenants \cup {NoTenant}, root : Nat, run : Nat]
             queueing == [[thread[c] EXCEPT !.at = "queueing"] EXCEPT !.run = n]
  <2>5. thread \in [Threads -> Row]
    BY <2>4 DEF ThreadsOK
  <2>a. queueing \in Row /\ queueing.at = "queueing" /\ queueing.run = n
        /\ queueing.tenant = thread[c].tenant /\ queueing.root = thread[c].root
    <3>1. thread[c] \in Row
      BY <2>5
    <3>. QED BY <2>2, <3>1
  <2>b. thread' = [d \in Threads |-> IF d = c THEN queueing ELSE thread[d]]
    <3> HIDE DEF Row
    <3>. QED BY <2>1, <2>5
  <2>c. thread' \in [Threads -> Row]
    <3> HIDE DEF Row, queueing
    <3>. QED BY <2>5, <2>a, <2>b
  <2>6. /\ thread'[c].at = "queueing" /\ thread'[c].run = n
        /\ thread'[c].tenant = thread[c].tenant
        /\ thread'[c].root = thread[c].root
    <3> HIDE DEF Row, queueing
    <3>. QED BY <2>a, <2>b
  <2>7. \A d \in Threads \ {c} : thread'[d] = thread[d]
    <3> HIDE DEF Row, queueing
    <3>. QED BY <2>b
  <2>8. n # 0 /\ n \in DOMAIN runs' /\ DOMAIN runs \subseteq DOMAIN runs'
    BY <1>1
  <2>9. ASSUME NEW d \in Threads
        PROVE  /\ thread'[d].root \in DOMAIN runs' \cup {0}
               /\ thread'[d].run \in DOMAIN runs' \cup {0}
               /\ thread'[d].at # "idle" => thread'[d].tenant \in Tenants
               /\ thread'[d].at = "renaming" => thread'[d].root # 0
               /\ thread'[d].at = "queueing" => thread'[d].run # 0
    <3>1. CASE d = c
      BY <2>3, <2>4, <2>6, <2>8, <3>1 DEF ThreadsOK
    <3>2. CASE d # c
      BY <2>4, <2>7, <2>8, <3>2 DEF ThreadsOK
    <3>. QED BY <3>1, <3>2
  <2>. QED BY <2>c, <2>9 DEF ThreadsOK
<1>4. CountOK'
  <2>1. c \in Openers /\ Openers' = Openers \ {c}
    BY DEF TypeInv, ThreadsOK, OpenRun, Openers
  <2>2. Cardinality(Openers') = Cardinality(Openers) - 1
    BY <2>1, OpenersFinite, FS_RemoveElement
  <2>. QED
    BY <1>1, <2>2, OpenersFinite, TenantAssumption DEF TypeInv, CountOK
<1>5. CallsOK' /\ MarksOK'
  BY <1>1, <1>2 DEF TypeInv, CallsOK, MarksOK, runnerVars
<1>. QED
  BY <1>1, <1>2, <1>3, <1>4, <1>5
  DEF TypeInv, TenantsOK, RunSetsOK, JobsOK, WorkerOK, BoundsOK, runnerVars, N

LEMMA EnqueueRunTyped ==
    ASSUME TypeInv, NEW c \in Threads, EnqueueRun(c)  PROVE TypeInv'
<1>1. UNCHANGED <<tenant, runs, started, jobs, archived, worker, faults,
                  crashes, runnerVars>>
  BY DEF EnqueueRun
<1>2. ThreadsOK' /\ RunSetsOK'
  BY <1>1 DEF TypeInv, ThreadsOK, RunSetsOK, IdleThread, EnqueueRun
<1>3. CountOK'
  <2>1. Openers' \subseteq Openers
    BY DEF TypeInv, ThreadsOK, Openers, IdleThread, EnqueueRun
  <2>. QED BY <1>1, <2>1, CountFramed DEF TypeInv
<1>. QED
  BY <1>1, <1>2, <1>3
  DEF TypeInv, RunsOK, TenantsOK, JobsOK, WorkerOK, CallsOK, MarksOK, BoundsOK,
      runnerVars, N

-----------------------------------------------------------------------------
(* The worker.                                                             *)

LEMMA WorkerBack ==
    ASSUME worker' = IdleWorker  PROVE WorkerOK'
<1>1. /\ worker' = [at |-> "polling", run |-> 0, job |-> 1, attempt |-> 1]
      /\ "polling" \in Places /\ 0 \in Nat /\ 1 \in 1..4 /\ 1 \in 1..3
      /\ 1 <= MaxAttempts(1)
  BY DEF IdleWorker, MaxAttempts, Places
<1>. QED BY <1>1 DEF WorkerOK, N

LEMMA TakeRunTyped ==
    ASSUME TypeInv, NEW n \in queue, SkipRun(n) \/ StartRun(n)  PROVE TypeInv'
<1>1. UNCHANGED <<tenant, runs, jobs, archived, thread, faults, crashes,
                  runnerVars>>
  BY DEF SkipRun, StartRun
<1>2. n \in DOMAIN runs /\ n \in Nat \ {0}
  BY LenProperties DEF TypeInv, RunSetsOK, RunsOK
<1>3. RunSetsOK'
  BY <1>1, <1>2 DEF TypeInv, RunSetsOK, SkipRun, StartRun
<1>4. WorkerOK'
  <2>1. CASE SkipRun(n)
    BY <1>1, <2>1 DEF TypeInv, WorkerOK, N, SkipRun
  <2>2. CASE StartRun(n)
    <3>1. worker' = [at |-> "starting", run |-> n, job |-> 1, attempt |-> 1]
      BY <2>2 DEF StartRun, IdleWorker
    <3>2. "starting" \in Places /\ 1 \in 1..4 /\ 1 \in 1..3 /\ 1 <= MaxAttempts(1)
      BY DEF MaxAttempts, Places
    <3>. QED BY <1>1, <1>2, <3>1, <3>2 DEF WorkerOK, N
  <2>. QED BY <2>1, <2>2
<1>. QED
  BY <1>1, <1>3, <1>4
  DEF TypeInv, RunsOK, TenantsOK, JobsOK, ThreadsOK, CallsOK, MarksOK, CountOK,
      Openers, BoundsOK, runnerVars

(* A step of the worker that changes no table but the tenants'.            *)
LEMMA WorkerMoved ==
    ASSUME TypeInv, worker.at # "polling",
           NEW at \in {"planning", "submitting", "calling", "writing report",
                       "delivering", "completing", "failing", "finishing"},
           Goto(at), UNCHANGED runs
    PROVE  WorkerOK'
BY DEF TypeInv, WorkerOK, Goto, N, Places

LEMMA TenantWrittenTyped ==
    ASSUME TypeInv, MarkProvisioning \/ MarkReady  PROVE TypeInv'
<1>1. UNCHANGED <<runs, queue, started, jobs, archived, thread, faults, crashes,
                  runnerVars>>
  BY DEF MarkProvisioning, MarkReady
<1>2. WorkerOK'
  BY <1>1, WorkerMoved DEF MarkProvisioning, MarkReady
<1>3. N \in DOMAIN runs /\ N \in Nat /\ T \in Tenants
  <2>1. N \in DOMAIN runs /\ N \in Nat
    BY DEF TypeInv, WorkerOK, N, MarkProvisioning, MarkReady
  <2>2. runs[N] \in RunRows
    BY <2>1, ElementOfSeq, LenProperties DEF TypeInv, RunsOK
  <2>. QED BY <2>1, <2>2 DEF RunRows, T
<1>4. TenantsOK'
  <2>1. CASE MarkProvisioning
    BY <1>1, <1>3, <2>1 DEF TypeInv, TenantsOK, MarkProvisioning
  <2>2. CASE MarkReady
    BY <1>1, <1>3, <2>2 DEF TypeInv, TenantsOK, MarkReady
  <2>. QED BY <2>1, <2>2
<1>. QED
  BY <1>1, <1>2, <1>4
  DEF TypeInv, RunsOK, RunSetsOK, JobsOK, ThreadsOK, CallsOK, MarksOK, CountOK,
      Openers, BoundsOK, runnerVars

LEMMA FaultCounted ==
    ASSUME BoundsOK, MayFail, faults' = faults + 1, UNCHANGED crashes
    PROVE  BoundsOK'
BY TenantAssumption DEF BoundsOK, MayFail

LEMMA WriteFileTyped ==
    ASSUME TypeInv, WritePlan \/ WriteReport  PROVE TypeInv'
<1>1. UNCHANGED <<tenant, runs, queue, started, jobs, archived, thread,
                  crashes, runnerVars>>
  BY DEF WritePlan, WriteReport, WriteFile
<1>2. WorkerOK'
  BY <1>1, WorkerMoved DEF WritePlan, WriteReport, WriteFile
<1>3. BoundsOK'
  BY <1>1, FaultCounted DEF TypeInv, BoundsOK, WritePlan, WriteReport, WriteFile
<1>. QED
  BY <1>1, <1>2, <1>3
  DEF TypeInv, RunsOK, TenantsOK, RunSetsOK, JobsOK, ThreadsOK, CallsOK, MarksOK,
      CountOK, Openers, runnerVars

LEMMA JobSet ==
    ASSUME JobsOK, NEW s \in {"running", "succeeded", "failed"}, SetJob(s)
    PROVE  JobsOK'
BY DEF JobsOK, SetJob

LEMMA CallTyped ==
    ASSUME TypeInv, worker.at # "polling"
    PROVE  Call \in (DOMAIN runs) \X (1..4) \X (1..3)
BY DEF TypeInv, WorkerOK, N, Call

LEMMA SubmitJobTyped == ASSUME TypeInv, SubmitJob  PROVE TypeInv'
<1>1. UNCHANGED <<tenant, runs, queue, started, archived, thread, faults,
                  crashes, made, marked, whole>>
  BY DEF SubmitJob
<1>2. JobsOK'
  BY JobSet DEF TypeInv, SubmitJob
<1>3. WorkerOK'
  BY <1>1, WorkerMoved DEF SubmitJob
<1>4. CallsOK'
  BY <1>1, CallTyped DEF TypeInv, CallsOK, SubmitJob
<1>. QED
  BY <1>1, <1>2, <1>3, <1>4
  DEF TypeInv, RunsOK, TenantsOK, RunSetsOK, ThreadsOK, MarksOK, CountOK,
      Openers, BoundsOK

LEMMA JobAnsweredTyped ==
    ASSUME TypeInv, JobSucceeds \/ JobFails  PROVE TypeInv'
<1>1. UNCHANGED <<tenant, runs, queue, started, archived, thread, crashes, made,
                  marked, whole>>
  BY DEF JobSucceeds, JobFails
<1>2. JobsOK'
  BY JobSet DEF TypeInv, JobSucceeds, JobFails
<1>3. WorkerOK'
  <2>1. /\ N \in Nat /\ N \in DOMAIN runs' /\ N # 0
        /\ worker.job \in 1..4 /\ worker.attempt \in 1..3
        /\ worker.attempt <= MaxAttempts(worker.job)
        /\ worker \in [at : Places, run : Nat, job : 1..4, attempt : 1..3]
    BY <1>1 DEF TypeInv, WorkerOK, N, JobSucceeds, JobFails
  <2>2. CASE JobSucceeds
    <3>1. CASE worker.job = 4
      <4>1. worker' = [worker EXCEPT !.at = "writing report"]
        BY <2>2, <3>1, JobNumbers DEF JobSucceeds
      <4>. QED BY <2>1, <4>1 DEF WorkerOK, N, Places
    <3>2. CASE worker.job # 4
      <4> DEFINE next == worker.job + 1
      <4>1. worker' = [worker EXCEPT !.at = "submitting", !.job = next,
                                     !.attempt = 1]
        BY <2>2, <3>2, JobNumbers DEF JobSucceeds
      <4>2. next \in 1..4 /\ 1 <= MaxAttempts(next) /\ 1 \in 1..3
        BY <2>1, <3>2 DEF MaxAttempts
      <4> HIDE DEF next
      <4>. QED BY <2>1, <4>1, <4>2 DEF WorkerOK, N, Places
    <3>. QED BY <3>1, <3>2
  <2>3. CASE JobFails
    <3>1. CASE worker.attempt < MaxAttempts(worker.job)
      <4>1. worker' = [worker EXCEPT !.at = "submitting", !.attempt = @ + 1]
        BY <2>3, <3>1 DEF JobFails
      <4>2. /\ worker.attempt + 1 \in 1..3
            /\ worker.attempt + 1 <= MaxAttempts(worker.job)
        BY <2>1, <3>1 DEF MaxAttempts
      <4>. QED BY <2>1, <4>1, <4>2 DEF WorkerOK, N, Places
    <3>2. CASE ~(worker.attempt < MaxAttempts(worker.job))
      <4>1. worker' = [worker EXCEPT !.at = "failing"]
        BY <2>3, <3>2 DEF JobFails
      <4>. QED BY <2>1, <4>1 DEF WorkerOK, N, Places
    <3>. QED BY <3>1, <3>2
  <2>. QED BY <2>2, <2>3
<1>4. CallsOK'
  BY <1>1 DEF TypeInv, CallsOK, Without, JobSucceeds, JobFails, CallFails
<1>5. BoundsOK'
  <2>1. CASE UNCHANGED faults
    BY <1>1, <2>1 DEF TypeInv, BoundsOK
  <2>2. CASE MayFail /\ faults' = faults + 1
    BY <1>1, <2>2, FaultCounted DEF TypeInv
  <2>. QED BY <2>1, <2>2 DEF JobSucceeds, JobFails, CallFails
<1>. QED
  BY <1>1, <1>2, <1>3, <1>4, <1>5
  DEF TypeInv, RunsOK, TenantsOK, RunSetsOK, ThreadsOK, MarksOK, CountOK, Openers

LEMMA RunWritten ==
    ASSUME RunsOK, NEW n \in DOMAIN runs,
           NEW s \in {"running", "succeeded", "failed"},
           runs' = [runs EXCEPT ![n].status = s]
    PROVE  /\ RunsOK' /\ Len(runs)' = Len(runs) /\ DOMAIN runs' = DOMAIN runs
           /\ \A m \in DOMAIN runs \ {n} : runs'[m] = runs[m]
           /\ runs'[n].tenant = runs[n].tenant /\ runs'[n].status = s
<1> DEFINE row == [runs[n] EXCEPT !.status = s]
<1>1. n \in 1..Len(runs) /\ runs[n] \in RunRows
  BY LenProperties, ElementOfSeq DEF RunsOK
<1>2. row \in RunRows /\ row.tenant = runs[n].tenant /\ row.status = s
  BY <1>1 DEF RunRows
<1>3. runs' = [runs EXCEPT ![n] = row]
  OBVIOUS
<1> HIDE DEF row
<1>. QED BY <1>1, <1>2, <1>3, ExceptSeq, LenProperties DEF RunsOK

LEMMA SetRunTyped ==
    ASSUME TypeInv, CompleteRun \/ FailRun  PROVE TypeInv'
<1>1. UNCHANGED <<tenant, queue, started, jobs, archived, thread, faults,
                  crashes, runnerVars>>
  BY DEF CompleteRun, FailRun, SetRun
<1>2. RunsOK' /\ Len(runs)' = Len(runs) /\ DOMAIN runs' = DOMAIN runs
  <2>1. N \in DOMAIN runs
    BY DEF TypeInv, WorkerOK, N, CompleteRun, FailRun, SetRun
  <2>. QED BY <2>1, RunWritten DEF TypeInv, CompleteRun, FailRun, SetRun
<1>3. WorkerOK'
  BY <1>2 DEF TypeInv, WorkerOK, Goto, N, Places, CompleteRun, FailRun, SetRun
<1>. QED
  BY <1>1, <1>2, <1>3
  DEF TypeInv, TenantsOK, RunSetsOK, JobsOK, ThreadsOK, CallsOK, MarksOK, CountOK,
      Openers, BoundsOK, runnerVars

LEMMA FinishTaskTyped == ASSUME TypeInv, FinishTask  PROVE TypeInv'
<1>1. UNCHANGED <<tenant, runs, started, jobs, archived, thread, faults,
                  crashes, runnerVars>>
  BY DEF FinishTask
<1>2. RunSetsOK' /\ WorkerOK'
  BY <1>1, WorkerBack DEF TypeInv, RunSetsOK, FinishTask
<1>. QED
  BY <1>1, <1>2
  DEF TypeInv, RunsOK, TenantsOK, JobsOK, ThreadsOK, CallsOK, MarksOK, CountOK,
      Openers, BoundsOK, runnerVars

-----------------------------------------------------------------------------
(* The runner.                                                             *)

LEMMA RunnerStepTyped ==
    ASSUME TypeInv, NEW c \in DOMAIN calls,
           DoJob(c) \/ OpenMarker(c) \/ WriteMarker(c)
    PROVE  TypeInv'
<1>1. UNCHANGED others
  BY DEF DoJob, OpenMarker, WriteMarker
<1>2. c \in (DOMAIN runs) \X (1..4) \X (1..3)
  BY DEF TypeInv, CallsOK
<1>3. CallsOK'
  <2>1. \E s \in {"marking", "writing", "ok", "error"} :
            calls' = [calls EXCEPT ![c] = s] \/ calls' = Without(c)
    BY DEF DoJob, OpenMarker, WriteMarker, Proceed, Answer
  <2>. QED BY <1>1, <2>1 DEF TypeInv, CallsOK, Without, others
<1>4. MarksOK'
  <2>1. Marker(c) \in (DOMAIN runs) \X (1..4)
    BY <1>2 DEF Marker
  <2>. QED
    BY <1>1, <2>1 DEF TypeInv, MarksOK, DoJob, OpenMarker, WriteMarker, others
<1>5. BoundsOK'
  <2>1. CASE UNCHANGED faults
    BY <1>1, <2>1 DEF TypeInv, BoundsOK, others
  <2>2. CASE MayFail /\ faults' = faults + 1
    BY <1>1, <2>2, FaultCounted DEF TypeInv, others
  <2>. QED BY <2>1, <2>2 DEF DoJob, OpenMarker, WriteMarker
<1>. QED
  BY <1>1, <1>3, <1>4, <1>5
  DEF TypeInv, RunsOK, TenantsOK, RunSetsOK, JobsOK, ThreadsOK, WorkerOK, N,
      CountOK, Openers, others

LEMMA CrashTyped ==
    ASSUME TypeInv, WorkerCrash \/ ApiCrash \/ RunnerCrash  PROVE TypeInv'
<1>1. UNCHANGED <<tenant, runs, queue, started, jobs, archived, faults, made,
                  marked, whole>>
  BY DEF WorkerCrash, ApiCrash, RunnerCrash, runnerVars
<1>2. BoundsOK'
  BY <1>1, TenantAssumption
  DEF TypeInv, BoundsOK, WorkerCrash, ApiCrash, RunnerCrash
<1>3. WorkerOK'
  BY <1>1, WorkerBack
  DEF TypeInv, WorkerOK, N, WorkerCrash, ApiCrash, RunnerCrash
<1>4. CallsOK'
  BY <1>1 DEF TypeInv, CallsOK, WorkerCrash, ApiCrash, RunnerCrash, runnerVars
<1>5. ThreadsOK' /\ CountOK'
  <2>1. CASE UNCHANGED thread
    BY <1>1, <2>1 DEF TypeInv, ThreadsOK, CountOK, Openers
  <2>2. CASE thread' = [c \in Threads |-> IdleThread]
    <3>1. Openers' \subseteq Openers
      BY <2>2 DEF Openers, IdleThread
    <3>. QED
      BY <1>1, <2>2, <3>1, CountFramed DEF TypeInv, ThreadsOK, IdleThread
  <2>. QED BY <2>1, <2>2 DEF WorkerCrash, ApiCrash, RunnerCrash
<1>. QED
  BY <1>1, <1>2, <1>3, <1>4, <1>5
  DEF TypeInv, RunsOK, TenantsOK, RunSetsOK, JobsOK, MarksOK

-----------------------------------------------------------------------------

LEMMA InitTyped == Init => TypeInv
<1> SUFFICES ASSUME Init  PROVE TypeInv
  OBVIOUS
<1>1. CountOK
  <2>1. Openers = {}
    BY DEF Init, Openers, IdleThread
  <2>. QED BY <2>1, FS_EmptySet, TenantAssumption DEF Init, CountOK
<1>. QED
  BY <1>1, TenantAssumption
  DEF Init, TypeInv, RunsOK, TenantsOK, RunSetsOK, JobsOK, ThreadsOK, WorkerOK,
      Places, CallsOK, MarksOK, BoundsOK, IdleThread, IdleWorker, MaxAttempts, N

LEMMA NextTyped == TypeInv /\ [Next]_vars => TypeInv'
<1> SUFFICES ASSUME TypeInv, [Next]_vars  PROVE TypeInv'
  OBVIOUS
<1>1. CASE WorkerStep
  BY <1>1, TakeRunTyped, TenantWrittenTyped, WriteFileTyped, SubmitJobTyped,
     JobAnsweredTyped, SetRunTyped, FinishTaskTyped
  DEF WorkerStep
<1>2. ASSUME NEW c \in Threads, ThreadStep(c) \/ Request(c)  PROVE TypeInv'
  BY <1>2, RequestTyped, ResetTyped, OpenRunTyped, EnqueueRunTyped
  DEF ThreadStep
<1>3. CASE RunnerStep
  BY <1>3, RunnerStepTyped DEF RunnerStep
<1>4. CASE WorkerCrash \/ ApiCrash \/ RunnerCrash
  BY <1>4, CrashTyped
<1>5. CASE UNCHANGED vars
  BY <1>5
  DEF vars, runnerVars, TypeInv, RunsOK, TenantsOK, RunSetsOK, JobsOK, ThreadsOK,
      WorkerOK, N, CallsOK, MarksOK, CountOK, Openers, BoundsOK
<1>. QED BY <1>1, <1>2, <1>3, <1>4, <1>5 DEF Next

(* The tenants, their runs and jobs, the requests, the worker and the      *)
(* runner's calls stay within their types, and the runs within their       *)
(* bound, for any tenants, threads, failures and crashes.                  *)
THEOREM TenantsTyped == Spec => []TypeOK
<1>1. Spec => []TypeInv
  BY InitTyped, NextTyped, PTL DEF Spec
<1>. QED BY <1>1, TypeInvImpliesTypeOK, PTL

-----------------------------------------------------------------------------
(* The handler works on a run whose workspace nobody knows yet.            *)

(* Run n's workspace is that of a tenant, in the hands of a reset, or away.*)
Rooted(n) ==
    \/ n \in archived
    \/ \E t \in Tenants : tenant[t].root = n
    \/ \E c \in Threads : thread[c].root = n

Early == {"starting", "planning", "submitting", "calling", "writing report",
          "delivering"}

PlaceInv ==
    /\ \A n \in DOMAIN runs : Rooted(n) => n \in started
    /\ worker.at # "polling" => N \in started
    /\ worker.at \in Early => ~Rooted(N)

LEMMA PlaceFramed ==
    ASSUME TypeInv, PlaceInv, DOMAIN runs' = DOMAIN runs, UNCHANGED started,
           \A n \in DOMAIN runs : Rooted(n)' => Rooted(n),
           \/ UNCHANGED worker
           \/ worker'.at = "polling"
           \/ /\ worker.at # "polling" /\ worker'.run = worker.run
              /\ worker'.at \in Early => worker.at \in Early
    PROVE  PlaceInv'
<1>1. \A n \in DOMAIN runs' : Rooted(n)' => n \in started'
  BY DEF PlaceInv
<1>2. worker'.at # "polling" => worker'.run \in started'
  BY DEF PlaceInv, N
<1>3. worker'.at \in Early => worker.at \in Early /\ worker'.run = worker.run
                               /\ worker.run \in DOMAIN runs
  BY DEF TypeInv, WorkerOK, N, Early
<1>4. ASSUME worker'.at \in Early, Rooted(N)'  PROVE FALSE
  <2>1. worker'.run \in DOMAIN runs /\ worker'.run = worker.run
    BY <1>3, <1>4
  <2>2. N' = N /\ N \in DOMAIN runs
    BY <2>1 DEF N
  <2>3. Rooted(N)
    BY <1>4, <2>2 DEF Rooted
  <2>. QED BY <1>3, <1>4, <2>3 DEF PlaceInv
<1>. QED BY <1>1, <1>2, <1>4 DEF PlaceInv, N

LEMMA RootsUntouched ==
    ASSUME UNCHANGED <<tenant, archived, thread>>
    PROVE  \A n : Rooted(n)' => Rooted(n)
BY DEF Rooted

LEMMA RequestKeepsPlace ==
    ASSUME TypeInv, PlaceInv, NEW c \in Threads, Request(c)  PROVE PlaceInv'
<1> PICK t \in Tenants :
        CreateTenant(c, t) \/ RetryProvision(c, t) \/ ResetTenant(c, t)
  BY DEF Request
<1>1. UNCHANGED <<runs, started, archived, worker>>
  BY DEF CreateTenant, RetryProvision, ResetTenant
<1>2. \A u \in Tenants : tenant'[u].root = tenant[u].root
  BY DEF TypeInv, TenantsOK, CreateTenant, RetryProvision, ResetTenant
<1>3. \A d \in Threads : thread'[d].root = thread[d].root
         \/ thread'[d].root = 0 \/ \E u \in Tenants : thread'[d].root = tenant[u].root
  BY DEF TypeInv, ThreadsOK, At, CreateTenant, RetryProvision, ResetTenant
<1>4. \A n \in DOMAIN runs : Rooted(n)' => Rooted(n)
  <2>1. 0 \notin DOMAIN runs
    BY LenProperties DEF TypeInv, RunsOK
  <2>. QED BY <1>1, <1>2, <1>3, <2>1 DEF Rooted
<1>. QED BY <1>1, <1>4, PlaceFramed

LEMMA ThreadStepKeepsPlace ==
    ASSUME TypeInv, PlaceInv, NEW c \in Threads, ThreadStep(c)  PROVE PlaceInv'
<1>1. UNCHANGED <<started, worker>>
  BY DEF ThreadStep, TestWorkspace, RenameWorkspace, ClearTenant, OpenRun, EnqueueRun
<1>2. 0 \notin DOMAIN runs
  BY LenProperties DEF TypeInv, RunsOK
<1>3. \A d \in Threads : thread'[d].root \in {thread[d].root, 0}
  <2>1. CASE TestWorkspace(c) \/ ClearTenant(c)
    BY <2>1 DEF TypeInv, ThreadsOK, TestWorkspace, ClearTenant
  <2>2. CASE RenameWorkspace(c) \/ EnqueueRun(c)
    BY <2>2 DEF TypeInv, ThreadsOK, IdleThread, RenameWorkspace, EnqueueRun
  <2>3. CASE OpenRun(c)
    BY <2>3 DEF TypeInv, ThreadsOK, OpenRun
  <2>. QED BY <2>1, <2>2, <2>3 DEF ThreadStep
<1>4. \A u \in Tenants : tenant'[u].root \in {tenant[u].root, 0}
  <2>1. CASE ClearTenant(c)
    BY <2>1 DEF TypeInv, TenantsOK, ClearTenant
  <2>2. CASE UNCHANGED tenant
    BY <2>2
  <2>. QED
    BY <2>1, <2>2
    DEF ThreadStep, TestWorkspace, RenameWorkspace, OpenRun, EnqueueRun
<1>5. archived' \subseteq archived \cup {thread[d].root : d \in Threads}
  BY DEF ThreadStep, TestWorkspace, RenameWorkspace, ClearTenant, OpenRun, EnqueueRun
<1>6. \A n : n # 0 /\ Rooted(n)' => Rooted(n)
  BY <1>3, <1>4, <1>5 DEF Rooted
<1>7. CASE OpenRun(c)
  <2> DEFINE n == Len(runs) + 1
  <2>1. DOMAIN runs' = DOMAIN runs \cup {n} /\ n \notin DOMAIN runs /\ n # 0
    BY <1>7, RunAppended DEF TypeInv, ThreadsOK, OpenRun
  <2> HIDE DEF n
  <2>2. ~Rooted(n)
    BY <2>1 DEF TypeInv, TenantsOK, RunSetsOK, ThreadsOK, Rooted
  <2>3. \A m \in DOMAIN runs' : Rooted(m)' => m \in started'
    BY <1>1, <1>2, <1>6, <2>1, <2>2 DEF PlaceInv
  <2>4. worker.at # "polling" => N # 0
    BY DEF TypeInv, WorkerOK
  <2>5. ASSUME worker.at \in Early, Rooted(N)'  PROVE FALSE
    <3>1. N' = N /\ N # 0
      BY <1>1, <2>4, <2>5 DEF N, Early
    <3>2. Rooted(N)
      BY <1>6, <2>5, <3>1 DEF Rooted
    <3>. QED BY <2>5, <3>2 DEF PlaceInv
  <2>. QED BY <1>1, <2>3, <2>5 DEF PlaceInv, N
<1>8. CASE UNCHANGED runs
  BY <1>1, <1>2, <1>6, <1>8, PlaceFramed
<1>. QED
  BY <1>7, <1>8
  DEF ThreadStep, TestWorkspace, RenameWorkspace, ClearTenant, EnqueueRun

LEMMA StartRunKeepsPlace ==
    ASSUME TypeInv, PlaceInv, NEW n \in queue, StartRun(n)  PROVE PlaceInv'
<1>1. n \in DOMAIN runs /\ n \notin started /\ started' = started \cup {n}
  BY DEF TypeInv, RunSetsOK, StartRun
<1>2. UNCHANGED <<runs, tenant, archived, thread>> /\ worker'.run = n
  BY DEF StartRun, IdleWorker
<1>3. ~Rooted(n)
  BY <1>1 DEF PlaceInv
<1>. QED BY <1>1, <1>2, <1>3, RootsUntouched DEF PlaceInv, N, Rooted

LEMMA MarkReadyKeepsPlace ==
    ASSUME TypeInv, PlaceInv, MarkReady  PROVE PlaceInv'
<1>1. UNCHANGED <<runs, started, archived, thread>>
  BY DEF MarkReady
<1>2. worker'.at = "completing" /\ worker'.run = N
  BY DEF TypeInv, WorkerOK, MarkReady, Goto, N
<1>3. N \in started
  BY DEF PlaceInv, MarkReady
<1>4. \A u \in Tenants : tenant'[u].root \in {tenant[u].root, N}
  BY DEF TypeInv, TenantsOK, MarkReady
<1>5. \A n : Rooted(n)' => Rooted(n) \/ n = N
  BY <1>1, <1>4 DEF Rooted
<1>. QED BY <1>1, <1>2, <1>3, <1>5 DEF PlaceInv, Early, N

(* The other steps of the worker, those of the runner and the crashes      *)
(* leave the workspaces alone.                                             *)
LEMMA OtherStepsKeepPlace ==
    ASSUME TypeInv, PlaceInv,
           \/ \E n \in queue : SkipRun(n)
           \/ MarkProvisioning \/ WritePlan \/ SubmitJob \/ JobSucceeds
           \/ JobFails \/ WriteReport \/ CompleteRun \/ FailRun \/ FinishTask
           \/ RunnerStep \/ WorkerCrash \/ ApiCrash \/ RunnerCrash
           \/ UNCHANGED vars
    PROVE  PlaceInv'
<1>1. CASE MarkProvisioning
  <2>1. \A u \in Tenants : tenant'[u].root = tenant[u].root
    BY <1>1 DEF TypeInv, TenantsOK, MarkProvisioning
  <2>2. \A n : Rooted(n)' => Rooted(n)
    BY <1>1, <2>1 DEF Rooted, MarkProvisioning
  <2>3. worker'.run = worker.run
    BY <1>1 DEF TypeInv, WorkerOK, Goto, MarkProvisioning
  <2>. QED BY <1>1, <2>2, <2>3, PlaceFramed DEF MarkProvisioning, Early
<1>2. CASE ApiCrash
  <2>1. \A n \in DOMAIN runs : Rooted(n)' => Rooted(n)
    <3>1. 0 \notin DOMAIN runs
      BY LenProperties DEF TypeInv, RunsOK
    <3>. QED BY <1>2, <3>1 DEF ApiCrash, IdleThread, Rooted
  <2>. QED BY <1>2, <2>1, PlaceFramed DEF ApiCrash
<1>3. CASE SubmitJob \/ JobSucceeds \/ JobFails \/ WritePlan \/ WriteReport
  <2>1. /\ UNCHANGED <<runs, started, tenant, archived, thread>>
        /\ worker.at \in Early /\ worker'.run = worker.run
    BY <1>3 DEF TypeInv, WorkerOK, Early, Goto, SubmitJob, JobSucceeds, JobFails,
                WritePlan, WriteReport, WriteFile
  <2>. QED BY <2>1, RootsUntouched, PlaceFramed DEF Early
<1>4. CASE CompleteRun \/ FailRun
  <2>1. /\ UNCHANGED <<started, tenant, archived, thread>>
        /\ worker.at # "polling" /\ worker'.at \notin Early
        /\ worker'.run = worker.run
    BY <1>4 DEF TypeInv, WorkerOK, Early, Goto, CompleteRun, FailRun, SetRun
  <2>2. DOMAIN runs' = DOMAIN runs
    BY <1>4, LenProperties, SetRunTyped
    DEF TypeInv, CompleteRun, FailRun, SetRun
  <2>. QED BY <2>1, <2>2, RootsUntouched, PlaceFramed
<1>5. CASE \/ FinishTask \/ WorkerCrash \/ RunnerCrash \/ RunnerStep
           \/ \E n \in queue : SkipRun(n)
           \/ UNCHANGED vars
  <2>1. /\ UNCHANGED <<runs, started, tenant, archived, thread>>
        /\ UNCHANGED worker \/ worker'.at = "polling"
    BY <1>5 DEF FinishTask, WorkerCrash, RunnerCrash, RunnerStep, DoJob, OpenMarker,
                WriteMarker, SkipRun, IdleWorker, others, vars
  <2>. QED BY <2>1, RootsUntouched, PlaceFramed
<1>. QED BY <1>1, <1>2, <1>3, <1>4, <1>5

LEMMA PlaceInvStep == TypeInv /\ PlaceInv /\ [Next]_vars => PlaceInv'
BY RequestKeepsPlace, ThreadStepKeepsPlace, StartRunKeepsPlace,
   MarkReadyKeepsPlace, OtherStepsKeepPlace
DEF Next, WorkerStep

LEMMA PlaceInvInit == Init => PlaceInv
BY DEF Init, PlaceInv, IdleWorker, Early

LEMMA PlaceGivesWorkInPlace == TypeInv /\ PlaceInv => WorkInPlace
BY DEF PlaceInv, WorkInPlace, Early, Rooted

(* The handler never writes into a workspace that a reset has renamed: the *)
(* reset finds workspaces only with the tenants, and a tenant gets one     *)
(* only when its handler is through.                                       *)
THEOREM HandlerWorksInPlace == Spec => []WorkInPlace
<1>1. TypeInv /\ PlaceInv /\ [Next]_vars => (TypeInv /\ PlaceInv)'
  BY NextTyped, PlaceInvStep
<1>2. Spec => [](TypeInv /\ PlaceInv)
  BY <1>1, InitTyped, PlaceInvInit, PTL DEF Spec
<1>. QED BY <1>2, PlaceGivesWorkInPlace, PTL

-----------------------------------------------------------------------------
(* What all steps but a few leave alone.                                   *)

(* A run stays, and stays its tenant's.                                    *)
RunsStay ==
    \A n \in DOMAIN runs : n \in DOMAIN runs' /\ runs'[n].tenant = runs[n].tenant

LEMMA RunsDoStay == ASSUME TypeInv, [Next]_vars  PROVE RunsStay
<1>1. ASSUME NEW c \in Threads, OpenRun(c)  PROVE RunsStay
  BY <1>1, RunAppended DEF TypeInv, ThreadsOK, OpenRun, RunsStay
<1>2. CASE CompleteRun \/ FailRun
  <2>1. N \in DOMAIN runs
    BY <1>2 DEF TypeInv, WorkerOK, N, CompleteRun, FailRun, SetRun
  <2>. QED BY <1>2, <2>1, RunWritten
    DEF TypeInv, CompleteRun, FailRun, SetRun, RunsStay
<1>3. CASE UNCHANGED runs
  BY <1>3 DEF RunsStay
<1>4. ASSUME NEW c \in Threads, Request(c) \/ (ThreadStep(c) /\ ~OpenRun(c))
      PROVE  UNCHANGED runs
  BY <1>4
  DEF Request, CreateTenant, RetryProvision, ResetTenant, ThreadStep,
      TestWorkspace, RenameWorkspace, ClearTenant, EnqueueRun
<1>5. CASE WorkerStep /\ ~CompleteRun /\ ~FailRun
  BY <1>3, <1>5
  DEF WorkerStep, SkipRun, StartRun, MarkProvisioning, WritePlan, WriteReport,
      WriteFile, SubmitJob, JobSucceeds, JobFails, MarkReady, FinishTask
<1>6. CASE RunnerStep \/ WorkerCrash \/ ApiCrash \/ RunnerCrash \/ UNCHANGED vars
  BY <1>3, <1>6
  DEF RunnerStep, DoJob, OpenMarker, WriteMarker, others, WorkerCrash, ApiCrash,
      RunnerCrash, vars
<1>. QED BY <1>1, <1>2, <1>3, <1>4, <1>5, <1>6 DEF Next

(* Only the end of a handler makes a tenant ready or gives it a workspace. *)
LEMMA RootsAreGivenOnce ==
    ASSUME TypeInv, [Next]_vars, ~MarkReady
    PROVE  \A t \in Tenants :
              /\ tenant'[t].root \in {tenant[t].root, 0}
              /\ tenant'[t].status = "ready" => tenant'[t] = tenant[t]
<1> DEFINE Kept == \A t \in Tenants :
                      /\ tenant'[t].root \in {tenant[t].root, 0}
                      /\ tenant'[t].status = "ready" => tenant'[t] = tenant[t]
<1>1. ASSUME NEW c \in Threads, Request(c)  PROVE Kept
  BY <1>1 DEF TypeInv, TenantsOK, Request, CreateTenant, RetryProvision, ResetTenant
<1>2. ASSUME NEW c \in Threads, ClearTenant(c)  PROVE Kept
  BY <1>2 DEF TypeInv, TenantsOK, ClearTenant
<1>3. CASE MarkProvisioning
  BY <1>3 DEF TypeInv, TenantsOK, MarkProvisioning
<1>4. CASE UNCHANGED tenant
  BY <1>4
<1>5. ASSUME NEW c \in Threads, ThreadStep(c), ~ClearTenant(c)
      PROVE  UNCHANGED tenant
  BY <1>5 DEF ThreadStep, TestWorkspace, RenameWorkspace, OpenRun, EnqueueRun
<1>6. CASE WorkerStep /\ ~MarkProvisioning
  BY <1>4, <1>6
  DEF WorkerStep, SkipRun, StartRun, WritePlan, WriteReport, WriteFile,
      SubmitJob, JobSucceeds, JobFails, CompleteRun, FailRun, SetRun, FinishTask
<1>7. CASE RunnerStep \/ WorkerCrash \/ ApiCrash \/ RunnerCrash \/ UNCHANGED vars
  BY <1>4, <1>7
  DEF RunnerStep, DoJob, OpenMarker, WriteMarker, others, WorkerCrash, ApiCrash,
      RunnerCrash, vars
<1>. QED BY <1>1, <1>2, <1>3, <1>4, <1>5, <1>6, <1>7 DEF Next

(* The jobs that the worker has behind it in its run.                      *)
Behind(job) == job < worker.job \/ worker.at \in {"writing report", "delivering"}

(* Only a job's success takes the worker past it.                          *)
LEMMA OneJobAtATime ==
    ASSUME TypeInv, [Next]_vars, ~JobSucceeds
    PROVE  \A job \in 1..4 : worker'.at \in Early /\ Behind(job)' =>
              Behind(job) /\ worker.at \in Early /\ worker'.run = worker.run
<1> SUFFICES ASSUME NEW job \in 1..4, worker'.at \in Early, Behind(job)'
             PROVE  Behind(job) /\ worker.at \in Early /\ worker'.run = worker.run
  OBVIOUS
<1>1. worker \in [at : Places, run : Nat, job : 1..4, attempt : 1..3]
  BY DEF TypeInv, WorkerOK
<1>2. CASE UNCHANGED worker
  BY <1>2 DEF Behind
<1>3. CASE \E n \in queue : StartRun(n)
  BY <1>3 DEF StartRun, IdleWorker, Behind
<1>4. CASE MarkProvisioning \/ WritePlan \/ SubmitJob \/ WriteReport \/ MarkReady
           \/ CompleteRun \/ FailRun
  BY <1>1, <1>4
  DEF MarkProvisioning, WritePlan, WriteReport, WriteFile, SubmitJob, MarkReady,
      CompleteRun, FailRun, SetRun, Goto, Early, Behind
<1>5. CASE JobFails
  <2>1. worker'.at \in {"submitting", "failing"} /\ worker'.job = worker.job
        /\ worker'.run = worker.run /\ worker.at = "calling"
    BY <1>1, <1>5 DEF JobFails
  <2>. QED BY <2>1 DEF Early, Behind
<1>6. CASE FinishTask \/ WorkerCrash
  <2>1. worker'.at = "polling"
    BY <1>6 DEF FinishTask, WorkerCrash, IdleWorker
  <2>. QED BY <2>1 DEF Early
<1>7. ASSUME NEW c \in Threads, ThreadStep(c) \/ Request(c)
      PROVE  UNCHANGED worker
  BY <1>7
  DEF Request, CreateTenant, RetryProvision, ResetTenant, ThreadStep,
      TestWorkspace, RenameWorkspace, ClearTenant, OpenRun, EnqueueRun
<1>8. CASE \/ RunnerStep \/ ApiCrash \/ RunnerCrash \/ UNCHANGED vars
           \/ \E n \in queue : SkipRun(n)
  BY <1>2, <1>8
  DEF RunnerStep, DoJob, OpenMarker, WriteMarker, others, ApiCrash, RunnerCrash,
      SkipRun, vars
<1>. QED BY <1>2, <1>3, <1>4, <1>5, <1>6, <1>7, <1>8 DEF Next, WorkerStep

-----------------------------------------------------------------------------
(* A ready tenant's run has done what the handler asks for.                *)

(* Job number job of run n succeeded in one of its attempts.               *)
Succeeded(n, job) ==
    \E attempt \in 1..MaxAttempts(job) :
        LET id == RequestId(n, job, attempt)
        IN  id \in DOMAIN jobs /\ jobs[id] = "succeeded"

(* A tenant's workspace is one of its own.                                 *)
OwnRoots == \A t \in Tenants : tenant[t].root # 0 => runs[tenant[t].root].tenant = t

EarnedInv ==
    /\ OwnRoots
    /\ \A t \in Tenants : tenant[t].status = "ready" =>
          tenant[t].root # 0 /\ \A job \in 1..4 : Succeeded(tenant[t].root, job)
    /\ worker.at \in Early =>
          \A job \in 1..4 : Behind(job) => Succeeded(N, job)

LEMMA JobTypesDiffer ==
    \A j, k \in 1..4 : JobTypes[j] = JobTypes[k] => j = k
BY DEF JobTypes

(* The row of one job says nothing of the others.                          *)
LEMMA SetJobKeeps ==
    ASSUME TypeInv, NEW status, SetJob(status),
           NEW n, NEW job \in 1..4, n # N \/ job # worker.job, Succeeded(n, job)
    PROVE  Succeeded(n, job)'
<1>1. worker.job \in 1..4
  BY DEF TypeInv, WorkerOK
<1>2. PICK attempt \in 1..MaxAttempts(job) :
         /\ RequestId(n, job, attempt) \in DOMAIN jobs
         /\ jobs[RequestId(n, job, attempt)] = "succeeded"
  BY DEF Succeeded
<1>3. RequestId(n, job, attempt) # TheRequest
  BY <1>1, JobTypesDiffer DEF RequestId, TheRequest
<1>4. /\ RequestId(n, job, attempt) \in DOMAIN jobs'
      /\ jobs'[RequestId(n, job, attempt)] = "succeeded"
  BY <1>2, <1>3 DEF SetJob
<1>. QED BY <1>4 DEF Succeeded

LEMMA SetJobSucceeds ==
    ASSUME TypeInv, SetJob("succeeded"), NEW n, n = N, NEW job, job = worker.job
    PROVE  Succeeded(n, job)'
<1>1. worker.attempt \in 1..MaxAttempts(worker.job)
  BY DEF TypeInv, WorkerOK, MaxAttempts
<1>2. TheRequest \in DOMAIN jobs' /\ jobs'[TheRequest] = "succeeded"
  BY DEF SetJob
<1>. QED BY <1>1, <1>2 DEF Succeeded, TheRequest

(* A success takes the worker past the job at hand, and past no other.     *)
LEMMA JobSucceedsBehind ==
    ASSUME TypeInv, JobSucceeds, NEW job \in 1..4, Behind(job)'
    PROVE  /\ worker.at = "calling" /\ worker'.run = N
           /\ job < worker.job \/ job = worker.job
<1>1. worker \in [at : Places, run : Nat, job : 1..4, attempt : 1..3]
  BY DEF TypeInv, WorkerOK
<1>2. worker.at = "calling"
  BY DEF JobSucceeds
<1>3. CASE worker.job = 4
  <2>1. worker' = [worker EXCEPT !.at = "writing report"]
    BY <1>3, JobNumbers DEF JobSucceeds
  <2>2. worker'.run = N
    BY <1>1, <2>1 DEF N
  <2>3. job < worker.job \/ job = worker.job
    BY <1>3
  <2>. QED BY <1>2, <2>2, <2>3
<1>4. CASE worker.job # 4
  <2> DEFINE next == worker.job + 1
  <2>1. worker' = [worker EXCEPT !.at = "submitting", !.job = next, !.attempt = 1]
    BY <1>4, JobNumbers DEF JobSucceeds
  <2>2. job < next => job < worker.job \/ job = worker.job
    BY <1>1
  <2> HIDE DEF next
  <2>3. worker'.at = "submitting" /\ worker'.job = next /\ worker'.run = N
    BY <1>1, <2>1 DEF N
  <2>4. job < next
    BY <2>3 DEF Behind
  <2>. QED BY <1>2, <2>2, <2>3, <2>4
<1>. QED BY <1>3, <1>4

(* Nor does any step of the others undo a success.                         *)
LEMMA SuccessesStay ==
    ASSUME TypeInv, [Next]_vars, NEW n, NEW job \in 1..4, Succeeded(n, job),
           n # N \/ worker.at \notin Early \/ Behind(job)
    PROVE  Succeeded(n, job)'
<1>1. CASE UNCHANGED jobs
  BY <1>1 DEF Succeeded
<1>2. CASE SubmitJob \/ JobSucceeds \/ JobFails
  <2>1. n # N \/ job # worker.job
    <3>1. worker.at \in {"submitting", "calling"} /\ worker.job \in 1..4
      BY <1>2 DEF TypeInv, WorkerOK, SubmitJob, JobSucceeds, JobFails
    <3>2. CASE n = N
      <4>1. Behind(job)
        BY <3>1, <3>2 DEF Early
      <4>2. job < worker.job
        BY <3>1, <4>1 DEF Behind
      <4>. QED BY <3>1, <4>2
    <3>. QED BY <3>2
  <2>2. PICK status : SetJob(status)
    BY <1>2 DEF SubmitJob, JobSucceeds, JobFails
  <2>. QED BY <2>1, <2>2, SetJobKeeps
<1>3. ASSUME NEW c \in Threads, ThreadStep(c) \/ Request(c)
      PROVE  UNCHANGED jobs
  BY <1>3
  DEF Request, CreateTenant, RetryProvision, ResetTenant, ThreadStep,
      TestWorkspace, RenameWorkspace, ClearTenant, OpenRun, EnqueueRun
<1>4. CASE WorkerStep /\ ~SubmitJob /\ ~JobSucceeds /\ ~JobFails
  BY <1>1, <1>4
  DEF WorkerStep, SkipRun, StartRun, MarkProvisioning, WritePlan, WriteReport,
      WriteFile, MarkReady, CompleteRun, FailRun, SetRun, FinishTask
<1>5. CASE RunnerStep \/ WorkerCrash \/ ApiCrash \/ RunnerCrash \/ UNCHANGED vars
  BY <1>1, <1>5
  DEF RunnerStep, DoJob, OpenMarker, WriteMarker, others, WorkerCrash, ApiCrash,
      RunnerCrash, vars
<1>. QED BY <1>1, <1>2, <1>3, <1>4, <1>5 DEF Next

LEMMA OwnRootsStay == ASSUME TypeInv, OwnRoots, [Next]_vars  PROVE OwnRoots'
<1>1. RunsStay
  BY RunsDoStay
<1>2. CASE MarkReady
  <2>1. N \in DOMAIN runs
    BY <1>2 DEF TypeInv, WorkerOK, N, MarkReady
  <2>2. \A t \in Tenants : tenant'[t].root = tenant[t].root
                            \/ (tenant'[t].root = N /\ runs[N].tenant = t)
    <3>1. tenant' = [tenant EXCEPT ![T] = [status |-> "ready", root |-> N]]
      BY <1>2 DEF MarkReady
    <3>2. \A t \in Tenants : tenant'[t] = IF t = T THEN [status |-> "ready", root |-> N]
                                          ELSE tenant[t]
      BY <3>1 DEF TypeInv, TenantsOK
    <3>3. [status |-> "ready", root |-> N].root = N
      OBVIOUS
    <3> SUFFICES ASSUME NEW t \in Tenants
                 PROVE  tenant'[t].root = tenant[t].root
                        \/ (tenant'[t].root = N /\ runs[N].tenant = t)
      OBVIOUS
    <3>4. CASE t = T
      BY <3>2, <3>3, <3>4 DEF T
    <3>5. CASE t # T
      <4>1. tenant'[t] = tenant[t]
        BY <3>1, <3>5 DEF TypeInv, TenantsOK
      <4>. QED BY <4>1
    <3>. QED BY <3>4, <3>5
  <2>3. \A t \in Tenants : tenant[t].root \in DOMAIN runs \cup {0}
    BY DEF TypeInv, TenantsOK
  <2>. QED BY <1>1, <2>1, <2>2, <2>3 DEF OwnRoots, RunsStay
<1>3. CASE ~MarkReady
  <2>1. \A t \in Tenants : tenant[t].root \in DOMAIN runs \cup {0}
    BY DEF TypeInv, TenantsOK
  <2>. QED BY <1>1, <1>3, <2>1, RootsAreGivenOnce DEF OwnRoots, RunsStay
<1>. QED BY <1>2, <1>3

LEMMA EarnedStep == TypeInv /\ PlaceInv /\ EarnedInv /\ [Next]_vars => EarnedInv'
<1> SUFFICES ASSUME TypeInv, PlaceInv, EarnedInv, [Next]_vars  PROVE EarnedInv'
  OBVIOUS
<1>1. OwnRoots'
  BY OwnRootsStay DEF EarnedInv
<1>2. ASSUME NEW t \in Tenants, tenant'[t].status = "ready",
             NEW n, n = tenant'[t].root, NEW job \in 1..4
      PROVE  n # 0 /\ Succeeded(n, job)'
  <2>1. CASE tenant'[t] = tenant[t]
    <3>1. n # 0 /\ Succeeded(n, job)
      BY <1>2, <2>1 DEF EarnedInv
    <3>2. n # N \/ worker.at \notin Early
      BY <1>2, <2>1 DEF PlaceInv, Rooted
    <3>. QED BY <3>1, <3>2, SuccessesStay
  <2>2. CASE MarkReady /\ t = T
    <3>1. n = N /\ n # 0 /\ worker.at = "delivering"
      BY <1>2, <2>2 DEF TypeInv, TenantsOK, WorkerOK, MarkReady
    <3>2. Succeeded(n, job) /\ Behind(job)
      BY <3>1 DEF EarnedInv, Behind, Early
    <3>. QED BY <3>1, <3>2, SuccessesStay
  <2>3. CASE MarkReady /\ t # T
    <3>1. tenant'[t] = tenant[t]
      BY <2>3 DEF TypeInv, TenantsOK, MarkReady
    <3>. QED BY <2>1, <3>1
  <2>4. CASE ~MarkReady
    BY <1>2, <2>1, <2>4, RootsAreGivenOnce
  <2>. QED BY <2>2, <2>3, <2>4
<1>3. ASSUME worker'.at \in Early, NEW n, n = worker'.run, NEW job \in 1..4,
             Behind(job)'
      PROVE  Succeeded(n, job)'
  <2>1. CASE JobSucceeds
    <3>1. /\ worker.at = "calling" /\ n = N
          /\ job < worker.job \/ job = worker.job
      BY <1>3, <2>1, JobSucceedsBehind
    <3>2. CASE job < worker.job
      <4>1. Behind(job) /\ Succeeded(n, job)
        BY <3>1, <3>2 DEF EarnedInv, Behind, Early
      <4>. QED BY <4>1, SuccessesStay
    <3>3. CASE job = worker.job
      BY <2>1, <3>1, <3>3, SetJobSucceeds DEF JobSucceeds
    <3>. QED BY <3>1, <3>2, <3>3
  <2>2. CASE ~JobSucceeds
    <3>1. Behind(job) /\ worker.at \in Early /\ n = N
      BY <1>3, <2>2, OneJobAtATime DEF N
    <3>2. Succeeded(n, job)
      BY <3>1 DEF EarnedInv
    <3>. QED BY <3>1, <3>2, SuccessesStay
  <2>. QED BY <2>1, <2>2
<1>. QED BY <1>1, <1>2, <1>3 DEF EarnedInv, N, Succeeded

LEMMA EarnedGivesReadyIsEarned == TypeInv /\ EarnedInv => ReadyIsEarned
BY JobNumbers
DEF EarnedInv, OwnRoots, ReadyIsEarned, Succeeded, TypeInv, TenantsOK

LEMMA EarnedInit == Init => EarnedInv
BY DEF Init, EarnedInv, OwnRoots, IdleWorker, Early

(* A ready tenant owns its workspace, and all four jobs of the run that    *)
(* built it have succeeded, whatever retries, resets, failures and crashes *)
(* came between.                                                           *)
THEOREM ReadyTenantsEarnIt == Spec => []ReadyIsEarned
<1>1. TypeInv /\ PlaceInv /\ EarnedInv /\ [Next]_vars
         => (TypeInv /\ PlaceInv /\ EarnedInv)'
  BY NextTyped, PlaceInvStep, EarnedStep
<1>2. Spec => [](TypeInv /\ PlaceInv /\ EarnedInv)
  BY <1>1, InitTyped, PlaceInvInit, EarnedInit, PTL DEF Spec
<1>. QED BY <1>2, EarnedGivesReadyIsEarned, PTL

-----------------------------------------------------------------------------
(* And what these jobs make is there: the worker believes the answer, the  *)
(* answer the file, the file the work.                                     *)

FilesOK == marked \subseteq made

AnswersOK ==
    \A c \in DOMAIN calls :
        calls[c] \in {"marking", "writing", "ok"} => Marker(c) \in made

BuiltInv ==
    /\ FilesOK /\ AnswersOK
    /\ worker.at \in Early => \A job \in 1..4 : Behind(job) => <<N, job>> \in made
    /\ \A t \in Tenants : tenant[t].status = "ready" =>
          \A job \in 1..4 : <<tenant[t].root, job>> \in made

(* The steps that touch neither the runner's files nor its answers.        *)
RunnerUntouched == UNCHANGED <<made, marked>>
                   /\ \A c \in DOMAIN calls' : calls'[c] # "working" =>
                         c \in DOMAIN calls /\ calls'[c] = calls[c]

LEMMA OnlyTheRunnerMarks ==
    ASSUME TypeInv, [Next]_vars, ~RunnerStep  PROVE RunnerUntouched
<1>1. CASE SubmitJob
  BY <1>1 DEF SubmitJob, RunnerUntouched
<1>2. CASE JobSucceeds \/ JobFails
  BY <1>2 DEF JobSucceeds, JobFails, CallFails, Without, RunnerUntouched
<1>3. CASE WorkerCrash \/ RunnerCrash
  BY <1>3 DEF WorkerCrash, RunnerCrash, RunnerUntouched
<1>4. CASE UNCHANGED runnerVars
  BY <1>4 DEF runnerVars, RunnerUntouched
<1>5. ASSUME NEW c \in Threads, ThreadStep(c) \/ Request(c)
      PROVE  UNCHANGED runnerVars
  BY <1>5
  DEF Request, CreateTenant, RetryProvision, ResetTenant, ThreadStep,
      TestWorkspace, RenameWorkspace, ClearTenant, OpenRun, EnqueueRun
<1>6. CASE WorkerStep /\ ~SubmitJob /\ ~JobSucceeds /\ ~JobFails
  BY <1>4, <1>6
  DEF WorkerStep, SkipRun, StartRun, MarkProvisioning, WritePlan, WriteReport,
      WriteFile, MarkReady, CompleteRun, FailRun, SetRun, FinishTask
<1>7. CASE ApiCrash \/ UNCHANGED vars
  BY <1>4, <1>7 DEF ApiCrash, vars
<1>. QED BY <1>1, <1>2, <1>3, <1>4, <1>5, <1>6, <1>7 DEF Next

LEMMA FilesAndAnswersStep ==
    ASSUME TypeInv, FilesOK, AnswersOK, [Next]_vars
    PROVE  FilesOK' /\ AnswersOK' /\ made \subseteq made'
<1>1. CASE ~RunnerStep
  <2>1. RunnerUntouched
    BY <1>1, OnlyTheRunnerMarks
  <2>. QED BY <2>1 DEF RunnerUntouched, FilesOK, AnswersOK
<1>2. ASSUME NEW c \in DOMAIN calls, DoJob(c)
      PROVE  FilesOK' /\ AnswersOK' /\ made \subseteq made'
  <2>1. made \subseteq made' /\ UNCHANGED marked
    BY <1>2 DEF DoJob
  <2>2. CASE calls' = [calls EXCEPT ![c] = "marking"] /\ made' = made \cup {Marker(c)}
    BY <2>1, <2>2 DEF FilesOK, AnswersOK
  <2>3. CASE calls' = [calls EXCEPT ![c] = "error"] \/ calls' = Without(c)
    BY <2>1, <2>3 DEF FilesOK, AnswersOK, Without
  <2>4. CASE calls' = [calls EXCEPT ![c] = "ok"] /\ Marker(c) \in marked
    BY <2>1, <2>4 DEF FilesOK, AnswersOK
  <2>. QED BY <1>2, <2>2, <2>3, <2>4 DEF DoJob, Answer, Proceed
<1>3. ASSUME NEW c \in DOMAIN calls, OpenMarker(c)
      PROVE  FilesOK' /\ AnswersOK' /\ made \subseteq made'
  <2>1. UNCHANGED made /\ Marker(c) \in made
    BY <1>3 DEF OpenMarker, In, AnswersOK
  <2>2. marked' \subseteq marked \cup {Marker(c)}
    BY <1>3 DEF OpenMarker
  <2>3. \/ \E s : calls' = [calls EXCEPT ![c] = s]
        \/ calls' = Without(c)
    BY <1>3 DEF OpenMarker, Answer, Proceed
  <2>. QED BY <2>1, <2>2, <2>3 DEF FilesOK, AnswersOK, Without
<1>4. ASSUME NEW c \in DOMAIN calls, WriteMarker(c)
      PROVE  FilesOK' /\ AnswersOK' /\ made \subseteq made'
  <2>1. UNCHANGED <<made, marked>> /\ Marker(c) \in made
    BY <1>4 DEF WriteMarker, In, AnswersOK
  <2>2. \/ \E s : calls' = [calls EXCEPT ![c] = s]
        \/ calls' = Without(c)
    BY <1>4 DEF WriteMarker, Answer
  <2>. QED BY <2>1, <2>2 DEF FilesOK, AnswersOK, Without
<1>. QED BY <1>1, <1>2, <1>3, <1>4 DEF RunnerStep

LEMMA BuiltStep == TypeInv /\ BuiltInv /\ [Next]_vars => BuiltInv'
<1> SUFFICES ASSUME TypeInv, BuiltInv, [Next]_vars  PROVE BuiltInv'
  OBVIOUS
<1>1. FilesOK' /\ AnswersOK' /\ made \subseteq made'
  BY FilesAndAnswersStep DEF BuiltInv
<1>2. ASSUME NEW t \in Tenants, tenant'[t].status = "ready", NEW job \in 1..4
      PROVE  <<tenant'[t].root, job>> \in made
  <2>1. CASE tenant'[t] = tenant[t]
    BY <1>2, <2>1 DEF BuiltInv
  <2>2. CASE MarkReady /\ t = T
    <3>1. tenant'[t].root = N /\ worker.at = "delivering"
      BY <2>2 DEF TypeInv, TenantsOK, WorkerOK, MarkReady
    <3>. QED BY <3>1 DEF BuiltInv, Behind, Early
  <2>3. CASE MarkReady /\ t # T
    <3>1. tenant'[t] = tenant[t]
      BY <2>3 DEF TypeInv, TenantsOK, MarkReady
    <3>. QED BY <2>1, <3>1
  <2>4. CASE ~MarkReady
    BY <1>2, <2>1, <2>4, RootsAreGivenOnce
  <2>. QED BY <2>2, <2>3, <2>4
<1>3. ASSUME worker'.at \in Early, NEW job \in 1..4, Behind(job)'
      PROVE  <<worker'.run, job>> \in made
  <2>1. CASE JobSucceeds
    <3>1. /\ worker.at = "calling" /\ worker'.run = N
          /\ job < worker.job \/ job = worker.job
      BY <1>3, <2>1, JobSucceedsBehind
    <3>2. CASE job < worker.job
      BY <3>1, <3>2 DEF BuiltInv, Behind, Early
    <3>3. CASE job = worker.job
      <4>1. Call \in DOMAIN calls /\ calls[Call] = "ok"
        BY <2>1 DEF JobSucceeds, Answered
      <4>2. Marker(Call) \in made
        BY <4>1 DEF BuiltInv, AnswersOK
      <4>. QED BY <3>1, <3>3, <4>2 DEF Call, Marker
    <3>. QED BY <3>1, <3>2, <3>3
  <2>2. CASE ~JobSucceeds
    <3>1. Behind(job) /\ worker.at \in Early /\ worker'.run = N
      BY <1>3, <2>2, OneJobAtATime DEF N
    <3>. QED BY <3>1 DEF BuiltInv
  <2>. QED BY <2>1, <2>2
<1>. QED BY <1>1, <1>2, <1>3 DEF BuiltInv, N

(* What the four jobs make is in the workspace of every ready tenant, also *)
(* when the runner answered for an attempt whose caller gave up or when it *)
(* went down half way.                                                     *)
THEOREM ReadyTenantsAreBuilt == Spec => []ReadyIsBuilt
<1>1. Init => BuiltInv
  BY DEF Init, BuiltInv, FilesOK, AnswersOK, IdleWorker, Early
<1>2. TypeInv /\ BuiltInv /\ [Next]_vars => (TypeInv /\ BuiltInv)'
  BY NextTyped, BuiltStep
<1>3. Spec => [](TypeInv /\ BuiltInv)
  BY <1>1, <1>2, InitTyped, PTL DEF Spec
<1>4. BuiltInv => ReadyIsBuilt
  BY JobNumbers DEF BuiltInv, ReadyIsBuilt
<1>. QED BY <1>3, <1>4, PTL

-----------------------------------------------------------------------------
(* A reset works on the workspace of the tenant it was asked to reset, so  *)
(* the one that renames a ready tenant's workspace will clear the tenant.  *)

ResetsAtHome ==
    \A c \in Threads : thread[c].at # "idle" /\ thread[c].root # 0 =>
        runs[thread[c].root].tenant = thread[c].tenant

HomeInv == OwnRoots /\ ResetsAtHome /\ ReadyHasWorkspace

(* A thread moves by its own steps and is stopped by a crash.              *)
LEMMA ThreadsMoveAlone ==
    ASSUME TypeInv, [Next]_vars
    PROVE  \/ UNCHANGED thread
           \/ \E c \in Threads :
                 /\ ThreadStep(c) \/ Request(c)
                 /\ \A d \in Threads \ {c} : thread'[d] = thread[d]
           \/ ApiCrash
<1>1. ASSUME NEW c \in Threads, ThreadStep(c) \/ Request(c)
      PROVE  \A d \in Threads \ {c} : thread'[d] = thread[d]
  BY <1>1
  DEF TypeInv, ThreadsOK, Request, CreateTenant, RetryProvision, ResetTenant, At,
      ThreadStep, TestWorkspace, RenameWorkspace, ClearTenant, OpenRun, EnqueueRun
<1>2. CASE WorkerStep
  BY <1>2
  DEF WorkerStep, SkipRun, StartRun, MarkProvisioning, WritePlan, WriteReport,
      WriteFile, SubmitJob, JobSucceeds, JobFails, MarkReady, CompleteRun, FailRun,
      SetRun, FinishTask
<1>3. CASE RunnerStep \/ WorkerCrash \/ RunnerCrash \/ UNCHANGED vars
  BY <1>3
  DEF RunnerStep, DoJob, OpenMarker, WriteMarker, others, WorkerCrash,
      RunnerCrash, vars
<1>. QED BY <1>1, <1>2, <1>3 DEF Next

LEMMA ResetsStayAtHome ==
    ASSUME TypeInv, OwnRoots, ResetsAtHome, [Next]_vars  PROVE ResetsAtHome'
<1>1. RunsStay
  BY RunsDoStay
<1>2. \A c \in Threads : thread[c].root \in DOMAIN runs \cup {0}
  BY DEF TypeInv, ThreadsOK
<1>3. ASSUME NEW c \in Threads,
             \/ thread'[c].at = "idle"
             \/ thread'[c].root = 0
             \/ /\ thread[c].at # "idle"
                /\ thread'[c].root = thread[c].root
                /\ thread'[c].tenant = thread[c].tenant
             \/ \E t \in Tenants : /\ thread'[c].tenant = t
                                   /\ thread'[c].root = tenant[t].root
      PROVE  thread'[c].at # "idle" /\ thread'[c].root # 0 =>
                runs'[thread'[c].root].tenant = thread'[c].tenant
  BY <1>1, <1>2, <1>3 DEF RunsStay, OwnRoots, ResetsAtHome, TypeInv, TenantsOK
<1>4. CASE UNCHANGED thread
  BY <1>3, <1>4 DEF ResetsAtHome
<1>5. CASE ApiCrash
  BY <1>3, <1>5 DEF ApiCrash, IdleThread, ResetsAtHome
<1>6. ASSUME NEW c \in Threads, ThreadStep(c) \/ Request(c),
             \A d \in Threads \ {c} : thread'[d] = thread[d]
      PROVE  ResetsAtHome'
  <2>1. \/ thread'[c].at = "idle"
        \/ thread'[c].root = 0
        \/ /\ thread[c].at # "idle"
           /\ thread'[c].root = thread[c].root
           /\ thread'[c].tenant = thread[c].tenant
        \/ \E t \in Tenants : /\ thread'[c].tenant = t
                              /\ thread'[c].root = tenant[t].root
    <3>1. CASE Request(c)
      BY <3>1
      DEF TypeInv, ThreadsOK, TenantsOK, Request, CreateTenant, RetryProvision,
          ResetTenant, At
    <3>2. CASE TestWorkspace(c) \/ ClearTenant(c)
      BY <3>2 DEF TypeInv, ThreadsOK, TestWorkspace, ClearTenant
    <3>3. CASE RenameWorkspace(c) \/ EnqueueRun(c)
      BY <3>3 DEF TypeInv, ThreadsOK, IdleThread, RenameWorkspace, EnqueueRun
    <3>4. CASE OpenRun(c)
      BY <3>4 DEF TypeInv, ThreadsOK, OpenRun
    <3>. QED BY <1>6, <3>1, <3>2, <3>3, <3>4 DEF ThreadStep
  <2>. QED BY <1>3, <1>6, <2>1 DEF ResetsAtHome
<1>. QED BY <1>4, <1>5, <1>6, ThreadsMoveAlone

(* What leaves a reset where it is, or ends it with its tenant cleared.    *)
LEMMA ClearingGoesOn ==
    ASSUME TypeInv, [Next]_vars, crashes' = 0,
           NEW c \in Threads, thread[c].at = "clearing"
    PROVE  \/ thread'[c] = thread[c]
           \/ tenant'[thread[c].tenant].status = "requested"
<1>1. CASE ApiCrash
  BY <1>1 DEF TypeInv, BoundsOK, ApiCrash
<1>2. CASE ThreadStep(c) \/ Request(c)
  <2>1. ClearTenant(c)
    BY <1>2
    DEF ThreadStep, TestWorkspace, RenameWorkspace, OpenRun, EnqueueRun, Request,
        CreateTenant, RetryProvision, ResetTenant, Accept
  <2>. QED BY <2>1 DEF TypeInv, ThreadsOK, TenantsOK, ClearTenant
<1>. QED BY <1>1, <1>2, ThreadsMoveAlone

LEMMA CrashesStay ==
    ASSUME TypeInv, [Next]_vars, crashes' = 0
    PROVE  crashes = 0 /\ ~WorkerCrash /\ ~ApiCrash /\ ~RunnerCrash
<1>1. ~WorkerCrash /\ ~ApiCrash /\ ~RunnerCrash
  BY DEF TypeInv, BoundsOK, WorkerCrash, ApiCrash, RunnerCrash
<1>2. CASE WorkerStep
  BY <1>1, <1>2
  DEF WorkerStep, SkipRun, StartRun, MarkProvisioning, WritePlan, WriteReport,
      WriteFile, SubmitJob, JobSucceeds, JobFails, MarkReady, CompleteRun, FailRun,
      SetRun, FinishTask
<1>3. CASE RunnerStep \/ UNCHANGED vars
  BY <1>1, <1>3 DEF RunnerStep, DoJob, OpenMarker, WriteMarker, others, vars
<1>4. ASSUME NEW c \in Threads, ThreadStep(c) \/ Request(c)
      PROVE  UNCHANGED crashes
  BY <1>4
  DEF Request, CreateTenant, RetryProvision, ResetTenant, ThreadStep,
      TestWorkspace, RenameWorkspace, ClearTenant, OpenRun, EnqueueRun
<1>. QED BY <1>1, <1>2, <1>3, <1>4 DEF Next

LEMMA OnlyRenamesArchive ==
    ASSUME TypeInv, [Next]_vars, NEW n \in archived' \ archived
    PROVE  \E c \in Threads : RenameWorkspace(c) /\ thread[c].root = n
<1>1. CASE WorkerStep
  BY <1>1
  DEF WorkerStep, SkipRun, StartRun, MarkProvisioning, WritePlan, WriteReport,
      WriteFile, SubmitJob, JobSucceeds, JobFails, MarkReady, CompleteRun, FailRun,
      SetRun, FinishTask
<1>2. CASE \/ RunnerStep \/ WorkerCrash \/ ApiCrash \/ RunnerCrash
           \/ UNCHANGED vars
  BY <1>2
  DEF RunnerStep, DoJob, OpenMarker, WriteMarker, others, WorkerCrash, ApiCrash,
      RunnerCrash, vars
<1>3. ASSUME NEW c \in Threads, ThreadStep(c) \/ Request(c)
      PROVE  RenameWorkspace(c) /\ thread[c].root = n
  BY <1>3
  DEF Request, CreateTenant, RetryProvision, ResetTenant, ThreadStep,
      TestWorkspace, RenameWorkspace, ClearTenant, OpenRun, EnqueueRun
<1>. QED BY <1>1, <1>2, <1>3 DEF Next

LEMMA HomeStep == TypeInv /\ PlaceInv /\ HomeInv /\ [Next]_vars => HomeInv'
<1> SUFFICES ASSUME TypeInv, PlaceInv, HomeInv, [Next]_vars  PROVE HomeInv'
  OBVIOUS
<1>1. OwnRoots' /\ ResetsAtHome'
  BY OwnRootsStay, ResetsStayAtHome DEF HomeInv
<1>2. ASSUME NEW t \in Tenants, tenant'[t].status = "ready",
             tenant'[t].root \in archived', crashes' = 0
      PROVE  \E c \in Threads : /\ thread'[c].at = "clearing"
                                /\ thread'[c].tenant = t
                                /\ thread'[c].root = tenant'[t].root
  <2>1. CASE MarkReady /\ t = T
    <3>1. tenant'[t].root = N /\ worker.at = "delivering" /\ archived' = archived
      BY <2>1 DEF TypeInv, TenantsOK, WorkerOK, MarkReady
    <3>. QED BY <1>2, <3>1 DEF PlaceInv, Rooted, Early
  <2>2. tenant'[t] = tenant[t] \/ (MarkReady /\ t = T)
    <3>1. CASE MarkReady /\ t # T
      BY <3>1 DEF TypeInv, TenantsOK, MarkReady
    <3>. QED BY <1>2, <3>1, RootsAreGivenOnce
  <2>3. crashes = 0
    BY <1>2, CrashesStay
  <2>4. CASE tenant'[t] = tenant[t] /\ tenant[t].root \in archived
    <3>1. PICK c \in Threads : /\ thread[c].at = "clearing" /\ thread[c].tenant = t
                               /\ thread[c].root = tenant[t].root
      BY <1>2, <2>3, <2>4 DEF HomeInv, ReadyHasWorkspace
    <3>2. thread'[c] = thread[c]
      BY <1>2, <3>1, ClearingGoesOn
    <3>. QED BY <2>4, <3>1, <3>2
  <2>5. CASE tenant'[t] = tenant[t] /\ tenant[t].root \notin archived
    <3>1. PICK c \in Threads : RenameWorkspace(c) /\ thread[c].root = tenant[t].root
      BY <1>2, <2>5, OnlyRenamesArchive
    <3>2. tenant[t].root # 0
      BY <1>2, <2>5, LenProperties, NextTyped DEF TypeInv, RunSetsOK, RunsOK
    <3>3. thread[c].at = "renaming" /\ thread[c].tenant = t
      BY <3>1, <3>2 DEF RenameWorkspace, HomeInv, OwnRoots, ResetsAtHome
    <3>4. thread' = [thread EXCEPT ![c].at = "clearing"]
      BY <2>5, <3>1 DEF RenameWorkspace
    <3>. QED BY <2>5, <3>1, <3>3, <3>4 DEF TypeInv, ThreadsOK
  <2>. QED BY <2>1, <2>2, <2>4, <2>5
<1>. QED BY <1>1, <1>2 DEF HomeInv, ReadyHasWorkspace

(* While no process has crashed, the workspace of a ready tenant is away   *)
(* only when the reset that renamed it is about to clear the tenant.       *)
THEOREM ReadyTenantsHaveWorkspaces == Spec => []ReadyHasWorkspace
<1>1. Init => HomeInv
  BY DEF Init, HomeInv, OwnRoots, ResetsAtHome, ReadyHasWorkspace, IdleThread
<1>2. TypeInv /\ PlaceInv /\ HomeInv /\ [Next]_vars
         => (TypeInv /\ PlaceInv /\ HomeInv)'
  BY NextTyped, PlaceInvStep, HomeStep
<1>3. Spec => [](TypeInv /\ PlaceInv /\ HomeInv)
  BY <1>1, <1>2, InitTyped, PlaceInvInit, PTL DEF Spec
<1>4. HomeInv => ReadyHasWorkspace
  BY DEF HomeInv
<1>. QED BY <1>3, <1>4, PTL

-----------------------------------------------------------------------------
(* Every request ends in a run, and every run in a verdict.                *)

Undecided ==
    /\ \A n \in DOMAIN runs : n \notin started => runs[n].status = "running"
    /\ worker.at \notin {"polling", "finishing"} => runs[N].status = "running"

(* A run that is to be enqueued is nobody else's and new to the queue.     *)
Queueing(c) == thread[c].at = "queueing"

FreshRuns ==
    /\ \A c \in Threads : Queueing(c) =>
          /\ thread[c].run \notin started \cup queue
          /\ runs[thread[c].run].tenant = thread[c].tenant
    /\ \A c, d \in Threads : Queueing(c) /\ Queueing(d) /\ c # d =>
          thread[c].run # thread[d].run

(* While no process has crashed the queue holds what was not started, and  *)
(* the run at hand.                                                        *)
QueueKept ==
    crashes = 0 =>
        /\ worker.at # "polling" => N \in queue
        /\ \A n \in queue \cap started : worker.at # "polling" /\ n = N

(* What will make the tenant ready, or has ended.                          *)
Covered(t) ==
    \/ tenant[t].status = "ready"
    \/ \E c \in Threads : thread[c].tenant = t
                          /\ thread[c].at \in {"clearing", "opening", "queueing"}
    \/ \E n \in queue : /\ runs[n].tenant = t
                        /\ n = N => worker.at \notin {"completing", "finishing"}
    \/ \E n \in DOMAIN runs : runs[n] = [tenant |-> t, status |-> "failed"]

AllCovered ==
    crashes = 0 => \A t \in Tenants : tenant[t].status # "absent" => Covered(t)

SettleInv == Undecided /\ FreshRuns /\ QueueKept /\ AllCovered

(* The handler at work, the runner, and steps that change nothing.         *)
LEMMA HandlerKeepsSettling ==
    ASSUME TypeInv, SettleInv, UNCHANGED <<tenant, runs, queue, started, thread>>,
           crashes' = 0 => crashes = 0,
           \/ UNCHANGED worker
           \/ /\ worker.at \in Early /\ worker'.at \in Early \cup {"failing"}
              /\ worker'.run = worker.run
    PROVE  SettleInv'
<1>1. Undecided' /\ QueueKept'
  BY DEF SettleInv, Undecided, QueueKept, N, Early
<1>2. FreshRuns'
  BY DEF SettleInv, FreshRuns, Queueing
<1>3. AllCovered'
  BY DEF SettleInv, AllCovered, Covered, N, Early
<1>. QED BY <1>1, <1>2, <1>3 DEF SettleInv

LEMMA RequestKeepsSettling ==
    ASSUME TypeInv, SettleInv, NEW c \in Threads, Request(c)  PROVE SettleInv'
<1> PICK t \in Tenants :
        CreateTenant(c, t) \/ RetryProvision(c, t) \/ ResetTenant(c, t)
  BY DEF Request
<1>1. UNCHANGED <<runs, queue, started, worker, crashes>> /\ thread[c].at = "idle"
  BY DEF CreateTenant, RetryProvision, ResetTenant, Accept
<1>2. Undecided' /\ QueueKept'
  BY <1>1 DEF SettleInv, Undecided, QueueKept, N
<1>3. /\ \A d \in Threads \ {c} : thread'[d] = thread[d]
      /\ thread'[c].tenant = t /\ thread'[c].at \in {"opening", "archiving"}
  BY DEF TypeInv, ThreadsOK, At, CreateTenant, RetryProvision, ResetTenant
<1>4. FreshRuns'
  BY <1>1, <1>3 DEF SettleInv, FreshRuns, Queueing
<1>5. ASSUME NEW u \in Tenants, tenant'[u].status # "absent", crashes = 0
      PROVE  Covered(u)'
  <2>1. CASE tenant'[u] = tenant[u]
    BY <1>1, <1>3, <1>5, <2>1 DEF SettleInv, AllCovered, Covered, N
  <2>2. CASE tenant'[u] # tenant[u]
    <3>1. u = t /\ thread'[c].at = "opening"
      BY <2>2 DEF TypeInv, TenantsOK, ThreadsOK, At, CreateTenant, RetryProvision,
                  ResetTenant
    <3>. QED BY <1>3, <3>1 DEF Covered
  <2>. QED BY <2>1, <2>2
<1>. QED BY <1>1, <1>2, <1>4, <1>5 DEF SettleInv, AllCovered

LEMMA ResetKeepsSettling ==
    ASSUME TypeInv, SettleInv, NEW c \in Threads,
           TestWorkspace(c) \/ RenameWorkspace(c) \/ ClearTenant(c)
    PROVE  SettleInv'
<1>1. UNCHANGED <<runs, queue, started, worker, crashes>>
  BY DEF TestWorkspace, RenameWorkspace, ClearTenant
<1>2. Undecided' /\ QueueKept'
  BY <1>1 DEF SettleInv, Undecided, QueueKept, N
<1>3. /\ \A d \in Threads \ {c} : thread'[d] = thread[d]
      /\ thread'[c].at # "queueing"
  BY DEF TypeInv, ThreadsOK, IdleThread, TestWorkspace, RenameWorkspace, ClearTenant
<1>4. FreshRuns'
  BY <1>1, <1>3 DEF SettleInv, FreshRuns, Queueing
<1>5. ASSUME NEW u \in Tenants, tenant'[u].status # "absent", crashes = 0
      PROVE  Covered(u)'
  <2>1. CASE ClearTenant(c) /\ u = thread[c].tenant
    <3>1. thread'[c].at = "opening" /\ thread'[c].tenant = u
      BY <2>1 DEF TypeInv, ThreadsOK, ClearTenant
    <3>. QED BY <3>1 DEF Covered
  <2>2. CASE ClearTenant(c) /\ u # thread[c].tenant
    <3>1. tenant'[u] = tenant[u]
      BY <2>2 DEF TypeInv, TenantsOK, ClearTenant
    <3>. QED BY <1>1, <1>3, <1>5, <2>2, <3>1 DEF SettleInv, AllCovered, Covered, N
  <2>3. CASE TestWorkspace(c) \/ RenameWorkspace(c)
    <3>1. UNCHANGED tenant /\ thread[c].at \in {"archiving", "renaming"}
      BY <2>3 DEF TestWorkspace, RenameWorkspace
    <3>. QED BY <1>1, <1>3, <1>5, <3>1 DEF SettleInv, AllCovered, Covered, N
  <2>. QED BY <2>1, <2>2, <2>3
<1>. QED BY <1>1, <1>2, <1>4, <1>5 DEF SettleInv, AllCovered

LEMMA OpenRunKeepsSettling ==
    ASSUME TypeInv, SettleInv, NEW c \in Threads, OpenRun(c)  PROVE SettleInv'
<1> DEFINE n == Len(runs) + 1
<1>1. /\ DOMAIN runs' = DOMAIN runs \cup {n} /\ n \notin DOMAIN runs /\ n # 0
      /\ \A m \in DOMAIN runs : runs'[m] = runs[m]
      /\ runs'[n] = [tenant |-> thread[c].tenant, status |-> "running"]
  BY RunAppended DEF TypeInv, ThreadsOK, OpenRun
<1>2. /\ UNCHANGED <<tenant, queue, started, worker, crashes>>
      /\ thread[c].at = "opening"
      /\ thread' = [thread EXCEPT ![c].at = "queueing", ![c].run = n]
  BY DEF OpenRun
<1> HIDE DEF n
<1>3. /\ \A d \in Threads \ {c} : thread'[d] = thread[d]
      /\ thread'[c].at = "queueing" /\ thread'[c].run = n
      /\ thread'[c].tenant = thread[c].tenant
  BY <1>2 DEF TypeInv, ThreadsOK
<1>4. Undecided' /\ QueueKept'
  <2>1. worker.at # "polling" => N \in DOMAIN runs
    BY DEF TypeInv, WorkerOK, N
  <2>. QED BY <1>1, <1>2, <2>1 DEF SettleInv, Undecided, QueueKept, N
<1>5. FreshRuns'
  <2>1. n \notin started \cup queue
    BY <1>1 DEF TypeInv, RunSetsOK
  <2>2. \A d \in Threads \ {c} : Queueing(d) => thread[d].run \in DOMAIN runs
    BY DEF TypeInv, ThreadsOK, Queueing
  <2>3. ASSUME NEW d \in Threads, Queueing(d)'
        PROVE  /\ thread'[d].run \notin started' \cup queue'
               /\ runs'[thread'[d].run].tenant = thread'[d].tenant
    <3>1. CASE d = c
      BY <1>1, <1>2, <1>3, <2>1, <3>1
    <3>2. CASE d # c
      <4>1. thread'[d] = thread[d] /\ Queueing(d)
        BY <1>3, <2>3, <3>2 DEF Queueing
      <4>2. /\ thread[d].run \notin started \cup queue
            /\ runs[thread[d].run].tenant = thread[d].tenant
        BY <4>1 DEF SettleInv, FreshRuns
      <4>3. runs'[thread[d].run] = runs[thread[d].run]
        BY <1>1, <2>2, <4>1, <3>2
      <4>. QED BY <1>2, <4>1, <4>2, <4>3
    <3>. QED BY <3>1, <3>2
  <2>4. ASSUME NEW d \in Threads, NEW e \in Threads, Queueing(d)', Queueing(e)', d # e
        PROVE  thread'[d].run # thread'[e].run
    <3>1. \A f \in Threads \ {c} : Queueing(f)' => Queueing(f)
      BY <1>3 DEF Queueing
    <3>. QED BY <1>1, <1>3, <2>2, <2>4, <3>1 DEF SettleInv, FreshRuns
  <2>. QED BY <2>3, <2>4 DEF FreshRuns
<1>6. ASSUME NEW u \in Tenants, tenant[u].status # "absent", crashes = 0
      PROVE  Covered(u)'
  <2>1. Covered(u)
    BY <1>6 DEF SettleInv, AllCovered
  <2>2. CASE tenant[u].status = "ready"
    BY <1>2, <2>2 DEF Covered
  <2>3. ASSUME NEW d \in Threads, thread[d].tenant = u,
               thread[d].at \in {"clearing", "opening", "queueing"}
        PROVE  Covered(u)'
    <3>1. /\ thread'[d].tenant = u
          /\ thread'[d].at \in {"clearing", "opening", "queueing"}
      BY <1>3, <2>3
    <3>. QED BY <3>1 DEF Covered
  <2>4. ASSUME NEW m \in queue, runs[m].tenant = u,
               m = N => worker.at \notin {"completing", "finishing"}
        PROVE  Covered(u)'
    BY <1>1, <1>2, <2>4 DEF Covered, N, TypeInv, RunSetsOK
  <2>5. ASSUME NEW m \in DOMAIN runs, runs[m] = [tenant |-> u, status |-> "failed"]
        PROVE  Covered(u)'
    BY <1>1, <2>5 DEF Covered
  <2>. QED BY <2>1, <2>2, <2>3, <2>4, <2>5 DEF Covered
<1>. QED BY <1>2, <1>4, <1>5, <1>6 DEF SettleInv, AllCovered

LEMMA EnqueueRunKeepsSettling ==
    ASSUME TypeInv, PlaceInv, SettleInv, NEW c \in Threads, EnqueueRun(c)
    PROVE  SettleInv'
<1>1. /\ UNCHANGED <<tenant, runs, started, worker, crashes>>
      /\ Queueing(c) /\ queue' = queue \cup {thread[c].run}
  BY DEF EnqueueRun, Queueing
<1>2. /\ \A d \in Threads \ {c} : thread'[d] = thread[d]
      /\ thread'[c].at = "idle"
  BY DEF TypeInv, ThreadsOK, IdleThread, EnqueueRun
<1>3. /\ thread[c].run \notin started
      /\ runs[thread[c].run].tenant = thread[c].tenant
  BY <1>1 DEF SettleInv, FreshRuns
<1>4. Undecided' /\ QueueKept'
  BY <1>1, <1>3 DEF SettleInv, Undecided, QueueKept, N
<1>5. FreshRuns'
  BY <1>1, <1>2 DEF SettleInv, FreshRuns, Queueing
<1>6. ASSUME NEW u \in Tenants, tenant[u].status # "absent", crashes = 0
      PROVE  Covered(u)'
  <2>1. CASE u = thread[c].tenant
    <3>1. thread[c].run = N => worker.at = "polling"
      BY <1>3 DEF PlaceInv
    <3>. QED BY <1>1, <1>3, <2>1, <3>1 DEF Covered, N
  <2>2. CASE u # thread[c].tenant
    BY <1>1, <1>2, <1>6, <2>2 DEF SettleInv, AllCovered, Covered, N
  <2>. QED BY <2>1, <2>2
<1>. QED BY <1>1, <1>4, <1>5, <1>6 DEF SettleInv, AllCovered

(* Without a crash every run in the queue is new to the worker, so none is *)
(* skipped.                                                                *)
LEMMA TakeRunKeepsSettling ==
    ASSUME TypeInv, SettleInv, NEW n \in queue, SkipRun(n) \/ StartRun(n)
    PROVE  SettleInv'
<1>1. UNCHANGED <<tenant, runs, thread, crashes>> /\ worker.at = "polling"
  BY DEF SkipRun, StartRun
<1>2. n \in DOMAIN runs
  BY DEF TypeInv, RunSetsOK
<1>3. CASE SkipRun(n)
  <2>1. queue' = queue \ {n} /\ UNCHANGED <<started, worker>> /\ n \in started
    BY <1>3 DEF SkipRun
  <2>2. crashes # 0
    BY <1>1, <2>1 DEF SettleInv, QueueKept
  <2>. QED BY <1>1, <2>1, <2>2
    DEF SettleInv, Undecided, FreshRuns, Queueing, QueueKept, AllCovered, N
<1>4. CASE StartRun(n)
  <2>1. /\ UNCHANGED queue /\ n \notin started /\ started' = started \cup {n}
        /\ worker'.at = "starting" /\ worker'.run = n
    BY <1>4 DEF StartRun, IdleWorker
  <2>2. Undecided' /\ FreshRuns'
    BY <1>1, <1>2, <2>1 DEF SettleInv, Undecided, FreshRuns, Queueing, N
  <2>3. QueueKept'
    BY <1>1, <2>1 DEF SettleInv, QueueKept, N
  <2>4. AllCovered'
    BY <1>1, <2>1 DEF SettleInv, AllCovered, Covered, N
  <2>. QED BY <2>2, <2>3, <2>4 DEF SettleInv
<1>. QED BY <1>3, <1>4

LEMMA TenantWrittenKeepsSettling ==
    ASSUME TypeInv, SettleInv, MarkProvisioning \/ MarkReady  PROVE SettleInv'
<1>1. /\ UNCHANGED <<runs, queue, started, thread, crashes>>
      /\ worker.at \in {"starting", "delivering"}
      /\ worker'.at \in {"planning", "completing"} /\ worker'.run = worker.run
  BY DEF TypeInv, WorkerOK, MarkProvisioning, MarkReady, Goto
<1>2. Undecided' /\ QueueKept' /\ FreshRuns'
  BY <1>1 DEF SettleInv, Undecided, QueueKept, FreshRuns, Queueing, N
<1>3. ASSUME NEW u \in Tenants, tenant'[u].status # "absent", crashes = 0
      PROVE  Covered(u)'
  <2>1. N \in queue
    BY <1>1, <1>3 DEF SettleInv, QueueKept
  <2>2. CASE MarkReady /\ u = T
    <3>1. tenant'[u].status = "ready"
      BY <2>2 DEF TypeInv, TenantsOK, MarkReady
    <3>. QED BY <3>1 DEF Covered
  <2>3. CASE MarkProvisioning /\ u = T
    <3>1. worker'.at = "planning"
      BY <2>3 DEF TypeInv, WorkerOK, Goto, MarkProvisioning
    <3>. QED BY <1>1, <2>1, <2>3, <3>1 DEF Covered, N, T
  <2>4. CASE u # T
    <3>1. tenant'[u] = tenant[u]
      BY <2>4 DEF TypeInv, TenantsOK, MarkReady, MarkProvisioning
    <3>. QED BY <1>1, <1>3, <2>4, <3>1 DEF SettleInv, AllCovered, Covered, N, T
  <2>. QED BY <2>2, <2>3, <2>4
<1>. QED BY <1>1, <1>2, <1>3 DEF SettleInv, AllCovered

LEMMA VerdictKeepsSettling ==
    ASSUME TypeInv, PlaceInv, SettleInv, CompleteRun \/ FailRun  PROVE SettleInv'
<1>1. /\ UNCHANGED <<tenant, queue, started, thread, crashes>>
      /\ worker.at \in {"completing", "failing"}
      /\ worker'.at = "finishing" /\ worker'.run = worker.run
  BY DEF TypeInv, WorkerOK, CompleteRun, FailRun, SetRun, Goto
<1>2. N \in DOMAIN runs /\ N \in started
  BY <1>1 DEF TypeInv, WorkerOK, PlaceInv, N
<1>3. PICK s \in {"succeeded", "failed"} :
         /\ runs' = [runs EXCEPT ![N].status = s]
         /\ worker.at = "failing" => s = "failed"
  BY DEF CompleteRun, FailRun, SetRun
<1>4. /\ DOMAIN runs' = DOMAIN runs
      /\ \A m \in DOMAIN runs \ {N} : runs'[m] = runs[m]
      /\ runs'[N].tenant = runs[N].tenant
  BY <1>2, <1>3, RunWritten DEF TypeInv
<1>5. Undecided' /\ QueueKept'
  BY <1>1, <1>2, <1>4 DEF SettleInv, Undecided, QueueKept, N
<1>6. FreshRuns'
  <2>1. \A c \in Threads : Queueing(c) => thread[c].run \in DOMAIN runs
    BY DEF TypeInv, ThreadsOK, Queueing
  <2>. QED BY <1>1, <1>4, <2>1 DEF SettleInv, FreshRuns, Queueing
<1>7. runs[N].status = "running"
  BY <1>1 DEF SettleInv, Undecided
<1>8. worker.at = "failing" => runs'[N] = [tenant |-> runs[N].tenant, status |-> "failed"]
  <2>1. runs[N] \in RunRows
    BY <1>2, ElementOfSeq, LenProperties DEF TypeInv, RunsOK
  <2>. QED BY <1>2, <1>3, <2>1 DEF RunRows
<1>9. ASSUME NEW u \in Tenants, tenant[u].status # "absent", crashes = 0
      PROVE  Covered(u)'
  <2>1. Covered(u)
    BY <1>9 DEF SettleInv, AllCovered
  <2>2. CASE tenant[u].status = "ready"
             \/ \E c \in Threads :
                   /\ thread[c].tenant = u
                   /\ thread[c].at \in {"clearing", "opening", "queueing"}
    BY <1>1, <2>2 DEF Covered
  <2>3. ASSUME NEW n \in queue, runs[n].tenant = u,
               n = N => worker.at \notin {"completing", "finishing"}
        PROVE  Covered(u)'
    <3>1. CASE n = N
      BY <1>1, <1>2, <1>4, <1>8, <2>3, <3>1 DEF Covered
    <3>2. CASE n # N
      BY <1>1, <1>4, <2>3, <3>2 DEF Covered, N, TypeInv, RunSetsOK
    <3>. QED BY <3>1, <3>2
  <2>4. ASSUME NEW n \in DOMAIN runs, runs[n] = [tenant |-> u, status |-> "failed"]
        PROVE  Covered(u)'
    BY <1>4, <1>7, <2>4 DEF Covered
  <2>. QED BY <2>1, <2>2, <2>3, <2>4 DEF Covered
<1>. QED BY <1>1, <1>5, <1>6, <1>9 DEF SettleInv, AllCovered

LEMMA FinishTaskKeepsSettling ==
    ASSUME TypeInv, SettleInv, FinishTask  PROVE SettleInv'
<1>1. /\ UNCHANGED <<tenant, runs, started, thread, crashes>>
      /\ worker.at = "finishing" /\ worker'.at = "polling"
      /\ queue' = queue \ {N}
  BY DEF FinishTask, IdleWorker
<1>2. Undecided' /\ FreshRuns'
  BY <1>1 DEF SettleInv, Undecided, FreshRuns, Queueing
<1>3. QueueKept'
  BY <1>1 DEF SettleInv, QueueKept
<1>4. AllCovered'
  BY <1>1 DEF SettleInv, AllCovered, Covered
<1>. QED BY <1>2, <1>3, <1>4 DEF SettleInv

LEMMA CrashKeepsSettling ==
    ASSUME TypeInv, SettleInv, WorkerCrash \/ ApiCrash \/ RunnerCrash
    PROVE  SettleInv'
<1>1. crashes' # 0 /\ UNCHANGED <<runs, queue, started>>
  BY DEF TypeInv, BoundsOK, WorkerCrash, ApiCrash, RunnerCrash
<1>2. Undecided'
  BY <1>1 DEF SettleInv, Undecided, N, WorkerCrash, ApiCrash, RunnerCrash, IdleWorker
<1>3. FreshRuns'
  BY <1>1 DEF SettleInv, FreshRuns, Queueing, WorkerCrash, ApiCrash, RunnerCrash,
              IdleThread
<1>. QED BY <1>1, <1>2, <1>3 DEF SettleInv, QueueKept, AllCovered

LEMMA SettleStep == TypeInv /\ PlaceInv /\ SettleInv /\ [Next]_vars => SettleInv'
<1> SUFFICES ASSUME TypeInv, PlaceInv, SettleInv, [Next]_vars  PROVE SettleInv'
  OBVIOUS
<1>1. CASE WritePlan \/ WriteReport \/ SubmitJob \/ JobSucceeds \/ JobFails
  <2>1. UNCHANGED <<tenant, runs, queue, started, thread, crashes>>
    BY <1>1 DEF WritePlan, WriteReport, WriteFile, SubmitJob, JobSucceeds, JobFails
  <2>2. /\ worker.at \in Early /\ worker'.at \in Early \cup {"failing"}
        /\ worker'.run = worker.run
    BY <1>1
    DEF TypeInv, WorkerOK, WritePlan, WriteReport, WriteFile, SubmitJob,
        JobSucceeds, JobFails, Goto, Early
  <2>. QED BY <2>1, <2>2, HandlerKeepsSettling
<1>2. CASE RunnerStep \/ UNCHANGED vars
  BY <1>2, HandlerKeepsSettling
  DEF RunnerStep, DoJob, OpenMarker, WriteMarker, others, vars
<1>. QED
  BY <1>1, <1>2, RequestKeepsSettling, ResetKeepsSettling, OpenRunKeepsSettling,
     EnqueueRunKeepsSettling, TakeRunKeepsSettling, TenantWrittenKeepsSettling,
     VerdictKeepsSettling, FinishTaskKeepsSettling, CrashKeepsSettling
  DEF Next, WorkerStep, ThreadStep

(* No request is lost between racing creates, retries and resets: once     *)
(* nothing is under way and no process has crashed, the tenant is ready or *)
(* one of its runs has failed.                                             *)
THEOREM RequestsSettle == Spec => []SettledTenant
<1>1. Init => SettleInv
  BY DEF Init, SettleInv, Undecided, FreshRuns, Queueing, QueueKept, AllCovered,
         IdleWorker, IdleThread
<1>2. TypeInv /\ PlaceInv /\ SettleInv /\ [Next]_vars
         => (TypeInv /\ PlaceInv /\ SettleInv)'
  BY NextTyped, PlaceInvStep, SettleStep
<1>3. Spec => [](TypeInv /\ PlaceInv /\ SettleInv)
  BY <1>1, <1>2, InitTyped, PlaceInvInit, PTL DEF Spec
<1>4. SettleInv => SettledTenant
  BY DEF SettleInv, AllCovered, Covered, SettledTenant, Settled
<1>. QED BY <1>3, <1>4, PTL
=============================================================================
