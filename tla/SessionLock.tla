----------------------------- MODULE SessionLock -----------------------------
(***************************************************************************)
(* The write lock of a session transcript: a file beside it, made with an  *)
(* exclusive open by whoever takes the lock, and in each process a table   *)
(* of the locks it holds, through which later callers share one.           *)
(*                                                                         *)
(* The actors are the callers of acquireSessionWriteLock for one session   *)
(* file, in several processes, the watchdog of each process, and the       *)
(* cleaner of lock files that a gateway runs when it starts and the doctor *)
(* when it repairs.  A step is what runs between two awaits, or one file   *)
(* operation.                                                              *)
(***************************************************************************)
EXTENDS Integers, FiniteSets

CONSTANTS
    Procs,           \* processes
    Callers,         \* callers of acquireSessionWriteLock
    ProcOf,          \* caller -> its process
    Reentrant,       \* callers that share a lock of their process
    HasStarttime,    \* /proc tells when a process started (Linux)
    LongRuns,        \* maxHoldMs may exceed staleMs
    MaxRequests,     \* bound: calls of acquireSessionWriteLock
    MaxDisturbances  \* bound: what may leave a file behind or take it away

ASSUME LockAssumption ==
    /\ IsFiniteSet(Callers) /\ ProcOf \in [Callers -> Procs]
    /\ Reentrant \subseteq Callers
    /\ HasStarttime \in BOOLEAN /\ LongRuns \in BOOLEAN
    /\ MaxRequests \in Nat /\ MaxDisturbances \in Nat

VARIABLES
    file,       \* the lock file, with the request that made it, or NoFile
    held,       \* HELD_LOCKS: process -> its entry for this session file
    caller,     \* where each caller is and the lock it has or would have
    watchdog,   \* process -> what its watchdog is doing
    cleaner,    \* process -> what its cleaner is doing
    proc,       \* process -> pid and start time
    revoked,    \* locks released over the head of their holders
    requests, disturbances

vars == <<file, held, caller, watchdog, cleaner, proc, revoked, requests,
          disturbances>>

NoLock == 0
NoFile == [lock |-> NoLock]
Idle   == [at |-> "idle", lock |-> NoLock]

Init ==
    /\ file = NoFile
    /\ held = [p \in Procs |-> [lock |-> NoLock, count |-> 0]]
    /\ caller = [c \in Callers |-> Idle]
    /\ watchdog = [p \in Procs |-> "idle"]
    /\ cleaner = [p \in Procs |-> "idle"]
    /\ proc = [p \in Procs |-> [pid |-> 0, starttime |-> 0]]
    /\ revoked = {}
    /\ requests = 0 /\ disturbances = 0

Goto(c, place) ==
    caller' = [caller EXCEPT ![c] = [at |-> place, lock |-> @.lock]]
Return(c) == caller' = [caller EXCEPT ![c] = Idle]
Count(p, n) == held' = [held EXCEPT ![p] = [lock |-> @.lock, count |-> n]]
Drop(p) == held' = [held EXCEPT ![p] = [lock |-> NoLock, count |-> 0]]

-----------------------------------------------------------------------------
(* What an onlooker makes of the file                                      *)

Exists == file # NoFile
Readable == Exists /\ file.written

(* inspectLockPayload of a payload that could be read.                     *)
PidAlive == proc[file.proc].pid = file.pid
PidRecycled ==
    PidAlive /\ HasStarttime /\ proc[file.proc].starttime # file.starttime
Stale == ~PidAlive \/ PidRecycled \/ file.old

(* shouldTreatAsOrphanSelfLock: this process made a file without a start   *)
(* time and does not know of it.                                           *)
OrphanOf(p) ==
    p = file.proc /\ PidAlive /\ ~HasStarttime /\ held[p].lock = NoLock

-----------------------------------------------------------------------------
(* acquireSessionWriteLock                                                 *)

Begin(c) ==
    LET p == ProcOf[c]
    IN  /\ caller[c].at = "idle" /\ requests < MaxRequests
        /\ requests' = requests + 1
        /\ IF c \in Reentrant /\ held[p].lock # NoLock
           THEN /\ Count(p, held[p].count + 1)
                /\ caller' = [caller EXCEPT
                       ![c] = [at |-> "holding", lock |-> held[p].lock]]
           ELSE /\ caller' = [caller EXCEPT
                       ![c] = [at |-> "opening", lock |-> requests + 1]]
                /\ UNCHANGED held
        /\ UNCHANGED <<file, watchdog, cleaner, proc, revoked, disturbances>>

(* The exclusive open, first at once and then after every wait.            *)
Open(c) ==
    LET p == ProcOf[c]
    IN  /\ caller[c].at \in {"opening", "waiting"}
        /\ IF Exists
           THEN Goto(c, "inspecting") /\ UNCHANGED file
           ELSE /\ file' = [lock |-> caller[c].lock, proc |-> p,
                            pid |-> proc[p].pid, starttime |-> proc[p].starttime,
                            written |-> FALSE, old |-> FALSE]
                /\ Goto(c, "writing")
        /\ UNCHANGED <<held, watchdog, cleaner, proc, revoked, requests,
                       disturbances>>

(* The payload goes to the file that was opened, on the disk or not.       *)
Write(c) ==
    /\ caller[c].at = "writing"
    /\ file' = IF file.lock = caller[c].lock
               THEN [file EXCEPT !.written = TRUE] ELSE file
    /\ Goto(c, "written")
    /\ UNCHANGED <<held, watchdog, cleaner, proc, revoked, requests,
                   disturbances>>

WriteFails(c) ==
    /\ caller[c].at = "writing"
    /\ Goto(c, "removing")
    /\ UNCHANGED <<file, held, watchdog, cleaner, proc, revoked, requests,
                   disturbances>>

Hold(c) ==
    /\ caller[c].at = "written"
    /\ held' = [held EXCEPT ![ProcOf[c]] = [lock |-> caller[c].lock, count |-> 1]]
    /\ Goto(c, "holding")
    /\ UNCHANGED <<file, watchdog, cleaner, proc, revoked, requests,
                   disturbances>>

(* readLockPayload and what follows from it at once.                       *)
Inspect(c) ==
    /\ caller[c].at = "inspecting"
    /\ Goto(c, IF ~Readable THEN "statting"
               ELSE IF Stale \/ OrphanOf(ProcOf[c]) THEN "reclaiming"
               ELSE "waiting")
    /\ UNCHANGED <<file, held, watchdog, cleaner, proc, revoked, requests,
                   disturbances>>

(* Mutant: a file without a payload is never stale.                        *)
StatInVain(c) ==
    /\ caller[c].at = "statting"
    /\ Goto(c, "waiting")
    /\ UNCHANGED <<file, held, watchdog, cleaner, proc, revoked, requests,
                   disturbances>>

(* A file without a payload may be one that is being written: its age on   *)
(* the disk decides.                                                       *)
Stat(c) ==
    /\ caller[c].at = "statting"
    /\ Goto(c, IF Exists /\ file.old THEN "reclaiming" ELSE "waiting")
    /\ UNCHANGED <<file, held, watchdog, cleaner, proc, revoked, requests,
                   disturbances>>

(* Whatever file is there by now goes.                                     *)
Reclaim(c) ==
    /\ caller[c].at = "reclaiming"
    /\ file' = NoFile
    /\ Goto(c, "waiting")
    /\ UNCHANGED <<held, watchdog, cleaner, proc, revoked, requests,
                   disturbances>>

(* The time is up, the open ends in another error than EEXIST, or the      *)
(* removal of a stale file fails.                                          *)
GiveUp(c) ==
    /\ caller[c].at \in {"opening", "waiting", "reclaiming"}
    /\ Return(c)
    /\ UNCHANGED <<file, held, watchdog, cleaner, proc, revoked, requests,
                   disturbances>>

-----------------------------------------------------------------------------
(* releaseHeldLock                                                         *)

(* Mutant: the release does not ask whether the lock is still the one it   *)
(* was given.                                                              *)
ReleaseAnyLock(c) ==
    LET p == ProcOf[c]
    IN  /\ caller[c].at = "holding"
        /\ IF held[p].lock = NoLock
           THEN Return(c) /\ UNCHANGED held
           ELSE IF held[p].count > 1
           THEN /\ Count(p, held[p].count - 1)
                /\ Return(c)
           ELSE Drop(p) /\ Goto(c, "removing")
        /\ UNCHANGED <<file, watchdog, cleaner, proc, revoked, requests,
                       disturbances>>

(* By a holder: the last one of a lock that is still in the table removes  *)
(* its file.                                                               *)
Release(c) ==
    LET p == ProcOf[c]
    IN  /\ caller[c].at = "holding"
        /\ IF held[p].lock # caller[c].lock
           THEN Return(c) /\ UNCHANGED held
           ELSE IF held[p].count > 1
           THEN /\ Count(p, held[p].count - 1)
                /\ Return(c)
           ELSE Drop(p) /\ Goto(c, "removing")
        /\ UNCHANGED <<file, watchdog, cleaner, proc, revoked, requests,
                       disturbances>>

Remove(c) ==
    /\ caller[c].at = "removing"
    /\ file' = NoFile
    /\ Return(c)
    /\ UNCHANGED <<held, watchdog, cleaner, proc, revoked, requests,
                   disturbances>>

(* An error of the removal is ignored.                                     *)
RemoveFails(c) ==
    /\ caller[c].at = "removing" /\ disturbances < MaxDisturbances
    /\ Return(c)
    /\ disturbances' = disturbances + 1
    /\ UNCHANGED <<file, held, watchdog, cleaner, proc, revoked, requests>>

(* Mutant: without force the watchdog counts one holder out.               *)
ExpireUnforced(p) ==
    /\ watchdog[p] = "idle" /\ held[p].lock # NoLock
    /\ IF held[p].count > 1
       THEN Count(p, held[p].count - 1) /\ UNCHANGED <<watchdog, revoked>>
       ELSE /\ revoked' = revoked \cup {held[p].lock}
            /\ Drop(p)
            /\ watchdog' = [watchdog EXCEPT ![p] = "removing"]
    /\ UNCHANGED <<file, caller, cleaner, proc, requests, disturbances>>

(* By the watchdog, of a lock that is held for more than maxHoldMs.        *)
Expire(p) ==
    /\ watchdog[p] = "idle" /\ held[p].lock # NoLock
    /\ revoked' = revoked \cup {held[p].lock}
    /\ Drop(p)
    /\ watchdog' = [watchdog EXCEPT ![p] = "removing"]
    /\ UNCHANGED <<file, caller, cleaner, proc, requests, disturbances>>

RemoveExpired(p) ==
    /\ watchdog[p] = "removing"
    /\ file' = NoFile
    /\ watchdog' = [watchdog EXCEPT ![p] = "idle"]
    /\ UNCHANGED <<held, caller, cleaner, proc, revoked, requests,
                   disturbances>>

-----------------------------------------------------------------------------
(* cleanStaleLockFiles                                                     *)

CleanList(p) ==
    /\ cleaner[p] = "idle" /\ Exists /\ disturbances < MaxDisturbances
    /\ cleaner' = [cleaner EXCEPT ![p] = "listed"]
    /\ disturbances' = disturbances + 1
    /\ UNCHANGED <<file, held, caller, watchdog, proc, revoked, requests>>

CleanRead(p) ==
    /\ cleaner[p] = "listed"
    /\ cleaner' = [cleaner EXCEPT
           ![p] = IF Readable /\ ~Stale THEN "idle" ELSE "removing"]
    /\ UNCHANGED <<file, held, caller, watchdog, proc, revoked, requests,
                   disturbances>>

CleanRemove(p) ==
    /\ cleaner[p] = "removing"
    /\ file' = NoFile
    /\ cleaner' = [cleaner EXCEPT ![p] = "idle"]
    /\ UNCHANGED <<held, caller, watchdog, proc, revoked, requests,
                   disturbances>>

-----------------------------------------------------------------------------
(* Processes and time                                                      *)

(* A process is gone and another is in its place, under its pid (as in a   *)
(* container) or not.  Killed, it leaves its file; on an exit, and on a    *)
(* signal nobody else listens to, it removes the file of a lock it holds.  *)
Restart(p, pid, orderly) ==
    /\ disturbances < MaxDisturbances
    /\ disturbances' = disturbances + 1
    /\ proc' = [proc EXCEPT ![p] = [pid |-> pid, starttime |-> @.starttime + 1]]
    /\ Drop(p)
    /\ file' = IF orderly /\ held[p].lock # NoLock THEN NoFile ELSE file
    /\ caller' = [c \in Callers |-> IF ProcOf[c] = p THEN Idle ELSE caller[c]]
    /\ watchdog' = [watchdog EXCEPT ![p] = "idle"]
    /\ cleaner' = [cleaner EXCEPT ![p] = "idle"]
    /\ UNCHANGED <<revoked, requests>>

(* On a signal somebody else listens to, as the gateway's own loop does,   *)
(* the process gives its locks up and its callers go on.                   *)
Signal(p) ==
    /\ held[p].lock # NoLock /\ disturbances < MaxDisturbances
    /\ disturbances' = disturbances + 1
    /\ revoked' = revoked \cup {held[p].lock}
    /\ Drop(p)
    /\ file' = NoFile
    /\ UNCHANGED <<caller, watchdog, cleaner, proc, requests>>

(* Some caller is about the file: it takes, holds or removes the lock.     *)
InUse ==
    \/ \E c \in Callers :
          /\ caller[c].lock = file.lock
          /\ caller[c].at \in {"writing", "written", "removing"}
    \/ \E p \in Procs : held[p].lock = file.lock /\ ~LongRuns
    \/ \E p \in Procs : watchdog[p] = "removing"

(* More than staleMs since the file was made.  The watchdog ends a hold of *)
(* the default length well before.                                         *)
GrowOld ==
    /\ Exists /\ ~file.old /\ ~InUse
    /\ file' = [file EXCEPT !.old = TRUE]
    /\ UNCHANGED <<held, caller, watchdog, cleaner, proc, revoked, requests,
                   disturbances>>

-----------------------------------------------------------------------------

Acquire(c) ==
    \/ Open(c) \/ Write(c) \/ WriteFails(c) \/ Hold(c)
    \/ Inspect(c) \/ Stat(c) \/ Reclaim(c)

Leave(c) == Release(c) \/ Remove(c) \/ RemoveFails(c)

Clean(p) == CleanRead(p) \/ CleanRemove(p)

Next ==
    \/ \E c \in Callers : Begin(c) \/ Acquire(c) \/ GiveUp(c) \/ Leave(c)
    \/ \E p \in Procs :
          \/ Expire(p) \/ RemoveExpired(p) \/ CleanList(p) \/ Clean(p)
          \/ Signal(p)
          \/ \E pid \in {proc[p].pid, proc[p].pid + 1}, orderly \in BOOLEAN :
                Restart(p, pid, orderly)
    \/ GrowOld

(* A caller comes back from every await, its caller releases in a finally, *)
(* and time passes.  Nothing makes a caller arrive or give up.             *)
Fairness ==
    /\ \A c \in Callers : WF_vars(Acquire(c)) /\ WF_vars(Leave(c))
    /\ \A p \in Procs : WF_vars(RemoveExpired(p)) /\ WF_vars(Clean(p))
    /\ WF_vars(GrowOld)

Spec == Init /\ [][Next]_vars /\ Fairness

-----------------------------------------------------------------------------
(* Properties.                                                             *)

Places == {"idle", "opening", "waiting", "inspecting", "statting",
           "reclaiming", "writing", "written", "holding", "removing"}

(* The type of the state.                                                  *)
TypeOK ==
    /\ file = NoFile \/ file \in
          [lock : 1..requests, proc : Procs, pid : Nat, starttime : Nat,
           written : BOOLEAN, old : BOOLEAN]
    /\ held \in [Procs -> [lock : 0..requests, count : Nat]]
    /\ caller \in [Callers -> [at : Places, lock : 0..requests]]
    /\ watchdog \in [Procs -> {"idle", "removing"}]
    /\ cleaner \in [Procs -> {"idle", "listed", "removing"}]
    /\ proc \in [Procs -> [pid : Nat, starttime : Nat]]
    /\ revoked \subseteq 1..requests
    /\ requests \in 0..MaxRequests /\ disturbances \in 0..MaxDisturbances

Writes(c) == caller[c].at = "holding"

(* The lock of c was released while c held it.  Nothing tells c: neither   *)
(* the watchdog nor the signal handler stops a holder, and a caller that   *)
(* came to share a lock is timed from when the first one took it.          *)
Overrun(c) == caller[c].lock \in revoked

(* CHANGELOG.md:3464 says that session locks are single-writer.  They are, *)
(* with one exception beside the accidents: callers that write at once do  *)
(* so under one lock of one process, whoever waits, times out or fails to  *)
(* write its payload, except that a caller the watchdog has released the   *)
(* lock of writes on, beside those who take the lock next.  The accidents  *)
(* are a file left behind or taken away: a process dies or gets a signal,  *)
(* a removal fails, stale files are cleaned.  It needs the start time of   *)
(* processes, and holds that end before a file counts as stale.            *)
SingleWriter ==
    disturbances = 0 /\ HasStarttime /\ ~LongRuns =>
        \A c, d \in Callers : Writes(c) /\ Writes(d) =>
            \/ caller[c].lock = caller[d].lock
            \/ Overrun(c) \/ Overrun(d)

(* The callers of process p that hold the lock in its table.               *)
Sharers(p) ==
    {c \in Callers :
        /\ ProcOf[c] = p
        /\ caller[c] = [at |-> "holding", lock |-> held[p].lock]}

(* The table counts exactly the callers that hold its lock, so that the    *)
(* last of them and no earlier one removes the file, and the release of a  *)
(* lock that was taken away counts nobody out of a later one.              *)
SharedUntilLast ==
    \A p \in Procs :
        held[p].lock # NoLock => held[p].count = Cardinality(Sharers(p))

Trying(c) ==
    caller[c].at \in {"opening", "waiting", "inspecting", "statting",
                      "reclaiming", "writing", "written"}

(* No lock is lost: whatever a process that died, a removal that failed or *)
(* a cleaner left on the disk, a caller that does not give up gets in.     *)
WaitersGetIn == \A c \in Callers : Trying(c) ~> ~Trying(c)

(* CHANGELOG.md:3464 as it stands.                                         *)
AlwaysSingleWriter ==
    \A c, d \in Callers : Writes(c) /\ Writes(d) =>
        caller[c].lock = caller[d].lock
=============================================================================
