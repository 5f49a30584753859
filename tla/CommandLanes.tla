---------------------------- MODULE CommandLanes ----------------------------
(***************************************************************************)
(* The gateway's command queue: lanes that run their commands in order and *)
(* at most so many at a time, and the restart inside the process, which    *)
(* drains them, gives up after a while and resets them.                    *)
(*                                                                         *)
(* An agent run is two commands, one inside the other: the one in the lane *)
(* of its session waits for the one it puts into a global lane.  A run is  *)
(* queued once in each, so a lane's queue is a sequence of runs and the    *)
(* lane says which command is meant.                                       *)
(*                                                                         *)
(* The code between two awaits is one step of the event loop.  Its only    *)
(* part that is more than one action here is the pump: toDrain holds the   *)
(* lanes it still has to visit, and nothing else happens until it is empty.*)
(***************************************************************************)
EXTENDS Naturals, Sequences, FiniteSets

CONSTANTS
    Runs,           \* agent runs
    SessionLanes,   \* "session:<key>"
    GlobalLanes,    \* "main", "cron", "subagent", ...
    SessionLane,    \* run -> lane of its session
    GlobalLane,     \* run -> global lane
    MaxConcurrency  \* bound: the highest concurrency a config reload sets

Lanes == SessionLanes \cup GlobalLanes

ASSUME LanesAssumption ==
    /\ IsFiniteSet(Runs)
    /\ SessionLanes \cap GlobalLanes = {}
    /\ SessionLane \in [Runs -> SessionLanes]
    /\ GlobalLane \in [Runs -> GlobalLanes]
    /\ MaxConcurrency \in Nat \ {0}

VARIABLES
    queue,           \* lane -> runs whose command waits there
    active,          \* lane -> runs whose command the lane counts as executing
    stale,           \* <<lane, run>>: executing since before a reset
    maxConcurrent,   \* lane -> how many may execute at a time
    toDrain,         \* lanes the pump has yet to visit
    turn,            \* run -> what became of its session command
    inner,           \* run -> what became of its global command
    gatewayDraining, \* new commands are refused
    phase,           \* where the gateway's run loop is
    waitingFor       \* commands the drain waits for

vars == <<queue, active, stale, maxConcurrent, toDrain, turn, inner,
          gatewayDraining, phase, waitingFor>>

laneVars == <<queue, active, stale, maxConcurrent, toDrain>>
loopVars == <<gatewayDraining, phase, waitingFor>>

(* A command is new, then accepted (queued or executing), then settled.    *)
Settled  == {"ok", "error", "cleared", "refused"}
Outcomes == {"new", "accepted"} \cup Settled

Init ==
    /\ queue  = [l \in Lanes |-> <<>>]
    /\ active = [l \in Lanes |-> {}]
    /\ stale  = {}
    /\ maxConcurrent = [l \in Lanes |-> 1]
    /\ toDrain = {}
    /\ turn  = [r \in Runs |-> "new"]
    /\ inner = [r \in Runs |-> "new"]
    /\ gatewayDraining = FALSE
    /\ phase = "serving"
    /\ waitingFor = {}

Quiet == toDrain = {}

-----------------------------------------------------------------------------
(* drainLane and its pump                                                  *)

(* Mutant: one command too many.                                           *)
RoomForOneMore(l) == Cardinality(active[l]) <= maxConcurrent[l]

Room(l) == Cardinality(active[l]) < maxConcurrent[l]

(* Take the next run of a session's lane.  Its command at once puts the    *)
(* run's other command into the global lane, unless the gateway refuses.   *)
PumpSession(l) ==
    /\ l \in toDrain \cap SessionLanes
    /\ Room(l) /\ queue[l] # <<>>
    /\ LET r == Head(queue[l])
           g == GlobalLane[r]
       IN  /\ active' = [active EXCEPT ![l] = @ \cup {r}]
           /\ IF gatewayDraining
              THEN /\ queue' = [queue EXCEPT ![l] = Tail(@)]
                   /\ inner' = [inner EXCEPT ![r] = "refused"]
                   /\ UNCHANGED toDrain
              ELSE /\ queue' = [queue EXCEPT ![l] = Tail(@),
                                             ![g] = Append(@, r)]
                   /\ inner' = [inner EXCEPT ![r] = "accepted"]
                   /\ toDrain' = toDrain \cup {g}
    /\ UNCHANGED <<stale, maxConcurrent, turn, loopVars>>

PumpGlobal(l) ==
    /\ l \in toDrain \cap GlobalLanes
    /\ Room(l) /\ queue[l] # <<>>
    /\ active' = [active EXCEPT ![l] = @ \cup {Head(queue[l])}]
    /\ queue' = [queue EXCEPT ![l] = Tail(@)]
    /\ UNCHANGED <<stale, maxConcurrent, toDrain, turn, inner, loopVars>>

PumpDone(l) ==
    /\ l \in toDrain
    /\ ~(Room(l) /\ queue[l] # <<>>)
    /\ toDrain' = toDrain \ {l}
    /\ UNCHANGED <<queue, active, stale, maxConcurrent, turn, inner, loopVars>>

-----------------------------------------------------------------------------
(* Commands                                                                *)

(* An inbound message, a cron job or a subagent asks for a run.            *)
Enqueue(r) ==
    /\ Quiet /\ turn[r] = "new"
    /\ IF gatewayDraining
       THEN /\ turn' = [turn EXCEPT ![r] = "refused"]
            /\ UNCHANGED <<queue, toDrain>>
       ELSE /\ turn' = [turn EXCEPT ![r] = "accepted"]
            /\ queue' = [queue EXCEPT ![SessionLane[r]] = Append(@, r)]
            /\ toDrain' = {SessionLane[r]}
    /\ UNCHANGED <<active, stale, maxConcurrent, inner, loopVars>>

(* Mutant: the end of a command does not set the next one going.           *)
CompleteWithoutPump(l, r) ==
    /\ IF r \in active[l]
       THEN active' = [active EXCEPT ![l] = @ \ {r}] /\ UNCHANGED stale
       ELSE stale' = stale \ {<<l, r>>} /\ UNCHANGED active
    /\ UNCHANGED <<queue, maxConcurrent, toDrain, loopVars>>

(* completeTask: a command of an earlier generation frees nothing.         *)
Complete(l, r) ==
    /\ IF r \in active[l]
       THEN /\ active' = [active EXCEPT ![l] = @ \ {r}]
            /\ toDrain' = {l}
            /\ UNCHANGED stale
       ELSE /\ stale' = stale \ {<<l, r>>}
            /\ UNCHANGED <<active, toDrain>>
    /\ UNCHANGED <<queue, maxConcurrent, loopVars>>

Executing(l, r) == r \in active[l] \/ <<l, r>> \in stale

FinishGlobal(r) ==
    /\ Quiet
    /\ Executing(GlobalLane[r], r)
    /\ Complete(GlobalLane[r], r)
    /\ \E result \in {"ok", "error"} : inner' = [inner EXCEPT ![r] = result]
    /\ UNCHANGED turn

(* The session's command ends as the one it waited for did.                *)
FinishSession(r) ==
    /\ Quiet
    /\ Executing(SessionLane[r], r)
    /\ inner[r] \in Settled
    /\ Complete(SessionLane[r], r)
    /\ turn' = [turn EXCEPT ![r] = IF inner[r] = "ok" THEN "ok" ELSE "error"]
    /\ UNCHANGED inner

(* clearCommandLane: stop, interrupt or reset of a session rejects what it *)
(* has waiting.                                                            *)
Clear(l) ==
    /\ Quiet /\ queue[l] # <<>>
    /\ turn' = [r \in Runs |->
                  IF \E i \in DOMAIN queue[l] : queue[l][i] = r
                  THEN "cleared" ELSE turn[r]]
    /\ queue' = [queue EXCEPT ![l] = <<>>]
    /\ UNCHANGED <<active, stale, maxConcurrent, toDrain, inner, loopVars>>

(* A hot reload of the configuration.                                      *)
SetConcurrency(l, n) ==
    /\ Quiet /\ maxConcurrent[l] # n
    /\ maxConcurrent' = [maxConcurrent EXCEPT ![l] = n]
    /\ toDrain' = {l}
    /\ UNCHANGED <<queue, active, stale, turn, inner, loopVars>>

-----------------------------------------------------------------------------
(* The restart inside the process                                          *)

AllActive == {c \in Lanes \X Runs : c[2] \in active[c[1]]}

RequestRestart ==
    /\ Quiet /\ phase = "serving"
    /\ gatewayDraining' = TRUE
    /\ waitingFor' = AllActive
    /\ phase' = "draining"
    /\ UNCHANGED <<laneVars, turn, inner>>

(* waitForActiveTasks sees none of its commands left, or gives up.         *)
Drained ==
    /\ Quiet /\ phase = "draining"
    /\ waitingFor \cap AllActive = {}
    /\ phase' = "closing" /\ waitingFor' = {}
    /\ UNCHANGED <<laneVars, turn, inner, gatewayDraining>>

DrainTimeout ==
    /\ Quiet /\ phase = "draining"
    /\ waitingFor \cap AllActive # {}
    /\ phase' = "closing" /\ waitingFor' = {}
    /\ UNCHANGED <<laneVars, turn, inner, gatewayDraining>>

(* Mutants: the reset does not drain the lanes again, or empties them.     *)
ResetWithoutDrain ==
    /\ Quiet /\ phase = "closing"
    /\ phase' = "serving"
    /\ gatewayDraining' = FALSE
    /\ stale' = stale \cup AllActive
    /\ active' = [l \in Lanes |-> {}]
    /\ UNCHANGED <<queue, maxConcurrent, toDrain, turn, inner, waitingFor>>

ResetEmptying ==
    /\ Quiet /\ phase = "closing"
    /\ phase' = "serving"
    /\ gatewayDraining' = FALSE
    /\ stale' = stale \cup AllActive
    /\ active' = [l \in Lanes |-> {}]
    /\ queue' = [l \in Lanes |-> <<>>]
    /\ UNCHANGED <<maxConcurrent, toDrain, turn, inner, waitingFor>>

(* resetAllLanes, at the head of the next iteration of the loop.           *)
ResetAllLanes ==
    /\ Quiet /\ phase = "closing"
    /\ phase' = "serving"
    /\ gatewayDraining' = FALSE
    /\ stale' = stale \cup AllActive
    /\ active' = [l \in Lanes |-> {}]
    /\ toDrain' = {l \in Lanes : queue[l] # <<>>}
    /\ UNCHANGED <<queue, maxConcurrent, turn, inner, waitingFor>>

-----------------------------------------------------------------------------
Pump == \E l \in Lanes : PumpSession(l) \/ PumpGlobal(l) \/ PumpDone(l)

Next ==
    \/ Pump
    \/ \E r \in Runs : Enqueue(r) \/ FinishGlobal(r) \/ FinishSession(r)
    \/ \E l \in SessionLanes : Clear(l)
    \/ \E l \in GlobalLanes, n \in 1..MaxConcurrency : SetConcurrency(l, n)
    \/ RequestRestart \/ Drained \/ DrainTimeout \/ ResetAllLanes

Spec == Init /\ [][Next]_vars

(* The pump is synchronous code.  A command ends: its agent run has a      *)
(* timeout.  The latch of the pump disables the ends of commands for a     *)
(* moment again and again, hence the strong fairness.                      *)
FairSpec ==
    /\ Spec
    /\ WF_vars(Pump)
    /\ \A r \in Runs : SF_vars(FinishGlobal(r)) /\ SF_vars(FinishSession(r))

-----------------------------------------------------------------------------
(* Properties                                                              *)

(* The type of the state.                                                  *)
TypeOK ==
    /\ queue \in [Lanes -> Seq(Runs)]
    /\ active \in [Lanes -> SUBSET Runs]
    /\ stale \subseteq Lanes \X Runs
    /\ maxConcurrent \in [Lanes -> Nat \ {0}]
    /\ toDrain \subseteq Lanes
    /\ turn \in [Runs -> Outcomes]
    /\ inner \in [Runs -> Outcomes]
    /\ gatewayDraining \in BOOLEAN
    /\ phase \in {"serving", "draining", "closing"}
    /\ waitingFor \subseteq Lanes \X Runs

(* Whenever the event loop turns, a lane with waiting commands is full: no *)
(* operation - an end, an error, a reload, a clear, a reset - leaves a     *)
(* waiting command beside a free slot, where only a later command would    *)
(* set it going.                                                           *)
NoIdleLane ==
    \A l \in Lanes :
        (queue[l] # <<>> /\ l \notin toDrain) =>
            Cardinality(active[l]) >= maxConcurrent[l]

(* Where the command of a run is in lane l.                                *)
InQueue(l, r) == \E i \in DOMAIN queue[l] : queue[l][i] = r

(* A command that was accepted and has not settled is in exactly one       *)
(* place, a settled one in none: clear, reset and late ends lose nothing   *)
(* and settle nothing twice.                                               *)
PlacedOnce(l, r, accepted) ==
    /\ (InQueue(l, r) \/ r \in active[l] \/ <<l, r>> \in stale) <=> accepted
    /\ ~(InQueue(l, r) /\ Executing(l, r))
    /\ ~(r \in active[l] /\ <<l, r>> \in stale)
    /\ \A i, j \in DOMAIN queue[l] :
          (queue[l][i] = r /\ queue[l][j] = r) => i = j

CommandsAreKept ==
    \A r \in Runs :
        /\ PlacedOnce(SessionLane[r], r, turn[r] = "accepted")
        /\ PlacedOnce(GlobalLane[r], r, inner[r] = "accepted")
        /\ inner[r] = "accepted" => Executing(SessionLane[r], r)

(* Two runs of one session are under way together only if a restart gave   *)
(* up waiting for one of them.                                             *)
OneRunPerSession ==
    \A r, q \in Runs :
        (/\ r # q /\ SessionLane[r] = SessionLane[q]
         /\ inner[r] = "accepted" /\ inner[q] = "accepted")
            => \/ <<SessionLane[r], r>> \in stale
               \/ <<SessionLane[q], q>> \in stale

(* Every accepted command settles in the end, whatever is reloaded,        *)
(* cleared or restarted meanwhile.                                         *)
EveryRunSettles ==
    \A r \in Runs : (turn[r] = "accepted") ~> (turn[r] \in Settled)

(* "Queued entries are intentionally preserved": what waits when a restart *)
(* is requested is still executed after it.                                *)
QueuedWorkSurvives ==
    [][\A r \in Runs : (InQueue(SessionLane[r], r) /\ inner[r] # inner'[r])
                          => inner'[r] # "refused"]_vars
=============================================================================
