---------------------------- MODULE FollowupQueue ----------------------------
(***************************************************************************)
(* The messages of one chat session that arrive while its agent is busy:   *)
(* the followup queue of the gateway, the drain that turns it into further *)
(* agent turns, and the handlers of inbound messages that fill it.         *)
(*                                                                         *)
(* The queue is an object in a map.  A drain holds on to the object it     *)
(* began with, while a stop command takes that object out of the map and a *)
(* later message puts a new one in: hence a sequence of objects, and       *)
(* current for the one in the map.                                         *)
(*                                                                         *)
(* A step is what runs between two awaits that wait for I/O, a timer or an *)
(* agent; awaits that only yield to promises already settled do not end a  *)
(* step.  The agent turns of the session are serialised by its lane, see   *)
(* CommandLanes: the head of lane executes, the others wait.               *)
(***************************************************************************)
EXTENDS Naturals, Sequences, FiniteSets, SequencesExt

CONSTANTS
    Msgs,       \* inbound messages, each with an id of its own
    Origin,     \* message -> channel, chat and thread it came from
    Settings,   \* queue settings the session may be configured with
    MaxFails,   \* bound: followup turns whose reply cannot be delivered
    MaxUnbegun, \* bound: messages at which no more turns fail unbegun
    MaxClears   \* bound: stop commands

Objects == 1..Cardinality(Msgs)
Modes   == {"followup", "collect"}
Drops   == {"old", "new", "summarize"}

ASSUME FollowupAssumption ==
    /\ IsFiniteSet(Msgs) /\ DOMAIN Origin = Msgs
    /\ Msgs \cap Objects = {}    \* a turn in the lane is one or the other
    /\ Settings \subseteq [mode : Modes, drop : Drops, cap : Nat \ {0}]
    /\ MaxFails \in Nat /\ MaxUnbegun \in Nat /\ MaxClears \in Nat

VARIABLES
    settings,   \* those of the session: mode, drop policy, cap
    objects,    \* queue objects made so far
    current,    \* the one in FOLLOWUP_QUEUES, or 0
    callback,   \* FOLLOWUP_RUN_CALLBACKS has an entry
    drain,      \* the drain of each object: position and locals
    lane,       \* turns in the session's lane: a message or an object each
    handler,    \* position of the handler of each message
    accepted,   \* messages in the order they were queued
    told,       \* how often a message was part of a turn's prompt
    mentioned,  \* messages a summary told the agent of
    discarded,  \* messages the drop policy let go of
    missed,     \* messages of a followup turn that failed before it began
    overflows, fails, clears

queueVars == <<objects, current, callback, drain>>
history   == <<accepted, told, mentioned, discarded, missed>>
counters  == <<overflows, fails, clears>>
vars == <<settings, queueVars, lane, handler, history, counters>>

NewObject == [items |-> <<>>, draining |-> FALSE, droppedCount |-> 0,
              summaryLines |-> <<>>, lastRun |-> FALSE]
NoDrain == [at |-> "idle", force |-> FALSE, kind |-> "one", batch |-> <<>>,
            lines |-> <<>>]

Init ==
    /\ settings \in Settings
    /\ objects = <<>> /\ current = 0 /\ callback = FALSE
    /\ drain = [q \in Objects |-> NoDrain]
    /\ lane = <<>>
    /\ handler = [m \in Msgs |-> "new"]
    /\ accepted = <<>>
    /\ told = [m \in Msgs |-> 0]
    /\ mentioned = {} /\ discarded = {} /\ missed = {}
    /\ overflows = 0 /\ fails = 0 /\ clears = 0

At(t) == IF t \in Msgs THEN handler[t] ELSE drain[t].at

(* isEmbeddedPiRunActive: the turn that executes has started its attempt.  *)
IsActive == lane # <<>> /\ At(Head(lane)) = "active"

-----------------------------------------------------------------------------
(* scheduleFollowupDrain: begin a drain of the object in the map, unless   *)
(* there is none or it is being drained.                                   *)
ScheduleDrain(objs, cur, dr) ==
    /\ current' = cur
    /\ IF cur # 0 /\ ~objs[cur].draining
       THEN /\ objects' = [objs EXCEPT ![cur].draining = TRUE]
            /\ drain' = [dr EXCEPT ![cur] = [NoDrain EXCEPT !.at = "debounce"]]
            /\ callback' = TRUE
       ELSE objects' = objs /\ drain' = dr /\ UNCHANGED callback

(* applyQueueDropPolicy, on an object that is full.                        *)
Overflowing(o) == Len(o.items) >= settings.cap
(* Mutant: dropped messages are counted down.                              *)
OverflowMiscounted(o) ==
    LET n == Len(o.items) - settings.cap + 1
    IN  IF settings.drop = "summarize"
        THEN [o EXCEPT !.items = SubSeq(@, n + 1, Len(@)), !.droppedCount = @ - n,
                       !.summaryLines = SubSeq(o.items, 1, n)]
        ELSE [o EXCEPT !.items = SubSeq(@, n + 1, Len(@))]

Overflow(o) ==
    LET n == Len(o.items) - settings.cap + 1
        dropped == SubSeq(o.items, 1, n)
        lines == o.summaryLines \o dropped
        kept == IF Len(lines) > settings.cap
                THEN SubSeq(lines, Len(lines) - settings.cap + 1, Len(lines))
                ELSE lines
        rest == [o EXCEPT !.items = SubSeq(@, n + 1, Len(@))]
    IN  IF settings.drop = "summarize"
        THEN [rest EXCEPT !.droppedCount = @ + n, !.summaryLines = kept]
        ELSE rest

(* The messages an overflow lets go of, or whose line it cuts.             *)
LetGo(o) == IF settings.drop = "summarize"
            THEN ToSet(o.summaryLines) \ ToSet(Overflow(o).summaryLines)
            ELSE ToSet(o.items) \ ToSet(Overflow(o).items)

(* Mutant: a message is put before those that wait.                        *)
PushFront(o, m) == [o EXCEPT !.items = <<m>> \o @]

Push(o, m) == [o EXCEPT !.items = Append(@, m)]

(* enqueueFollowupRun                                                      *)
EnqueueFollowupRun(m) ==
    LET fresh == current = 0
        objs == IF fresh THEN Append(objects, NewObject) ELSE objects
        cur == IF fresh THEN Len(objs) ELSE current
        o == [objs[cur] EXCEPT !.lastRun = TRUE]
        roomy == IF Overflowing(o) THEN Overflow(o) ELSE o
        pushed == Push(roomy, m)
    IN  IF Overflowing(o) /\ settings.drop = "new"
        THEN /\ objects' = [objs EXCEPT ![cur] = o]
             /\ discarded' = discarded \cup {m}
             /\ UNCHANGED <<current, callback, drain, accepted, overflows>>
        ELSE /\ IF callback
                THEN ScheduleDrain([objs EXCEPT ![cur] = pushed], cur, drain)
                ELSE /\ objects' = [objs EXCEPT ![cur] = pushed]
                     /\ current' = cur
                     /\ UNCHANGED <<callback, drain>>
             /\ accepted' = Append(accepted, m)
             /\ IF Overflowing(o)
                THEN /\ discarded' = discarded \cup LetGo(o)
                     /\ overflows' = overflows + 1
                ELSE UNCHANGED <<discarded, overflows>>

-----------------------------------------------------------------------------
(* Inbound messages                                                        *)

(* The handler looks whether a turn is active, then awaits the auth        *)
(* profile before it acts on what it saw.                                  *)
Arrive(m) ==
    /\ handler[m] = "new"
    /\ handler' = [handler EXCEPT ![m] = IF IsActive THEN "sawActive"
                                                     ELSE "sawIdle"]
    /\ UNCHANGED <<settings, queueVars, lane, history, counters>>

RunNow(m) ==
    /\ handler[m] = "sawIdle"
    /\ handler' = [handler EXCEPT ![m] = "waiting"]
    /\ lane' = Append(lane, m)
    /\ UNCHANGED <<settings, queueVars, history, counters>>

EnqueueFollowup(m) ==
    /\ handler[m] = "sawActive"
    /\ handler' = [handler EXCEPT ![m] = "queued"]
    /\ EnqueueFollowupRun(m)
    /\ UNCHANGED <<settings, lane, told, mentioned, missed, fails, clears>>

(* The message's own turn becomes active, ends, and is finalised, which    *)
(* starts a drain of what was queued meanwhile.                            *)
BeginOwn(m) ==
    /\ lane # <<>> /\ Head(lane) = m /\ handler[m] = "waiting"
    /\ handler' = [handler EXCEPT ![m] = "active"]
    /\ told' = [told EXCEPT ![m] = @ + 1]
    /\ UNCHANGED <<settings, queueVars, lane, accepted, mentioned, discarded,
                   missed, counters>>

EndOwn(m) ==
    /\ handler[m] = "active"
    /\ handler' = [handler EXCEPT ![m] = "ended"]
    /\ lane' = Tail(lane)
    /\ UNCHANGED <<settings, queueVars, history, counters>>

(* The messages that a turn was to have and that never began.              *)
Unbegun == missed \cup {m \in Msgs : handler[m] \in {"ended", "done"}
                                        /\ told[m] = 0}
MayFail == Cardinality(Unbegun) < MaxUnbegun

(* A turn may fail before it begins: it is refused while the gateway       *)
(* drains or no auth profile of the model is out of its cooldown, or, once *)
(* it executes, waits in vain for the session's write lock or finds no key *)
(* or model.  The sender gets an error as the reply, and the message is    *)
(* finalised as ever.                                                      *)
OwnRefused(m) ==
    /\ handler[m] = "sawIdle" /\ MayFail
    /\ handler' = [handler EXCEPT ![m] = "ended"]
    /\ UNCHANGED <<settings, queueVars, lane, history, counters>>

OwnFails(m) ==
    /\ lane # <<>> /\ Head(lane) = m /\ handler[m] = "waiting" /\ MayFail
    /\ handler' = [handler EXCEPT ![m] = "ended"]
    /\ lane' = Tail(lane)
    /\ UNCHANGED <<settings, queueVars, history, counters>>

Finalize(m) ==
    /\ handler[m] = "ended"
    /\ handler' = [handler EXCEPT ![m] = "done"]
    /\ ScheduleDrain(objects, current, drain)
    /\ UNCHANGED <<settings, lane, history, counters>>

-----------------------------------------------------------------------------
(* The drain of object q                                                   *)

HasWork(o) == o.items # <<>> \/ o.droppedCount > 0
CrossChannel(o) == Cardinality({Origin[m] : m \in ToSet(o.items)}) > 1

(* The turn a drain asks for next: the prompts in it, the summary in it.   *)
One(o)     == [kind |-> "one", batch |-> <<Head(o.items)>>, lines |-> <<>>]
Collect(o) == [kind |-> "collect", batch |-> o.items, lines |-> o.summaryLines]
Summary(o) == [kind |-> "summary", batch |-> <<>>, lines |-> o.summaryLines]

Singly(q) == drain[q].force \/ CrossChannel(objects[q])

NextTurn(q) ==
    LET o == objects[q]
    IN  IF settings.mode = "collect"
        THEN IF Singly(q) THEN One(o) ELSE Collect(o)
        ELSE IF o.droppedCount > 0 THEN Summary(o) ELSE One(o)

(* Mutant: a single item is not enough for a turn.                         *)
CanTurnOfTwo(q) == Len(objects[q].items) > 1

(* A turn for one item needs an item, a collected one a run to borrow.     *)
CanTurn(q) ==
    \/ objects[q].items # <<>>
    \/ settings.mode = "collect" /\ ~Singly(q) /\ objects[q].lastRun

(* Mutant: the queue goes whatever is left in it.                          *)
FinallyForgetting(q, o) ==
    /\ objects' = [objects EXCEPT ![q] = [o EXCEPT !.draining = FALSE]]
    /\ drain' = [drain EXCEPT ![q] = NoDrain]
    /\ current' = 0 /\ UNCHANGED callback

(* The end of a drain: it drops its queue from the map - by key, so it may *)
(* be another object by now - or schedules the drain anew.                 *)
Finally(q, o) ==
    LET objs == [objects EXCEPT ![q] = [o EXCEPT !.draining = FALSE]]
        dr == [drain EXCEPT ![q] = NoDrain]
    IN  IF HasWork(o)
        THEN ScheduleDrain(objs, current, dr)
        ELSE objects' = objs /\ drain' = dr /\ current' = 0 /\ UNCHANGED callback

(* The drain asks for its next turn, which gets as far as position p.      *)
AskForTurn(q, p) ==
    LET t == NextTurn(q)
    IN  /\ drain' = [drain EXCEPT ![q] =
              [at |-> p, kind |-> t.kind, batch |-> t.batch, lines |-> t.lines,
               force |-> @.force \/ (settings.mode = "collect"
                                     /\ CrossChannel(objects[q]))]]
        /\ UNCHANGED <<objects, current, callback>>

(* After the debounce: hand the next turn to the lane, or leave the loop.  *)
NextStep(q) ==
    /\ drain[q].at = "debounce"
    /\ IF CanTurn(q)
       THEN AskForTurn(q, "waiting") /\ lane' = Append(lane, q)
       ELSE Finally(q, objects[q]) /\ UNCHANGED lane
    /\ UNCHANGED <<settings, handler, history, counters>>

(* A followup turn that fails before it begins, see OwnRefused, is logged  *)
(* by the followup runner, which then returns as from one that had nothing *)
(* to deliver: the drain takes it for done.                                *)
FollowupRefused(q) ==
    /\ drain[q].at = "debounce" /\ CanTurn(q) /\ MayFail
    /\ AskForTurn(q, "rejected")
    /\ missed' = missed \cup ToSet(drain'[q].batch) \cup ToSet(drain'[q].lines)
    /\ UNCHANGED <<settings, lane, handler, accepted, told, mentioned,
                   discarded, counters>>

FollowupMissed(q) ==
    /\ lane # <<>> /\ Head(lane) = q /\ drain[q].at = "waiting" /\ MayFail
    /\ drain' = [drain EXCEPT ![q].at = "rejected"]
    /\ lane' = Tail(lane)
    /\ missed' = missed \cup ToSet(drain[q].batch) \cup ToSet(drain[q].lines)
    /\ UNCHANGED <<settings, objects, current, callback, handler, accepted,
                   told, mentioned, discarded, counters>>

BeginFollowup(q) ==
    /\ lane # <<>> /\ Head(lane) = q /\ drain[q].at = "waiting"
    /\ drain' = [drain EXCEPT ![q].at = "active"]
    /\ told' = [m \in Msgs |-> IF m \in ToSet(drain[q].batch) THEN told[m] + 1
                                                              ELSE told[m]]
    /\ mentioned' = mentioned \cup ToSet(drain[q].lines)
    /\ UNCHANGED <<settings, objects, current, callback, lane, handler,
                   accepted, discarded, missed, counters>>

EndFollowup(q) ==
    /\ drain[q].at = "active"
    /\ drain' = [drain EXCEPT ![q].at = "ended"]
    /\ lane' = Tail(lane)
    /\ UNCHANGED <<settings, objects, current, callback, handler, history,
                   counters>>

(* Mutant: a collected batch counts as one item.                           *)
RemovedOne(q) ==
    LET d == drain[q]
        o == [objects[q] EXCEPT !.items = SubSeq(@, 2, Len(@))]
    IN  IF d.kind = "summary" \/ d.lines # <<>>
        THEN [o EXCEPT !.droppedCount = 0, !.summaryLines = <<>>]
        ELSE o

(* What the drain removes after a turn: as many items as the turn had, and *)
(* the summary if it had one.                                              *)
Removed(q) ==
    LET d == drain[q]
        n == IF d.kind = "collect" THEN Len(d.batch) ELSE 1
        o == [objects[q] EXCEPT !.items = SubSeq(@, n + 1, Len(@))]
    IN  IF d.kind = "summary" \/ d.lines # <<>>
        THEN [o EXCEPT !.droppedCount = 0, !.summaryLines = <<>>]
        ELSE o

FollowupDone(q) ==
    /\ drain[q].at \in {"ended", "rejected"}
    /\ IF HasWork(Removed(q))
       THEN /\ objects' = [objects EXCEPT ![q] = Removed(q)]
            /\ drain' = [drain EXCEPT ![q] =
                            [NoDrain EXCEPT !.at = "debounce",
                                            !.force = drain[q].force]]
            /\ UNCHANGED <<current, callback>>
       ELSE Finally(q, Removed(q))
    /\ UNCHANGED <<settings, lane, handler, history, counters>>

(* The reply cannot be delivered: nothing is removed, the drain starts     *)
(* over.                                                                   *)
FollowupFails(q) ==
    /\ drain[q].at = "ended" /\ fails < MaxFails
    /\ fails' = fails + 1
    /\ Finally(q, objects[q])
    /\ UNCHANGED <<settings, lane, handler, history, overflows, clears>>

-----------------------------------------------------------------------------
(* clearSessionQueues, by a stop command: the queue is emptied and leaves  *)
(* the map, and the turns that wait in the lane are rejected.              *)
Waiting == IF lane = <<>> THEN {} ELSE ToSet(Tail(lane))

Clear ==
    /\ clears < MaxClears
    /\ clears' = clears + 1
    /\ current' = 0 /\ callback' = FALSE
    /\ objects' = IF current = 0 THEN objects
                  ELSE [objects EXCEPT ![current] =
                          [NewObject EXCEPT !.draining = objects[current].draining]]
    /\ lane' = IF lane = <<>> THEN <<>> ELSE <<Head(lane)>>
    /\ drain' = [q \in Objects |-> IF q \in Waiting
                                   THEN [drain[q] EXCEPT !.at = "rejected"]
                                   ELSE drain[q]]
    /\ handler' = [m \in Msgs |-> IF m \in Waiting THEN "ended" ELSE handler[m]]
    /\ UNCHANGED <<settings, history, overflows, fails>>

-----------------------------------------------------------------------------
DrainStep(q) == NextStep(q) \/ FollowupDone(q)

Next ==
    \/ \E m \in Msgs : Arrive(m) \/ RunNow(m) \/ EnqueueFollowup(m)
                         \/ BeginOwn(m) \/ EndOwn(m) \/ Finalize(m)
                         \/ OwnRefused(m) \/ OwnFails(m)
    \/ \E q \in Objects : NextStep(q) \/ BeginFollowup(q) \/ EndFollowup(q)
                            \/ FollowupRefused(q) \/ FollowupMissed(q)
                            \/ FollowupDone(q) \/ FollowupFails(q)
    \/ Clear

Spec == Init /\ [][Next]_vars

(* Timers fire, awaited I/O completes and an agent turn ends; messages and *)
(* stop commands come or do not.                                           *)
FairSpec ==
    /\ Spec
    /\ \A m \in Msgs :
          /\ WF_vars(RunNow(m)) /\ WF_vars(EnqueueFollowup(m))
          /\ WF_vars(BeginOwn(m)) /\ WF_vars(EndOwn(m)) /\ WF_vars(Finalize(m))
    /\ \A q \in Objects :
          /\ WF_vars(DrainStep(q)) /\ WF_vars(BeginFollowup(q))
          /\ WF_vars(EndFollowup(q))

-----------------------------------------------------------------------------
(* Properties                                                              *)

(* The type of the state.                                                  *)
TypeOK ==
    /\ settings \in Settings
    /\ Len(objects) <= Cardinality(Msgs)
    /\ objects \in Seq([items : Seq(Msgs), draining : BOOLEAN,
                        droppedCount : Nat, summaryLines : Seq(Msgs),
                        lastRun : BOOLEAN])
    /\ current \in 0..Len(objects)
    /\ callback \in BOOLEAN
    /\ drain \in [Objects -> [at : {"idle", "debounce", "waiting", "active",
                                   "ended", "rejected"},
                             force : BOOLEAN,
                             kind : {"one", "collect", "summary"},
                             batch : Seq(Msgs), lines : Seq(Msgs)]]
    /\ lane \in Seq(Msgs \cup Objects)
    /\ handler \in [Msgs -> {"new", "sawIdle", "sawActive", "waiting", "active",
                             "ended", "queued", "done"}]
    /\ accepted \in Seq(Msgs) /\ told \in [Msgs -> Nat]
    /\ mentioned \subseteq Msgs /\ discarded \subseteq Msgs /\ missed \subseteq Msgs
    /\ {overflows, fails, clears} \subseteq Nat

(* The queue in the map, or one a drain still holds, has the message or    *)
(* the line that stands for it.                                            *)
Held(m) ==
    \E q \in DOMAIN objects :
        /\ q = current \/ objects[q].draining
        /\ m \in ToSet(objects[q].items) \cup ToSet(objects[q].summaryLines)

(* As long as the queue neither overflows nor is cleared, a message that   *)
(* was queued stays in a queue until a turn had it in its prompt, or until *)
(* the turn that was to have it failed before it began: no interleaving of *)
(* arrivals, drains, failed turns and deliveries and rescheduled drains    *)
(* removes an item without a turn of its own.                              *)
NoSilentLoss ==
    (overflows = 0 /\ clears = 0) =>
        \A m \in ToSet(accepted) : Held(m) \/ told[m] > 0 \/ m \in missed

(* What NoSilentLoss leaves out, and the code does not give: a followup    *)
(* outlives a turn that failed before it began.                            *)
FailedTurnKeepsItems ==
    (overflows = 0 /\ clears = 0) => \A m \in missed : Held(m) \/ told[m] > 0

(* A message is put to the agent once, and once more for each followup     *)
(* whose delivery failed: drains that overlap, after a clear or a late     *)
(* enqueue, never run the same item.                                       *)
NoRepeat == \A m \in Msgs : told[m] <= 1 + fails

(* Until a stop command comes, queued messages are first put to the agent  *)
(* in the order they were queued, across drains, failed deliveries,        *)
(* collected batches and overflows.  A stop command ends that: the drain   *)
(* of the queue it emptied takes the next queue out of the map by key, and *)
(* two drains then race for the lane.                                      *)
OrderKept ==
    [][clears = 0 =>
          \A i, j \in DOMAIN accepted :
             (i < j /\ told[accepted[i]] = 0 /\ told'[accepted[i]] > 0)
                 => told[accepted[j]] = 0]_vars

(* What a queue under a drain holds leaves it: the drain ends, is started  *)
(* again after a failed delivery and goes on after an overflow until the   *)
(* item is out, unless a stop command comes.                               *)
Queued(m) == \E q \in DOMAIN objects : m \in ToSet(objects[q].items)

UnderDrain(m) ==
    \E q \in DOMAIN objects :
        objects[q].draining /\ m \in ToSet(objects[q].items)

DrainsSettle ==
    \A m \in Msgs : UnderDrain(m) ~> (~Queued(m) \/ clears > 0)

(* "enqueue for the next agent turn after the current run ends": a queued  *)
(* message is put to the agent, if the queue never overflows, no turn      *)
(* fails before it begins and no stop command comes.                       *)
FollowupsRun ==
    \A m \in Msgs :
        (handler[m] = "queued" /\ m \in ToSet(accepted))
            ~> (told[m] > 0 \/ missed # {} \/ overflows > 0 \/ clears > 0)

(* "Summarize keeps a short bullet list of dropped messages and injects    *)
(* it": with that policy a queued message is queued still, was put to the  *)
(* agent itself or as a line of a summary, or was one line too many.       *)
SummarizeForgetsNone ==
    (settings.drop = "summarize" /\ clears = 0) =>
        \A m \in ToSet(accepted) :
            \/ Held(m) \/ told[m] > 0
            \/ m \in mentioned \cup discarded \cup missed
=============================================================================
