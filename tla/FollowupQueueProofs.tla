------------------------ MODULE FollowupQueueProofs ------------------------
(***************************************************************************)
(* What module FollowupQueue promises of the messages that arrive while    *)
(* the agent of a session is busy, for every set of messages, every        *)
(* setting of the queue and any number of failed deliveries and stop       *)
(* commands: its type invariant, that nothing is put to the agent twice    *)
(* without a failure, that the messages are put to it in the order they    *)
(* were queued, and that none is lost.                                     *)
(*                                                                         *)
(* None of them is inductive.  Four invariants, each on top of the one     *)
(* before it, are:                                                         *)
(*   ShapeInv     the types; a turn is in the lane once, and exactly while *)
(*                it waits or executes; a queue is marked as being drained *)
(*                exactly while its drain is under way; there are no more  *)
(*                queues than messages that were queued;                   *)
(*   QueuedInv    a message is in one place of one queue only, also while  *)
(*                a turn has it, the messages of a turn come before those  *)
(*                that joined meanwhile, and one that is still queued has  *)
(*                been put to the agent only by turns that failed, or by   *)
(*                the one that is under way;                               *)
(*   OrderInv     queues and turns follow the order in which messages were *)
(*                queued, and until a stop command only the queue in the   *)
(*                map has messages or a drain;                             *)
(*   KeepInv      while no queue overflows and no stop command comes, what *)
(*                a turn removes is the beginning of its queue, which it   *)
(*                put to the agent - or would have, had it not failed      *)
(*                before it began -, and the rest stays in the map.        *)
(*                                                                         *)
(* The actions are first reduced to what they do to one queue (Kept,       *)
(* Restarts, TakesTurn, ...) and to the map (MapStep); StepKind sorts the  *)
(* steps into four kinds, and each invariant is proved once per kind.      *)
(***************************************************************************)
EXTENDS FollowupQueue, SequenceTheorems, FiniteSetTheorems, TLAPS

-----------------------------------------------------------------------------
(* The invariants                                                          *)

(* A queue is made for a message that is queued, so there is room for it.  *)
Queueing == {m \in Msgs : handler[m] = "queued"}
ObjectsCounted == Len(objects) <= Cardinality(Queueing)

(* The lane has each turn once; all in it wait but the first, which may    *)
(* execute, and nothing executes elsewhere.                                *)
LaneShape ==
    /\ \A i, j \in DOMAIN lane : lane[i] = lane[j] => i = j
    /\ \A i \in DOMAIN lane : At(lane[i]) \in {"waiting", "active"}
    /\ \A t \in Msgs \cup Objects :
          At(t) = "active" => lane # <<>> /\ Head(lane) = t

(* draining says whether a drain is under way; it has a batch only from    *)
(* the time it asked for a turn.                                           *)
DrainOK(o, d) ==
    /\ o.draining <=> d.at # "idle"
    /\ d.at \in {"idle", "debounce"} => d.batch = <<>>

DrainShape ==
    \A q \in Objects :
        IF q \in DOMAIN objects THEN DrainOK(objects[q], drain[q])
                               ELSE drain[q] = NoDrain

(* The shape of the state: what the other invariants stand on.             *)
ShapeInv == TypeOK /\ ObjectsCounted /\ LaneShape /\ DrainShape

(* What is in a queue, and what a turn of it has taken.  During a turn its *)
(* messages are in both, until the drain removes them.                     *)
Items(q) == IF q \in DOMAIN objects THEN objects[q].items ELSE <<>>
Dropped(q) == IF q \in DOMAIN objects THEN objects[q].droppedCount ELSE 0
InBatch(m, q) == m \in ToSet(drain[q].batch)
Of(m, q) == m \in ToSet(Items(q)) \/ InBatch(m, q)

QueuedOnce ==
    /\ \A m \in Msgs, q \in Objects : Of(m, q) => handler[m] = "queued"
    /\ \A m \in Msgs, q, r \in Objects : Of(m, q) /\ Of(m, r) => q = r
    /\ \A q \in Objects : \A i, j \in DOMAIN Items(q) :
          Items(q)[i] = Items(q)[j] => i = j

(* As many items as the drain will remove after the turn d, from the       *)
(* front: those of the turn that an overflow left are among them.          *)
Taken(d) == IF d.kind = "collect" THEN Len(d.batch) ELSE 1
TurnFirst(q) ==
    \A i \in DOMAIN Items(q) : InBatch(Items(q)[i], q) => i <= Taken(drain[q])
BatchFirst == \A q \in Objects : TurnFirst(q)

(* A queued message was put to the agent at most once for each failure,    *)
(* not counting the turn under way.                                        *)
TurnBegan(q) == drain[q].at \in {"active", "ended"}
ToldBounds ==
    \A m \in Msgs :
        /\ handler[m] \in {"new", "sawIdle", "sawActive", "waiting"} => told[m] = 0
        /\ told[m] <= 1 + fails
        /\ \A q \in Objects :
              Of(m, q) => told[m] <= fails \/ (TurnBegan(q) /\ InBatch(m, q))

QueuedInv == QueuedOnce /\ BatchFirst /\ ToldBounds

(* Messages are queued once, and what is in a queue was queued.            *)
AcceptedOnce ==
    /\ \A i, j \in DOMAIN accepted : accepted[i] = accepted[j] => i = j
    /\ \A i \in DOMAIN accepted : handler[accepted[i]] = "queued"
    /\ \A m \in Msgs, q \in Objects : Of(m, q) => m \in ToSet(accepted)

(* The order of a queue is the order in which its messages were queued,    *)
(* and those of its turn come before all others in it.                     *)
Before(m, n) ==
    \E i, j \in DOMAIN accepted : i < j /\ accepted[i] = m /\ accepted[j] = n
SortedIn(q) ==
    \A i, j \in DOMAIN Items(q) : i < j => Before(Items(q)[i], Items(q)[j])
TurnEarlier(q) ==
    \A m \in ToSet(drain[q].batch) : \A n \in ToSet(Items(q)) :
        ~InBatch(n, q) => Before(m, n)
Sorted == \A q \in Objects : SortedIn(q) /\ TurnEarlier(q)

(* Until a stop command there is one queue with messages or a drain.       *)
OneDrain ==
    clears = 0 => \A q \in Objects :
        (drain[q].at # "idle" \/ Items(q) # <<>>) => q = current

(* Behind a message in a queue that was not put to the agent no other was. *)
ToldInOrder ==
    clears = 0 => \A m, n \in Msgs, q \in Objects :
        (Of(n, q) /\ told[n] = 0 /\ Before(n, m)) => told[m] = 0

OrderInv == AcceptedOnce /\ Sorted /\ OneDrain /\ ToldInOrder

(* Without an overflow there is nothing to summarize.                      *)
Undropped ==
    overflows = 0 =>
        \A q \in Objects : Dropped(q) = 0 /\ drain[q].kind # "summary"

(* A turn has taken as many items as will be removed after it, from the    *)
(* front, and they stay there until then.                                  *)
HasTurn(q) == drain[q].at \in {"waiting", "active", "ended", "rejected"}
PrefixIn(q) ==
    /\ Len(drain[q].batch) = Taken(drain[q])
    /\ Len(drain[q].batch) <= Len(Items(q))
    /\ \A i \in DOMAIN drain[q].batch : drain[q].batch[i] = Items(q)[i]
BatchIsPrefix ==
    (overflows = 0 /\ clears = 0) =>
        \A q \in Objects : HasTurn(q) => PrefixIn(q)

(* A turn that began put its messages to the agent, ...                    *)
BatchWasTold ==
    \A m \in Msgs, q \in Objects :
        TurnBegan(q) /\ InBatch(m, q) => told[m] > 0

(* ... and of one that failed before it began the messages are counted as  *)
(* missed, unless a stop command rejected it.                              *)
Missed(q) == drain[q].at = "rejected" => \A m \in Msgs : InBatch(m, q) => m \in missed
BatchWasMissed == clears = 0 => \A q \in Objects : Missed(q)

(* A message that a turn had, if only in vain.                             *)
Served(m) == told[m] > 0 \/ m \in missed

(* What was queued and is not served is in the queue in the map.           *)
NoneLost ==
    (overflows = 0 /\ clears = 0) =>
        \A m \in ToSet(accepted) :
            Served(m) \/ (current # 0 /\ m \in ToSet(Items(current)))

KeepInv == Undropped /\ BatchIsPrefix /\ BatchWasTold /\ BatchWasMissed /\ NoneLost

-----------------------------------------------------------------------------
(* Types                                                                   *)

QueueType == [items : Seq(Msgs), draining : BOOLEAN, droppedCount : Nat,
              summaryLines : Seq(Msgs), lastRun : BOOLEAN]
DrainType == [at : {"idle", "debounce", "waiting", "active", "ended",
                    "rejected"},
              force : BOOLEAN, kind : {"one", "collect", "summary"},
              batch : Seq(Msgs), lines : Seq(Msgs)]

(* What the assumption on the constants gives.                             *)
LEMMA Bounds ==
    /\ Cardinality(Msgs) \in Nat
    /\ Objects = 1..Cardinality(Msgs)
    /\ IsFiniteSet(Msgs)
    /\ \A m \in Msgs : m \notin Objects
    /\ MaxFails \in Nat /\ MaxClears \in Nat
  BY FollowupAssumption, FS_CardinalityType DEF FollowupAssumption, Objects

(* The settings of a session.                                              *)
LEMMA Configured ==
    ASSUME settings \in Settings
    PROVE  /\ settings.cap \in Nat /\ settings.cap >= 1
           /\ settings.mode \in Modes /\ settings.drop \in Drops
<1>1. settings \in [mode : Modes, drop : Drops, cap : Nat \ {0}]
  BY FollowupAssumption DEF FollowupAssumption
<1>2. QED
  BY <1>1

(* The type invariant, in the form the proofs use.                         *)
LEMMA Typed ==
    TypeOK =>
        /\ settings \in Settings
        /\ objects \in Seq(QueueType)
        /\ Len(objects) \in Nat /\ Len(objects) <= Cardinality(Msgs)
        /\ DOMAIN objects = 1..Len(objects) /\ DOMAIN objects \subseteq Objects
        /\ \A q \in DOMAIN objects : objects[q] \in QueueType
        /\ current \in 0..Len(objects)
        /\ current # 0 => current \in DOMAIN objects
        /\ callback \in BOOLEAN
        /\ drain \in [Objects -> DrainType]
        /\ lane \in Seq(Msgs \cup Objects)
        /\ accepted \in Seq(Msgs) /\ told \in [Msgs -> Nat]
        /\ handler \in [Msgs -> {"new", "sawIdle", "sawActive", "waiting",
                                 "active", "ended", "queued", "done"}]
        /\ overflows \in Nat /\ fails \in Nat /\ clears \in Nat
<1> SUFFICES ASSUME TypeOK
    PROVE  /\ DOMAIN objects = 1..Len(objects) /\ DOMAIN objects \subseteq Objects
           /\ Len(objects) \in Nat
           /\ \A q \in DOMAIN objects : objects[q] \in QueueType
           /\ current # 0 => current \in DOMAIN objects
           /\ objects \in Seq(QueueType) /\ drain \in [Objects -> DrainType]
  BY DEF TypeOK
<1>1. objects \in Seq(QueueType) /\ drain \in [Objects -> DrainType]
  BY DEF TypeOK, QueueType, DrainType
<1>2. /\ DOMAIN objects = 1..Len(objects) /\ Len(objects) \in Nat
      /\ \A q \in DOMAIN objects : objects[q] \in QueueType
  BY <1>1, LenProperties, ElementOfSeq
<1>3. QED
  BY <1>1, <1>2, Bounds DEF TypeOK

(* What a queue keeps when its first items are removed.                    *)
LEMMA CutFront ==
    ASSUME NEW S, NEW s \in Seq(S), NEW n \in Nat
    PROVE  /\ SubSeq(s, n + 1, Len(s)) \in Seq(S)
           /\ DOMAIN SubSeq(s, n + 1, Len(s)) = 1..Len(SubSeq(s, n + 1, Len(s)))
           /\ Len(SubSeq(s, n + 1, Len(s))) = IF n <= Len(s) THEN Len(s) - n ELSE 0
           /\ \A i \in 1..Len(SubSeq(s, n + 1, Len(s))) :
                 SubSeq(s, n + 1, Len(s))[i] = s[i + n]
<1> DEFINE t == SubSeq(s, n + 1, Len(s))
<1>1. Len(s) \in Nat /\ \A i \in 1..Len(s) : s[i] \in S
  BY LenProperties, ElementOfSeq
<1>2. \A i \in (n + 1)..Len(s) : s[i] \in S
  BY <1>1
<1>3. n + 1 \in Int /\ Len(s) \in Int
  BY <1>1
<1>4. /\ t \in Seq(S)
      /\ Len(t) = IF n + 1 <= Len(s) THEN Len(s) - (n + 1) + 1 ELSE 0
      /\ \A i \in 1..(Len(s) - (n + 1) + 1) : t[i] = s[(n + 1) + i - 1]
  BY <1>2, <1>3, SubSeqProperties
<1>5. DOMAIN t = 1..Len(t)
  BY <1>4, LenProperties
<1> HIDE DEF t
<1>6. /\ Len(t) = IF n <= Len(s) THEN Len(s) - n ELSE 0
      /\ \A i \in 1..Len(t) : t[i] = s[i + n]
  BY <1>1, <1>4
<1>7. QED
  BY <1>4, <1>5, <1>6 DEF t

(* The drop policy makes room by removing items from the front.            *)
LEMMA OverflowTyped ==
    ASSUME settings \in Settings, NEW o \in QueueType, Overflowing(o)
    PROVE  /\ Overflow(o) \in QueueType
           /\ Overflow(o).draining = o.draining
           /\ Overflow(o).lastRun = o.lastRun
           /\ \E k \in 1..Len(o.items) :
                 Overflow(o).items = SubSeq(o.items, k + 1, Len(o.items))
<1> DEFINE n == Len(o.items) - settings.cap + 1
           dropped == SubSeq(o.items, 1, n)
           rest == [o EXCEPT !.items = SubSeq(o.items, n + 1, Len(o.items))]
           lines == o.summaryLines \o dropped
           kept == IF Len(lines) > settings.cap
                   THEN SubSeq(lines, Len(lines) - settings.cap + 1, Len(lines))
                   ELSE lines
<1>1. /\ o.items \in Seq(Msgs) /\ o.summaryLines \in Seq(Msgs)
      /\ o.droppedCount \in Nat /\ Len(o.items) \in Nat
  BY DEF QueueType
<1>2. n \in 1..Len(o.items)
  BY <1>1, Configured DEF Overflowing
<1> HIDE DEF n
<1>3. SubSeq(o.items, n + 1, Len(o.items)) \in Seq(Msgs)
  BY <1>1, <1>2, CutFront
<1>4. rest \in QueueType /\ rest.draining = o.draining /\ rest.lastRun = o.lastRun
      /\ rest.items = SubSeq(o.items, n + 1, Len(o.items))
      /\ rest.droppedCount = o.droppedCount
  BY <1>3 DEF QueueType
<1>5. dropped \in Seq(Msgs)
  BY <1>1, <1>2
<1>6. lines \in Seq(Msgs)
  BY <1>1, <1>5
<1> HIDE DEF dropped, lines, rest
<1>7. kept \in Seq(Msgs)
  <2>1. CASE Len(lines) > settings.cap
    <3>1. Len(lines) - settings.cap \in Nat
      BY <1>6, <2>1, Configured
    <3>2. QED
      BY <1>6, <2>1, <3>1, CutFront
  <2>2. QED
    BY <1>6, <2>1
<1> HIDE DEF kept
<1>8. Overflow(o) = IF settings.drop = "summarize"
                    THEN [rest EXCEPT !.droppedCount = rest.droppedCount + n,
                                      !.summaryLines = kept]
                    ELSE rest
  BY DEF Overflow, n, dropped, rest, lines, kept
<1>9. CASE settings.drop = "summarize"
  <2>1. \A c \in Nat : LET r == [rest EXCEPT !.droppedCount = c,
                                             !.summaryLines = kept]
                      IN  /\ r \in QueueType /\ r.draining = rest.draining
                          /\ r.lastRun = rest.lastRun /\ r.items = rest.items
    BY <1>4, <1>7 DEF QueueType
  <2>2. rest.droppedCount + n \in Nat
    BY <1>1, <1>2, <1>4
  <2>3. QED
    BY <1>2, <1>4, <1>8, <1>9, <2>1, <2>2
<1>10. QED
  BY <1>2, <1>4, <1>8, <1>9

-----------------------------------------------------------------------------
(* What the operators of the drain do                                      *)

(* A drain that has just begun.                                            *)
Starting == [NoDrain EXCEPT !.at = "debounce"]

(* The object in place q has the content of o.                             *)
Content(o) == <<o.items, o.droppedCount, o.summaryLines, o.lastRun>>

(* The constants of the model: a queue and a drain as they begin.          *)
LEMMA NoDrainTyped ==
    /\ NoDrain \in DrainType /\ Starting \in DrainType
    /\ NoDrain.at = "idle" /\ NoDrain.batch = <<>> /\ NoDrain.kind = "one"
    /\ Starting.at = "debounce" /\ Starting.batch = <<>> /\ Starting.kind = "one"
    /\ NewObject \in QueueType /\ ~NewObject.draining /\ NewObject.items = <<>>
    /\ NewObject.droppedCount = 0
<1>1. <<>> \in Seq(Msgs)
  OBVIOUS
<1>2. QED
  BY <1>1 DEF NoDrain, Starting, DrainType, NewObject, QueueType

(* Scheduling a drain changes no content, and starts at most the drain of  *)
(* the queue in the map, which was idle.                                   *)
LEMMA Scheduled ==
    ASSUME NEW objs \in Seq(QueueType), NEW cur \in 0..Len(objs),
           Len(objs) <= Cardinality(Msgs),
           NEW dr \in [Objects -> DrainType], callback \in BOOLEAN,
           \A q \in DOMAIN objs : DrainOK(objs[q], dr[q]),
           ScheduleDrain(objs, cur, dr)
    PROVE  /\ objects' \in Seq(QueueType) /\ Len(objects') = Len(objs)
           /\ current' = cur /\ callback' \in BOOLEAN
           /\ drain' \in [Objects -> DrainType]
           /\ \A q \in DOMAIN objs : /\ Content(objects'[q]) = Content(objs[q])
                                     /\ DrainOK(objects'[q], drain'[q])
           /\ \A q \in Objects :
                 drain'[q] = dr[q] \/ (drain'[q] = Starting /\ q = cur
                                        /\ dr[q].at = "idle")
<1>1. /\ DOMAIN objs = 1..Len(objs) /\ Len(objs) \in Nat
      /\ \A q \in DOMAIN objs : objs[q] \in QueueType
      /\ DOMAIN objs \subseteq Objects
  BY LenProperties, ElementOfSeq, Bounds
<1>2. CASE cur # 0 /\ ~objs[cur].draining
  <2>1. cur \in DOMAIN objs /\ cur \in Objects
    BY <1>1, <1>2
  <2> DEFINE o == [objs[cur] EXCEPT !.draining = TRUE]
  <2>2. objs[cur] \in QueueType
    BY <1>1, <2>1
  <2>3. /\ o \in QueueType /\ o.draining /\ o.items = objs[cur].items
        /\ o.droppedCount = objs[cur].droppedCount
        /\ o.summaryLines = objs[cur].summaryLines
        /\ o.lastRun = objs[cur].lastRun
    BY <2>2 DEF QueueType
  <2>4. Content(o) = Content(objs[cur])
    BY <2>3 DEF Content
  <2>5. DrainOK(o, Starting)
    BY <2>3, NoDrainTyped DEF DrainOK
  <2>6. /\ objects' = [objs EXCEPT ![cur] = o]
        /\ drain' = [dr EXCEPT ![cur] = Starting]
        /\ callback' = TRUE /\ current' = cur
    BY <1>2 DEF ScheduleDrain, Starting
  <2>7. dr[cur].at = "idle"
    BY <1>2, <2>1 DEF DrainOK
  <2> HIDE DEF o
  <2>8. /\ objects' \in Seq(QueueType) /\ Len(objects') = Len(objs)
        /\ \A q \in DOMAIN objs : objects'[q] = IF q = cur THEN o ELSE objs[q]
    BY <1>1, <2>1, <2>3, <2>6, ExceptSeq
  <2>9. /\ drain' \in [Objects -> DrainType]
        /\ \A q \in Objects : drain'[q] = IF q = cur THEN Starting ELSE dr[q]
    BY <2>1, <2>6, NoDrainTyped
  <2>10. QED
    BY <1>1, <2>4, <2>5, <2>6, <2>7, <2>8, <2>9
<1>3. CASE ~(cur # 0 /\ ~objs[cur].draining)
  <2>1. objects' = objs /\ drain' = dr /\ callback' = callback /\ current' = cur
    BY <1>3 DEF ScheduleDrain
  <2>2. QED
    BY <2>1
<1>4. QED
  BY <1>2, <1>3

(* The end of a drain of q whose queue is left as o.                       *)
LEMMA FinallyDoes ==
    ASSUME TypeOK, DrainShape, NEW q \in DOMAIN objects, NEW o \in QueueType,
           Finally(q, o)
    PROVE  /\ objects' \in Seq(QueueType) /\ Len(objects') = Len(objects)
           /\ callback' \in BOOLEAN /\ drain' \in [Objects -> DrainType]
           /\ Content(objects'[q]) = Content(o)
           /\ \A r \in DOMAIN objects \ {q} :
                 Content(objects'[r]) = Content(objects[r])
           /\ \A r \in DOMAIN objects : DrainOK(objects'[r], drain'[r])
           /\ drain'[q] \in {NoDrain, Starting}
           /\ \A r \in Objects \ {q} :
                 drain'[r] = drain[r] \/ (drain'[r] = Starting /\ r = current
                                           /\ drain[r].at = "idle")
           /\ IF HasWork(o)
              THEN current' = current /\ (drain'[q] = Starting => q = current)
              ELSE /\ current' = 0 /\ drain'[q] = NoDrain
                   /\ \A r \in Objects \ {q} : drain'[r] = drain[r]
<1>0. /\ objects \in Seq(QueueType) /\ Len(objects) <= Cardinality(Msgs)
      /\ DOMAIN objects = 1..Len(objects) /\ DOMAIN objects \subseteq Objects
      /\ Len(objects) \in Nat
      /\ current \in 0..Len(objects) /\ callback \in BOOLEAN
      /\ drain \in [Objects -> DrainType]
      /\ q \in Objects
  BY Typed
<1> DEFINE e == [o EXCEPT !.draining = FALSE]
           objs == [objects EXCEPT ![q] = e]
           dr == [drain EXCEPT ![q] = NoDrain]
<1>1. /\ e \in QueueType /\ ~e.draining /\ e.items = o.items
      /\ e.droppedCount = o.droppedCount /\ e.summaryLines = o.summaryLines
      /\ e.lastRun = o.lastRun
  BY DEF QueueType
<1>2. Content(e) = Content(o) /\ DrainOK(e, NoDrain)
  BY <1>1, NoDrainTyped DEF Content, DrainOK
<1> HIDE DEF e
<1>3. /\ objs \in Seq(QueueType) /\ Len(objs) = Len(objects)
      /\ DOMAIN objs = DOMAIN objects
      /\ \A r \in DOMAIN objects : objs[r] = IF r = q THEN e ELSE objects[r]
  BY <1>0, <1>1, ExceptSeq, LenProperties
<1>4. /\ dr \in [Objects -> DrainType]
      /\ \A r \in Objects : dr[r] = IF r = q THEN NoDrain ELSE drain[r]
  BY <1>0, NoDrainTyped
<1>5. \A r \in DOMAIN objs : DrainOK(objs[r], dr[r])
  BY <1>0, <1>2, <1>3, <1>4 DEF DrainShape
<1>6. IF HasWork(o)
      THEN ScheduleDrain(objs, current, dr)
      ELSE objects' = objs /\ drain' = dr /\ current' = 0 /\ callback' = callback
  BY DEF Finally, e, objs, dr
<1> HIDE DEF objs, dr
<1>7. CASE HasWork(o)
  <2>1. ScheduleDrain(objs, current, dr)
    BY <1>6, <1>7
  <2>2. /\ objects' \in Seq(QueueType) /\ Len(objects') = Len(objs)
        /\ current' = current /\ callback' \in BOOLEAN
        /\ drain' \in [Objects -> DrainType]
        /\ \A r \in DOMAIN objs : /\ Content(objects'[r]) = Content(objs[r])
                                  /\ DrainOK(objects'[r], drain'[r])
        /\ \A r \in Objects :
              drain'[r] = dr[r] \/ (drain'[r] = Starting /\ r = current
                                     /\ dr[r].at = "idle")
    BY <1>0, <1>3, <1>4, <1>5, <2>1, Scheduled
  <2>3. NoDrain # Starting
    BY NoDrainTyped
  <2>4. QED
    BY <1>0, <1>2, <1>3, <1>4, <1>7, <2>2, <2>3
<1>8. CASE ~HasWork(o)
  BY <1>0, <1>2, <1>3, <1>4, <1>5, <1>6, <1>8
<1>9. QED
  BY <1>7, <1>8

-----------------------------------------------------------------------------
(* What a step does to one queue                                           *)

(* No turn is asked for.                                                   *)
Rests(d) == d.at \in {"idle", "debounce"} /\ d.batch = <<>> /\ d.kind = "one"

(* The queue and its drain stay as they are.                               *)
Kept(q) == Items(q)' = Items(q) /\ Dropped(q)' = Dropped(q) /\ drain'[q] = drain[q]

(* A drain starts, ends without a turn, or starts over after a failure.    *)
Restarts(q) ==
    /\ Items(q)' = Items(q) /\ Dropped(q)' = Dropped(q)
    /\ drain[q].at \in {"idle", "debounce", "ended"} /\ Rests(drain'[q])
    /\ drain[q].at = "ended" => fails' = fails + 1

(* The drain asks the lane for its next turn: all items, the first one, or *)
(* a summary.  It may be refused.                                          *)
TakesTurn(q) ==
    /\ Items(q)' = Items(q) /\ Dropped(q)' = Dropped(q)
    /\ drain[q].at = "debounce" /\ drain'[q].at \in {"waiting", "rejected"}
    /\ Missed(q)'
    /\ \/ drain'[q].kind = "collect" /\ drain'[q].batch = Items(q)
       \/ /\ drain'[q].kind = "one" /\ Items(q) # <<>>
          /\ drain'[q].batch = <<Head(Items(q))>>
       \/ /\ drain'[q].kind = "summary" /\ drain'[q].batch = <<>>
          /\ Dropped(q) > 0

(* The turn keeps its batch.                                               *)
SameTurn(q) == drain'[q].batch = drain[q].batch /\ drain'[q].kind = drain[q].kind

(* The turn begins, ...                                                    *)
Begins(q) ==
    /\ Items(q)' = Items(q) /\ Dropped(q)' = Dropped(q) /\ SameTurn(q)
    /\ drain[q].at = "waiting" /\ drain'[q].at = "active"

(* ... ends, or fails before it has begun, ...                             *)
Ends(q) ==
    /\ Items(q)' = Items(q) /\ Dropped(q)' = Dropped(q) /\ SameTurn(q)
    /\ \/ drain[q].at = "active" /\ drain'[q].at = "ended"
       \/ drain[q].at = "waiting" /\ drain'[q].at = "rejected"
    /\ Missed(q)'

(* ... and its items are removed from the front of the queue.              *)
TurnDone(q) ==
    /\ drain[q].at \in {"ended", "rejected"} /\ Rests(drain'[q])
    /\ Items(q)' = SubSeq(Items(q), Taken(drain[q]) + 1, Len(Items(q)))
    /\ Dropped(q)' \in {0, Dropped(q)}

(* A stop command may empty the queue and reject the turn that waits.      *)
Stopped(q) ==
    /\ clears' > 0 /\ SameTurn(q)
    /\ Items(q)' \in {<<>>, Items(q)} /\ Dropped(q)' \in {0, Dropped(q)}
    /\ \/ drain'[q].at = drain[q].at
       \/ drain[q].at = "waiting" /\ drain'[q].at = "rejected"

(* What a step may do to a queue that neither puts a message to the agent  *)
(* nor queues one.                                                         *)
Quietly(q) == Kept(q) \/ Restarts(q) \/ TakesTurn(q) \/ Ends(q) \/ TurnDone(q)
                \/ Stopped(q)

(* A message joins, and the drop policy may remove items before it.        *)
Fills(q, m) ==
    /\ \E k \in 0..Len(Items(q)) :
          /\ Items(q)' = Append(SubSeq(Items(q), k + 1, Len(Items(q))), m)
          /\ k > 0 => overflows' > 0
    /\ Dropped(q)' = Dropped(q) \/ overflows' > 0
    /\ \/ drain'[q] = drain[q]
       \/ drain[q].at = "idle" /\ Rests(drain'[q])

(* No queue but q leaves the map, and q only when it is empty; a drain     *)
(* starts on the queue in the map.                                         *)
MapStep ==
    \/ /\ current' = current
       /\ \A q \in Objects :
             drain'[q].at # "idle" => drain[q].at # "idle" \/ q = current
    \/ clears' > 0
    \/ \E q \in Objects :
          /\ drain[q].at # "idle" /\ drain'[q].at = "idle" /\ Items(q)' = <<>>
          /\ current' = 0 /\ \A r \in Objects \ {q} : Kept(r)

(* The types of what the invariants speak of.                              *)
LEMMA ItemsTyped ==
    TypeOK => \A q \in Objects :
        /\ Items(q) \in Seq(Msgs) /\ DOMAIN Items(q) = 1..Len(Items(q))
        /\ Len(Items(q)) \in Nat
        /\ \A i \in 1..Len(Items(q)) : Items(q)[i] \in Msgs
        /\ ToSet(Items(q)) \subseteq Msgs
        /\ Dropped(q) \in Nat
        /\ drain[q].batch \in Seq(Msgs) /\ drain[q] \in DrainType
        /\ ToSet(drain[q].batch) \subseteq Msgs
<1> SUFFICES ASSUME TypeOK, NEW q \in Objects
    PROVE  /\ Items(q) \in Seq(Msgs) /\ Dropped(q) \in Nat
           /\ drain[q].batch \in Seq(Msgs) /\ drain[q] \in DrainType
           /\ DOMAIN Items(q) = 1..Len(Items(q)) /\ Len(Items(q)) \in Nat
           /\ \A i \in 1..Len(Items(q)) : Items(q)[i] \in Msgs
           /\ ToSet(Items(q)) \subseteq Msgs /\ ToSet(drain[q].batch) \subseteq Msgs
  OBVIOUS
<1>1. drain[q] \in DrainType
  BY Typed
<1>2. drain[q].batch \in Seq(Msgs)
  BY <1>1 DEF DrainType
<1>3. CASE q \in DOMAIN objects
  <2>1. objects[q] \in QueueType
    BY <1>3, Typed
  <2>2. Items(q) \in Seq(Msgs) /\ Dropped(q) \in Nat
    BY <1>3, <2>1 DEF Items, Dropped, QueueType
  <2>3. QED
    BY <1>1, <1>2, <2>2, LenProperties, ElementOfSeq DEF ToSet
<1>4. CASE q \notin DOMAIN objects
  <2>1. Items(q) = <<>> /\ Dropped(q) = 0
    BY <1>4 DEF Items, Dropped
  <2>2. QED
    BY <1>1, <1>2, <2>1, LenProperties, ElementOfSeq DEF ToSet
<1>5. QED
  BY <1>3, <1>4

(* Objects with the same content are the same queue.                       *)
LEMMA SameContent ==
    ASSUME TypeOK, objects' \in Seq(QueueType), Len(objects') = Len(objects),
           NEW q \in Objects,
           q \in DOMAIN objects => Content(objects'[q]) = Content(objects[q])
    PROVE  Items(q)' = Items(q) /\ Dropped(q)' = Dropped(q)
<1>1. DOMAIN objects' = 1..Len(objects) /\ DOMAIN objects = 1..Len(objects)
  BY Typed, LenProperties
<1>2. QED
  BY <1>1 DEF Content, Items, Dropped

(* The part of the type invariant that is about the queues.                *)
QueueTypes ==
    /\ objects \in Seq(QueueType) /\ Len(objects) <= Cardinality(Msgs)
    /\ current \in 0..Len(objects) /\ callback \in BOOLEAN
    /\ drain \in [Objects -> DrainType]
    /\ DrainShape

-----------------------------------------------------------------------------
(* Each action                                                             *)

(* DrainShape holds after a step that keeps it for every queue there is.   *)
LEMMA ShapeStep ==
    ASSUME TypeOK, DrainShape, objects' \in Seq(QueueType),
           Len(objects') = Len(objects), drain' \in [Objects -> DrainType],
           \A r \in DOMAIN objects : DrainOK(objects'[r], drain'[r]),
           \A r \in Objects \ DOMAIN objects : drain'[r] = drain[r]
    PROVE  DrainShape'
<1>1. DOMAIN objects' = DOMAIN objects
  BY Typed, LenProperties
<1>2. QED
  BY <1>1 DEF DrainShape

(* The end of the own turn of a message starts a drain, or nothing.        *)
LEMMA FinalizeDoes ==
    ASSUME TypeOK, DrainShape, NEW m \in Msgs, Finalize(m)
    PROVE  /\ QueueTypes' /\ Len(objects') = Len(objects) /\ MapStep
           /\ \A q \in Objects : Kept(q) \/ Restarts(q)
<1>0. /\ objects \in Seq(QueueType) /\ Len(objects) <= Cardinality(Msgs)
      /\ DOMAIN objects = 1..Len(objects) /\ DOMAIN objects \subseteq Objects
      /\ current \in 0..Len(objects) /\ callback \in BOOLEAN
      /\ current # 0 => current \in DOMAIN objects
      /\ drain \in [Objects -> DrainType]
  BY Typed
<1>1. ScheduleDrain(objects, current, drain)
  BY DEF Finalize
<1>2. \A q \in DOMAIN objects : DrainOK(objects[q], drain[q])
  BY <1>0 DEF DrainShape
<1>3. /\ objects' \in Seq(QueueType) /\ Len(objects') = Len(objects)
      /\ current' = current /\ callback' \in BOOLEAN
      /\ drain' \in [Objects -> DrainType]
      /\ \A q \in DOMAIN objects : /\ Content(objects'[q]) = Content(objects[q])
                                   /\ DrainOK(objects'[q], drain'[q])
      /\ \A q \in Objects :
            drain'[q] = drain[q] \/ (drain'[q] = Starting /\ q = current
                                      /\ drain[q].at = "idle")
  BY <1>0, <1>1, <1>2, Scheduled
<1>4. \A q \in Objects : Items(q)' = Items(q) /\ Dropped(q)' = Dropped(q)
  BY <1>3, SameContent
<1>5. \A q \in Objects : Kept(q) \/ Restarts(q)
  BY <1>3, <1>4, NoDrainTyped DEF Kept, Restarts, Rests
<1>6. MapStep
  BY <1>3 DEF MapStep
<1>7. \A q \in Objects \ DOMAIN objects : drain'[q] = drain[q]
  BY <1>0, <1>3 DEF DrainShape
<1>8. DrainShape'
  BY <1>3, <1>7, ShapeStep
<1>9. QED
  BY <1>0, <1>3, <1>5, <1>6, <1>8 DEF QueueTypes

(* The end of a drain that leaves its queue as it was, or removes a turn.  *)
LEMMA FinallyStep ==
    ASSUME TypeOK, DrainShape, NEW q \in DOMAIN objects, NEW o \in QueueType,
           drain[q].at \in {"debounce", "ended", "rejected"}, Finally(q, o)
    PROVE  /\ QueueTypes' /\ Len(objects') = Len(objects) /\ MapStep
           /\ Items(q)' = o.items /\ Dropped(q)' = o.droppedCount
           /\ Rests(drain'[q])
           /\ \A r \in Objects \ {q} : Kept(r) \/ Restarts(r)
<1>0. /\ Len(objects) <= Cardinality(Msgs) /\ Len(objects) \in Nat
      /\ DOMAIN objects = 1..Len(objects) /\ DOMAIN objects \subseteq Objects
      /\ current \in 0..Len(objects)
      /\ current # 0 => current \in DOMAIN objects
  BY Typed
<1>1. /\ objects' \in Seq(QueueType) /\ Len(objects') = Len(objects)
      /\ callback' \in BOOLEAN /\ drain' \in [Objects -> DrainType]
      /\ Content(objects'[q]) = Content(o)
      /\ \A r \in DOMAIN objects \ {q} :
            Content(objects'[r]) = Content(objects[r])
      /\ \A r \in DOMAIN objects : DrainOK(objects'[r], drain'[r])
      /\ drain'[q] \in {NoDrain, Starting}
      /\ \A r \in Objects \ {q} :
            drain'[r] = drain[r] \/ (drain'[r] = Starting /\ r = current
                                      /\ drain[r].at = "idle")
      /\ IF HasWork(o)
         THEN current' = current /\ (drain'[q] = Starting => q = current)
         ELSE /\ current' = 0 /\ drain'[q] = NoDrain
              /\ \A r \in Objects \ {q} : drain'[r] = drain[r]
  BY FinallyDoes
<1>2. /\ \A r \in Objects \ {q} :
            Items(r)' = Items(r) /\ Dropped(r)' = Dropped(r)
      /\ DOMAIN objects' = DOMAIN objects
  BY <1>0, <1>1, SameContent, LenProperties
<1>3. /\ Items(q)' = o.items /\ Dropped(q)' = o.droppedCount
  BY <1>1, <1>2 DEF Items, Dropped, Content
<1>4. Rests(drain'[q]) /\ \A r \in Objects \ {q} : Kept(r) \/ Restarts(r)
  BY <1>1, <1>2, NoDrainTyped DEF Rests, Kept, Restarts
<1>5. MapStep
  <2>1. CASE HasWork(o)
    BY <1>0, <1>1, <2>1 DEF MapStep
  <2>2. CASE ~HasWork(o)
    <3>1. Items(q)' = <<>> /\ drain'[q].at = "idle" /\ drain[q].at # "idle"
      BY <1>1, <1>3, <2>2, NoDrainTyped DEF HasWork
    <3>2. \A r \in Objects \ {q} : Kept(r)
      BY <1>1, <1>2, <2>2 DEF Kept
    <3>3. QED
      BY <1>0, <1>1, <2>2, <3>1, <3>2 DEF MapStep
  <2>3. QED
    BY <2>1, <2>2
<1>6. DrainShape'
  <2>1. \A r \in Objects \ DOMAIN objects : drain'[r] = drain[r]
    BY <1>0, <1>1, Bounds
  <2>2. QED
    BY <1>1, <2>1, ShapeStep
<1>7. current' \in 0..Len(objects')
  BY <1>0, <1>1
<1>8. QED
  BY <1>0, <1>1, <1>3, <1>4, <1>5, <1>6, <1>7 DEF QueueTypes

(* Nothing of the queues but the drain of q changes.                       *)
LEMMA DrainMoves ==
    ASSUME TypeOK, DrainShape, NEW q \in DOMAIN objects, NEW d \in DrainType,
           UNCHANGED <<objects, callback, current>>,
           drain' = [drain EXCEPT ![q] = d],
           drain[q].at # "idle", d.at \notin {"idle", "debounce"}
    PROVE  /\ QueueTypes' /\ Len(objects') = Len(objects) /\ MapStep
           /\ \A r \in Objects : Items(r)' = Items(r) /\ Dropped(r)' = Dropped(r)
           /\ drain'[q] = d /\ \A r \in Objects \ {q} : Kept(r)
<1>1. /\ objects \in Seq(QueueType) /\ Len(objects) <= Cardinality(Msgs)
      /\ DOMAIN objects = 1..Len(objects) /\ DOMAIN objects \subseteq Objects
      /\ current \in 0..Len(objects) /\ callback \in BOOLEAN
      /\ drain \in [Objects -> DrainType] /\ q \in Objects
  BY Typed
<1>2. /\ drain' \in [Objects -> DrainType]
      /\ \A r \in Objects : drain'[r] = IF r = q THEN d ELSE drain[r]
  BY <1>1
<1>3. \A r \in Objects : Items(r)' = Items(r) /\ Dropped(r)' = Dropped(r)
  BY DEF Items, Dropped
<1>4. DrainOK(objects[q], d)
  BY <1>1 DEF DrainShape, DrainOK
<1>5. DrainShape'
  BY <1>1, <1>2, <1>4 DEF DrainShape
<1>6. MapStep
  BY <1>1, <1>2 DEF MapStep
<1>7. QED
  BY <1>1, <1>2, <1>3, <1>5, <1>6 DEF QueueTypes, Kept

(* What is drained is a queue.                                             *)
LEMMA InDrain ==
    ASSUME TypeOK, DrainShape, NEW q \in Objects, drain[q].at # "idle"
    PROVE  q \in DOMAIN objects
  BY NoDrainTyped DEF DrainShape

(* A drain asks for its next turn.                                         *)
LEMMA AskDoes ==
    ASSUME TypeOK, DrainShape, NEW q \in Objects, drain[q].at = "debounce",
           CanTurn(q), NEW p \in {"waiting", "rejected"}, AskForTurn(q, p),
           p = "rejected" => ToSet(drain'[q].batch) \subseteq missed'
    PROVE  /\ QueueTypes' /\ Len(objects') = Len(objects) /\ MapStep
           /\ TakesTurn(q) /\ drain'[q].at = p
           /\ \A r \in Objects \ {q} : Kept(r)
<1>0. q \in DOMAIN objects
  BY InDrain
<1> DEFINE o == objects[q]
           t == NextTurn(q)
           d == [at |-> p, kind |-> t.kind, batch |-> t.batch, lines |-> t.lines,
                 force |-> drain[q].force \/ (settings.mode = "collect"
                                              /\ CrossChannel(objects[q]))]
<1>1. /\ o \in QueueType /\ drain[q] \in DrainType
      /\ Items(q) = o.items /\ Dropped(q) = o.droppedCount
  BY <1>0, Typed DEF Items, Dropped
<1>2. /\ t.kind \in {"one", "collect", "summary"}
      /\ t.batch \in Seq(Msgs) /\ t.lines \in Seq(Msgs)
      /\ \/ t.kind = "collect" /\ t.batch = Items(q)
         \/ t.kind = "one" /\ Items(q) # <<>> /\ t.batch = <<Head(Items(q))>>
         \/ t.kind = "summary" /\ t.batch = <<>> /\ Dropped(q) > 0
  <2>1. o.items \in Seq(Msgs) /\ o.summaryLines \in Seq(Msgs)
    BY <1>1 DEF QueueType
  <2>2. CASE t = One(o) /\ o.items # <<>>
    <3>1. <<Head(o.items)>> \in Seq(Msgs) /\ <<>> \in Seq(Msgs)
      BY <2>1, <2>2
    <3>2. t.kind = "one" /\ t.batch = <<Head(o.items)>> /\ t.lines = <<>>
      BY <2>2 DEF One
    <3>3. QED
      BY <1>1, <2>2, <3>1, <3>2
  <2>3. CASE t = Collect(o)
    BY <1>1, <2>1, <2>3 DEF Collect
  <2>4. CASE t = Summary(o) /\ o.droppedCount > 0
    <3>1. <<>> \in Seq(Msgs)
      OBVIOUS
    <3>2. QED
      BY <1>1, <2>1, <2>4, <3>1 DEF Summary
  <2>5. QED
    BY <2>2, <2>3, <2>4 DEF NextTurn, CanTurn
<1>3. drain' = [drain EXCEPT ![q] = d] /\ UNCHANGED <<objects, current, callback>>
  BY DEF AskForTurn
<1> HIDE DEF t
<1>4. \A b \in BOOLEAN :
        LET e == [at |-> p, kind |-> t.kind, batch |-> t.batch,
                  lines |-> t.lines, force |-> b]
        IN  /\ e \in DrainType /\ e.at = p /\ e.kind = t.kind
            /\ e.batch = t.batch
  BY <1>2 DEF DrainType
<1>5. (drain[q].force \/ (settings.mode = "collect"
                           /\ CrossChannel(objects[q]))) \in BOOLEAN
  BY <1>1 DEF DrainType
<1>6. d \in DrainType /\ d.at = p /\ d.kind = t.kind /\ d.batch = t.batch
  BY <1>4, <1>5
<1> HIDE DEF d
<1>7. /\ QueueTypes' /\ Len(objects') = Len(objects) /\ MapStep
      /\ \A r \in Objects : Items(r)' = Items(r) /\ Dropped(r)' = Dropped(r)
      /\ drain'[q] = d /\ \A r \in Objects \ {q} : Kept(r)
  BY <1>0, <1>3, <1>6, DrainMoves
<1>8. Missed(q)'
  BY <1>6, <1>7 DEF Missed, InBatch
<1>9. TakesTurn(q)
  BY <1>2, <1>6, <1>7, <1>8 DEF TakesTurn
<1>10. QED
  BY <1>6, <1>7, <1>9

(* A drain takes its next turn or leaves the loop.                         *)
LEMMA NextStepDoes ==
    ASSUME TypeOK, DrainShape, NEW q \in Objects, NextStep(q)
    PROVE  /\ QueueTypes' /\ Len(objects') = Len(objects) /\ MapStep
           /\ \A r \in Objects \ {q} : Kept(r) \/ Restarts(r)
           /\ \/ lane' = lane /\ Restarts(q)
              \/ lane' = Append(lane, q) /\ TakesTurn(q) /\ drain'[q].at = "waiting"
<1>0. drain[q].at = "debounce" /\ q \in DOMAIN objects
  BY InDrain DEF NextStep
<1> DEFINE o == objects[q]
<1>1. /\ o \in QueueType /\ drain[q] \in DrainType
      /\ Items(q) = o.items /\ Dropped(q) = o.droppedCount
  BY <1>0, Typed DEF Items, Dropped
<1>2. CASE CanTurn(q)
  <2>1. AskForTurn(q, "waiting") /\ lane' = Append(lane, q)
    BY <1>2 DEF NextStep
  <2>2. QED
    BY <1>0, <1>2, <2>1, AskDoes
<1>3. CASE ~CanTurn(q)
  <2>1. Finally(q, o) /\ lane' = lane
    BY <1>0, <1>3 DEF NextStep
  <2> HIDE DEF o
  <2>2. /\ QueueTypes' /\ Len(objects') = Len(objects) /\ MapStep
        /\ Items(q)' = o.items /\ Dropped(q)' = o.droppedCount
        /\ Rests(drain'[q])
        /\ \A r \in Objects \ {q} : Kept(r) \/ Restarts(r)
    BY <1>0, <1>1, <2>1, FinallyStep
  <2>3. Restarts(q)
    BY <1>0, <1>1, <2>2 DEF Restarts
  <2>4. QED
    BY <2>1, <2>2, <2>3
<1>4. QED
  BY <1>2, <1>3

(* The turn of a drain begins.                                             *)
LEMMA BeginFollowupDoes ==
    ASSUME TypeOK, DrainShape, NEW q \in Objects, BeginFollowup(q)
    PROVE  /\ QueueTypes' /\ Len(objects') = Len(objects) /\ MapStep
           /\ Begins(q) /\ \A r \in Objects \ {q} : Kept(r)
<1>0. drain[q].at = "waiting" /\ q \in DOMAIN objects /\ drain[q] \in DrainType
  BY InDrain, Typed DEF BeginFollowup
<1> DEFINE d == [drain[q] EXCEPT !.at = "active"]
<1>1. /\ d \in DrainType /\ d.at = "active" /\ d.batch = drain[q].batch
      /\ d.kind = drain[q].kind
  BY <1>0 DEF DrainType
<1>2. /\ drain' = [drain EXCEPT ![q] = d]
      /\ UNCHANGED <<objects, callback, current>>
  BY DEF BeginFollowup
<1> HIDE DEF d
<1>3. /\ QueueTypes' /\ Len(objects') = Len(objects) /\ MapStep
      /\ \A r \in Objects : Items(r)' = Items(r) /\ Dropped(r)' = Dropped(r)
      /\ drain'[q] = d /\ \A r \in Objects \ {q} : Kept(r)
  BY <1>0, <1>1, <1>2, DrainMoves
<1>4. QED
  BY <1>0, <1>1, <1>3 DEF Begins, SameTurn

(* The turn of a drain ends.                                               *)
LEMMA EndFollowupDoes ==
    ASSUME TypeOK, DrainShape, NEW q \in Objects, EndFollowup(q)
    PROVE  /\ QueueTypes' /\ Len(objects') = Len(objects) /\ MapStep
           /\ Ends(q) /\ \A r \in Objects \ {q} : Kept(r)
<1>0. drain[q].at = "active" /\ q \in DOMAIN objects /\ drain[q] \in DrainType
  BY InDrain, Typed DEF EndFollowup
<1> DEFINE d == [drain[q] EXCEPT !.at = "ended"]
<1>1. /\ d \in DrainType /\ d.at = "ended" /\ d.batch = drain[q].batch
      /\ d.kind = drain[q].kind
  BY <1>0 DEF DrainType
<1>2. /\ drain' = [drain EXCEPT ![q] = d]
      /\ UNCHANGED <<objects, callback, current>>
  BY DEF EndFollowup
<1> HIDE DEF d
<1>3. /\ QueueTypes' /\ Len(objects') = Len(objects) /\ MapStep
      /\ \A r \in Objects : Items(r)' = Items(r) /\ Dropped(r)' = Dropped(r)
      /\ drain'[q] = d /\ \A r \in Objects \ {q} : Kept(r)
  BY <1>0, <1>1, <1>2, DrainMoves
<1>4. QED
  BY <1>0, <1>1, <1>3 DEF Ends, SameTurn, Missed

(* The turn of a drain fails before it begins.                             *)
LEMMA FollowupMissedDoes ==
    ASSUME TypeOK, DrainShape, NEW q \in Objects, FollowupMissed(q)
    PROVE  /\ QueueTypes' /\ Len(objects') = Len(objects) /\ MapStep
           /\ Ends(q) /\ \A r \in Objects \ {q} : Kept(r)
<1>0. drain[q].at = "waiting" /\ q \in DOMAIN objects /\ drain[q] \in DrainType
  BY InDrain, Typed DEF FollowupMissed
<1> DEFINE d == [drain[q] EXCEPT !.at = "rejected"]
<1>1. /\ d \in DrainType /\ d.at = "rejected" /\ d.batch = drain[q].batch
      /\ d.kind = drain[q].kind
  BY <1>0 DEF DrainType
<1>2. /\ drain' = [drain EXCEPT ![q] = d]
      /\ UNCHANGED <<objects, callback, current>>
      /\ ToSet(drain[q].batch) \subseteq missed'
  BY DEF FollowupMissed
<1> HIDE DEF d
<1>3. /\ QueueTypes' /\ Len(objects') = Len(objects) /\ MapStep
      /\ \A r \in Objects : Items(r)' = Items(r) /\ Dropped(r)' = Dropped(r)
      /\ drain'[q] = d /\ \A r \in Objects \ {q} : Kept(r)
  BY <1>0, <1>1, <1>2, DrainMoves
<1>4. Missed(q)'
  BY <1>1, <1>2, <1>3 DEF Missed, InBatch
<1>5. QED
  BY <1>0, <1>1, <1>3, <1>4 DEF Ends, SameTurn

(* What is left of a queue when the items of its turn are removed.         *)
LEMMA RemovedTyped ==
    ASSUME TypeOK, NEW q \in DOMAIN objects
    PROVE  /\ Removed(q) \in QueueType
           /\ Removed(q).items = SubSeq(Items(q), Taken(drain[q]) + 1, Len(Items(q)))
           /\ Removed(q).droppedCount \in {0, Dropped(q)}
           /\ Removed(q).draining = objects[q].draining
<1> DEFINE n == Taken(drain[q])
           items == SubSeq(objects[q].items, n + 1, Len(objects[q].items))
           o == [objects[q] EXCEPT !.items = items]
<1>1. /\ q \in Objects /\ objects[q] \in QueueType
      /\ Items(q) = objects[q].items /\ Dropped(q) = objects[q].droppedCount
  BY Typed DEF Items, Dropped
<1>2. n \in Nat
  BY <1>1, ItemsTyped, LenProperties DEF Taken
<1>3. objects[q].items \in Seq(Msgs)
  BY <1>1 DEF QueueType
<1>4. items \in Seq(Msgs)
  BY <1>2, <1>3, CutFront
<1>5. Removed(q) = IF drain[q].kind = "summary" \/ drain[q].lines # <<>>
                   THEN [o EXCEPT !.droppedCount = 0, !.summaryLines = <<>>]
                   ELSE o
  BY DEF Removed, Taken
<1>6. items = SubSeq(Items(q), n + 1, Len(Items(q)))
  BY <1>1
<1> HIDE DEF items
<1>7. /\ o \in QueueType /\ o.items = items /\ o.draining = objects[q].draining
      /\ o.droppedCount = Dropped(q)
  BY <1>1, <1>4 DEF QueueType
<1> HIDE DEF o
<1>8. LET r == [o EXCEPT !.droppedCount = 0, !.summaryLines = <<>>]
      IN  /\ r \in QueueType /\ r.items = items
          /\ r.draining = objects[q].draining /\ r.droppedCount = 0
  <2>1. <<>> \in Seq(Msgs) /\ 0 \in Nat
    OBVIOUS
  <2>2. QED
    BY <1>7, <2>1 DEF QueueType
<1>9. QED
  BY <1>5, <1>6, <1>7, <1>8

(* The drain removes the items of its turn, and goes on or ends.           *)
LEMMA FollowupDoneDoes ==
    ASSUME TypeOK, DrainShape, NEW q \in Objects, FollowupDone(q)
    PROVE  /\ QueueTypes' /\ Len(objects') = Len(objects) /\ MapStep /\ TurnDone(q)
           /\ \A r \in Objects \ {q} : Kept(r) \/ Restarts(r)
<1>0. /\ drain[q].at \in {"ended", "rejected"} /\ q \in DOMAIN objects
      /\ drain[q] \in DrainType /\ objects[q] \in QueueType
  BY InDrain, Typed DEF FollowupDone
<1>1. /\ Removed(q) \in QueueType
      /\ Removed(q).items = SubSeq(Items(q), Taken(drain[q]) + 1, Len(Items(q)))
      /\ Removed(q).droppedCount \in {0, Dropped(q)}
      /\ Removed(q).draining = objects[q].draining
  BY <1>0, RemovedTyped
<1>2. CASE HasWork(Removed(q))
  <2> DEFINE d == [NoDrain EXCEPT !.at = "debounce", !.force = drain[q].force]
  <2>1. d \in DrainType /\ Rests(d) /\ d.at = "debounce" /\ d.batch = <<>>
    <3>1. \A b \in BOOLEAN :
            LET e == [NoDrain EXCEPT !.at = "debounce", !.force = b]
            IN  /\ e \in DrainType /\ e.at = "debounce" /\ e.batch = <<>>
                /\ e.kind = "one"
      BY NoDrainTyped DEF DrainType
    <3>2. drain[q].force \in BOOLEAN
      BY <1>0 DEF DrainType
    <3>3. QED
      BY <3>1, <3>2 DEF Rests
  <2>2. /\ objects' = [objects EXCEPT ![q] = Removed(q)]
        /\ drain' = [drain EXCEPT ![q] = d]
        /\ UNCHANGED <<current, callback>>
    BY <1>2 DEF FollowupDone
  <2> HIDE DEF d
  <2>3. /\ objects \in Seq(QueueType) /\ Len(objects) <= Cardinality(Msgs)
        /\ DOMAIN objects = 1..Len(objects)
        /\ current \in 0..Len(objects) /\ callback \in BOOLEAN
        /\ drain \in [Objects -> DrainType]
    BY Typed
  <2>4. /\ objects' \in Seq(QueueType) /\ Len(objects') = Len(objects)
        /\ DOMAIN objects' = DOMAIN objects
        /\ \A r \in DOMAIN objects :
              objects'[r] = IF r = q THEN Removed(q) ELSE objects[r]
    BY <1>0, <1>1, <2>2, <2>3, ExceptSeq, LenProperties
  <2>5. /\ drain' \in [Objects -> DrainType]
        /\ \A r \in Objects : drain'[r] = IF r = q THEN d ELSE drain[r]
    BY <2>1, <2>2, <2>3
  <2>6. DrainShape'
    <3>1. DrainOK(Removed(q), d)
      BY <1>0, <1>1, <2>1 DEF DrainShape, DrainOK
    <3>2. \A r \in DOMAIN objects : DrainOK(objects'[r], drain'[r])
      BY <2>3, <2>4, <2>5, <3>1, Typed DEF DrainShape
    <3>3. QED
      BY <1>0, <2>4, <2>5, <3>2, ShapeStep
  <2>7. \A r \in Objects \ {q} : Kept(r)
    BY <2>4, <2>5 DEF Kept, Items, Dropped
  <2>8. Items(q)' = Removed(q).items /\ Dropped(q)' = Removed(q).droppedCount
    BY <1>0, <2>4 DEF Items, Dropped
  <2>9. MapStep
    BY <1>0, <2>2, <2>5 DEF MapStep
  <2>10. QED
    BY <1>0, <1>1, <2>1, <2>2, <2>3, <2>4, <2>5, <2>6, <2>7, <2>8, <2>9
       DEF QueueTypes, TurnDone
<1>3. CASE ~HasWork(Removed(q))
  <2>1. Finally(q, Removed(q))
    BY <1>3 DEF FollowupDone
  <2>2. /\ QueueTypes' /\ Len(objects') = Len(objects) /\ MapStep
        /\ Items(q)' = Removed(q).items /\ Dropped(q)' = Removed(q).droppedCount
        /\ Rests(drain'[q])
        /\ \A r \in Objects \ {q} : Kept(r) \/ Restarts(r)
    BY <1>0, <1>1, <2>1, FinallyStep
  <2>3. QED
    BY <1>0, <1>1, <2>2 DEF TurnDone
<1>4. QED
  BY <1>2, <1>3

(* After a failed delivery the drain ends with its items in place.         *)
LEMMA FollowupFailsDoes ==
    ASSUME TypeOK, DrainShape, NEW q \in Objects, FollowupFails(q)
    PROVE  /\ QueueTypes' /\ Len(objects') = Len(objects) /\ MapStep
           /\ \A r \in Objects : Kept(r) \/ Restarts(r)
<1>0. /\ drain[q].at = "ended" /\ q \in DOMAIN objects
      /\ objects[q] \in QueueType /\ fails' = fails + 1
      /\ Items(q) = objects[q].items /\ Dropped(q) = objects[q].droppedCount
  BY InDrain, Typed DEF FollowupFails, Items, Dropped
<1>1. Finally(q, objects[q])
  BY DEF FollowupFails
<1>2. /\ QueueTypes' /\ Len(objects') = Len(objects) /\ MapStep
      /\ Items(q)' = objects[q].items /\ Dropped(q)' = objects[q].droppedCount
      /\ Rests(drain'[q])
      /\ \A r \in Objects \ {q} : Kept(r) \/ Restarts(r)
  BY <1>0, <1>1, FinallyStep
<1>3. QED
  BY <1>0, <1>2 DEF Restarts

(* The turns in the lane behind the first one wait.                        *)
LEMMA WaitingTurns ==
    ASSUME TypeOK, LaneShape
    PROVE  /\ \A t \in Waiting : t \in Msgs \cup Objects /\ At(t) = "waiting"
           /\ \A m \in Msgs \cap Waiting : handler[m] = "waiting"
           /\ \A q \in Objects \cap Waiting : drain[q].at = "waiting"
<1>1. ASSUME NEW t \in Waiting
      PROVE  t \in Msgs \cup Objects /\ At(t) = "waiting"
  <2>1. lane \in Seq(Msgs \cup Objects) /\ lane # <<>>
    BY <1>1, Typed DEF Waiting
  <2>2. /\ DOMAIN lane = 1..Len(lane) /\ Len(lane) \in Nat \ {0}
        /\ Tail(lane) \in Seq(Msgs \cup Objects) /\ Len(Tail(lane)) = Len(lane) - 1
        /\ \A i \in 1..Len(Tail(lane)) : Tail(lane)[i] = lane[i + 1]
        /\ Head(lane) = lane[1]
    BY <2>1, HeadTailProperties, LenProperties, EmptySeq
  <2>3. PICK i \in DOMAIN Tail(lane) : t = Tail(lane)[i]
    BY <1>1, <2>1 DEF Waiting, ToSet
  <2>4. DOMAIN Tail(lane) = 1..Len(Tail(lane))
    BY <2>2, LenProperties
  <2>5. i + 1 \in DOMAIN lane /\ lane[i + 1] = t /\ i + 1 # 1 /\ 1 \in DOMAIN lane
    BY <2>2, <2>3, <2>4
  <2>6. t \in Msgs \cup Objects
    BY <2>1, <2>2, <2>5, ElementOfSeq
  <2>7. Head(lane) # t
    BY <2>2, <2>5 DEF LaneShape
  <2>8. QED
    BY <2>5, <2>6, <2>7 DEF LaneShape
<1>2. QED
  BY <1>1, Bounds DEF At

(* A stop command empties the queue in the map and rejects what waits.     *)
LEMMA ClearDoes ==
    ASSUME TypeOK, DrainShape, LaneShape, Clear
    PROVE  /\ QueueTypes' /\ Len(objects') = Len(objects) /\ MapStep /\ \A q \in Objects : Stopped(q)
<1>0. /\ objects \in Seq(QueueType) /\ Len(objects) <= Cardinality(Msgs)
      /\ DOMAIN objects = 1..Len(objects) /\ DOMAIN objects \subseteq Objects
      /\ current \in 0..Len(objects)
      /\ current # 0 => current \in DOMAIN objects
      /\ drain \in [Objects -> DrainType] /\ clears \in Nat
      /\ clears' = clears + 1 /\ current' = 0 /\ callback' = FALSE
  BY Typed DEF Clear
<1> DEFINE e == [NewObject EXCEPT !.draining = objects[current].draining]
<1>1. /\ objects' \in Seq(QueueType) /\ Len(objects') = Len(objects)
      /\ \A q \in DOMAIN objects :
            /\ objects'[q].draining = objects[q].draining
            /\ \/ objects'[q] = objects[q]
               \/ objects'[q].items = <<>> /\ objects'[q].droppedCount = 0
  <2>1. CASE current = 0
    BY <1>0, <2>1 DEF Clear
  <2>2. CASE current # 0
    <3>1. objects[current] \in QueueType /\ current \in DOMAIN objects
      BY <2>2, Typed
    <3>2. objects[current].draining \in BOOLEAN
      BY <3>1 DEF QueueType
    <3>3. \A b \in BOOLEAN :
            LET f == [NewObject EXCEPT !.draining = b]
            IN  /\ f \in QueueType /\ f.draining = b /\ f.items = <<>>
                /\ f.droppedCount = 0
      BY NoDrainTyped DEF QueueType
    <3>4. /\ e \in QueueType /\ e.draining = objects[current].draining
          /\ e.items = <<>> /\ e.droppedCount = 0
      BY <3>2, <3>3
    <3>5. objects' = [objects EXCEPT ![current] = e]
      BY <2>2 DEF Clear
    <3> HIDE DEF e
    <3>6. /\ objects' \in Seq(QueueType) /\ Len(objects') = Len(objects)
          /\ \A q \in DOMAIN objects :
                objects'[q] = IF q = current THEN e ELSE objects[q]
      BY <1>0, <3>1, <3>4, <3>5, ExceptSeq
    <3>7. QED
      BY <3>4, <3>6
  <2>3. QED
    BY <2>1, <2>2
<1>2. DOMAIN objects' = DOMAIN objects
  BY <1>0, <1>1, LenProperties
<1>3. \A q \in Objects :
        /\ Items(q)' \in {<<>>, Items(q)} /\ Dropped(q)' \in {0, Dropped(q)}
  BY <1>1, <1>2 DEF Items, Dropped
<1>4. /\ drain' \in [Objects -> DrainType]
      /\ \A q \in Objects :
            /\ SameTurn(q)
            /\ drain'[q] = drain[q]
               \/ (drain[q].at = "waiting" /\ drain'[q].at = "rejected")
  <2> DEFINE d(q) == [drain[q] EXCEPT !.at = "rejected"]
  <2>1. \A q \in Objects : /\ d(q) \in DrainType /\ d(q).at = "rejected"
                          /\ d(q).batch = drain[q].batch
                          /\ d(q).kind = drain[q].kind
    BY <1>0 DEF DrainType
  <2>2. drain' = [q \in Objects |-> IF q \in Waiting THEN d(q) ELSE drain[q]]
    BY DEF Clear
  <2> HIDE DEF d
  <2>3. \A q \in Objects : drain'[q] = IF q \in Waiting THEN d(q) ELSE drain[q]
    BY <2>2
  <2>4. drain' \in [Objects -> DrainType]
    BY <1>0, <2>1, <2>2
  <2>5. QED
    BY <2>1, <2>3, <2>4, WaitingTurns DEF SameTurn
<1>5. \A q \in Objects : Stopped(q)
  BY <1>0, <1>3, <1>4 DEF Stopped
<1>6. DrainShape'
  <2>1. \A q \in DOMAIN objects : DrainOK(objects'[q], drain'[q])
    BY <1>0, <1>1, <1>4 DEF DrainShape, DrainOK, SameTurn
  <2>2. \A q \in Objects \ DOMAIN objects : drain'[q] = drain[q]
    BY <1>4, NoDrainTyped DEF DrainShape
  <2>3. QED
    BY <1>1, <1>4, <2>1, <2>2, ShapeStep
<1>7. MapStep
  BY <1>0 DEF MapStep
<1>8. 0 \in 0..Len(objects)
  BY <1>0
<1>9. QED
  BY <1>0, <1>1, <1>4, <1>5, <1>6, <1>7, <1>8 DEF QueueTypes

(* One more message is queued than there were: room for one more object.   *)
LEMMA QueueingGrows ==
    ASSUME TypeOK, ObjectsCounted, NEW m \in Msgs, handler[m] = "sawActive",
           handler' = [handler EXCEPT ![m] = "queued"]
    PROVE  /\ Cardinality(Queueing') = Cardinality(Queueing) + 1
           /\ Cardinality(Queueing) \in Nat
           /\ Len(objects) + 1 <= Cardinality(Msgs)
<1>1. /\ Queueing' = Queueing \cup {m} /\ m \notin Queueing
      /\ Queueing' \subseteq Msgs /\ Queueing \subseteq Msgs
  BY Typed DEF Queueing
<1>2. IsFiniteSet(Queueing) /\ IsFiniteSet(Queueing')
  BY <1>1, Bounds, FS_Subset
<1>3. /\ Cardinality(Queueing) \in Nat
      /\ Cardinality(Queueing') = Cardinality(Queueing) + 1
  BY <1>1, <1>2, FS_AddElement, FS_CardinalityType
<1>4. Cardinality(Queueing') <= Cardinality(Msgs)
  BY <1>1, Bounds, FS_Subset
<1>5. Len(objects) \in Nat /\ Len(objects) <= Cardinality(Queueing)
  BY Typed DEF ObjectsCounted
<1>6. QED
  BY <1>3, <1>4, <1>5, Bounds

(* A message that is queued is turned away, or joins the queue in the map, *)
(* which is made for it if there is none.                                  *)
EnqueueEffect(m) ==
    \/ /\ UNCHANGED <<accepted, current, overflows>>
       /\ \A q \in Objects : Kept(q)
    \/ /\ accepted' = Append(accepted, m)
       /\ overflows' \in {overflows, overflows + 1}
       /\ current # 0 => current' = current
       /\ \E q \in Objects : /\ current' = q /\ Fills(q, m)
                             /\ \A r \in Objects \ {q} : Kept(r)

(* Queueing a message has that effect, with or without a drop, a new queue *)
(* and the start of a drain.                                               *)
LEMMA EnqueueDoes ==
    ASSUME TypeOK, DrainShape, ObjectsCounted, NEW m \in Msgs, EnqueueFollowup(m)
    PROVE  /\ QueueTypes' /\ ObjectsCounted' /\ EnqueueEffect(m)
           /\ discarded' \subseteq Msgs
<1> DEFINE objs == IF current = 0 THEN Append(objects, NewObject) ELSE objects
           cur == IF current = 0 THEN Len(objs) ELSE current
<1>a. \E c : c = cur
  OBVIOUS
<1>b. PICK c : c = cur
  BY <1>a
<1> DEFINE o == [objs[c] EXCEPT !.lastRun = TRUE]
           roomy == IF Overflowing(o) THEN Overflow(o) ELSE o
           pushed == Push(roomy, m)
<1>0. /\ objects \in Seq(QueueType) /\ Len(objects) <= Cardinality(Msgs)
      /\ DOMAIN objects = 1..Len(objects) /\ DOMAIN objects \subseteq Objects
      /\ Len(objects) \in Nat
      /\ current \in 0..Len(objects) /\ callback \in BOOLEAN
      /\ current # 0 => current \in DOMAIN objects
      /\ drain \in [Objects -> DrainType] /\ overflows \in Nat
      /\ \A q \in DOMAIN objects : objects[q] \in QueueType
      /\ settings \in Settings
  BY Typed
<1>1. /\ handler[m] = "sawActive" /\ handler' = [handler EXCEPT ![m] = "queued"]
      /\ EnqueueFollowupRun(m)
  BY DEF EnqueueFollowup
<1>2. /\ Cardinality(Queueing') = Cardinality(Queueing) + 1
      /\ Cardinality(Queueing) \in Nat
      /\ Len(objects) + 1 <= Cardinality(Msgs)
  BY <1>1, QueueingGrows
<1>3. /\ objs \in Seq(QueueType) /\ Len(objs) <= Cardinality(Msgs)
      /\ Len(objs) \in {Len(objects), Len(objects) + 1}
      /\ DOMAIN objs = 1..Len(objs)
      /\ c \in DOMAIN objs /\ c \in Objects /\ c # 0
      /\ \A q \in DOMAIN objs \ {c} : q \in DOMAIN objects /\ objs[q] = objects[q]
      /\ DOMAIN objects \subseteq DOMAIN objs
      /\ objs[c].items = Items(c) /\ objs[c].droppedCount = Dropped(c)
      /\ DrainOK(objs[c], drain[c])
      /\ current # 0 => c = current /\ objs = objects
      /\ current = 0 => c = Len(objects) + 1
  <2>1. CASE current # 0
    BY <1>b, <1>0, <2>1 DEF Items, Dropped, DrainShape
  <2>2. CASE current = 0
    <3>1. /\ objs \in Seq(QueueType) /\ Len(objs) = Len(objects) + 1
          /\ \A q \in 1..Len(objects) : objs[q] = objects[q]
          /\ objs[Len(objects) + 1] = NewObject
      BY <1>0, <2>2, NoDrainTyped, AppendProperties
    <3>2. c = Len(objects) + 1 /\ DOMAIN objs = 1..Len(objs)
      BY <1>b, <2>2, <3>1, LenProperties
    <3> HIDE DEF objs, cur
    <3>3. c \in Objects /\ c \notin DOMAIN objects
      BY <1>0, <1>2, <3>2, Bounds
    <3>4. DrainOK(objs[c], drain[c])
      BY <3>1, <3>2, <3>3, NoDrainTyped DEF DrainShape, DrainOK
    <3>5. Items(c) = <<>> /\ Dropped(c) = 0
      BY <3>3 DEF Items, Dropped
    <3>6. QED
      BY <1>0, <1>2, <2>2, <3>1, <3>2, <3>3, <3>4, <3>5, NoDrainTyped
  <2>3. QED
    BY <2>1, <2>2
<1>3a. /\ Len(objs) \in Nat /\ c \in 0..Len(objs)
       /\ Len(objs) <= Len(objects) + 1 /\ c \in 1..Len(objs)
  <2>1. /\ c \in DOMAIN objs /\ DOMAIN objs = 1..Len(objs)
        /\ Len(objs) \in {Len(objects), Len(objects) + 1}
    BY <1>3
  <2>2. Len(objects) \in Nat
    BY <1>0
  <2>3. QED
    BY <2>1, <2>2
<1>3b. objs \in Seq(QueueType) /\ DOMAIN objs = 1..Len(objs) /\ c \in DOMAIN objs
       /\ Len(objs) <= Cardinality(Msgs) /\ c \in Objects /\ c # 0
  BY <1>3
<1>4. objs[c] \in QueueType
  BY <1>3b, ElementOfSeq
<1> HIDE DEF objs, cur
<1>5. /\ o \in QueueType /\ o.items = Items(c) /\ o.droppedCount = Dropped(c)
      /\ o.draining = objs[c].draining
  BY <1>3, <1>4 DEF QueueType
<1>5a. LetGo(o) \subseteq Msgs
  <2>1. o.summaryLines \in Seq(Msgs) /\ o.items \in Seq(Msgs)
    BY <1>5 DEF QueueType
  <2>2. ToSet(o.summaryLines) \subseteq Msgs /\ ToSet(o.items) \subseteq Msgs
    BY <2>1, LenProperties, ElementOfSeq DEF ToSet
  <2>3. QED
    BY <2>2 DEF LetGo
<1>5b. discarded' \subseteq discarded \cup {m} \cup LetGo(o)
  BY <1>b, <1>1 DEF EnqueueFollowupRun, objs, cur, o
<1>5c. discarded' \subseteq Msgs
  BY <1>5a, <1>5b DEF TypeOK
<1> HIDE DEF o
<1>6. Items(c) \in Seq(Msgs) /\ Len(Items(c)) \in Nat
  BY <1>3, ItemsTyped
<1>7. /\ roomy \in QueueType /\ roomy.draining = objs[c].draining
      /\ \E k \in 0..Len(Items(c)) :
            /\ roomy.items = SubSeq(Items(c), k + 1, Len(Items(c)))
            /\ k > 0 => Overflowing(o)
      /\ roomy.droppedCount = Dropped(c) \/ Overflowing(o)
  <2>1. CASE Overflowing(o)
    <3>1. /\ Overflow(o) \in QueueType /\ Overflow(o).draining = o.draining
          /\ \E k \in 1..Len(o.items) :
                Overflow(o).items = SubSeq(o.items, k + 1, Len(o.items))
      BY <1>0, <1>5, <2>1, OverflowTyped
    <3>2. QED
      BY <1>5, <1>6, <2>1, <3>1
  <2>2. CASE ~Overflowing(o)
    <3>1. SubSeq(Items(c), 0 + 1, Len(Items(c))) = Items(c)
      BY <1>6, SubSeqFull
    <3>2. 0 \in 0..Len(Items(c))
      BY <1>6
    <3>3. QED
      BY <1>5, <2>2, <3>1, <3>2
  <2>3. QED
    BY <2>1, <2>2
<1> HIDE DEF roomy
<1>8. /\ pushed \in QueueType /\ pushed.items = Append(roomy.items, m)
      /\ pushed.draining = objs[c].draining
      /\ pushed.droppedCount = roomy.droppedCount
  <2>1. roomy.items \in Seq(Msgs)
    BY <1>7 DEF QueueType
  <2>2. Append(roomy.items, m) \in Seq(Msgs)
    BY <2>1
  <2>3. QED
    BY <1>7, <2>2 DEF Push, QueueType
<1> HIDE DEF pushed
<1>9. \A e \in QueueType : e.draining = objs[c].draining =>
        LET s == [objs EXCEPT ![c] = e]
        IN  /\ s \in Seq(QueueType) /\ Len(s) = Len(objs)
            /\ DOMAIN s = DOMAIN objs
            /\ \A q \in DOMAIN objs : s[q] = IF q = c THEN e ELSE objs[q]
            /\ \A q \in DOMAIN objs : DrainOK(s[q], drain[q])
  <2> SUFFICES ASSUME NEW e \in QueueType, e.draining = objs[c].draining,
                      NEW s, s = [objs EXCEPT ![c] = e]
               PROVE  /\ s \in Seq(QueueType) /\ Len(s) = Len(objs)
                      /\ DOMAIN s = DOMAIN objs
                      /\ \A q \in DOMAIN objs : s[q] = IF q = c THEN e ELSE objs[q]
                      /\ \A q \in DOMAIN objs : DrainOK(s[q], drain[q])
    OBVIOUS
  <2>1. /\ s \in Seq(QueueType) /\ Len(s) = Len(objs)
        /\ \A q \in DOMAIN objs : s[q] = IF q = c THEN e ELSE objs[q]
    BY <1>3b, ExceptSeq
  <2>2. DOMAIN s = DOMAIN objs
    BY <1>3b, <2>1, LenProperties
  <2>3. DrainOK(e, drain[c])
    BY <1>3 DEF DrainOK
  <2>4. \A q \in DOMAIN objs \ {c} : DrainOK(objs[q], drain[q])
    BY <1>0, <1>3 DEF DrainShape
  <2>5. QED
    BY <2>1, <2>2, <2>3, <2>4
<1>10. Len(objects') = Len(objs) => ObjectsCounted'
  <2>1. Len(objects) \in Nat /\ Len(objects) <= Cardinality(Queueing)
    BY <1>0 DEF ObjectsCounted
  <2>2. Len(objs) <= Cardinality(Queueing')
    BY <1>2, <1>3a, <2>1
  <2>3. QED
    BY <2>2 DEF ObjectsCounted
<1>11. CASE Overflowing(o) /\ settings.drop = "new"
  <2>1. /\ objects' = [objs EXCEPT ![c] = o]
        /\ UNCHANGED <<current, callback, drain, accepted, overflows>>
    BY <1>b, <1>1, <1>11 DEF EnqueueFollowupRun, objs, cur, o
  <2>2. Len(Items(c)) >= 1
    BY <1>0, <1>5, <1>6, <1>11, Configured DEF Overflowing
  <2>3. c \in DOMAIN objects
    BY <2>2 DEF Items
  <2>4. DOMAIN objs = DOMAIN objects /\ Len(objs) = Len(objects)
    <3>1. c <= Len(objects) /\ Len(objects) \in Nat
      BY <1>0, <2>3
    <3>2. (current = 0 => c = Len(objects) + 1) /\ (current # 0 => objs = objects)
      BY <1>3
    <3>3. objs = objects
      BY <3>1, <3>2
    <3>4. QED
      BY <3>3
  <2>5. /\ objects' \in Seq(QueueType) /\ Len(objects') = Len(objs)
        /\ DOMAIN objects' = DOMAIN objects
        /\ \A q \in DOMAIN objects :
              objects'[q] = IF q = c THEN o ELSE objects[q]
        /\ \A q \in DOMAIN objects : DrainOK(objects'[q], drain[q])
    BY <1>3, <1>5, <1>9, <2>1, <2>4
  <2>6. \A q \in Objects : Kept(q)
    BY <1>5, <2>1, <2>3, <2>5 DEF Kept, Items, Dropped
  <2>7. DrainShape'
    BY <2>1, <2>5 DEF DrainShape
  <2>8. QED
    BY <1>0, <1>3, <1>5c, <1>10, <2>1, <2>4, <2>5, <2>6, <2>7 DEF EnqueueEffect, QueueTypes
<1>12. CASE ~(Overflowing(o) /\ settings.drop = "new")
  <2> DEFINE s == [objs EXCEPT ![c] = pushed]
  <2>1. /\ s \in Seq(QueueType) /\ Len(s) = Len(objs) /\ DOMAIN s = DOMAIN objs
        /\ \A q \in DOMAIN objs : s[q] = IF q = c THEN pushed ELSE objs[q]
        /\ \A q \in DOMAIN objs : DrainOK(s[q], drain[q])
    BY <1>8, <1>9
  <2>2. /\ IF callback THEN ScheduleDrain(s, c, drain)
           ELSE objects' = s /\ current' = c /\ UNCHANGED <<callback, drain>>
        /\ accepted' = Append(accepted, m)
        /\ IF Overflowing(o) THEN overflows' = overflows + 1
                             ELSE overflows' = overflows
    BY <1>b, <1>1, <1>12 DEF EnqueueFollowupRun, objs, cur, o, roomy, pushed
  <2> HIDE DEF s
  <2>3. /\ objects' \in Seq(QueueType) /\ Len(objects') = Len(objs)
        /\ current' = c /\ callback' \in BOOLEAN
        /\ drain' \in [Objects -> DrainType]
        /\ \A q \in DOMAIN objs : /\ Content(objects'[q]) = Content(s[q])
                                  /\ DrainOK(objects'[q], drain'[q])
        /\ \A q \in Objects :
              drain'[q] = drain[q] \/ (drain'[q] = Starting /\ q = c
                                        /\ drain[q].at = "idle")
    <3>1. CASE callback
      <4>1. ScheduleDrain(s, c, drain) /\ c \in 0..Len(s)
        BY <1>3a, <2>1, <2>2, <3>1
      <4>1a. s \in Seq(QueueType) /\ Len(s) <= Cardinality(Msgs)
        BY <1>3b, <2>1
      <4>1b. \A q \in DOMAIN s : DrainOK(s[q], drain[q])
        BY <2>1
      <4>1c. drain \in [Objects -> DrainType] /\ callback \in BOOLEAN
        BY <1>0
      <4>1d. /\ objects' \in Seq(QueueType) /\ Len(objects') = Len(s)
             /\ current' = c /\ callback' \in BOOLEAN
             /\ drain' \in [Objects -> DrainType]
             /\ \A q \in DOMAIN s : /\ Content(objects'[q]) = Content(s[q])
                                    /\ DrainOK(objects'[q], drain'[q])
             /\ \A q \in Objects :
                   drain'[q] = drain[q] \/ (drain'[q] = Starting /\ q = c
                                             /\ drain[q].at = "idle")
        BY <4>1, <4>1a, <4>1b, <4>1c, Scheduled
      <4>2. QED
        BY <2>1, <4>1d
    <3>2. CASE ~callback
      BY <1>0, <2>1, <2>2, <3>2
    <3>3. QED
      BY <3>1, <3>2
  <2>4. DOMAIN objects' = DOMAIN objs
    BY <1>3b, <2>3, LenProperties
  <2>5. Items(c)' = pushed.items /\ Dropped(c)' = pushed.droppedCount
    BY <1>3b, <2>1, <2>3, <2>4 DEF Items, Dropped, Content
  <2>6. Fills(c, m)
    <3>1. Overflowing(o) => overflows' > 0
      BY <1>0, <2>2
    <3>2. drain'[c] = drain[c] \/ (drain[c].at = "idle" /\ Rests(drain'[c]))
      BY <1>3b, <2>3, NoDrainTyped DEF Rests
    <3>3. QED
      BY <1>7, <1>8, <2>5, <3>1, <3>2 DEF Fills
  <2>7. \A q \in Objects \ {c} : Kept(q)
    <3>1. \A q \in Objects \ {c} :
            Items(q)' = Items(q) /\ Dropped(q)' = Dropped(q)
      <4> SUFFICES ASSUME NEW q \in Objects \ {c}
                   PROVE  Items(q)' = Items(q) /\ Dropped(q)' = Dropped(q)
        OBVIOUS
      <4>1. CASE q \in DOMAIN objs
        <5>1. /\ q \in DOMAIN objects /\ objs[q] = objects[q] /\ s[q] = objs[q]
              /\ Content(objects'[q]) = Content(s[q])
          BY <1>3, <2>1, <2>3, <4>1
        <5>2. QED
          BY <2>4, <4>1, <5>1 DEF Items, Dropped, Content
      <4>2. CASE q \notin DOMAIN objs
        <5>1. q \notin DOMAIN objects
          BY <1>3, <4>2
        <5>2. QED
          BY <2>4, <4>2, <5>1 DEF Items, Dropped
      <4>3. QED
        BY <4>1, <4>2
    <3>2. QED
      BY <2>3, <3>1 DEF Kept
  <2>8. DrainShape'
    <3>1. \A q \in Objects \ DOMAIN objs : drain'[q] = NoDrain
      BY <1>3, <2>3 DEF DrainShape
    <3>2. QED
      BY <2>3, <2>4, <3>1 DEF DrainShape
  <2>9. EnqueueEffect(m)
    BY <1>3, <2>2, <2>3, <2>6, <2>7 DEF EnqueueEffect
  <2>10. QueueTypes'
    BY <1>3a, <1>3b, <2>3, <2>4, <2>8 DEF QueueTypes
  <2>11. QED
    BY <1>5c, <1>10, <2>3, <2>9, <2>10
<1>13. QED
  BY <1>5c, <1>11, <1>12

-----------------------------------------------------------------------------
(* The lane                                                                *)

(* Where a turn is in the lane, and that it neither enters nor leaves it.  *)
InLane(t) == At(t) \in {"waiting", "active"}
Still(t)  == At(t)' = At(t) \/ (~InLane(t) /\ ~InLane(t)')

(* The lane as a sequence.                                                 *)
LEMMA LaneTyped ==
    TypeOK => /\ lane \in Seq(Msgs \cup Objects) /\ Len(lane) \in Nat
              /\ DOMAIN lane = 1..Len(lane)
              /\ \A i \in 1..Len(lane) : lane[i] \in Msgs \cup Objects
              /\ lane # <<>> => Head(lane) = lane[1] /\ Len(lane) >= 1
<1> SUFFICES ASSUME TypeOK
    PROVE  /\ lane \in Seq(Msgs \cup Objects) /\ Len(lane) \in Nat
           /\ DOMAIN lane = 1..Len(lane)
           /\ \A i \in 1..Len(lane) : lane[i] \in Msgs \cup Objects
           /\ lane # <<>> => Head(lane) = lane[1] /\ Len(lane) >= 1
  OBVIOUS
<1>1. lane \in Seq(Msgs \cup Objects)
  BY Typed
<1>2. QED
  BY <1>1, LenProperties, ElementOfSeq, EmptySeq

(* The lane stays, or its first turn becomes active.                       *)
LEMMA LaneStays ==
    ASSUME TypeOK, LaneShape, lane' = lane,
           \A t \in Msgs \cup Objects :
              \/ Still(t)
              \/ /\ lane # <<>> /\ t = Head(lane)
                 /\ At(t) = "waiting" /\ At(t)' = "active"
    PROVE  LaneShape'
<1>1. \A i \in DOMAIN lane : lane[i] \in Msgs \cup Objects
  BY LaneTyped
<1>2. \A t \in Msgs \cup Objects : At(t)' = "active" => lane # <<>> /\ Head(lane) = t
  BY DEF LaneShape, Still, InLane
<1>3. \A i \in DOMAIN lane : At(lane[i])' \in {"waiting", "active"}
  <2> SUFFICES ASSUME NEW i \in DOMAIN lane, NEW t \in Msgs \cup Objects, t = lane[i]
               PROVE  At(t)' \in {"waiting", "active"}
    BY <1>1
  <2>1. InLane(t)
    BY DEF LaneShape, InLane
  <2>2. QED
    BY <2>1 DEF Still, InLane
<1>4. QED
  BY <1>2, <1>3 DEF LaneShape

(* A turn joins the lane.                                                  *)
LEMMA LaneJoined ==
    ASSUME TypeOK, LaneShape, NEW u \in Msgs \cup Objects, ~InLane(u),
           lane' = Append(lane, u), At(u)' = "waiting",
           \A t \in (Msgs \cup Objects) \ {u} : Still(t)
    PROVE  LaneShape'
<1>1. /\ DOMAIN lane = 1..Len(lane) /\ Len(lane) \in Nat
      /\ \A i \in 1..Len(lane) : lane[i] \in Msgs \cup Objects
      /\ lane # <<>> => Head(lane) = lane[1] /\ Len(lane) >= 1
  BY LaneTyped
<1>2. /\ lane' \in Seq(Msgs \cup Objects) /\ Len(lane') = Len(lane) + 1
      /\ \A i \in 1..Len(lane) : lane'[i] = lane[i]
      /\ lane'[Len(lane) + 1] = u
  BY LaneTyped, AppendProperties
<1>3. DOMAIN lane' = 1..(Len(lane) + 1) /\ lane' # <<>> /\ Head(lane') = lane'[1]
  BY <1>1, <1>2, LenProperties, EmptySeq
<1>4. \A i \in 1..Len(lane) : InLane(lane[i]) /\ lane[i] # u
  BY <1>1 DEF LaneShape, InLane
<1>5. \A i, j \in DOMAIN lane' : lane'[i] = lane'[j] => i = j
  BY <1>1, <1>2, <1>3, <1>4 DEF LaneShape
<1>6. ASSUME NEW i \in DOMAIN lane', NEW t, t = lane'[i]
      PROVE  t \in Msgs \cup Objects /\ At(t)' \in {"waiting", "active"}
  <2>1. CASE t = u
    BY <2>1
  <2>2. CASE t # u
    <3>1. t \in Msgs \cup Objects /\ InLane(t) /\ Still(t)
      BY <1>1, <1>2, <1>3, <1>4, <1>6, <2>2
    <3>2. QED
      BY <3>1 DEF Still, InLane
  <2>3. QED
    BY <2>1, <2>2
<1>7. ASSUME NEW t \in Msgs \cup Objects, At(t)' = "active"
      PROVE  Head(lane') = t
  <2>1. At(t) = "active"
    BY <1>7 DEF Still, InLane
  <2>2. lane # <<>> /\ Head(lane) = t
    BY <2>1 DEF LaneShape
  <2>3. QED
    BY <1>1, <1>2, <1>3, <2>2
<1>8. QED
  BY <1>3, <1>5, <1>6, <1>7 DEF LaneShape

(* The first turn has ended, or failed, and leaves the lane.               *)
LEMMA LaneLeft ==
    ASSUME TypeOK, LaneShape, NEW u \in Msgs \cup Objects,
           At(u) = "active" \/ (lane # <<>> /\ Head(lane) = u),
           lane' = Tail(lane), At(u)' \in {"ended", "rejected"},
           \A t \in (Msgs \cup Objects) \ {u} : Still(t)
    PROVE  LaneShape'
<1>1. lane # <<>> /\ Head(lane) = u
  BY DEF LaneShape
<1>2. /\ DOMAIN lane = 1..Len(lane) /\ Len(lane) \in Nat
      /\ \A i \in 1..Len(lane) : lane[i] \in Msgs \cup Objects
      /\ Head(lane) = lane[1] /\ Len(lane) >= 1
  BY <1>1, LaneTyped
<1>3. /\ lane' \in Seq(Msgs \cup Objects) /\ Len(lane') = Len(lane) - 1
      /\ \A i \in 1..(Len(lane) - 1) : lane'[i] = lane[i + 1]
  BY <1>1, LaneTyped, HeadTailProperties
<1>4. DOMAIN lane' = 1..(Len(lane) - 1)
  BY <1>3, LenProperties
<1>5. \A i, j \in DOMAIN lane' : lane'[i] = lane'[j] => i = j
  BY <1>2, <1>3, <1>4 DEF LaneShape
<1>6. ASSUME NEW i \in DOMAIN lane', NEW t, t = lane'[i]
      PROVE  At(t)' \in {"waiting", "active"}
  <2>1. /\ i + 1 \in DOMAIN lane /\ t = lane[i + 1] /\ i + 1 # 1
        /\ 1 \in DOMAIN lane
    BY <1>2, <1>3, <1>4, <1>6
  <2>2. t \in Msgs \cup Objects /\ InLane(t)
    BY <1>2, <2>1 DEF LaneShape, InLane
  <2>3. t # u
    BY <1>1, <1>2, <2>1 DEF LaneShape
  <2>4. QED
    BY <2>2, <2>3 DEF Still, InLane
<1>7. ASSUME NEW t \in Msgs \cup Objects, At(t)' = "active"
      PROVE  FALSE
  <2>1. t # u /\ At(t) = "active"
    BY <1>7 DEF Still, InLane
  <2>2. QED
    BY <1>1, <2>1 DEF LaneShape
<1>8. QED
  BY <1>5, <1>6, <1>7 DEF LaneShape

(* All turns but the first are taken out of the lane.                      *)
LEMMA LaneCut ==
    ASSUME TypeOK, LaneShape,
           lane' = IF lane = <<>> THEN <<>> ELSE <<Head(lane)>>,
           \A t \in Msgs \cup Objects :
              IF t \in Waiting THEN At(t)' \in {"ended", "rejected"}
                               ELSE At(t)' = At(t)
    PROVE  LaneShape'
<1>1. CASE lane = <<>>
  <2>1. lane' = <<>> /\ Waiting = {}
    BY <1>1 DEF Waiting
  <2>2. QED
    BY <1>1, <2>1 DEF LaneShape
<1>2. CASE lane # <<>>
  <2>a. \E h : h = Head(lane)
    OBVIOUS
  <2>b. PICK h : h = Head(lane)
    BY <2>a
  <2>1. /\ lane' = <<h>> /\ h \in Msgs \cup Objects /\ h = lane[1]
        /\ 1 \in DOMAIN lane /\ DOMAIN lane = 1..Len(lane) /\ Len(lane) \in Nat
    BY <1>2, <2>b, LaneTyped, HeadTailProperties
  <2>2. h \notin Waiting
    <3>1. /\ DOMAIN Tail(lane) = 1..(Len(lane) - 1)
          /\ \A i \in 1..(Len(lane) - 1) : Tail(lane)[i] = lane[i + 1]
      BY <1>2, LaneTyped, HeadTailProperties, LenProperties
    <3>2. \A i \in 1..(Len(lane) - 1) : i + 1 \in DOMAIN lane /\ i + 1 # 1
      BY <2>1
    <3>3. QED
      BY <1>2, <2>1, <2>b, <3>1, <3>2 DEF LaneShape, Waiting, ToSet
  <2>3. At(h) \in {"waiting", "active"} /\ At(h)' = At(h)
    BY <2>1, <2>2 DEF LaneShape
  <2>4. /\ DOMAIN lane' = {1} /\ lane'[1] = h /\ lane' # <<>> /\ Head(lane') = h
    BY <2>1
  <2>5. ASSUME NEW i \in DOMAIN lane', NEW t, t = lane'[i]
        PROVE  At(t)' \in {"waiting", "active"}
    <3>1. t = h
      BY <2>4, <2>5
    <3>2. QED
      BY <2>3, <3>1
  <2>6a. \A t \in Msgs \cup Objects : At(t)' = "active" => At(t) = "active"
    OBVIOUS
  <2>6. \A t \in Msgs \cup Objects : At(t)' = "active" => Head(lane') = t
    BY <2>4, <2>b, <2>6a DEF LaneShape
  <2>7. QED
    BY <2>4, <2>5, <2>6 DEF LaneShape
<1>3. QED
  BY <1>1, <1>2

-----------------------------------------------------------------------------
(* Every step keeps the shape                                              *)

(* The part of the type invariant that is not about the queues.            *)
RestTypes ==
    /\ settings \in Settings /\ lane \in Seq(Msgs \cup Objects)
    /\ handler \in [Msgs -> {"new", "sawIdle", "sawActive", "waiting",
                             "active", "ended", "queued", "done"}]
    /\ accepted \in Seq(Msgs) /\ told \in [Msgs -> Nat]
    /\ mentioned \subseteq Msgs /\ discarded \subseteq Msgs /\ missed \subseteq Msgs
    /\ {overflows, fails, clears} \subseteq Nat

(* A message that was neither queued nor put to the agent, and steps that  *)
(* move no message back there and queue none.                              *)
Early == {"new", "sawIdle", "sawActive", "waiting"}
Headway ==
    \A m \in Msgs : /\ handler'[m] = "queued" <=> handler[m] = "queued"
                    /\ handler'[m] \in Early => handler[m] \in Early

(* A step that puts nothing to the agent and queues no message.            *)
Quiet ==
    /\ MapStep /\ \A q \in Objects : Quietly(q)
    /\ UNCHANGED <<told, accepted, overflows>>
    /\ fails' >= fails /\ (clears' = 0 => clears = 0) /\ missed \subseteq missed'
    /\ Headway

(* The parts make up the type invariant.                                   *)
LEMMA TypesJoin == QueueTypes' /\ RestTypes' => TypeOK' /\ DrainShape'
  BY DEF QueueTypes, RestTypes, TypeOK, QueueType, DrainType

(* And it has these parts.                                                 *)
LEMMA TypesSplit == TypeOK /\ DrainShape => QueueTypes /\ RestTypes
  BY DEF QueueTypes, RestTypes, TypeOK, QueueType, DrainType

(* A step that leaves the queues alone.                                    *)
LEMMA TypesKept ==
    ASSUME QueueTypes, UNCHANGED <<objects, current, callback, drain>>
    PROVE  /\ QueueTypes' /\ MapStep /\ \A q \in Objects : Kept(q)
<1>1. QueueTypes'
  BY DEF QueueTypes, DrainShape
<1>2. \A q \in Objects : Kept(q)
  BY DEF Kept, Items, Dropped
<1>3. MapStep
  BY DEF MapStep
<1>4. QED
  BY <1>1, <1>2, <1>3

(* No message joins or leaves those that were queued.                      *)
LEMMA CountKept ==
    ASSUME ObjectsCounted, Headway, Len(objects') = Len(objects)
    PROVE  ObjectsCounted'
<1>1. Queueing' = Queueing
  BY DEF Queueing, Headway
<1>2. QED
  BY <1>1 DEF ObjectsCounted

(* A drain that takes no turn and ends none stays in or out of the lane.   *)
LEMMA StillQueue ==
    ASSUME NEW q \in Objects, Kept(q) \/ Restarts(q) \/ TurnDone(q)
    PROVE  Still(q)
  BY Bounds DEF Kept, Restarts, TurnDone, Rests, Still, InLane, At

(* A handler moves, the others stay.                                       *)
LEMMA MovesOne ==
    ASSUME TypeOK, NEW m \in Msgs, NEW h, handler' = [handler EXCEPT ![m] = h]
    PROVE  /\ At(m) = handler[m] /\ At(m)' = h /\ handler'[m] = h
           /\ \A n \in Msgs \ {m} : handler'[n] = handler[n] /\ At(n)' = At(n)
  BY Typed DEF At

(* No queue is made.                                                       *)
LEMMA LenKept ==
    ASSUME objects' = objects
    PROVE  Len(objects') = Len(objects)
  OBVIOUS

(* The steps of a handler that leave the queues alone.                     *)
LEMMA ArriveStep ==
    ASSUME ShapeInv, NEW m \in Msgs, Arrive(m) \/ OwnRefused(m)
    PROVE  ShapeInv' /\ Quiet
<1> USE DEF ShapeInv
<1>1. /\ handler[m] \in {"new", "sawIdle"} /\ lane' = lane
      /\ \E h \in {"sawIdle", "sawActive", "ended"} :
            handler' = [handler EXCEPT ![m] = h]
      /\ UNCHANGED <<settings, objects, current, callback, drain, accepted, told,
                     mentioned, discarded, missed, overflows, fails, clears>>
  BY DEF Arrive, OwnRefused, queueVars, history, counters
<1>2. PICK h \in {"sawIdle", "sawActive", "ended"} : handler' = [handler EXCEPT ![m] = h]
  BY <1>1
<1>3. /\ At(m) \in {"new", "sawIdle"} /\ At(m)' = h /\ handler'[m] = h
      /\ \A n \in Msgs \ {m} : handler'[n] = handler[n] /\ At(n)' = At(n)
  BY <1>1, <1>2, MovesOne
<1>4. QueueTypes' /\ MapStep /\ \A q \in Objects : Kept(q)
  BY <1>1, TypesSplit, TypesKept
<1>5. RestTypes'
  BY <1>1, <1>2, TypesSplit DEF RestTypes
<1>6. Headway
  BY <1>1, <1>3 DEF Headway, Early
<1>7. \A t \in Msgs \cup Objects : Still(t)
  BY <1>3, <1>4, StillQueue DEF Still, InLane
<1>8. LaneShape'
  BY <1>1, <1>7, LaneStays
<1>9. ShapeInv'
  BY <1>1, <1>4, <1>5, <1>6, <1>8, CountKept, TypesJoin
<1>10. Quiet
  BY <1>1, <1>4, <1>6, Typed DEF Quiet, Quietly
<1>11. QED
  BY <1>9, <1>10

(* A message for which no turn was active joins the lane.                  *)
LEMMA RunNowStep ==
    ASSUME ShapeInv, NEW m \in Msgs, RunNow(m)
    PROVE  ShapeInv' /\ Quiet
<1> USE DEF ShapeInv
<1>1. /\ handler[m] = "sawIdle" /\ lane' = Append(lane, m)
      /\ handler' = [handler EXCEPT ![m] = "waiting"]
      /\ UNCHANGED <<settings, objects, current, callback, drain, accepted, told,
                     mentioned, discarded, missed, overflows, fails, clears>>
  BY DEF RunNow, queueVars, history, counters
<1>2. /\ At(m) = "sawIdle" /\ At(m)' = "waiting" /\ handler'[m] = "waiting"
      /\ \A n \in Msgs \ {m} : handler'[n] = handler[n] /\ At(n)' = At(n)
  BY <1>1, MovesOne
<1>3. QueueTypes' /\ MapStep /\ \A q \in Objects : Kept(q)
  BY <1>1, TypesSplit, TypesKept
<1>4. RestTypes'
  BY <1>1, TypesSplit DEF RestTypes
<1>5. Headway
  BY <1>1, <1>2 DEF Headway, Early
<1>6. \A t \in (Msgs \cup Objects) \ {m} : Still(t)
  BY <1>2, <1>3, StillQueue DEF Still
<1>7. LaneShape'
  BY <1>1, <1>2, <1>6, LaneJoined DEF InLane
<1>8. ShapeInv'
  BY <1>1, <1>3, <1>4, <1>5, <1>7, CountKept, TypesJoin
<1>9. Quiet
  BY <1>1, <1>3, <1>5, Typed DEF Quiet, Quietly
<1>10. QED
  BY <1>8, <1>9

(* The own turn of a message leaves the lane.                              *)
LEMMA EndOwnStep ==
    ASSUME ShapeInv, NEW m \in Msgs, EndOwn(m) \/ OwnFails(m)
    PROVE  ShapeInv' /\ Quiet
<1> USE DEF ShapeInv
<1>1. /\ handler[m] \in {"active", "waiting"} /\ lane' = Tail(lane)
      /\ handler[m] = "active" \/ (lane # <<>> /\ Head(lane) = m)
      /\ handler' = [handler EXCEPT ![m] = "ended"]
      /\ UNCHANGED <<settings, objects, current, callback, drain, accepted, told,
                     mentioned, discarded, missed, overflows, fails, clears>>
  BY DEF EndOwn, OwnFails, queueVars, history, counters
<1>2. /\ At(m) = handler[m] /\ At(m)' = "ended" /\ handler'[m] = "ended"
      /\ \A n \in Msgs \ {m} : handler'[n] = handler[n] /\ At(n)' = At(n)
  BY <1>1, MovesOne
<1>3. QueueTypes' /\ MapStep /\ \A q \in Objects : Kept(q)
  BY <1>1, TypesSplit, TypesKept
<1>4. RestTypes'
  <2>1. lane # <<>>
    BY <1>1, <1>2 DEF LaneShape
  <2>2. Tail(lane) \in Seq(Msgs \cup Objects)
    BY <2>1, LaneTyped, HeadTailProperties
  <2>3. QED
    BY <1>1, <2>2, TypesSplit DEF RestTypes
<1>5. Headway
  BY <1>1, <1>2 DEF Headway, Early
<1>6. \A t \in (Msgs \cup Objects) \ {m} : Still(t)
  BY <1>2, <1>3, StillQueue DEF Still
<1>7. LaneShape'
  BY <1>1, <1>2, <1>6, LaneLeft
<1>8. ShapeInv'
  BY <1>1, <1>3, <1>4, <1>5, <1>7, CountKept, TypesJoin
<1>9. Quiet
  BY <1>1, <1>3, <1>5, Typed DEF Quiet, Quietly
<1>10. QED
  BY <1>8, <1>9

(* The own turn of a message begins; the queues stay as they are.          *)
LEMMA BeginOwnStep ==
    ASSUME ShapeInv, NEW m \in Msgs, BeginOwn(m)
    PROVE  ShapeInv' /\ \A q \in Objects : Kept(q)
<1> USE DEF ShapeInv
<1>1. /\ handler[m] = "waiting" /\ lane' = lane /\ lane # <<>> /\ Head(lane) = m
      /\ handler' = [handler EXCEPT ![m] = "active"]
      /\ told' = [told EXCEPT ![m] = @ + 1]
      /\ UNCHANGED <<settings, objects, current, callback, drain, accepted,
                     mentioned, discarded, missed, overflows, fails, clears>>
  BY DEF BeginOwn, queueVars, counters
<1>2. /\ At(m) = "waiting" /\ At(m)' = "active" /\ handler'[m] = "active"
      /\ \A n \in Msgs \ {m} : handler'[n] = handler[n] /\ At(n)' = At(n)
  BY <1>1, MovesOne
<1>3. QueueTypes' /\ \A q \in Objects : Kept(q)
  BY <1>1, TypesSplit, TypesKept
<1>4. RestTypes'
  <2>1. told' \in [Msgs -> Nat]
    BY <1>1, Typed
  <2>2. QED
    BY <1>1, <2>1, TypesSplit DEF RestTypes
<1>5. Headway
  BY <1>1, <1>2 DEF Headway, Early
<1>6. \A t \in (Msgs \cup Objects) \ {m} : Still(t)
  BY <1>2, <1>3, StillQueue DEF Still
<1>7. LaneShape'
  BY <1>1, <1>2, <1>6, LaneStays
<1>8. ShapeInv'
  BY <1>1, <1>3, <1>4, <1>5, <1>7, CountKept, TypesJoin
<1>9. QED
  BY <1>3, <1>8

(* The own turn of a message is finalised.                                 *)
LEMMA FinalizeStep ==
    ASSUME ShapeInv, NEW m \in Msgs, Finalize(m)
    PROVE  ShapeInv' /\ Quiet
<1> USE DEF ShapeInv
<1>1. /\ handler[m] = "ended" /\ lane' = lane
      /\ handler' = [handler EXCEPT ![m] = "done"]
      /\ UNCHANGED <<settings, accepted, told,
                     mentioned, discarded, missed, overflows, fails, clears>>
  BY DEF Finalize, history, counters
<1>2. /\ At(m) = "ended" /\ At(m)' = "done" /\ handler'[m] = "done"
      /\ \A n \in Msgs \ {m} : handler'[n] = handler[n] /\ At(n)' = At(n)
  BY <1>1, MovesOne
<1>3. /\ QueueTypes' /\ Len(objects') = Len(objects) /\ MapStep
      /\ \A q \in Objects : Kept(q) \/ Restarts(q)
  BY FinalizeDoes
<1>4. RestTypes'
  BY <1>1, TypesSplit DEF RestTypes
<1>5. Headway
  BY <1>1, <1>2 DEF Headway, Early
<1>6. \A t \in Msgs \cup Objects : Still(t)
  BY <1>2, <1>3, StillQueue DEF Still, InLane
<1>7. LaneShape'
  BY <1>1, <1>6, LaneStays
<1>8. ShapeInv'
  BY <1>3, <1>4, <1>5, <1>7, CountKept, TypesJoin
<1>9. Quiet
  BY <1>1, <1>3, <1>5, Typed DEF Quiet, Quietly
<1>10. QED
  BY <1>8, <1>9

(* The steps of a drain and of its turn.                                   *)
LEMMA HandlerKept ==
    ASSUME TypeOK, handler' = handler
    PROVE  Headway /\ \A m \in Msgs : At(m)' = At(m)
  BY DEF Headway, At

(* A drain takes its next turn or leaves the loop.                         *)
LEMMA NextStepStep ==
    ASSUME ShapeInv, NEW q \in Objects, NextStep(q)
    PROVE  ShapeInv' /\ Quiet
<1> USE DEF ShapeInv
<1>1. /\ drain[q].at = "debounce"
      /\ UNCHANGED <<settings, handler, accepted, told,
                     mentioned, discarded, missed, overflows, fails, clears>>
  BY DEF NextStep, history, counters
<1>2. /\ QueueTypes' /\ Len(objects') = Len(objects) /\ MapStep
      /\ \A r \in Objects \ {q} : Kept(r) \/ Restarts(r)
      /\ \/ lane' = lane /\ Restarts(q)
         \/ lane' = Append(lane, q) /\ TakesTurn(q) /\ drain'[q].at = "waiting"
  BY NextStepDoes
<1>3. RestTypes'
  <2>1. lane' \in Seq(Msgs \cup Objects)
    BY <1>2, LaneTyped
  <2>2. QED
    BY <1>1, <2>1, TypesSplit DEF RestTypes
<1>4. Headway /\ \A m \in Msgs : At(m)' = At(m)
  BY <1>1, HandlerKept
<1>5. LaneShape'
  <2>1. \A t \in (Msgs \cup Objects) \ {q} : Still(t)
    BY <1>2, <1>4, StillQueue DEF Still
  <2>2. CASE lane' = lane /\ Restarts(q)
    BY <2>1, <2>2, StillQueue, LaneStays
  <2>3. CASE /\ lane' = Append(lane, q) /\ TakesTurn(q)
             /\ drain'[q].at = "waiting"
    <3>1. ~InLane(q) /\ At(q)' = "waiting"
      BY <1>1, <2>3, Bounds DEF InLane, At
    <3>2. QED
      BY <2>1, <2>3, <3>1, LaneJoined
  <2>4. QED
    BY <1>2, <2>2, <2>3
<1>6. ShapeInv'
  BY <1>2, <1>3, <1>4, <1>5, CountKept, TypesJoin
<1>7. Quiet
  BY <1>1, <1>2, <1>4, Typed DEF Quiet, Quietly
<1>8. QED
  BY <1>6, <1>7

(* The turn of a drain begins.                                             *)
LEMMA BeginFollowupStep ==
    ASSUME ShapeInv, NEW q \in Objects, BeginFollowup(q)
    PROVE  /\ ShapeInv' /\ MapStep /\ Headway
           /\ Begins(q) /\ \A r \in Objects \ {q} : Kept(r)
<1> USE DEF ShapeInv
<1>1. /\ drain[q].at = "waiting" /\ lane' = lane /\ lane # <<>> /\ Head(lane) = q
      /\ told' = [m \in Msgs |-> IF m \in ToSet(drain[q].batch) THEN told[m] + 1
                                                                ELSE told[m]]
      /\ mentioned' = mentioned \cup ToSet(drain[q].lines)
      /\ UNCHANGED <<settings, handler, accepted, discarded, missed, overflows, fails, clears>>
  BY DEF BeginFollowup, counters
<1>2. /\ QueueTypes' /\ Len(objects') = Len(objects) /\ MapStep
      /\ Begins(q) /\ \A r \in Objects \ {q} : Kept(r)
  BY BeginFollowupDoes
<1>3. RestTypes'
  <2>1. told' \in [Msgs -> Nat]
    <3>1. \A m \in Msgs : told[m] \in Nat /\ told[m] + 1 \in Nat
      BY Typed
    <3>2. QED
      BY <1>1, <3>1
  <2>2. ToSet(drain[q].lines) \subseteq Msgs
    <3>1. drain[q].lines \in Seq(Msgs)
      BY Typed DEF DrainType
    <3>2. QED
      BY <3>1, LenProperties, ElementOfSeq DEF ToSet
  <2>3. mentioned' \subseteq Msgs
    BY <1>1, <2>2, TypesSplit DEF RestTypes
  <2>4. QED
    BY <1>1, <2>1, <2>3, TypesSplit DEF RestTypes
<1>4. Headway /\ \A m \in Msgs : At(m)' = At(m)
  BY <1>1, HandlerKept
<1>5. LaneShape'
  <2>1. At(q) = "waiting" /\ At(q)' = "active"
    BY <1>1, <1>2, Bounds DEF At, Begins
  <2>2. \A t \in (Msgs \cup Objects) \ {q} : Still(t)
    BY <1>2, <1>4, StillQueue DEF Still
  <2>3. QED
    BY <1>1, <2>1, <2>2, LaneStays
<1>6. ShapeInv'
  BY <1>2, <1>3, <1>4, <1>5, CountKept, TypesJoin
<1>7. QED
  BY <1>2, <1>4, <1>6

(* The turn of a drain ends.                                               *)
LEMMA EndFollowupStep ==
    ASSUME ShapeInv, NEW q \in Objects, EndFollowup(q)
    PROVE  ShapeInv' /\ Quiet
<1> USE DEF ShapeInv
<1>1. /\ drain[q].at = "active" /\ lane' = Tail(lane)
      /\ UNCHANGED <<settings, handler, accepted, told, mentioned, discarded, missed,
                     overflows, fails, clears>>
  BY DEF EndFollowup, counters, history
<1>2. /\ QueueTypes' /\ Len(objects') = Len(objects) /\ MapStep
      /\ Ends(q) /\ \A r \in Objects \ {q} : Kept(r)
  BY EndFollowupDoes
<1>3. At(q) = "active" /\ At(q)' = "ended"
  BY <1>1, <1>2, Bounds DEF At, Ends
<1>4. RestTypes'
  <2>1. lane # <<>>
    BY <1>3 DEF LaneShape
  <2>2. Tail(lane) \in Seq(Msgs \cup Objects)
    BY <2>1, LaneTyped, HeadTailProperties
  <2>3. QED
    BY <1>1, <2>2, TypesSplit DEF RestTypes
<1>5. Headway /\ \A m \in Msgs : At(m)' = At(m)
  BY <1>1, HandlerKept
<1>6. LaneShape'
  <2>1. \A t \in (Msgs \cup Objects) \ {q} : Still(t)
    BY <1>2, <1>5, StillQueue DEF Still
  <2>2. QED
    BY <1>1, <1>3, <2>1, LaneLeft
<1>7. ShapeInv'
  BY <1>2, <1>4, <1>5, <1>6, CountKept, TypesJoin
<1>8. Quiet
  BY <1>1, <1>2, <1>5, Typed DEF Quiet, Quietly
<1>9. QED
  BY <1>7, <1>8

(* What a turn has, and the lines of its summary, are messages.            *)
LEMMA TurnOfMsgs ==
    QueueTypes => \A q \in Objects : /\ ToSet(drain[q].batch) \subseteq Msgs
                                    /\ ToSet(drain[q].lines) \subseteq Msgs
<1> SUFFICES ASSUME QueueTypes, NEW q \in Objects
             PROVE  /\ ToSet(drain[q].batch) \subseteq Msgs
                    /\ ToSet(drain[q].lines) \subseteq Msgs
  OBVIOUS
<1>1. drain[q].batch \in Seq(Msgs) /\ drain[q].lines \in Seq(Msgs)
  BY DEF QueueTypes, DrainType
<1>2. QED
  BY <1>1, LenProperties, ElementOfSeq DEF ToSet

(* The turn of a drain is refused, ...                                     *)
LEMMA FollowupRefusedStep ==
    ASSUME ShapeInv, NEW q \in Objects, FollowupRefused(q)
    PROVE  ShapeInv' /\ Quiet
<1> USE DEF ShapeInv
<1>1. /\ drain[q].at = "debounce" /\ CanTurn(q) /\ AskForTurn(q, "rejected")
      /\ missed' = missed \cup ToSet(drain'[q].batch) \cup ToSet(drain'[q].lines)
      /\ UNCHANGED <<settings, lane, handler, accepted, told, mentioned, discarded,
                     overflows, fails, clears>>
  BY DEF FollowupRefused, counters
<1>2. /\ QueueTypes' /\ Len(objects') = Len(objects) /\ MapStep
      /\ TakesTurn(q) /\ drain'[q].at = "rejected"
      /\ \A r \in Objects \ {q} : Kept(r)
  <2>1. ToSet(drain'[q].batch) \subseteq missed'
    BY <1>1
  <2>2. QED
    BY <1>1, <2>1, AskDoes
<1>3. RestTypes'
  <2>1. /\ ToSet(drain'[q].batch) \subseteq Msgs
        /\ ToSet(drain'[q].lines) \subseteq Msgs
    <3>1. drain'[q].batch \in Seq(Msgs) /\ drain'[q].lines \in Seq(Msgs)
      BY <1>2 DEF QueueTypes, DrainType
    <3>2. QED
      BY <3>1, LenProperties, ElementOfSeq DEF ToSet
  <2>2. missed' \subseteq Msgs
    BY <1>1, <2>1, TypesSplit DEF RestTypes
  <2>3. QED
    BY <1>1, <2>2, TypesSplit DEF RestTypes
<1>4. Headway /\ \A m \in Msgs : At(m)' = At(m)
  BY <1>1, HandlerKept
<1>5. LaneShape'
  <2>1. \A t \in (Msgs \cup Objects) \ {q} : Still(t)
    BY <1>2, <1>4, StillQueue DEF Still
  <2>2. Still(q)
    BY <1>1, <1>2, Bounds DEF Still, InLane, At
  <2>3. \A t \in Msgs \cup Objects : Still(t)
    BY <2>1, <2>2
  <2>4. QED
    BY <1>1, <2>3, LaneStays
<1>6. ShapeInv'
  BY <1>2, <1>3, <1>4, <1>5, CountKept, TypesJoin
<1>7. Quiet
  BY <1>1, <1>2, <1>4, Typed DEF Quiet, Quietly
<1>8. QED
  BY <1>6, <1>7

(* ... or fails at the head of the lane before it has begun.               *)
LEMMA FollowupMissedStep ==
    ASSUME ShapeInv, NEW q \in Objects, FollowupMissed(q)
    PROVE  ShapeInv' /\ Quiet
<1> USE DEF ShapeInv
<1>1. /\ drain[q].at = "waiting" /\ lane' = Tail(lane)
      /\ lane # <<>> /\ Head(lane) = q
      /\ missed' = missed \cup ToSet(drain[q].batch) \cup ToSet(drain[q].lines)
      /\ UNCHANGED <<settings, handler, accepted, told, mentioned, discarded,
                     overflows, fails, clears>>
  BY DEF FollowupMissed, counters
<1>2. /\ QueueTypes' /\ Len(objects') = Len(objects) /\ MapStep
      /\ Ends(q) /\ \A r \in Objects \ {q} : Kept(r)
  BY FollowupMissedDoes
<1>3. At(q)' = "rejected"
  BY <1>1, <1>2, Bounds DEF At, Ends
<1>4. RestTypes'
  <2>1. Tail(lane) \in Seq(Msgs \cup Objects)
    BY <1>1, LaneTyped, HeadTailProperties
  <2>2. missed' \subseteq Msgs
    BY <1>1, TurnOfMsgs, TypesSplit DEF RestTypes
  <2>3. QED
    BY <1>1, <2>1, <2>2, TypesSplit DEF RestTypes
<1>5. Headway /\ \A m \in Msgs : At(m)' = At(m)
  BY <1>1, HandlerKept
<1>6. LaneShape'
  <2>1. \A t \in (Msgs \cup Objects) \ {q} : Still(t)
    BY <1>2, <1>5, StillQueue DEF Still
  <2>2. QED
    BY <1>1, <1>3, <2>1, LaneLeft
<1>7. ShapeInv'
  BY <1>2, <1>4, <1>5, <1>6, CountKept, TypesJoin
<1>8. Quiet
  BY <1>1, <1>2, <1>5, Typed DEF Quiet, Quietly
<1>9. QED
  BY <1>7, <1>8

(* The items of a turn are removed.                                        *)
LEMMA FollowupDoneStep ==
    ASSUME ShapeInv, NEW q \in Objects, FollowupDone(q)
    PROVE  ShapeInv' /\ Quiet
<1> USE DEF ShapeInv
<1>1. /\ lane' = lane
      /\ UNCHANGED <<settings, handler, accepted, told, mentioned, discarded, missed,
                     overflows, fails, clears>>
  BY DEF FollowupDone, counters, history
<1>2. /\ QueueTypes' /\ Len(objects') = Len(objects) /\ MapStep /\ TurnDone(q)
      /\ \A r \in Objects \ {q} : Kept(r) \/ Restarts(r)
  BY FollowupDoneDoes
<1>3. RestTypes'
  BY <1>1, TypesSplit DEF RestTypes
<1>4. Headway /\ \A m \in Msgs : At(m)' = At(m)
  BY <1>1, HandlerKept
<1>5. \A t \in Msgs \cup Objects : Still(t)
  BY <1>2, <1>4, StillQueue DEF Still
<1>6. ShapeInv'
  BY <1>1, <1>2, <1>3, <1>4, <1>5, LaneStays, CountKept, TypesJoin
<1>7. Quiet
  BY <1>1, <1>2, <1>4, Typed DEF Quiet, Quietly
<1>8. QED
  BY <1>6, <1>7

(* A delivery fails.                                                       *)
LEMMA FollowupFailsStep ==
    ASSUME ShapeInv, NEW q \in Objects, FollowupFails(q)
    PROVE  ShapeInv' /\ Quiet
<1> USE DEF ShapeInv
<1>1. /\ lane' = lane /\ fails' = fails + 1
      /\ UNCHANGED <<settings, handler, accepted, told, mentioned, discarded, missed,
                     overflows, clears>>
  BY DEF FollowupFails, history
<1>2. /\ QueueTypes' /\ Len(objects') = Len(objects) /\ MapStep
      /\ \A r \in Objects : Kept(r) \/ Restarts(r)
  BY FollowupFailsDoes
<1>3. RestTypes'
  BY <1>1, TypesSplit DEF RestTypes
<1>4. Headway /\ \A m \in Msgs : At(m)' = At(m)
  BY <1>1, HandlerKept
<1>5. \A t \in Msgs \cup Objects : Still(t)
  BY <1>2, <1>4, StillQueue DEF Still
<1>6. ShapeInv'
  BY <1>1, <1>2, <1>3, <1>4, <1>5, LaneStays, CountKept, TypesJoin
<1>7. Quiet
  BY <1>1, <1>2, <1>4, Typed DEF Quiet, Quietly
<1>8. QED
  BY <1>6, <1>7

(* A stop command comes.                                                   *)
LEMMA ClearStep ==
    ASSUME ShapeInv, Clear
    PROVE  ShapeInv' /\ Quiet
<1> USE DEF ShapeInv
<1>1. /\ lane' = IF lane = <<>> THEN <<>> ELSE <<Head(lane)>>
      /\ handler' = [m \in Msgs |-> IF m \in Waiting THEN "ended" ELSE handler[m]]
      /\ drain' = [q \in Objects |-> IF q \in Waiting
                                     THEN [drain[q] EXCEPT !.at = "rejected"]
                                     ELSE drain[q]]
      /\ clears' = clears + 1
      /\ UNCHANGED <<settings, accepted, told, mentioned, discarded, missed, overflows, fails>>
  BY DEF Clear, history
<1>2. /\ QueueTypes' /\ Len(objects') = Len(objects) /\ MapStep
      /\ \A q \in Objects : Stopped(q)
  BY ClearDoes
<1>3. RestTypes'
  <2>1. lane' \in Seq(Msgs \cup Objects)
    <3>1. CASE lane = <<>>
      BY <1>1, <3>1
    <3>2. CASE lane # <<>>
      BY <1>1, <3>2, LaneTyped
    <3>3. QED
      BY <3>1, <3>2
  <2>2. QED
    BY <1>1, <2>1, TypesSplit DEF RestTypes
<1>4. Headway
  BY <1>1, WaitingTurns DEF Headway, Early
<1>5. LaneShape'
  <2>1. \A m \in Msgs : At(m)' = IF m \in Waiting THEN "ended" ELSE At(m)
    BY <1>1 DEF At
  <2>2. \A q \in Objects : At(q)' = IF q \in Waiting THEN "rejected" ELSE At(q)
    <3>1. \A q \in Objects : [drain[q] EXCEPT !.at = "rejected"].at = "rejected"
      BY Typed DEF DrainType
    <3>2. \A q \in Objects :
            drain'[q].at = IF q \in Waiting THEN "rejected" ELSE drain[q].at
      BY <1>1, <3>1
    <3>3. QED
      BY <3>2, Bounds DEF At
  <2>3. QED
    BY <1>1, <2>1, <2>2, LaneCut
<1>6. ShapeInv'
  BY <1>2, <1>3, <1>4, <1>5, CountKept, TypesJoin
<1>7. Quiet
  BY <1>1, <1>2, <1>4, Typed DEF Quiet, Quietly
<1>8. QED
  BY <1>6, <1>7

(* A message is queued.                                                    *)
LEMMA EnqueueStep ==
    ASSUME ShapeInv, NEW m \in Msgs, EnqueueFollowup(m)
    PROVE  /\ ShapeInv' /\ EnqueueEffect(m)
           /\ handler[m] = "sawActive" /\ handler'[m] = "queued"
           /\ \A n \in Msgs \ {m} : handler'[n] = handler[n]
           /\ UNCHANGED <<told, missed, fails, clears>>
<1> USE DEF ShapeInv
<1>1. /\ handler[m] = "sawActive" /\ handler' = [handler EXCEPT ![m] = "queued"]
      /\ UNCHANGED <<settings, lane, told, mentioned, missed, fails, clears>>
  BY DEF EnqueueFollowup
<1>2. /\ QueueTypes' /\ ObjectsCounted' /\ EnqueueEffect(m)
      /\ discarded' \subseteq Msgs
  BY EnqueueDoes
<1>3. /\ At(m) = "sawActive" /\ At(m)' = "queued" /\ handler'[m] = "queued"
      /\ \A n \in Msgs \ {m} : handler'[n] = handler[n] /\ At(n)' = At(n)
  BY <1>1, MovesOne
<1>4. RestTypes'
  <2>1. accepted' \in Seq(Msgs) /\ overflows' \in Nat
    <3>1. accepted \in Seq(Msgs) /\ Append(accepted, m) \in Seq(Msgs)
      BY Typed
    <3>2. overflows \in Nat /\ overflows + 1 \in Nat
      BY Typed
    <3>3. /\ accepted' = accepted \/ accepted' = Append(accepted, m)
          /\ overflows' \in {overflows, overflows + 1}
      BY <1>2 DEF EnqueueEffect
    <3>4. QED
      BY <3>1, <3>2, <3>3
  <2>2. QED
    BY <1>1, <1>2, <2>1, TypesSplit DEF RestTypes
<1>5. LaneShape'
  <2>1. \A q \in Objects : Still(q)
    BY <1>2, StillQueue, Bounds
       DEF EnqueueEffect, Fills, Rests, Still, InLane, At
  <2>2. \A t \in Msgs \cup Objects : Still(t)
    BY <1>3, <2>1 DEF Still, InLane
  <2>3. QED
    BY <1>1, <2>2, LaneStays
<1>6. QED
  BY <1>1, <1>2, <1>3, <1>4, <1>5, TypesJoin

(* Every step keeps the shape, and is one of four kinds.                   *)
LEMMA StepKind ==
    ASSUME ShapeInv, [Next]_vars
    PROVE  /\ ShapeInv'
           /\ \/ Quiet
              \/ \E m \in Msgs : BeginOwn(m)
              \/ \E q \in Objects : BeginFollowup(q)
              \/ \E m \in Msgs : EnqueueFollowup(m)
<1>1. CASE UNCHANGED vars
  <2>1. UNCHANGED <<settings, objects, current, callback, drain, lane, handler,
                    accepted, told, mentioned, discarded, missed, overflows, fails, clears>>
    BY <1>1 DEF vars, queueVars, history, counters
  <2>2. QueueTypes' /\ MapStep /\ \A q \in Objects : Kept(q)
    BY <2>1, TypesSplit, TypesKept DEF ShapeInv
  <2>3. RestTypes'
    BY <2>1, TypesSplit DEF RestTypes, ShapeInv
  <2>4. Headway /\ \A m \in Msgs : At(m)' = At(m)
    BY <2>1, HandlerKept DEF ShapeInv
  <2>5. LaneShape'
    BY <2>1, <2>2, <2>4, StillQueue, LaneStays DEF ShapeInv, Still
  <2>6. ShapeInv'
    BY <2>1, <2>2, <2>3, <2>4, <2>5, CountKept, TypesJoin DEF ShapeInv
  <2>7. Quiet
    BY <2>1, <2>2, <2>4, Typed DEF Quiet, Quietly, ShapeInv
  <2>8. QED
    BY <2>6, <2>7
<1>2. ASSUME NEW m \in Msgs,
             Arrive(m) \/ RunNow(m) \/ EnqueueFollowup(m)
               \/ BeginOwn(m) \/ EndOwn(m) \/ Finalize(m)
               \/ OwnRefused(m) \/ OwnFails(m)
      PROVE  ShapeInv' /\ (Quiet \/ BeginOwn(m) \/ EnqueueFollowup(m))
  BY <1>2, ArriveStep, RunNowStep, EnqueueStep, BeginOwnStep, EndOwnStep,
     FinalizeStep
<1>3. ASSUME NEW q \in Objects,
             NextStep(q) \/ BeginFollowup(q) \/ EndFollowup(q)
               \/ FollowupRefused(q) \/ FollowupMissed(q)
               \/ FollowupDone(q) \/ FollowupFails(q)
      PROVE  ShapeInv' /\ (Quiet \/ BeginFollowup(q))
  BY <1>3, NextStepStep, BeginFollowupStep, EndFollowupStep, FollowupDoneStep,
     FollowupFailsStep, FollowupRefusedStep, FollowupMissedStep
<1>4. CASE Clear
  BY <1>4, ClearStep
<1>5. CASE Next
  <2>1. CASE \E m \in Msgs : Arrive(m) \/ RunNow(m) \/ EnqueueFollowup(m)
                               \/ BeginOwn(m) \/ EndOwn(m) \/ Finalize(m)
                               \/ OwnRefused(m) \/ OwnFails(m)
    BY <1>2, <2>1
  <2>2. CASE \E q \in Objects : NextStep(q) \/ BeginFollowup(q) \/ EndFollowup(q)
                               \/ FollowupRefused(q) \/ FollowupMissed(q)
                               \/ FollowupDone(q) \/ FollowupFails(q)
    BY <1>3, <2>2
  <2>3. QED
    BY <1>4, <1>5, <2>1, <2>2 DEF Next
<1>6. QED
  BY <1>1, <1>5

-----------------------------------------------------------------------------
(* Nothing is put to the agent twice without a failure                     *)

(* A queue as a sequence.                                                  *)
LEMMA Places ==
    ASSUME TypeOK, NEW q \in Objects
    PROVE  /\ \A m : m \in ToSet(Items(q)) <=>
                       \E i \in 1..Len(Items(q)) : Items(q)[i] = m
           /\ DOMAIN Items(q) = 1..Len(Items(q)) /\ Len(Items(q)) \in Nat
           /\ Items(q) # <<>> => Head(Items(q)) = Items(q)[1] /\ Len(Items(q)) >= 1
           /\ Items(q) = <<>> => Len(Items(q)) = 0
           /\ Taken(drain[q]) \in Nat
<1>1. /\ Items(q) \in Seq(Msgs) /\ drain[q].batch \in Seq(Msgs)
      /\ DOMAIN Items(q) = 1..Len(Items(q)) /\ Len(Items(q)) \in Nat
  BY ItemsTyped
<1>2. Items(q) # <<>> => Head(Items(q)) = Items(q)[1] /\ Len(Items(q)) >= 1
  BY <1>1, EmptySeq
<1>3. Taken(drain[q]) \in Nat
  BY <1>1, LenProperties DEF Taken
<1>4. QED
  BY <1>1, <1>2, <1>3 DEF ToSet

(* What is left of a queue after a turn.                                   *)
LEMMA PlacesLeft ==
    ASSUME TypeOK, ShapeInv', NEW q \in Objects, TurnDone(q)
    PROVE  /\ \A i \in DOMAIN Items(q)' :
                 /\ i \in Nat /\ i >= 1
                 /\ i + Taken(drain[q]) \in DOMAIN Items(q)
                 /\ Items(q)'[i] = Items(q)[i + Taken(drain[q])]
           /\ Len(Items(q)') = IF Taken(drain[q]) <= Len(Items(q))
                               THEN Len(Items(q)) - Taken(drain[q]) ELSE 0
<1> DEFINE n == Taken(drain[q])
           t == SubSeq(Items(q), n + 1, Len(Items(q)))
<1>1. n \in Nat /\ Items(q) \in Seq(Msgs) /\ Len(Items(q)) \in Nat
      /\ DOMAIN Items(q) = 1..Len(Items(q))
  BY Places, ItemsTyped
<1>2. Items(q)' = t
  BY DEF TurnDone
<1> HIDE DEF n
<1>3. /\ DOMAIN t = 1..Len(t)
      /\ Len(t) = IF n <= Len(Items(q)) THEN Len(Items(q)) - n ELSE 0
      /\ \A i \in 1..Len(t) : t[i] = Items(q)[i + n]
  BY <1>1, CutFront
<1> HIDE DEF t
<1>4. \A i \in DOMAIN t : /\ i \in Nat /\ i >= 1 /\ i + n \in DOMAIN Items(q)
                         /\ t[i] = Items(q)[i + n]
  <2> SUFFICES ASSUME NEW i \in DOMAIN t
               PROVE  /\ i \in Nat /\ i >= 1 /\ i + n \in DOMAIN Items(q)
                      /\ t[i] = Items(q)[i + n]
    OBVIOUS
  <2>1. i \in 1..Len(t) /\ t[i] = Items(q)[i + n]
    BY <1>3
  <2>2. n <= Len(Items(q)) /\ Len(t) = Len(Items(q)) - n
    <3>1. Len(t) = IF n <= Len(Items(q)) THEN Len(Items(q)) - n ELSE 0
      BY <1>3
    <3>2. Len(t) # 0
      BY <2>1
    <3>3. QED
      BY <3>1, <3>2
  <2>3. i \in Nat /\ i >= 1 /\ i + n \in 1..Len(Items(q))
    BY <1>1, <2>1, <2>2
  <2>4. QED
    BY <1>1, <2>1, <2>3
<1>5. QED
  BY <1>2, <1>3, <1>4 DEF n

(* What is in an empty sequence, ...                                       *)
LEMMA EmptySet == ToSet(<<>>) = {}
  BY DEF ToSet

(* ... and in one of length 1.                                             *)
LEMMA OneSet == \A x : ToSet(<<x>>) = {x}
  BY DEF ToSet

(* A step that queues nothing takes no message into a queue.               *)
LEMMA OfShrinks ==
    ASSUME TypeOK, ShapeInv', NEW q \in Objects, Quietly(q), NEW m, Of(m, q)'
    PROVE  Of(m, q)
<1>1. CASE Kept(q)
  BY <1>1 DEF Kept, Of, InBatch
<1>2. CASE Restarts(q)
  BY <1>2, EmptySet DEF Restarts, Rests, Of, InBatch
<1>3. CASE TakesTurn(q)
  <2>1. ToSet(drain'[q].batch) \subseteq ToSet(Items(q))
    <3>1. CASE drain'[q].batch = Items(q)
      BY <3>1
    <3>2. CASE Items(q) # <<>> /\ drain'[q].batch = <<Head(Items(q))>>
      <4>1. /\ Head(Items(q)) = Items(q)[1] /\ Len(Items(q)) >= 1
            /\ Len(Items(q)) \in Nat
        BY <3>2, Places
      <4>2. Head(Items(q)) \in ToSet(Items(q))
        <5>1. 1 \in 1..Len(Items(q))
          BY <4>1
        <5>2. QED
          BY <4>1, <5>1, Places
      <4>3. ToSet(drain'[q].batch) = {Head(Items(q))}
        BY <3>2, OneSet
      <4>4. QED
        BY <4>2, <4>3
    <3>3. CASE drain'[q].batch = <<>>
      BY <3>3, EmptySet
    <3>4. QED
      BY <1>3, <3>1, <3>2, <3>3 DEF TakesTurn
  <2>2. QED
    BY <1>3, <2>1 DEF TakesTurn, Of, InBatch
<1>4. CASE Ends(q)
  BY <1>4 DEF Ends, SameTurn, Of, InBatch
<1>5. CASE TurnDone(q)
  <2>1. ~InBatch(m, q)'
    BY <1>5, EmptySet DEF TurnDone, Rests, InBatch
  <2>2. m \in ToSet(Items(q)')
    BY <2>1 DEF Of
  <2>3. PICK i \in DOMAIN Items(q)' : m = Items(q)'[i]
    BY <2>2 DEF ToSet
  <2>4. i + Taken(drain[q]) \in DOMAIN Items(q) /\ m = Items(q)[i + Taken(drain[q])]
    BY <1>5, <2>3, PlacesLeft
  <2>5. QED
    BY <2>4 DEF Of, ToSet
<1>6. CASE Stopped(q)
  BY <1>6, EmptySet DEF Stopped, SameTurn, Of, InBatch
<1>7. QED
  BY <1>1, <1>2, <1>3, <1>4, <1>5, <1>6 DEF Quietly

(* A quiet step leaves every message in one place.                         *)
LEMMA QuietOnce ==
    ASSUME ShapeInv, ShapeInv', QueuedInv, Quiet
    PROVE  QueuedOnce'
<1> USE DEF ShapeInv
<1>1. \A m \in Msgs, q \in Objects : Of(m, q)' => Of(m, q)
  BY OfShrinks DEF Quiet
<1>2. ASSUME NEW q \in Objects, NEW i \in DOMAIN Items(q)',
             NEW j \in DOMAIN Items(q)', Items(q)'[i] = Items(q)'[j]
      PROVE  i = j
  <2>0. /\ DOMAIN Items(q) = 1..Len(Items(q))
        /\ \A k, l \in DOMAIN Items(q) : Items(q)[k] = Items(q)[l] => k = l
        /\ Taken(drain[q]) \in Nat
    BY Places DEF QueuedInv, QueuedOnce
  <2>1. CASE Items(q)' = Items(q)
    BY <1>2, <2>0, <2>1
  <2>2. CASE Items(q)' = <<>>
    BY <1>2, <2>2
  <2>3. CASE TurnDone(q)
    <3>1. /\ i \in Nat /\ j \in Nat
          /\ i + Taken(drain[q]) \in DOMAIN Items(q)
          /\ j + Taken(drain[q]) \in DOMAIN Items(q)
          /\ Items(q)[i + Taken(drain[q])] = Items(q)[j + Taken(drain[q])]
      BY <1>2, <2>3, PlacesLeft
    <3>2. i + Taken(drain[q]) = j + Taken(drain[q])
      BY <2>0, <3>1
    <3>3. QED
      BY <2>0, <3>1, <3>2
  <2>4. QED
    BY <2>1, <2>2, <2>3
       DEF Quiet, Quietly, Kept, Restarts, TakesTurn, Ends, Stopped
<1>3. \A m \in Msgs : handler'[m] = "queued" <=> handler[m] = "queued"
  BY DEF Quiet, Headway
<1>4. QED
  BY <1>1, <1>2, <1>3 DEF QueuedInv, QueuedOnce

(* Of the items, those of the turn are first.                              *)
LEMMA QuietFirst ==
    ASSUME ShapeInv, ShapeInv', QueuedInv, NEW q \in Objects,
           Quietly(q) \/ Begins(q)
    PROVE  TurnFirst(q)'
<1> USE DEF ShapeInv
<1> SUFFICES ASSUME NEW i \in DOMAIN Items(q)', NEW m, m = Items(q)'[i],
                    InBatch(m, q)'
             PROVE  i <= Taken(drain'[q])
  BY DEF TurnFirst, InBatch
<1>0. \A k \in DOMAIN Items(q) : InBatch(Items(q)[k], q) => k <= Taken(drain[q])
  BY DEF QueuedInv, BatchFirst, TurnFirst
<1>1. CASE Items(q)' = Items(q) /\ SameTurn(q)
  <2>1. InBatch(m, q) /\ Taken(drain'[q]) = Taken(drain[q])
    BY <1>1 DEF InBatch, SameTurn, Taken
  <2>2. QED
    BY <1>0, <1>1, <2>1
<1>2. CASE drain'[q].batch = <<>>
  BY <1>2, EmptySet DEF InBatch
<1>3. CASE Items(q)' = <<>>
  BY <1>3
<1>4. CASE TakesTurn(q)
  <2>1. /\ i \in 1..Len(Items(q)) /\ m = Items(q)[i] /\ Len(Items(q)) \in Nat
        /\ DOMAIN Items(q) = 1..Len(Items(q))
    BY <1>4, Places DEF TakesTurn
  <2>2. CASE drain'[q].kind = "collect" /\ drain'[q].batch = Items(q)
    BY <2>1, <2>2 DEF Taken
  <2>3. CASE /\ drain'[q].kind = "one" /\ Items(q) # <<>>
             /\ drain'[q].batch = <<Head(Items(q))>>
    <3>1. m = Head(Items(q)) /\ Head(Items(q)) = Items(q)[1]
      BY <2>3, OneSet, Places DEF InBatch
    <3>2. 1 \in 1..Len(Items(q))
      BY <2>1
    <3>3. i = 1
      BY <2>1, <3>1, <3>2 DEF QueuedInv, QueuedOnce
    <3>4. QED
      BY <2>3, <3>3 DEF Taken
  <2>4. QED
    BY <1>2, <1>4, <2>2, <2>3 DEF TakesTurn
<1>5. QED
  BY <1>1, <1>2, <1>3, <1>4
     DEF Quietly, Begins, Kept, Restarts, Ends, TurnDone, Stopped, Rests, SameTurn

(* A quiet step that ends a turn removes its items or counts a failure.    *)
LEMMA QuietBounds ==
    ASSUME ShapeInv, ShapeInv', QueuedInv, Quiet
    PROVE  ToldBounds'
<1> USE DEF ShapeInv
<1> SUFFICES ASSUME NEW m \in Msgs
             PROVE  /\ handler'[m] \in Early => told'[m] = 0
                    /\ told'[m] <= 1 + fails'
                    /\ \A q \in Objects :
                          Of(m, q)' => told'[m] <= fails'
                                        \/ (TurnBegan(q)' /\ InBatch(m, q)')
  BY DEF ToldBounds, Early
<1>0. /\ told' = told /\ told[m] \in Nat /\ fails \in Nat /\ fails' \in Nat
      /\ fails' >= fails
      /\ told[m] <= 1 + fails
      /\ handler[m] \in Early => told[m] = 0
  <2>1. fails' \in Nat
    BY DEF TypeOK
  <2>2. QED
    BY <2>1, Typed DEF Quiet, QueuedInv, ToldBounds, Early
<1>1. handler'[m] \in Early => told'[m] = 0
  BY <1>0 DEF Quiet, Headway
<1>2. told'[m] <= 1 + fails'
  BY <1>0
<1>3. ASSUME NEW q \in Objects, Of(m, q)'
      PROVE  told'[m] <= fails' \/ (TurnBegan(q)' /\ InBatch(m, q)')
  <2>1. Of(m, q) /\ Quietly(q)
    BY <1>3, OfShrinks DEF Quiet
  <2>2. told[m] <= fails \/ (TurnBegan(q) /\ InBatch(m, q))
    BY <2>1 DEF QueuedInv, ToldBounds
  <2>3. CASE told[m] <= fails
    BY <1>0, <2>3
  <2>4. CASE TurnBegan(q) /\ InBatch(m, q)
    <3>1. CASE Kept(q) \/ Ends(q) \/ Stopped(q)
      BY <2>4, <3>1 DEF Kept, Ends, Stopped, SameTurn, TurnBegan, InBatch
    <3>2. CASE Restarts(q)
      <4>1. fails' = fails + 1
        BY <2>4, <3>2 DEF Restarts, TurnBegan
      <4>2. QED
        BY <1>0, <4>1
    <3>3. CASE TakesTurn(q)
      BY <2>4, <3>3 DEF TakesTurn, TurnBegan
    <3>4. CASE TurnDone(q)
      <4>1. m \in ToSet(Items(q)')
        BY <1>3, <3>4, EmptySet DEF Of, InBatch, TurnDone, Rests
      <4>2. PICK i \in DOMAIN Items(q)' : m = Items(q)'[i]
        BY <4>1 DEF ToSet
      <4>3. /\ i \in Nat /\ i >= 1
            /\ i + Taken(drain[q]) \in DOMAIN Items(q)
            /\ m = Items(q)[i + Taken(drain[q])]
        BY <3>4, <4>2, PlacesLeft
      <4>4. i + Taken(drain[q]) <= Taken(drain[q])
        BY <2>4, <4>3 DEF QueuedInv, BatchFirst, TurnFirst
      <4>5. Taken(drain[q]) \in Nat
        BY Places
      <4>6. QED
        BY <4>3, <4>4, <4>5
    <3>5. QED
      BY <2>1, <3>1, <3>2, <3>3, <3>4 DEF Quietly
  <2>5. QED
    BY <2>2, <2>3, <2>4
<1>4. QED
  BY <1>1, <1>2, <1>3

(* QueuedInv is kept by a quiet step, ...                                  *)
LEMMA QuietQueued ==
    ASSUME ShapeInv, ShapeInv', QueuedInv, Quiet
    PROVE  QueuedInv'
<1>1. BatchFirst'
  BY QuietFirst DEF Quiet, BatchFirst
<1>2. QED
  BY <1>1, QuietOnce, QuietBounds DEF QueuedInv

(* What is as it was in a queue that is kept.                              *)
LEMMA KeptAll ==
    ASSUME NEW q \in Objects, Kept(q)
    PROVE  /\ Items(q)' = Items(q) /\ drain'[q] = drain[q]
           /\ \A m : (Of(m, q)' <=> Of(m, q)) /\ (InBatch(m, q)' <=> InBatch(m, q))
           /\ TurnBegan(q)' <=> TurnBegan(q)
           /\ TurnFirst(q) => TurnFirst(q)'
  BY DEF Kept, Of, InBatch, TurnBegan, TurnFirst

(* ... when a message has its own turn, ...                                *)
LEMMA BeginOwnQueued ==
    ASSUME ShapeInv, QueuedInv, NEW m \in Msgs, BeginOwn(m)
    PROVE  QueuedInv'
<1> USE DEF ShapeInv
<1>1. \A q \in Objects : Kept(q)
  BY BeginOwnStep
<1>2. /\ handler[m] = "waiting" /\ handler' = [handler EXCEPT ![m] = "active"]
      /\ told' = [told EXCEPT ![m] = @ + 1] /\ fails' = fails
  BY DEF BeginOwn, counters
<1>3. /\ handler'[m] = "active" /\ told'[m] = told[m] + 1
      /\ \A n \in Msgs \ {m} : handler'[n] = handler[n] /\ told'[n] = told[n]
      /\ told[m] \in Nat /\ fails \in Nat
  BY <1>2, Typed
<1>4. \A q \in Objects : ~Of(m, q)
  BY <1>2 DEF QueuedInv, QueuedOnce
<1>5. QueuedOnce'
  BY <1>1, <1>3, <1>4, KeptAll DEF QueuedInv, QueuedOnce
<1>6. BatchFirst'
  BY <1>1, KeptAll DEF QueuedInv, BatchFirst
<1>7. told[m] = 0
  BY <1>2 DEF QueuedInv, ToldBounds
<1>8. ToldBounds'
  <2> SUFFICES ASSUME NEW n \in Msgs
               PROVE  /\ handler'[n] \in Early => told'[n] = 0
                      /\ told'[n] <= 1 + fails'
                      /\ \A q \in Objects :
                            Of(n, q)' => told'[n] <= fails'
                                          \/ (TurnBegan(q)' /\ InBatch(n, q)')
    BY DEF ToldBounds, Early
  <2>1. CASE n = m
    BY <1>1, <1>2, <1>3, <1>4, <1>7, <2>1, KeptAll DEF Early
  <2>2. CASE n # m
    BY <1>1, <1>2, <1>3, <2>2, KeptAll DEF Early, QueuedInv, ToldBounds
  <2>3. QED
    BY <2>1, <2>2
<1>9. QED
  BY <1>5, <1>6, <1>8 DEF QueuedInv

(* ... when a followup turn begins: its messages were in no turn before    *)
(* that did not fail, ...                                                  *)
LEMMA BeginFollowupQueued ==
    ASSUME ShapeInv, QueuedInv, NEW q \in Objects, BeginFollowup(q)
    PROVE  QueuedInv'
<1> USE DEF ShapeInv
<1>1. /\ ShapeInv' /\ Headway /\ Begins(q) /\ \A r \in Objects \ {q} : Kept(r)
  BY BeginFollowupStep
<1>2. /\ drain[q].at = "waiting" /\ handler' = handler /\ fails' = fails
      /\ told' = [m \in Msgs |-> IF m \in ToSet(drain[q].batch) THEN told[m] + 1
                                                                ELSE told[m]]
  BY DEF BeginFollowup, counters
<1>3. /\ Items(q)' = Items(q) /\ drain'[q].batch = drain[q].batch
      /\ \A m : (Of(m, q)' <=> Of(m, q)) /\ (InBatch(m, q)' <=> InBatch(m, q))
      /\ TurnBegan(q)' /\ ~TurnBegan(q)
  BY <1>1, <1>2 DEF Begins, SameTurn, Of, InBatch, TurnBegan
<1>4. \A m \in Msgs, r \in Objects : Of(m, r)' <=> Of(m, r)
  BY <1>1, <1>3, KeptAll
<1>5. QueuedOnce'
  <2>1. \A r \in Objects : Items(r)' = Items(r)
    BY <1>1, <1>3, KeptAll
  <2>2. QED
    BY <1>2, <1>4, <2>1 DEF QueuedInv, QueuedOnce
<1>6. BatchFirst'
  <2>1. TurnFirst(q)'
    BY <1>1, QuietFirst
  <2>2. QED
    BY <1>1, <2>1, KeptAll DEF QueuedInv, BatchFirst
<1>7. ToldBounds'
  <2> SUFFICES ASSUME NEW m \in Msgs
               PROVE  /\ handler'[m] \in Early => told'[m] = 0
                      /\ told'[m] <= 1 + fails'
                      /\ \A r \in Objects :
                            Of(m, r)' => told'[m] <= fails'
                                          \/ (TurnBegan(r)' /\ InBatch(m, r)')
    BY DEF ToldBounds, Early
  <2>0. /\ told[m] \in Nat /\ fails \in Nat
        /\ handler[m] \in Early => told[m] = 0
        /\ told[m] <= 1 + fails
        /\ \A r \in Objects :
              Of(m, r) => told[m] <= fails \/ (TurnBegan(r) /\ InBatch(m, r))
    BY Typed DEF QueuedInv, ToldBounds, Early
  <2>1. CASE InBatch(m, q)
    <3>1. Of(m, q) /\ told'[m] = told[m] + 1
      BY <1>2, <2>1 DEF Of, InBatch
    <3>2. told[m] <= fails
      BY <1>3, <2>0, <3>1
    <3>3. handler'[m] = "queued" /\ \A r \in Objects : Of(m, r) => r = q
      BY <1>2, <3>1 DEF QueuedInv, QueuedOnce
    <3>4. told'[m] <= 1 + fails'
      BY <1>2, <2>0, <3>1, <3>2
    <3>5. QED
      BY <1>3, <1>4, <2>1, <3>3, <3>4 DEF Early
  <2>2. CASE ~InBatch(m, q)
    <3>1. told'[m] = told[m]
      BY <1>2, <2>2 DEF InBatch
    <3>2. ASSUME NEW r \in Objects, Of(m, r)'
          PROVE  told'[m] <= fails' \/ (TurnBegan(r)' /\ InBatch(m, r)')
      <4>1. CASE r = q
        BY <1>2, <1>3, <2>0, <2>2, <3>1, <3>2, <4>1
      <4>2. CASE r # q
        BY <1>1, <1>2, <2>0, <3>1, <3>2, <4>2, KeptAll
      <4>3. QED
        BY <4>1, <4>2
    <3>3. QED
      BY <1>2, <2>0, <3>1, <3>2
  <2>3. QED
    BY <2>1, <2>2
<1>8. QED
  BY <1>5, <1>6, <1>7 DEF QueuedInv

(* Where the items of a queue were before a message joined it.             *)
LEMMA PlacesFilled ==
    ASSUME TypeOK, NEW q \in Objects, NEW m \in Msgs, Fills(q, m)
    PROVE  \E k \in Nat :
             /\ k > 0 => overflows' > 0
             /\ Len(Items(q)') + k = Len(Items(q)) + 1 /\ Items(q)' # <<>>
             /\ \A i \in DOMAIN Items(q)' :
                   /\ i \in Nat /\ i >= 1
                   /\ \/ i + k \in DOMAIN Items(q) /\ Items(q)'[i] = Items(q)[i + k]
                      \/ i + k = Len(Items(q)) + 1 /\ Items(q)'[i] = m
<1>0. /\ Items(q) \in Seq(Msgs) /\ Len(Items(q)) \in Nat
      /\ DOMAIN Items(q) = 1..Len(Items(q))
  BY ItemsTyped
<1>1. PICK k \in 0..Len(Items(q)) :
         /\ Items(q)' = Append(SubSeq(Items(q), k + 1, Len(Items(q))), m)
         /\ k > 0 => overflows' > 0
  BY DEF Fills
<1> DEFINE t == SubSeq(Items(q), k + 1, Len(Items(q)))
<1>2. k \in Nat /\ k <= Len(Items(q))
  BY <1>0, <1>1
<1>3. /\ t \in Seq(Msgs) /\ DOMAIN t = 1..Len(t) /\ Len(t) = Len(Items(q)) - k
      /\ \A i \in 1..Len(t) : t[i] = Items(q)[i + k]
  BY <1>0, <1>2, CutFront
<1>4. Items(q)' = Append(t, m)
  BY <1>1
<1> HIDE DEF t
<1>5. /\ Len(Append(t, m)) = Len(t) + 1 /\ Append(t, m) \in Seq(Msgs)
      /\ \A i \in 1..Len(t) : Append(t, m)[i] = t[i]
      /\ Append(t, m)[Len(t) + 1] = m
      /\ DOMAIN Append(t, m) = 1..(Len(t) + 1)
  BY <1>3, AppendProperties, LenProperties
<1>6. Len(Items(q)') + k = Len(Items(q)) + 1 /\ Items(q)' # <<>>
  <2>1. Len(Items(q)') = Len(Items(q)) - k + 1
    BY <1>3, <1>4, <1>5
  <2>2. Len(Items(q)') # 0
    BY <1>0, <1>2, <2>1
  <2>3. QED
    BY <1>0, <1>2, <2>1, <2>2, EmptySeq
<1>7. ASSUME NEW i \in DOMAIN Append(t, m)
      PROVE  /\ i \in Nat /\ i >= 1
             /\ \/ i + k \in DOMAIN Items(q) /\ Append(t, m)[i] = Items(q)[i + k]
                \/ i + k = Len(Items(q)) + 1 /\ Append(t, m)[i] = m
  <2>1. i \in 1..(Len(t) + 1) /\ Len(t) = Len(Items(q)) - k
    BY <1>3, <1>5, <1>7
  <2>2. CASE i = Len(t) + 1
    BY <1>0, <1>2, <1>5, <2>1, <2>2
  <2>3. CASE i # Len(t) + 1
    <3>1. i \in 1..Len(t) /\ i + k \in 1..Len(Items(q))
      BY <1>0, <1>2, <2>1, <2>3
    <3>2. Append(t, m)[i] = t[i] /\ t[i] = Items(q)[i + k]
      BY <1>3, <1>5, <3>1
    <3>3. QED
      BY <1>0, <3>1, <3>2
  <2>4. QED
    BY <2>2, <2>3
<1>8. QED
  BY <1>1, <1>2, <1>4, <1>6, <1>7

(* Only the message that was queued joins.                                 *)
LEMMA FilledOf ==
    ASSUME TypeOK, NEW q \in Objects, NEW m \in Msgs, Fills(q, m), NEW n, Of(n, q)'
    PROVE  n = m \/ Of(n, q)
<1>1. CASE InBatch(n, q)'
  <2>1. InBatch(n, q)
    BY <1>1, EmptySet DEF Fills, Rests, InBatch
  <2>2. QED
    BY <2>1 DEF Of
<1>2. CASE n \in ToSet(Items(q)')
  <2>1. PICK i \in DOMAIN Items(q)' : n = Items(q)'[i]
    BY <1>2 DEF ToSet
  <2>2. n = m \/ \E j \in DOMAIN Items(q) : n = Items(q)[j]
    BY <2>1, PlacesFilled
  <2>3. QED
    BY <2>2 DEF Of, ToSet
<1>3. QED
  BY <1>1, <1>2 DEF Of

(* It joins behind the items of the turn.                                  *)
LEMMA FilledOnce ==
    ASSUME TypeOK, NEW q \in Objects, NEW m \in Msgs, Fills(q, m),
           ~Of(m, q), TurnFirst(q),
           \A i, j \in DOMAIN Items(q) : Items(q)[i] = Items(q)[j] => i = j
    PROVE  /\ TurnFirst(q)'
           /\ \A i, j \in DOMAIN Items(q)' : Items(q)'[i] = Items(q)'[j] => i = j
<1>0. Len(Items(q)) \in Nat /\ DOMAIN Items(q) = 1..Len(Items(q))
      /\ Taken(drain[q]) \in Nat
  BY Places
<1>1. PICK k \in Nat :
         \A i \in DOMAIN Items(q)' :
            /\ i \in Nat /\ i >= 1
            /\ \/ i + k \in DOMAIN Items(q) /\ Items(q)'[i] = Items(q)[i + k]
               \/ i + k = Len(Items(q)) + 1 /\ Items(q)'[i] = m
  BY PlacesFilled
<1>2. \A i \in DOMAIN Items(q) : Items(q)[i] # m
  BY DEF Of, ToSet
<1>3. ASSUME NEW i \in DOMAIN Items(q)', NEW j \in DOMAIN Items(q)',
             Items(q)'[i] = Items(q)'[j]
      PROVE  i = j
  <2>1. i \in Nat /\ j \in Nat
    BY <1>1
  <2>2. i + k = j + k
    BY <1>1, <1>2, <1>3
  <2>3. QED
    BY <2>1, <2>2
<1>4. TurnFirst(q)'
  <2> SUFFICES ASSUME NEW i \in DOMAIN Items(q)', NEW n, n = Items(q)'[i],
                      InBatch(n, q)'
               PROVE  i <= Taken(drain'[q])
    BY DEF TurnFirst, InBatch
  <2>1. drain'[q] = drain[q] /\ InBatch(n, q)
    BY EmptySet DEF Fills, Rests, InBatch
  <2>2. n # m
    BY <2>1 DEF Of
  <2>3. /\ i + k \in DOMAIN Items(q) /\ n = Items(q)[i + k] /\ i \in Nat
    BY <1>1, <2>2
  <2>4. i + k <= Taken(drain[q])
    BY <2>1, <2>3 DEF TurnFirst
  <2>5. QED
    BY <1>0, <2>1, <2>3, <2>4
<1>5. QED
  BY <1>3, <1>4

(* ... and when a message is queued.                                       *)
LEMMA EnqueueQueued ==
    ASSUME ShapeInv, QueuedInv, NEW m \in Msgs, EnqueueFollowup(m)
    PROVE  QueuedInv'
<1> USE DEF ShapeInv
<1>1. /\ ShapeInv' /\ EnqueueEffect(m)
      /\ handler[m] = "sawActive" /\ handler'[m] = "queued"
      /\ \A n \in Msgs \ {m} : handler'[n] = handler[n]
      /\ told' = told /\ fails' = fails
  BY EnqueueStep
<1>2. \A q \in Objects : ~Of(m, q)
  BY <1>1 DEF QueuedInv, QueuedOnce
<1>3. told[m] = 0 /\ fails \in Nat
  BY <1>1, Typed DEF QueuedInv, ToldBounds
<1>4. CASE \A q \in Objects : Kept(q)
  <2>1. QueuedOnce'
    BY <1>1, <1>2, <1>4, KeptAll DEF QueuedInv, QueuedOnce
  <2>2. BatchFirst'
    BY <1>4, KeptAll DEF QueuedInv, BatchFirst
  <2>3. ToldBounds'
    BY <1>1, <1>2, <1>3, <1>4, KeptAll DEF QueuedInv, ToldBounds
  <2>4. QED
    BY <2>1, <2>2, <2>3 DEF QueuedInv
<1>5. ASSUME NEW q \in Objects, Fills(q, m), \A r \in Objects \ {q} : Kept(r)
      PROVE  QueuedInv'
  <2>1. \A n \in Msgs, r \in Objects : Of(n, r)' => Of(n, r) \/ (n = m /\ r = q)
    BY <1>5, FilledOf, KeptAll
  <2>2. TurnFirst(q)
        /\ \A i, j \in DOMAIN Items(q) : Items(q)[i] = Items(q)[j] => i = j
    BY DEF QueuedInv, QueuedOnce, BatchFirst
  <2>3. /\ TurnFirst(q)'
        /\ \A i, j \in DOMAIN Items(q)' : Items(q)'[i] = Items(q)'[j] => i = j
    BY <1>2, <1>5, <2>2, FilledOnce
  <2>4. QueuedOnce'
    <3>1. \A n \in Msgs, r \in Objects : Of(n, r)' => handler'[n] = "queued"
      BY <1>1, <2>1 DEF QueuedInv, QueuedOnce
    <3>2. \A n \in Msgs, r, p \in Objects : Of(n, r)' /\ Of(n, p)' => r = p
      BY <1>2, <2>1 DEF QueuedInv, QueuedOnce
    <3>3. \A r \in Objects : \A i, j \in DOMAIN Items(r)' :
             Items(r)'[i] = Items(r)'[j] => i = j
      BY <1>5, <2>3, KeptAll DEF QueuedInv, QueuedOnce
    <3>4. QED
      BY <3>1, <3>2, <3>3 DEF QueuedOnce
  <2>5. BatchFirst'
    BY <1>5, <2>3, KeptAll DEF QueuedInv, BatchFirst
  <2>6. ToldBounds'
    <3> SUFFICES ASSUME NEW n \in Msgs
                 PROVE  /\ handler'[n] \in Early => told'[n] = 0
                        /\ told'[n] <= 1 + fails'
                        /\ \A r \in Objects :
                              Of(n, r)' => told'[n] <= fails'
                                            \/ (TurnBegan(r)' /\ InBatch(n, r)')
      BY DEF ToldBounds, Early
    <3>1. CASE n = m
      BY <1>1, <1>3, <3>1 DEF Early
    <3>2. CASE n # m
      <4>1. /\ handler[n] \in Early => told[n] = 0
            /\ told[n] <= 1 + fails
        BY DEF QueuedInv, ToldBounds, Early
      <4>2. ASSUME NEW r \in Objects, Of(n, r)'
            PROVE  told[n] <= fails \/ (TurnBegan(r)' /\ InBatch(n, r)')
        <5>1. Of(n, r)
          BY <2>1, <3>2, <4>2
        <5>2. told[n] <= fails \/ (TurnBegan(r) /\ InBatch(n, r))
          BY <5>1 DEF QueuedInv, ToldBounds
        <5>3. TurnBegan(r) => drain'[r] = drain[r]
          BY <1>5, KeptAll DEF Fills, TurnBegan
        <5>4. QED
          BY <5>2, <5>3 DEF TurnBegan, InBatch
      <4>3. QED
        BY <1>1, <3>2, <4>1, <4>2
    <3>3. QED
      BY <3>1, <3>2
  <2>7. QED
    BY <2>4, <2>5, <2>6 DEF QueuedInv
<1>6. QED
  BY <1>1, <1>4, <1>5 DEF EnqueueEffect

(* Every step keeps QueuedInv.                                             *)
LEMMA QueuedStep ==
    ASSUME ShapeInv, QueuedInv, [Next]_vars
    PROVE  ShapeInv' /\ QueuedInv'
<1>1. ShapeInv' /\ (Quiet \/ (\E m \in Msgs : BeginOwn(m))
        \/ (\E q \in Objects : BeginFollowup(q))
        \/ (\E m \in Msgs : EnqueueFollowup(m)))
  BY StepKind
<1>2. QED
  BY <1>1, QuietQueued, BeginOwnQueued, BeginFollowupQueued, EnqueueQueued

(* The invariants hold at the beginning.                                   *)
LEMMA InitInv == Init => ShapeInv /\ QueuedInv
<1> SUFFICES ASSUME Init  PROVE ShapeInv /\ QueuedInv
  OBVIOUS
<1>1. /\ objects = <<>> /\ current = 0 /\ lane = <<>>
      /\ \A q \in Objects : drain[q] = NoDrain
      /\ \A m \in Msgs : handler[m] = "new" /\ told[m] = 0
      /\ fails = 0
  BY DEF Init
<1>2. QueueTypes
  <2>1. DrainShape
    BY <1>1, NoDrainTyped DEF DrainShape
  <2>2. objects \in Seq(QueueType) /\ Len(objects) = 0
    BY <1>1
  <2>3. QED
    <3>1. drain \in [Objects -> DrainType]
      BY NoDrainTyped DEF Init
    <3>2. /\ callback \in BOOLEAN /\ current \in 0..Len(objects)
          /\ Len(objects) <= Cardinality(Msgs)
      <4>1. callback = FALSE
        BY DEF Init
      <4>2. current \in 0..0 /\ 0 <= Cardinality(Msgs)
        BY <1>1, Bounds
      <4>3. QED
        BY <2>2, <4>1, <4>2
    <3>3. QED
      BY <2>1, <2>2, <3>1, <3>2 DEF QueueTypes
<1>3. RestTypes
  <2>1. lane \in Seq(Msgs \cup Objects) /\ accepted \in Seq(Msgs)
    BY DEF Init
  <2>2. QED
    BY <2>1 DEF RestTypes, Init
<1>4. TypeOK /\ DrainShape
  BY <1>2, <1>3 DEF QueueTypes, RestTypes, TypeOK, QueueType, DrainType
<1>5. LaneShape
  <2>1. DOMAIN lane = {}
    BY <1>1
  <2>2. \A t \in Msgs \cup Objects : At(t) # "active"
    BY <1>1, NoDrainTyped DEF At
  <2>3. QED
    BY <2>1, <2>2 DEF LaneShape
<1>6. ObjectsCounted
  <2>1. Queueing = {} /\ Len(objects) = 0
    BY <1>1 DEF Queueing
  <2>2. QED
    BY <2>1, FS_EmptySet DEF ObjectsCounted
<1>7. \A q \in Objects : Items(q) = <<>> /\ \A m : ~Of(m, q)
  BY <1>1, NoDrainTyped, EmptySet DEF Items, Of, InBatch
<1>8. QueuedInv
  BY <1>1, <1>7 DEF QueuedInv, QueuedOnce, BatchFirst, TurnFirst, ToldBounds
<1>9. QED
  BY <1>4, <1>5, <1>6, <1>8 DEF ShapeInv

(* And they hold always.                                                   *)
LEMMA QueuedAlways == Spec => [](ShapeInv /\ QueuedInv)
<1>1. Init => ShapeInv /\ QueuedInv
  BY InitInv
<1>2. ShapeInv /\ QueuedInv /\ [Next]_vars => (ShapeInv /\ QueuedInv)'
  BY QueuedStep
<1>3. QED
  BY <1>1, <1>2, PTL DEF Spec

(* The state always has its type: the objects a drain holds on to exist,   *)
(* current names one of them or none, and no step writes outside the       *)
(* tables.                                                                 *)
THEOREM FollowupsTypeCorrect == Spec => []TypeOK
<1>1. ShapeInv /\ QueuedInv => TypeOK
  BY DEF ShapeInv
<1>2. QED
  BY <1>1, QueuedAlways, PTL

(* A message is put to the agent once, and once more for each followup     *)
(* turn whose reply could not be delivered: drains that overlap after a    *)
(* stop command or a late enqueue never run the same item.                 *)
THEOREM NothingRepeated == Spec => []NoRepeat
<1>1. ShapeInv /\ QueuedInv => NoRepeat
  BY DEF QueuedInv, ToldBounds, NoRepeat
<1>2. QED
  BY <1>1, QueuedAlways, PTL

-----------------------------------------------------------------------------
(* Order                                                                   *)

(* The message was queued.                                                 *)
Accepted(m) == m \in ToSet(accepted)

(* The messages that were queued, as a sequence.                           *)
LEMMA AcceptedPlaces ==
    ASSUME TypeOK
    PROVE  /\ accepted \in Seq(Msgs) /\ DOMAIN accepted = 1..Len(accepted)
           /\ Len(accepted) \in Nat
           /\ \A i \in DOMAIN accepted : accepted[i] \in Msgs
           /\ \A m, n : Before(m, n) => /\ m \in Msgs /\ n \in Msgs
                                       /\ Accepted(m) /\ Accepted(n)
<1>1. /\ accepted \in Seq(Msgs) /\ DOMAIN accepted = 1..Len(accepted)
      /\ Len(accepted) \in Nat
      /\ \A i \in DOMAIN accepted : accepted[i] \in Msgs
  BY Typed, LenProperties, ElementOfSeq
<1>2. QED
  BY <1>1 DEF Before, Accepted, ToSet

(* No two messages were each queued before the other.                      *)
LEMMA BeforeStrict ==
    ASSUME TypeOK, AcceptedOnce, NEW m, NEW n, Before(m, n), Before(n, m)
    PROVE  FALSE
<1>1. PICK i, j \in DOMAIN accepted : i < j /\ accepted[i] = m /\ accepted[j] = n
  BY DEF Before
<1>2. PICK k, l \in DOMAIN accepted : k < l /\ accepted[k] = n /\ accepted[l] = m
  BY DEF Before
<1>3. i = l /\ j = k
  BY <1>1, <1>2 DEF AcceptedOnce
<1>4. i \in Nat /\ j \in Nat
  BY AcceptedPlaces
<1>5. QED
  BY <1>1, <1>2, <1>3, <1>4

(* A message that is queued comes after all others.                        *)
LEMMA BeforeGrows ==
    ASSUME TypeOK, NEW m \in Msgs, ~Accepted(m), accepted' = Append(accepted, m)
    PROVE  /\ \A a, b : Before(a, b) => Before(a, b)'
           /\ \A a : Accepted(a) => Before(a, m)'
           /\ \A a, b : Before(a, b)' => a # m /\ (b # m => Before(a, b))
           /\ \A a : Accepted(a)' <=> Accepted(a) \/ a = m
           /\ DOMAIN accepted' = 1..(Len(accepted) + 1)
           /\ accepted'[Len(accepted) + 1] = m
           /\ \A i \in DOMAIN accepted : accepted'[i] = accepted[i]
<1> DEFINE n == Len(accepted)
<1>1. /\ n \in Nat /\ DOMAIN accepted = 1..n
      /\ DOMAIN accepted' = 1..(n + 1) /\ accepted'[n + 1] = m
      /\ \A i \in 1..n : accepted'[i] = accepted[i]
  BY AcceptedPlaces, AppendProperties, LenProperties
<1>a. PICK k : k = n
  OBVIOUS
<1>2. /\ k \in Nat /\ DOMAIN accepted = 1..k
      /\ DOMAIN accepted' = 1..(k + 1) /\ accepted'[k + 1] = m
      /\ \A i \in 1..k : accepted'[i] = accepted[i]
  BY <1>1, <1>a
<1>3. \A i \in 1..k : i \in 1..(k + 1) /\ i < k + 1 /\ accepted[i] # m
  BY <1>2 DEF Accepted, ToSet
<1>4. \A a, b : Before(a, b) => Before(a, b)'
  BY <1>2, <1>3 DEF Before
<1>5. \A a : Accepted(a) => Before(a, m)'
  <2> SUFFICES ASSUME NEW a, Accepted(a)  PROVE Before(a, m)'
    OBVIOUS
  <2>1. PICK i \in 1..k : accepted[i] = a
    BY <1>2 DEF Accepted, ToSet
  <2>2. i \in 1..(k + 1) /\ k + 1 \in 1..(k + 1) /\ i < k + 1 /\ accepted'[i] = a
    BY <1>2, <1>3, <2>1
  <2>3. QED
    BY <1>2, <2>2 DEF Before
<1>6. \A a, b : Before(a, b)' => a # m /\ (b # m => Before(a, b))
  <2> SUFFICES ASSUME NEW a, NEW b, Before(a, b)'
               PROVE  a # m /\ (b # m => Before(a, b))
    OBVIOUS
  <2>1. PICK i, j \in 1..(k + 1) : i < j /\ accepted'[i] = a /\ accepted'[j] = b
    BY <1>2 DEF Before
  <2>2. i \in 1..k
    BY <1>2, <2>1
  <2>3. a # m
    BY <1>2, <1>3, <2>1, <2>2
  <2>4. ASSUME b # m  PROVE Before(a, b)
    <3>1. j \in 1..k
      BY <1>2, <2>1, <2>4
    <3>2. QED
      BY <1>2, <2>1, <2>2, <3>1 DEF Before
  <2>5. QED
    BY <2>3, <2>4
<1>7. \A a : Accepted(a)' <=> Accepted(a) \/ a = m
  <2> SUFFICES ASSUME NEW a  PROVE Accepted(a)' <=> Accepted(a) \/ a = m
    OBVIOUS
  <2>1. Accepted(a)' <=> \E i \in 1..(k + 1) : accepted'[i] = a
    BY <1>2 DEF Accepted, ToSet
  <2>2. Accepted(a) <=> \E i \in 1..k : accepted[i] = a
    BY <1>2 DEF Accepted, ToSet
  <2>3. \A i \in 1..(k + 1) : i \in 1..k \/ i = k + 1
    BY <1>2
  <2>4. k + 1 \in 1..(k + 1)
    BY <1>2
  <2>5. QED
    BY <1>2, <1>3, <2>1, <2>2, <2>3, <2>4
<1>8. QED
  BY <1>1, <1>4, <1>5, <1>6, <1>7

(* The order stays when none is queued.                                    *)
LEMMA BeforeKept ==
    ASSUME accepted' = accepted
    PROVE  /\ \A a, b : Before(a, b)' <=> Before(a, b)
           /\ \A a : Accepted(a)' <=> Accepted(a)
  BY DEF Before, Accepted

(* A queue stays sorted when a turn is taken from its front or removed     *)
(* there, ...                                                              *)
LEMMA QuietSorted ==
    ASSUME ShapeInv, ShapeInv', QueuedInv, NEW q \in Objects,
           SortedIn(q), TurnEarlier(q), Quietly(q) \/ Begins(q), accepted' = accepted
    PROVE  SortedIn(q)' /\ TurnEarlier(q)'
<1> USE DEF ShapeInv
<1>0. /\ Len(Items(q)) \in Nat /\ DOMAIN Items(q) = 1..Len(Items(q))
      /\ Taken(drain[q]) \in Nat
      /\ \A a, b : Before(a, b)' <=> Before(a, b)
  BY Places, BeforeKept
<1>1. SortedIn(q)'
  <2> SUFFICES ASSUME NEW i \in DOMAIN Items(q)', NEW j \in DOMAIN Items(q)', i < j,
                      NEW a, NEW b, a = Items(q)'[i], b = Items(q)'[j]
               PROVE  Before(a, b)'
    BY DEF SortedIn, Before
  <2>1. CASE Items(q)' = Items(q)
    BY <1>0, <2>1 DEF SortedIn
  <2>2. CASE Items(q)' = <<>>
    BY <2>2
  <2>3. CASE TurnDone(q)
    <3>1. /\ i \in Nat /\ j \in Nat
          /\ i + Taken(drain[q]) \in DOMAIN Items(q)
          /\ j + Taken(drain[q]) \in DOMAIN Items(q)
          /\ a = Items(q)[i + Taken(drain[q])] /\ b = Items(q)[j + Taken(drain[q])]
      BY <2>3, PlacesLeft
    <3>2. i + Taken(drain[q]) < j + Taken(drain[q])
      BY <1>0, <3>1
    <3>3. QED
      BY <1>0, <3>1, <3>2 DEF SortedIn
  <2>4. QED
    BY <2>1, <2>2, <2>3
       DEF Quietly, Begins, Kept, Restarts, TakesTurn, Ends, Stopped
<1>2. TurnEarlier(q)'
  <2> SUFFICES ASSUME NEW a \in ToSet(drain'[q].batch), NEW b \in ToSet(Items(q)'),
                      b \notin ToSet(drain'[q].batch)
               PROVE  Before(a, b)'
    BY DEF TurnEarlier, InBatch, Before
  <2>1. CASE Items(q)' \in {<<>>, Items(q)} /\ SameTurn(q)
    <3>1. b \in ToSet(Items(q)) /\ a \in ToSet(drain[q].batch) /\ ~InBatch(b, q)
      BY <2>1, EmptySet DEF SameTurn, InBatch
    <3>2. QED
      BY <1>0, <3>1 DEF TurnEarlier
  <2>2. CASE drain'[q].batch = <<>>
    BY <2>2, EmptySet
  <2>3. CASE drain'[q].batch = Items(q) /\ Items(q)' = Items(q)
    BY <2>3
  <2>4. CASE /\ Items(q) # <<>> /\ Items(q)' = Items(q)
             /\ drain'[q].batch = <<Head(Items(q))>>
    <3>1. /\ Head(Items(q)) = Items(q)[1] /\ Len(Items(q)) >= 1
          /\ \A m : m \in ToSet(Items(q)) <=>
                       \E i \in 1..Len(Items(q)) : Items(q)[i] = m
      BY <2>4, Places
    <3>2. a = Items(q)[1] /\ b # Items(q)[1]
      BY <2>4, <3>1, OneSet
    <3>3. PICK i \in 1..Len(Items(q)) : Items(q)[i] = b
      BY <2>4, <3>1
    <3>4. 1 \in 1..Len(Items(q)) /\ 1 < i
      BY <1>0, <3>1, <3>2, <3>3
    <3>5. Before(a, b)
      BY <1>0, <3>2, <3>3, <3>4 DEF SortedIn
    <3>6. QED
      BY <1>0, <3>5
  <2>5. QED
    BY <2>1, <2>2, <2>3, <2>4
       DEF Quietly, Begins, Kept, Restarts, TakesTurn, Ends, TurnDone, Stopped,
           Rests, SameTurn
<1>3. QED
  BY <1>1, <1>2

(* ... when a message joins at its end, whatever is dropped from its       *)
(* front, ...                                                              *)
LEMMA FilledSorted ==
    ASSUME ShapeInv, NEW q \in Objects, NEW m \in Msgs, Fills(q, m),
           accepted' = Append(accepted, m), ~Accepted(m),
           \A n \in Msgs : Of(n, q) => Accepted(n),
           SortedIn(q), TurnEarlier(q)
    PROVE  SortedIn(q)' /\ TurnEarlier(q)'
<1> USE DEF ShapeInv
<1>0. /\ Len(Items(q)) \in Nat /\ DOMAIN Items(q) = 1..Len(Items(q))
      /\ ToSet(Items(q)) \subseteq Msgs /\ ToSet(drain[q].batch) \subseteq Msgs
      /\ \A i \in 1..Len(Items(q)) : Items(q)[i] \in Msgs
  BY ItemsTyped
<1>1. /\ \A a, b : Before(a, b) => Before(a, b)'
      /\ \A a : Accepted(a) => Before(a, m)'
  BY BeforeGrows
<1>2. /\ \A i \in DOMAIN Items(q) : Accepted(Items(q)[i])
      /\ \A a \in ToSet(drain[q].batch) : Accepted(a)
  BY <1>0 DEF Of, InBatch, ToSet
<1>3. PICK k \in Nat :
         \A i \in DOMAIN Items(q)' :
            /\ i \in Nat /\ i >= 1
            /\ \/ i + k \in DOMAIN Items(q) /\ Items(q)'[i] = Items(q)[i + k]
               \/ i + k = Len(Items(q)) + 1 /\ Items(q)'[i] = m
  BY PlacesFilled
<1>4. SortedIn(q)'
  <2> SUFFICES ASSUME NEW i \in DOMAIN Items(q)', NEW j \in DOMAIN Items(q)', i < j,
                      NEW a, NEW b, a = Items(q)'[i], b = Items(q)'[j]
               PROVE  Before(a, b)'
    BY DEF SortedIn, Before
  <2>1. i \in Nat /\ j \in Nat /\ i + k < j + k
    BY <1>3
  <2>2. i + k \in DOMAIN Items(q) /\ a = Items(q)[i + k]
    <3>1. i + k # Len(Items(q)) + 1
      <4>1. j + k <= Len(Items(q)) + 1
        BY <1>0, <1>3
      <4>2. QED
        BY <1>0, <2>1, <4>1
    <3>2. QED
      BY <1>3, <3>1
  <2>3. CASE b = m
    BY <1>1, <1>2, <2>2, <2>3
  <2>4. CASE b # m
    <3>1. j + k \in DOMAIN Items(q) /\ b = Items(q)[j + k]
      BY <1>3, <2>4
    <3>2. QED
      BY <1>1, <2>1, <2>2, <3>1 DEF SortedIn
  <2>5. QED
    BY <2>3, <2>4
<1>5. TurnEarlier(q)'
  <2> SUFFICES ASSUME NEW a \in ToSet(drain'[q].batch), NEW b \in ToSet(Items(q)'),
                      b \notin ToSet(drain'[q].batch)
               PROVE  Before(a, b)'
    BY DEF TurnEarlier, InBatch, Before
  <2>1. drain'[q] = drain[q]
    BY EmptySet DEF Fills, Rests
  <2>2. PICK i \in DOMAIN Items(q)' : b = Items(q)'[i]
    BY DEF ToSet
  <2>3. CASE b = m
    BY <1>1, <1>2, <2>1, <2>3
  <2>4. CASE b # m
    <3>1. b \in ToSet(Items(q))
      BY <1>3, <2>2, <2>4 DEF ToSet
    <3>2. Before(a, b)
      BY <2>1, <3>1 DEF TurnEarlier, InBatch
    <3>3. QED
      BY <1>1, <3>2
  <2>5. QED
    BY <2>3, <2>4
<1>6. QED
  BY <1>4, <1>5

(* ... and when messages are queued elsewhere.                             *)
LEMMA KeptSorted ==
    ASSUME NEW q \in Objects, Kept(q), SortedIn(q), TurnEarlier(q),
           \A a, b : Before(a, b) => Before(a, b)'
    PROVE  SortedIn(q)' /\ TurnEarlier(q)'
<1>1. Items(q)' = Items(q) /\ drain'[q] = drain[q]
  BY DEF Kept
<1>2. SortedIn(q)'
  <2> SUFFICES ASSUME NEW i \in DOMAIN Items(q)', NEW j \in DOMAIN Items(q)', i < j,
                      NEW a, NEW b, a = Items(q)'[i], b = Items(q)'[j]
               PROVE  Before(a, b)'
    BY DEF SortedIn, Before
  <2>1. QED
    BY <1>1 DEF SortedIn
<1>3. TurnEarlier(q)'
  <2> SUFFICES ASSUME NEW a \in ToSet(drain'[q].batch), NEW b \in ToSet(Items(q)'),
                      b \notin ToSet(drain'[q].batch)
               PROVE  Before(a, b)'
    BY DEF TurnEarlier, InBatch, Before
  <2>1. QED
    BY <1>1 DEF TurnEarlier, InBatch
<1>4. QED
  BY <1>2, <1>3

(* Until a stop command, a queue with items or a drain is the one in the   *)
(* map.                                                                    *)
LEMMA InTheMap ==
    ASSUME ShapeInv, OneDrain, clears = 0, NEW q \in Objects, NEW m, Of(m, q)
    PROVE  q = current
<1>1. CASE m \in ToSet(Items(q))
  BY <1>1, EmptySet DEF OneDrain
<1>2. CASE InBatch(m, q)
  <2>1. drain[q].batch # <<>>
    BY <1>2, EmptySet DEF InBatch
  <2>2. drain[q].at # "idle"
    BY <2>1, NoDrainTyped DEF ShapeInv, DrainShape, DrainOK
  <2>3. QED
    BY <2>2 DEF OneDrain
<1>3. QED
  BY <1>1, <1>2 DEF Of

(* A quiet step brings nothing back into a queue.                          *)
LEMMA QuietAccepted ==
    ASSUME ShapeInv, ShapeInv', AcceptedOnce, Quiet
    PROVE  AcceptedOnce'
<1>1. /\ accepted' = accepted
      /\ \A m \in Msgs, q \in Objects : Of(m, q)' => Of(m, q)
  BY OfShrinks DEF Quiet, ShapeInv
<1>2. \A i \in DOMAIN accepted : accepted[i] \in Msgs
  BY AcceptedPlaces DEF ShapeInv
<1>3. \A m \in Msgs : handler'[m] = "queued" <=> handler[m] = "queued"
  BY DEF Quiet, Headway
<1>4. QED
  BY <1>1, <1>2, <1>3 DEF AcceptedOnce

(* In a quiet step the queue in the map leaves it only when it is empty,   *)
(* and the drain of no other starts.                                       *)
LEMMA QuietOneDrain ==
    ASSUME ShapeInv, ShapeInv', OneDrain, Quiet
    PROVE  OneDrain'
<1> SUFFICES ASSUME clears' = 0, NEW q \in Objects,
                    drain'[q].at # "idle" \/ Items(q)' # <<>>
             PROVE  q = current'
  BY DEF OneDrain
<1> USE DEF ShapeInv
<1>1. clears = 0 /\ Quietly(q) /\ MapStep
  BY DEF Quiet
<1>2. Items(q)' # <<>> => drain[q].at # "idle" \/ Items(q) # <<>>
  BY <1>1 DEF Quietly, Kept, Restarts, TakesTurn, Ends, TurnDone, Stopped
<1>3. CASE /\ current' = current
           /\ drain'[q].at # "idle" => drain[q].at # "idle" \/ q = current
  BY <1>1, <1>2, <1>3 DEF OneDrain
<1>4. ASSUME NEW r \in Objects,
             drain[r].at # "idle" /\ drain'[r].at = "idle" /\ Items(r)' = <<>>,
             \A p \in Objects \ {r} : Kept(p)
      PROVE  FALSE
  <2>1. r = current /\ q # r
    BY <1>1, <1>4 DEF OneDrain
  <2>2. drain[q].at # "idle" \/ Items(q) # <<>>
    BY <1>4, <2>1 DEF Kept
  <2>3. QED
    BY <1>1, <2>1, <2>2 DEF OneDrain
<1>5. QED
  BY <1>1, <1>3, <1>4 DEF MapStep

(* A quiet step puts nothing to the agent.                                 *)
LEMMA QuietToldInOrder ==
    ASSUME ShapeInv, ShapeInv', ToldInOrder, Quiet
    PROVE  ToldInOrder'
<1>1. /\ \A m \in Msgs, q \in Objects : Of(m, q)' => Of(m, q)
      /\ told' = told /\ accepted' = accepted /\ (clears' = 0 => clears = 0)
  BY OfShrinks DEF Quiet, ShapeInv
<1>2. \A a, b : Before(a, b)' <=> Before(a, b)
  BY <1>1, BeforeKept
<1>3. QED
  BY <1>1, <1>2 DEF ToldInOrder

(* OrderInv is kept by a quiet step.                                       *)
LEMMA QuietOrder ==
    ASSUME ShapeInv, ShapeInv', QueuedInv, OrderInv, Quiet
    PROVE  OrderInv'
<1>1. \A q \in Objects : SortedIn(q)' /\ TurnEarlier(q)'
  BY QuietSorted DEF Quiet, OrderInv, Sorted
<1>2. QED
  BY <1>1, QuietAccepted, QuietOneDrain, QuietToldInOrder DEF OrderInv, Sorted

(* A message that has its own turn was not queued.                         *)
LEMMA BeginOwnOrder ==
    ASSUME ShapeInv, OrderInv, NEW m \in Msgs, BeginOwn(m)
    PROVE  OrderInv'
<1>1. \A q \in Objects : Kept(q)
  BY BeginOwnStep
<1>2. /\ handler[m] = "waiting" /\ handler' = [handler EXCEPT ![m] = "active"]
      /\ told' = [told EXCEPT ![m] = @ + 1]
      /\ accepted' = accepted /\ current' = current /\ clears' = clears
  BY DEF BeginOwn, counters, queueVars
<1>3. \A n \in Msgs \ {m} : handler'[n] = handler[n] /\ told'[n] = told[n]
  BY <1>2, Typed DEF ShapeInv
<1>4. /\ \A a, b : Before(a, b)' <=> Before(a, b)
      /\ \A a, b : Before(a, b) => Accepted(a) /\ Accepted(b)
      /\ \A i \in DOMAIN accepted : accepted[i] \in Msgs
  BY <1>2, BeforeKept, AcceptedPlaces DEF ShapeInv
<1>5. ~Accepted(m)
  BY <1>2 DEF OrderInv, AcceptedOnce, Accepted, ToSet
<1>6. \A n \in Msgs, q \in Objects : Of(n, q)' <=> Of(n, q)
  BY <1>1, KeptAll
<1>7. AcceptedOnce'
  <2>1. \A i \in DOMAIN accepted : accepted[i] # m
    BY <1>5 DEF Accepted, ToSet
  <2>2. QED
    BY <1>2, <1>3, <1>4, <1>6, <2>1, <1>1, KeptAll DEF OrderInv, AcceptedOnce
<1>8. Sorted'
  BY <1>1, <1>4, KeptSorted DEF OrderInv, Sorted
<1>9. OneDrain'
  BY <1>1, <1>2, KeptAll DEF OrderInv, OneDrain
<1>10. ToldInOrder'
  <2> SUFFICES ASSUME clears' = 0, NEW a \in Msgs, NEW b \in Msgs, NEW q \in Objects,
                      Of(b, q)', told'[b] = 0, Before(b, a)'
               PROVE  told'[a] = 0
    BY DEF ToldInOrder
  <2>1. a # m /\ b # m /\ Before(b, a) /\ Of(b, q)
    BY <1>1, <1>4, <1>5, KeptAll
  <2>2. told'[a] = told[a] /\ told'[b] = told[b]
    BY <1>3, <2>1
  <2>3. QED
    BY <1>2, <2>1, <2>2 DEF OrderInv, ToldInOrder
<1>11. QED
  BY <1>7, <1>8, <1>9, <1>10 DEF OrderInv

(* A followup turn takes the messages of its batch; one that is queued and *)
(* was not put to the agent came after them.                               *)
LEMMA BeginFollowupOrder ==
    ASSUME ShapeInv, QueuedInv, OrderInv, NEW q \in Objects, BeginFollowup(q)
    PROVE  OrderInv'
<1> USE DEF ShapeInv
<1>1. /\ ShapeInv' /\ Begins(q) /\ \A r \in Objects \ {q} : Kept(r)
  BY BeginFollowupStep
<1>2. /\ drain[q].at = "waiting" /\ handler' = handler
      /\ accepted' = accepted /\ current' = current /\ clears' = clears
      /\ told' = [m \in Msgs |-> IF m \in ToSet(drain[q].batch) THEN told[m] + 1
                                                                ELSE told[m]]
  BY DEF BeginFollowup, counters
<1>3. /\ \A m : Of(m, q)' <=> Of(m, q)
      /\ Items(q)' = Items(q)
  BY <1>1 DEF Begins, SameTurn, Of, InBatch
<1>4. \A m \in Msgs, r \in Objects : Of(m, r)' <=> Of(m, r)
  BY <1>1, <1>3, KeptAll
<1>5. \A a, b : Before(a, b)' <=> Before(a, b)
  BY <1>2, BeforeKept
<1>6. AcceptedOnce'
  BY <1>2, <1>4 DEF OrderInv, AcceptedOnce
<1>7. Sorted'
  <2>1. SortedIn(q)' /\ TurnEarlier(q)'
    BY <1>1, <1>2, QuietSorted DEF OrderInv, Sorted
  <2>2. QED
    BY <1>1, <1>5, <2>1, KeptSorted DEF OrderInv, Sorted
<1>8. OneDrain'
  <2>1. \A r \in Objects : drain'[r].at # "idle" \/ Items(r)' # <<>>
                             => drain[r].at # "idle" \/ Items(r) # <<>>
    BY <1>1, <1>2, KeptAll
  <2>2. QED
    BY <1>2, <2>1 DEF OrderInv, OneDrain
<1>9. ToldInOrder'
  <2> SUFFICES ASSUME clears' = 0, NEW m \in Msgs, NEW n \in Msgs, NEW r \in Objects,
                      Of(n, r)', told'[n] = 0, Before(n, m)'
               PROVE  told'[m] = 0
    BY DEF ToldInOrder
  <2>1. Before(n, m) /\ Of(n, r) /\ clears = 0
    BY <1>2, <1>4, <1>5
  <2>2. ~InBatch(n, q) /\ told[n] = 0
    <3>1. told'[n] = IF InBatch(n, q) THEN told[n] + 1 ELSE told[n]
      BY <1>2 DEF InBatch
    <3>2. told[n] \in Nat
      BY Typed
    <3>3. QED
      BY <3>1, <3>2
  <2>3. told[m] = 0
    BY <2>1, <2>2 DEF OrderInv, ToldInOrder
  <2>4. ~InBatch(m, q)
    <3>1. SUFFICES ASSUME InBatch(m, q)  PROVE FALSE
      OBVIOUS
    <3>2. Of(m, q)
      BY <3>1 DEF Of
    <3>3. r = q
      BY <2>1, <3>2, InTheMap DEF OrderInv
    <3>4. n \in ToSet(Items(q))
      BY <2>1, <2>2, <3>3 DEF Of
    <3>5. Before(m, n)
      BY <2>2, <3>1, <3>4 DEF OrderInv, Sorted, TurnEarlier, InBatch
    <3>6. QED
      BY <2>1, <3>5, BeforeStrict DEF OrderInv
  <2>5. QED
    BY <1>2, <2>3, <2>4 DEF InBatch
<1>10. QED
  BY <1>6, <1>7, <1>8, <1>9 DEF OrderInv

(* A message that is queued is the last one, and was not put to the agent. *)
LEMMA EnqueueOrder ==
    ASSUME ShapeInv, QueuedInv, OrderInv, NEW m \in Msgs, EnqueueFollowup(m)
    PROVE  OrderInv'
<1> USE DEF ShapeInv
<1>1. /\ ShapeInv' /\ EnqueueEffect(m)
      /\ handler[m] = "sawActive" /\ handler'[m] = "queued"
      /\ \A n \in Msgs \ {m} : handler'[n] = handler[n]
      /\ told' = told /\ clears' = clears
  BY EnqueueStep
<1>2. \A i \in DOMAIN accepted : accepted[i] \in Msgs \ {m}
  BY <1>1, AcceptedPlaces DEF OrderInv, AcceptedOnce
<1>3. ~Accepted(m) /\ \A q \in Objects : ~Of(m, q)
  BY <1>1, <1>2 DEF Accepted, ToSet, QueuedInv, QueuedOnce
<1>4. CASE accepted' = accepted /\ current' = current /\ \A q \in Objects : Kept(q)
  <2>1. \A a, b : Before(a, b)' <=> Before(a, b)
    BY <1>4, BeforeKept
  <2>2. AcceptedOnce'
    BY <1>1, <1>2, <1>4, KeptAll DEF OrderInv, AcceptedOnce
  <2>3. Sorted'
    BY <1>4, <2>1, KeptSorted DEF OrderInv, Sorted
  <2>4. OneDrain'
    BY <1>1, <1>4, KeptAll DEF OrderInv, OneDrain
  <2>5. ToldInOrder'
    BY <1>1, <1>4, <2>1, KeptAll DEF OrderInv, ToldInOrder
  <2>6. QED
    BY <2>2, <2>3, <2>4, <2>5 DEF OrderInv
<1>5. ASSUME NEW q \in Objects, Fills(q, m), \A r \in Objects \ {q} : Kept(r),
             accepted' = Append(accepted, m), current' = q,
             current # 0 => current' = current
      PROVE  OrderInv'
  <2>1. \A n \in Msgs, r \in Objects : Of(n, r)' => Of(n, r) \/ n = m
    BY <1>5, FilledOf, KeptAll
  <2>2. /\ \A a, b : Before(a, b) => Before(a, b)'
        /\ \A a, b : Before(a, b)' => a # m /\ (b # m => Before(a, b))
        /\ \A a : Accepted(a)' <=> Accepted(a) \/ a = m
        /\ \A i \in DOMAIN accepted : accepted'[i] = accepted[i]
        /\ DOMAIN accepted' = 1..(Len(accepted) + 1)
        /\ accepted'[Len(accepted) + 1] = m
    BY <1>3, <1>5, BeforeGrows
  <2>3. DOMAIN accepted = 1..Len(accepted) /\ Len(accepted) \in Nat
    BY AcceptedPlaces
  <2>4. AcceptedOnce'
    <3>1. \A i \in DOMAIN accepted' : i \in DOMAIN accepted \/ i = Len(accepted) + 1
      BY <2>2, <2>3
    <3>2. \A i, j \in DOMAIN accepted' : accepted'[i] = accepted'[j] => i = j
      BY <1>2, <2>2, <3>1 DEF OrderInv, AcceptedOnce
    <3>3. \A i \in DOMAIN accepted' : handler'[accepted'[i]] = "queued"
      BY <1>1, <1>2, <2>2, <3>1 DEF OrderInv, AcceptedOnce
    <3>4. \A n \in Msgs, r \in Objects : Of(n, r)' => Accepted(n)'
      BY <2>1, <2>2 DEF OrderInv, AcceptedOnce, Accepted
    <3>5. QED
      BY <3>2, <3>3, <3>4 DEF AcceptedOnce, Accepted
  <2>5. Sorted'
    <3>1. \A n \in Msgs : Of(n, q) => Accepted(n)
      BY DEF OrderInv, AcceptedOnce, Accepted
    <3>2. SortedIn(q)' /\ TurnEarlier(q)'
      BY <1>3, <1>5, <3>1, FilledSorted DEF OrderInv, Sorted
    <3>3. QED
      BY <1>5, <2>2, <3>2, KeptSorted DEF OrderInv, Sorted
  <2>6. OneDrain'
    <3> SUFFICES ASSUME clears' = 0, NEW r \in Objects, r # q,
                        drain'[r].at # "idle" \/ Items(r)' # <<>>
                 PROVE  FALSE
      BY <1>5 DEF OneDrain
    <3>1. drain[r].at # "idle" \/ Items(r) # <<>>
      BY <1>5 DEF Kept
    <3>2. r = current /\ r # 0
      BY <1>1, <3>1, Bounds DEF OrderInv, OneDrain
    <3>3. QED
      BY <1>5, <3>2
  <2>7. ToldInOrder'
    <3> SUFFICES ASSUME clears' = 0, NEW a \in Msgs, NEW n \in Msgs, NEW r \in Objects,
                        Of(n, r)', told'[n] = 0, Before(n, a)'
                 PROVE  told'[a] = 0
      BY DEF ToldInOrder
    <3>1. n # m /\ Of(n, r)
      BY <2>1, <2>2
    <3>2. CASE a = m
      BY <1>1, <3>2 DEF QueuedInv, ToldBounds
    <3>3. CASE a # m
      BY <1>1, <2>2, <3>1, <3>3 DEF OrderInv, ToldInOrder
    <3>4. QED
      BY <3>2, <3>3
  <2>8. QED
    BY <2>4, <2>5, <2>6, <2>7 DEF OrderInv
<1>6. QED
  BY <1>1, <1>4, <1>5 DEF EnqueueEffect

(* Every step keeps OrderInv.                                              *)
LEMMA OrderStep ==
    ASSUME ShapeInv, QueuedInv, OrderInv, [Next]_vars
    PROVE  OrderInv'
<1>1. ShapeInv' /\ (Quiet \/ (\E m \in Msgs : BeginOwn(m))
        \/ (\E q \in Objects : BeginFollowup(q))
        \/ (\E m \in Msgs : EnqueueFollowup(m)))
  BY StepKind
<1>2. QED
  BY <1>1, QuietOrder, BeginOwnOrder, BeginFollowupOrder, EnqueueOrder

(* It holds at the beginning, ...                                          *)
LEMMA InitOrder == Init => OrderInv
<1> SUFFICES ASSUME Init  PROVE OrderInv
  OBVIOUS
<1>1. /\ objects = <<>> /\ accepted = <<>>
      /\ \A q \in Objects : drain[q] = NoDrain
  BY DEF Init
<1>2. \A q \in Objects : Items(q) = <<>> /\ drain[q].at = "idle"
                           /\ \A m : ~InBatch(m, q) /\ ~Of(m, q)
  BY <1>1, NoDrainTyped, EmptySet DEF Items, Of, InBatch
<1>3. DOMAIN accepted = {}
  BY <1>1
<1>4. AcceptedOnce
  BY <1>2, <1>3 DEF AcceptedOnce
<1>5. Sorted
  <2>1. \A q \in Objects : DOMAIN Items(q) = {} /\ ToSet(drain[q].batch) = {}
    BY <1>2 DEF InBatch
  <2>2. QED
    BY <2>1 DEF Sorted, SortedIn, TurnEarlier
<1>6. OneDrain /\ ToldInOrder
  BY <1>2 DEF OneDrain, ToldInOrder
<1>7. QED
  BY <1>4, <1>5, <1>6 DEF OrderInv

(* ... and always.                                                         *)
LEMMA OrderAlways == Spec => [](ShapeInv /\ QueuedInv /\ OrderInv)
<1>1. Init => ShapeInv /\ QueuedInv /\ OrderInv
  BY InitInv, InitOrder
<1>2. ShapeInv /\ QueuedInv /\ OrderInv /\ [Next]_vars
        => (ShapeInv /\ QueuedInv /\ OrderInv)'
  BY QueuedStep, OrderStep
<1>3. QED
  BY <1>1, <1>2, PTL DEF Spec

(* What one step may do to the messages put to the agent.                  *)
ToldNext ==
    clears = 0 =>
        \A i, j \in DOMAIN accepted :
           (i < j /\ told[accepted[i]] = 0 /\ told'[accepted[i]] > 0)
               => told[accepted[j]] = 0

(* Every step respects that: a followup turn is the only one that puts a   *)
(* queued message to the agent, and the message is in its queue.           *)
LEMMA ToldNextStep ==
    ASSUME ShapeInv, QueuedInv, OrderInv, [Next]_vars
    PROVE  ToldNext
<1> USE DEF ShapeInv
<1> SUFFICES ASSUME clears = 0, NEW i \in DOMAIN accepted, NEW j \in DOMAIN accepted,
                    i < j, told[accepted[i]] = 0, told'[accepted[i]] > 0
             PROVE  told[accepted[j]] = 0
  BY DEF ToldNext
<1>1. /\ accepted[i] \in Msgs /\ accepted[j] \in Msgs
      /\ handler[accepted[i]] = "queued" /\ Before(accepted[i], accepted[j])
  BY AcceptedPlaces DEF OrderInv, AcceptedOnce, Before
<1>2. told' # told
  BY <1>1, Typed
<1>3. ASSUME NEW m \in Msgs, BeginOwn(m)  PROVE FALSE
  <2>1. handler[m] = "waiting" /\ told' = [told EXCEPT ![m] = @ + 1]
    BY <1>3 DEF BeginOwn
  <2>2. told'[accepted[i]] = told[accepted[i]]
    BY <1>1, <2>1, Typed
  <2>3. QED
    BY <2>2
<1>4. ASSUME NEW q \in Objects, BeginFollowup(q)  PROVE told[accepted[j]] = 0
  <2>1. told' = [m \in Msgs |-> IF m \in ToSet(drain[q].batch) THEN told[m] + 1
                                                               ELSE told[m]]
    BY <1>4 DEF BeginFollowup
  <2>2. Of(accepted[i], q)
    BY <1>1, <2>1 DEF Of, InBatch
  <2>3. QED
    BY <1>1, <2>2 DEF OrderInv, ToldInOrder
<1>5. ASSUME NEW m \in Msgs, EnqueueFollowup(m)  PROVE FALSE
  BY <1>2, <1>5, EnqueueStep
<1>6. QED
  BY <1>2, <1>3, <1>4, <1>5, StepKind DEF Quiet

(* Until a stop command comes, queued messages are first put to the agent  *)
(* in the order they were queued, across drains that end and start again,  *)
(* failed deliveries, collected batches and overflows.                     *)
THEOREM FollowupsInOrder == Spec => OrderKept
<1>1. ShapeInv /\ QueuedInv /\ OrderInv /\ [Next]_vars => [ToldNext]_vars
  BY ToldNextStep
<1>2. Spec => [][ToldNext]_vars
  BY <1>1, OrderAlways, PTL DEF Spec
<1>3. QED
  BY <1>2 DEF OrderKept, ToldNext

-----------------------------------------------------------------------------
(* Nothing is lost                                                         *)

(* A message that joins a queue which does not overflow joins at its end.  *)
LEMMA FilledKeeps ==
    ASSUME TypeOK, NEW q \in Objects, NEW m \in Msgs, Fills(q, m), overflows' = 0
    PROVE  /\ Len(Items(q)') = Len(Items(q)) + 1
           /\ DOMAIN Items(q)' = 1..(Len(Items(q)) + 1)
           /\ \A i \in DOMAIN Items(q) : Items(q)'[i] = Items(q)[i]
           /\ Items(q)'[Len(Items(q)) + 1] = m
           /\ Dropped(q)' = Dropped(q)
<1>0. /\ Items(q) \in Seq(Msgs) /\ Len(Items(q)) \in Nat
      /\ DOMAIN Items(q) = 1..Len(Items(q))
  BY ItemsTyped
<1>1. PICK k \in 0..Len(Items(q)) :
         /\ Items(q)' = Append(SubSeq(Items(q), k + 1, Len(Items(q))), m)
         /\ k > 0 => overflows' > 0
  BY DEF Fills
<1>2. k = 0
  BY <1>0, <1>1
<1> DEFINE t == SubSeq(Items(q), k + 1, Len(Items(q)))
<1>3. /\ t \in Seq(Msgs) /\ DOMAIN t = 1..Len(t) /\ Len(t) = Len(Items(q))
      /\ \A i \in 1..Len(t) : t[i] = Items(q)[i]
  <2>1. k \in Nat
    BY <1>2
  <2>2. /\ t \in Seq(Msgs) /\ DOMAIN t = 1..Len(t)
        /\ Len(t) = IF k <= Len(Items(q)) THEN Len(Items(q)) - k ELSE 0
        /\ \A i \in 1..Len(t) : t[i] = Items(q)[i + k]
    BY <1>0, <2>1, CutFront
  <2> HIDE DEF t
  <2>3. Len(t) = Len(Items(q))
    BY <1>0, <1>2, <2>2
  <2>4. \A i \in 1..Len(t) : i + k = i
    BY <1>0, <1>2, <2>3
  <2>5. QED
    BY <2>2, <2>3, <2>4
<1>4. Items(q)' = Append(t, m)
  BY <1>1
<1> HIDE DEF t
<1>5. /\ Len(Append(t, m)) = Len(t) + 1
      /\ \A i \in 1..Len(t) : Append(t, m)[i] = t[i]
      /\ Append(t, m)[Len(t) + 1] = m
      /\ DOMAIN Append(t, m) = 1..(Len(t) + 1)
  BY <1>3, AppendProperties, LenProperties
<1>6. Dropped(q)' = Dropped(q)
  BY DEF Fills
<1>7. QED
  BY <1>0, <1>3, <1>4, <1>5, <1>6

(* What begins without an overflow goes on without one.                    *)
LEMMA UndroppedStep ==
    ASSUME ShapeInv, ShapeInv', Undropped, NEW q \in Objects,
           Quietly(q) \/ Begins(q), overflows = 0
    PROVE  Dropped(q)' = 0 /\ drain'[q].kind # "summary"
<1>1. Dropped(q) = 0 /\ drain[q].kind # "summary"
  BY DEF Undropped
<1>2. Dropped(q)' = 0
  BY <1>1 DEF Quietly, Begins, Kept, Restarts, TakesTurn, Ends, TurnDone, Stopped
<1>3. drain'[q].kind # "summary"
  BY <1>1 DEF Quietly, Begins, Kept, Restarts, TakesTurn, Ends, TurnDone, Stopped,
              Rests, SameTurn
<1>4. QED
  BY <1>2, <1>3

(* The items of a turn stay at the front of the queue.                     *)
LEMMA QuietPrefix ==
    ASSUME ShapeInv, ShapeInv', Undropped, NEW q \in Objects,
           Quietly(q) \/ Begins(q), overflows = 0, clears' = 0,
           HasTurn(q) => PrefixIn(q), HasTurn(q)'
    PROVE  PrefixIn(q)'
<1> USE DEF ShapeInv
<1>1. CASE Items(q)' = Items(q) /\ SameTurn(q) /\ HasTurn(q)
  BY <1>1 DEF SameTurn, PrefixIn, Taken
<1>2. CASE TakesTurn(q)
  <2>1. Items(q)' = Items(q) /\ Dropped(q) = 0 /\ Len(Items(q)) \in Nat
    BY <1>2, Places DEF TakesTurn, Undropped
  <2>2. CASE drain'[q].kind = "collect" /\ drain'[q].batch = Items(q)
    BY <2>1, <2>2 DEF PrefixIn, Taken
  <2>3. CASE /\ drain'[q].kind = "one" /\ Items(q) # <<>>
             /\ drain'[q].batch = <<Head(Items(q))>>
    <3>1. Head(Items(q)) = Items(q)[1] /\ Len(Items(q)) >= 1
      BY <2>3, Places
    <3>2. /\ Len(drain'[q].batch) = 1 /\ DOMAIN drain'[q].batch = {1}
          /\ drain'[q].batch[1] = Items(q)[1]
      BY <2>3, <3>1
    <3>3. Taken(drain'[q]) = 1
      BY <2>3 DEF Taken
    <3>4. QED
      BY <2>1, <3>1, <3>2, <3>3 DEF PrefixIn
  <2>4. QED
    BY <1>2, <2>1, <2>2, <2>3 DEF TakesTurn
<1>3. CASE Rests(drain'[q])
  BY <1>3 DEF Rests, HasTurn
<1>4. CASE Kept(q)
  BY <1>1, <1>4 DEF Kept, SameTurn, HasTurn
<1>5. CASE Ends(q) \/ Begins(q)
  BY <1>1, <1>5 DEF Ends, Begins, HasTurn
<1>6. CASE Stopped(q)
  BY <1>6 DEF Stopped
<1>7. QED
  BY <1>2, <1>3, <1>4, <1>5, <1>6 DEF Quietly, Restarts, TurnDone

(* What a turn removes was put to the agent by it, or missed.              *)
LEMMA StaysQueued ==
    ASSUME ShapeInv, KeepInv, NEW q \in Objects, NEW m \in Msgs, Quietly(q),
           overflows = 0, clears = 0, clears' = 0, ~Served(m),
           m \in ToSet(Items(q))
    PROVE  m \in ToSet(Items(q)')
<1> USE DEF ShapeInv
<1>1. CASE Items(q)' = Items(q)
  BY <1>1
<1>2. CASE TurnDone(q)
  <2> DEFINE n == Taken(drain[q])
             t == SubSeq(Items(q), n + 1, Len(Items(q)))
  <2>1. /\ n \in Nat /\ Items(q) \in Seq(Msgs) /\ Len(Items(q)) \in Nat
        /\ DOMAIN Items(q) = 1..Len(Items(q))
    BY Places, ItemsTyped
  <2>2. PICK i \in 1..Len(Items(q)) : Items(q)[i] = m
    BY Places
  <2>3. /\ Len(drain[q].batch) = n /\ n <= Len(Items(q))
        /\ \A j \in DOMAIN drain[q].batch : drain[q].batch[j] = Items(q)[j]
    BY <1>2 DEF TurnDone, KeepInv, BatchIsPrefix, HasTurn, PrefixIn
  <2>4. DOMAIN drain[q].batch = 1..n
    <3>1. drain[q].batch \in Seq(Msgs)
      BY ItemsTyped
    <3>2. QED
      BY <2>3, <3>1, LenProperties
  <2>5. ~InBatch(m, q)
    BY <1>2 DEF TurnDone, TurnBegan, KeepInv, BatchWasTold, BatchWasMissed, Missed,
                Served
  <2> HIDE DEF n
  <2>6. i > n
    <3>1. SUFFICES ASSUME i \in 1..n  PROVE FALSE
      BY <2>1
    <3>2. drain[q].batch[i] = m
      BY <2>2, <2>3, <2>4, <3>1
    <3>3. QED
      BY <2>4, <2>5, <3>1, <3>2 DEF InBatch, ToSet
  <2>7. /\ DOMAIN t = 1..Len(t) /\ Len(t) = Len(Items(q)) - n
        /\ \A j \in 1..Len(t) : t[j] = Items(q)[j + n]
    BY <2>1, <2>3, CutFront
  <2>8. Items(q)' = t
    BY <1>2 DEF TurnDone, n
  <2> HIDE DEF t
  <2>9. i - n \in 1..Len(t) /\ (i - n) + n = i
    BY <2>1, <2>2, <2>6, <2>7
  <2>10. t[i - n] = m
    BY <2>2, <2>7, <2>9
  <2>11. QED
    BY <2>7, <2>8, <2>9, <2>10 DEF ToSet
<1>3. QED
  BY <1>1, <1>2 DEF Quietly, Kept, Restarts, TakesTurn, Ends, Stopped

(* KeepInv is kept by a quiet step: what it removes was put to the agent,  *)
(* and a queue that leaves the map is empty.                               *)
LEMMA QuietKeep ==
    ASSUME ShapeInv, ShapeInv', OrderInv, KeepInv, Quiet
    PROVE  KeepInv'
<1> USE DEF ShapeInv
<1>1. /\ told' = told /\ accepted' = accepted /\ overflows' = overflows
      /\ clears' = 0 => clears = 0
      /\ missed \subseteq missed'
      /\ \A q \in Objects : Quietly(q)
  BY DEF Quiet
<1>2. Undropped'
  BY <1>1, UndroppedStep DEF KeepInv, Undropped
<1>3. BatchIsPrefix'
  <2> SUFFICES ASSUME overflows' = 0, clears' = 0, NEW q \in Objects, HasTurn(q)'
               PROVE  PrefixIn(q)'
    BY DEF BatchIsPrefix, HasTurn, PrefixIn
  <2>1. HasTurn(q) => PrefixIn(q)
    BY <1>1 DEF KeepInv, BatchIsPrefix, HasTurn, PrefixIn
  <2>2. QED
    BY <1>1, <2>1, QuietPrefix DEF KeepInv
<1>4. BatchWasTold'
  <2> SUFFICES ASSUME NEW m \in Msgs, NEW q \in Objects,
                      TurnBegan(q)', InBatch(m, q)'
               PROVE  told'[m] > 0
    BY DEF BatchWasTold
  <2>1. TurnBegan(q) /\ InBatch(m, q)
    BY <1>1 DEF Quietly, Kept, Restarts, TakesTurn, Ends, TurnDone, Stopped, Rests,
                SameTurn, TurnBegan, InBatch
  <2>2. QED
    BY <1>1, <2>1 DEF KeepInv, BatchWasTold
<1>5. NoneLost'
  <2> SUFFICES ASSUME overflows' = 0, clears' = 0, NEW m \in ToSet(accepted),
                      ~Served(m)
               PROVE  current' # 0 /\ m \in ToSet(Items(current)')
    BY <1>1 DEF NoneLost, Served
  <2>a. PICK c : c = current
    OBVIOUS
  <2>1. m \in Msgs
    BY AcceptedPlaces DEF ToSet
  <2>2. c # 0 /\ c \in Objects /\ m \in ToSet(Items(c))
    BY <1>1, <2>a, Typed DEF KeepInv, NoneLost
  <2>3. m \in ToSet(Items(c)')
    BY <1>1, <2>1, <2>2, StaysQueued
  <2>4. current' = c
    <3>1. ASSUME NEW q \in Objects, drain[q].at # "idle", Items(q)' = <<>>
          PROVE  FALSE
      <4>1. q = c
        BY <1>1, <2>a, <3>1 DEF OrderInv, OneDrain
      <4>2. QED
        BY <2>3, <3>1, <4>1, EmptySet
    <3>2. QED
      BY <2>a, <3>1 DEF Quiet, MapStep
  <2>5. QED
    BY <2>2, <2>3, <2>4
<1>6. BatchWasMissed'
  <2> SUFFICES ASSUME clears' = 0, NEW q \in Objects  PROVE Missed(q)'
    BY DEF BatchWasMissed
  <2>1. CASE Kept(q)
    BY <1>1, <2>1 DEF KeepInv, BatchWasMissed, Missed, InBatch, Kept
  <2>2. CASE TakesTurn(q) \/ Ends(q)
    BY <2>2 DEF TakesTurn, Ends
  <2>3. CASE Restarts(q) \/ TurnDone(q)
    BY <2>3 DEF Restarts, TurnDone, Rests, Missed
  <2>4. QED
    BY <1>1, <2>1, <2>2, <2>3 DEF Quietly, Stopped
<1>7. QED
  BY <1>2, <1>3, <1>4, <1>5, <1>6 DEF KeepInv

(* It is kept when a message has its own turn, ...                         *)
LEMMA BeginOwnKeep ==
    ASSUME ShapeInv, KeepInv, NEW m \in Msgs, BeginOwn(m)
    PROVE  KeepInv'
<1> USE DEF ShapeInv
<1>1. \A q \in Objects : Kept(q)
  BY BeginOwnStep
<1>2. /\ told' = [told EXCEPT ![m] = @ + 1]
      /\ accepted' = accepted /\ current' = current /\ clears' = clears
      /\ overflows' = overflows /\ missed' = missed
  BY DEF BeginOwn, counters, queueVars
<1>3. \A n \in Msgs : told[n] > 0 => told'[n] > 0
  BY <1>2, Typed
<1>4. Undropped'
  BY <1>1, <1>2 DEF KeepInv, Undropped, Kept
<1>5. BatchIsPrefix'
  BY <1>1, <1>2 DEF KeepInv, BatchIsPrefix, HasTurn, PrefixIn, Kept
<1>6. BatchWasTold'
  BY <1>1, <1>2, <1>3, KeptAll DEF KeepInv, BatchWasTold
<1>7. NoneLost'
  <2> SUFFICES ASSUME overflows' = 0, clears' = 0, NEW a \in ToSet(accepted),
                      ~(told'[a] > 0), a \notin missed
               PROVE  current' # 0 /\ a \in ToSet(Items(current)')
    BY <1>2 DEF NoneLost, Served
  <2>a. PICK c : c = current
    OBVIOUS
  <2>1. a \in Msgs
    BY AcceptedPlaces DEF ToSet
  <2>2. c # 0 /\ c \in Objects /\ a \in ToSet(Items(c))
    BY <1>2, <1>3, <2>a, <2>1, Typed DEF KeepInv, NoneLost, Served
  <2>3. Items(c)' = Items(c)
    BY <1>1, <2>2 DEF Kept
  <2>4. QED
    BY <1>2, <2>a, <2>2, <2>3
<1>8. BatchWasMissed'
  BY <1>1, <1>2 DEF KeepInv, BatchWasMissed, Missed, InBatch, Kept
<1>9. QED
  BY <1>4, <1>5, <1>6, <1>7, <1>8 DEF KeepInv

(* ... when a followup turn begins, and puts its whole batch to the agent, *)
(* ...                                                                     *)
LEMMA BeginFollowupKeep ==
    ASSUME ShapeInv, KeepInv, NEW q \in Objects, BeginFollowup(q)
    PROVE  KeepInv'
<1> USE DEF ShapeInv
<1>1. /\ ShapeInv' /\ Begins(q) /\ \A r \in Objects \ {q} : Kept(r)
  BY BeginFollowupStep
<1>2. /\ accepted' = accepted /\ current' = current /\ clears' = clears
      /\ overflows' = overflows /\ missed' = missed
      /\ told' = [m \in Msgs |-> IF m \in ToSet(drain[q].batch) THEN told[m] + 1
                                                                ELSE told[m]]
  BY DEF BeginFollowup, counters
<1>3. \A n \in Msgs : /\ told[n] > 0 => told'[n] > 0
                      /\ InBatch(n, q) => told'[n] > 0
  BY <1>2, Typed DEF InBatch
<1>4. \A r \in Objects : Items(r)' = Items(r)
  BY <1>1, KeptAll DEF Begins
<1>5. Undropped'
  BY <1>1, <1>2, UndroppedStep DEF KeepInv, Undropped, Kept
<1>6. BatchIsPrefix'
  <2> SUFFICES ASSUME overflows' = 0, clears' = 0, NEW r \in Objects, HasTurn(r)'
               PROVE  PrefixIn(r)'
    BY DEF BatchIsPrefix, HasTurn, PrefixIn
  <2>1. HasTurn(r) => PrefixIn(r)
    BY <1>2 DEF KeepInv, BatchIsPrefix, HasTurn, PrefixIn
  <2>2. Quietly(r) \/ Begins(r)
    BY <1>1 DEF Quietly
  <2>3. QED
    BY <1>1, <1>2, <2>1, <2>2, QuietPrefix DEF KeepInv
<1>7. BatchWasTold'
  <2> SUFFICES ASSUME NEW m \in Msgs, NEW r \in Objects,
                      TurnBegan(r)', InBatch(m, r)'
               PROVE  told'[m] > 0
    BY DEF BatchWasTold
  <2>1. CASE r = q
    BY <1>1, <1>3, <2>1 DEF Begins, SameTurn, InBatch
  <2>2. CASE r # q
    BY <1>1, <1>2, <1>3, <2>2, KeptAll DEF KeepInv, BatchWasTold
  <2>3. QED
    BY <2>1, <2>2
<1>8. NoneLost'
  <2> SUFFICES ASSUME overflows' = 0, clears' = 0, NEW a \in ToSet(accepted),
                      ~(told'[a] > 0), a \notin missed
               PROVE  current' # 0 /\ a \in ToSet(Items(current)')
    BY <1>2 DEF NoneLost, Served
  <2>a. PICK c : c = current
    OBVIOUS
  <2>1. a \in Msgs
    BY AcceptedPlaces DEF ToSet
  <2>2. c # 0 /\ c \in Objects /\ a \in ToSet(Items(c))
    BY <1>2, <1>3, <2>a, <2>1, Typed DEF KeepInv, NoneLost, Served
  <2>3. QED
    BY <1>2, <1>4, <2>a, <2>2
<1>9. BatchWasMissed'
  <2> SUFFICES ASSUME clears' = 0, NEW r \in Objects  PROVE Missed(r)'
    BY DEF BatchWasMissed
  <2>1. CASE r = q
    BY <1>1, <2>1 DEF Begins, Missed
  <2>2. CASE r # q
    BY <1>1, <1>2, <2>2 DEF KeepInv, BatchWasMissed, Missed, InBatch, Kept
  <2>3. QED
    BY <2>1, <2>2
<1>10. QED
  BY <1>5, <1>6, <1>7, <1>8, <1>9 DEF KeepInv

(* ... and when a message joins the queue in the map, or the one made for  *)
(* it.                                                                     *)
LEMMA EnqueueKeep ==
    ASSUME ShapeInv, OrderInv, KeepInv, NEW m \in Msgs, EnqueueFollowup(m)
    PROVE  KeepInv'
<1> USE DEF ShapeInv
<1>1. /\ ShapeInv' /\ EnqueueEffect(m)
      /\ told' = told /\ clears' = clears /\ missed' = missed
  BY EnqueueStep
<1>2. CASE /\ accepted' = accepted /\ current' = current /\ overflows' = overflows
           /\ \A q \in Objects : Kept(q)
  <2>1. Undropped'
    BY <1>2 DEF KeepInv, Undropped, Kept
  <2>2. BatchIsPrefix'
    BY <1>1, <1>2 DEF KeepInv, BatchIsPrefix, HasTurn, PrefixIn, Kept
  <2>3. BatchWasTold'
    BY <1>1, <1>2, KeptAll DEF KeepInv, BatchWasTold
  <2>4. NoneLost'
    <3> SUFFICES ASSUME overflows' = 0, clears' = 0, NEW a \in ToSet(accepted),
                        ~Served(a)
                 PROVE  current' # 0 /\ a \in ToSet(Items(current)')
      BY <1>1, <1>2 DEF NoneLost, Served
    <3>a. PICK c : c = current
      OBVIOUS
    <3>1. c # 0 /\ c \in Objects /\ a \in ToSet(Items(c))
      BY <1>1, <1>2, <3>a, Typed DEF KeepInv, NoneLost
    <3>2. QED
      BY <1>2, <3>a, <3>1 DEF Kept
  <2>5. BatchWasMissed'
    BY <1>1, <1>2 DEF KeepInv, BatchWasMissed, Missed, InBatch, Kept
  <2>6. QED
    BY <2>1, <2>2, <2>3, <2>4, <2>5 DEF KeepInv
<1>3. ASSUME NEW q \in Objects, Fills(q, m), \A r \in Objects \ {q} : Kept(r),
             accepted' = Append(accepted, m), current' = q,
             current # 0 => current' = current,
             overflows' \in {overflows, overflows + 1}
      PROVE  KeepInv'
  <2>1. overflows' = 0 => overflows = 0
    BY <1>3, Typed
  <2>2. \A r \in Objects : drain'[r] = drain[r] \/ Rests(drain'[r])
    BY <1>3 DEF Fills, Kept
  <2>3. Undropped'
    <3> SUFFICES ASSUME overflows' = 0, NEW r \in Objects
                 PROVE  Dropped(r)' = 0 /\ drain'[r].kind # "summary"
      BY DEF Undropped
    <3>1. Dropped(r) = 0 /\ drain[r].kind # "summary"
      BY <2>1 DEF KeepInv, Undropped
    <3>2. Dropped(r)' = Dropped(r)
      BY <1>3, FilledKeeps DEF Kept
    <3>3. QED
      BY <2>2, <3>1, <3>2 DEF Rests
  <2>4. BatchIsPrefix'
    <3> SUFFICES ASSUME overflows' = 0, clears' = 0, NEW r \in Objects, HasTurn(r)'
                 PROVE  PrefixIn(r)'
      BY DEF BatchIsPrefix, HasTurn, PrefixIn
    <3>1. drain'[r] = drain[r] /\ HasTurn(r)
      BY <2>2 DEF HasTurn, Rests
    <3>2. PrefixIn(r)
      BY <1>1, <2>1, <3>1 DEF KeepInv, BatchIsPrefix, HasTurn, PrefixIn
    <3>3. CASE r # q
      BY <1>3, <3>1, <3>2, <3>3 DEF Kept, PrefixIn
    <3>4. CASE r = q
      <4>1. /\ drain[q].batch \in Seq(Msgs)
            /\ DOMAIN Items(q) = 1..Len(Items(q)) /\ Len(Items(q)) \in Nat
        BY ItemsTyped
      <4>2. /\ DOMAIN drain[q].batch = 1..Len(drain[q].batch)
            /\ Len(drain[q].batch) \in Nat
        BY <4>1, LenProperties
      <4>3. \A i \in DOMAIN drain[q].batch : i \in DOMAIN Items(q)
        BY <3>2, <3>4, <4>1, <4>2 DEF PrefixIn
      <4>4. /\ Len(Items(q)') = Len(Items(q)) + 1
            /\ \A i \in DOMAIN Items(q) : Items(q)'[i] = Items(q)[i]
        BY <1>3, FilledKeeps
      <4>5. Len(drain[q].batch) <= Len(Items(q)')
        BY <3>2, <3>4, <4>1, <4>2, <4>4 DEF PrefixIn
      <4>6. QED
        BY <3>1, <3>2, <3>4, <4>3, <4>4, <4>5 DEF PrefixIn
    <3>5. QED
      BY <3>3, <3>4
  <2>5. BatchWasTold'
    <3>1. \A n \in Msgs, r \in Objects :
             TurnBegan(r)' /\ InBatch(n, r)' => TurnBegan(r) /\ InBatch(n, r)
      BY <2>2 DEF TurnBegan, InBatch, Rests
    <3>2. QED
      BY <1>1, <3>1 DEF KeepInv, BatchWasTold
  <2>6. NoneLost'
    <3> SUFFICES ASSUME overflows' = 0, clears' = 0, NEW a \in ToSet(accepted'),
                        ~Served(a)
                 PROVE  a \in ToSet(Items(q)')
      BY <1>1, <1>3, Bounds DEF NoneLost, Served
    <3>0. Len(Items(q)) \in Nat /\ DOMAIN Items(q) = 1..Len(Items(q))
      BY ItemsTyped
    <3>1. /\ DOMAIN Items(q)' = 1..(Len(Items(q)) + 1)
          /\ \A i \in DOMAIN Items(q) : Items(q)'[i] = Items(q)[i]
          /\ Items(q)'[Len(Items(q)) + 1] = m
      BY <1>3, FilledKeeps
    <3>2. CASE a = m
      <4>1. Len(Items(q)) + 1 \in DOMAIN Items(q)'
        BY <3>0, <3>1
      <4>2. QED
        BY <3>1, <3>2, <4>1 DEF ToSet
    <3>3. CASE a # m
      <4>1. a \in ToSet(accepted)
        <5>1. /\ Len(accepted) \in Nat /\ DOMAIN accepted = 1..Len(accepted)
              /\ accepted \in Seq(Msgs)
          BY AcceptedPlaces
        <5>2. /\ DOMAIN accepted' = 1..(Len(accepted) + 1)
              /\ accepted'[Len(accepted) + 1] = m
              /\ \A i \in 1..Len(accepted) : accepted'[i] = accepted[i]
          BY <1>3, <5>1, AppendProperties, LenProperties
        <5>3. PICK i \in DOMAIN accepted' : a = accepted'[i]
          BY DEF ToSet
        <5>4. i \in 1..Len(accepted)
          BY <3>3, <5>1, <5>2, <5>3
        <5>5. QED
          BY <5>1, <5>2, <5>3, <5>4 DEF ToSet
      <4>2. current # 0 /\ a \in ToSet(Items(current))
        BY <1>1, <2>1, <4>1 DEF KeepInv, NoneLost
      <4>3. a \in ToSet(Items(q))
        BY <1>3, <4>2
      <4>4. PICK i \in DOMAIN Items(q) : a = Items(q)[i]
        BY <4>3 DEF ToSet
      <4>5. i \in DOMAIN Items(q)'
        BY <3>0, <3>1, <4>4
      <4>6. QED
        BY <3>1, <4>4, <4>5 DEF ToSet
    <3>4. QED
      BY <3>2, <3>3
  <2>7. BatchWasMissed'
    BY <1>1, <2>2 DEF KeepInv, BatchWasMissed, Missed, InBatch, Rests
  <2>8. QED
    BY <2>3, <2>4, <2>5, <2>6, <2>7 DEF KeepInv
<1>4. QED
  BY <1>1, <1>2, <1>3 DEF EnqueueEffect

(* Every step keeps KeepInv.                                               *)
LEMMA KeepStep ==
    ASSUME ShapeInv, OrderInv, KeepInv, [Next]_vars
    PROVE  KeepInv'
<1>1. ShapeInv' /\ (Quiet \/ (\E m \in Msgs : BeginOwn(m))
        \/ (\E q \in Objects : BeginFollowup(q))
        \/ (\E m \in Msgs : EnqueueFollowup(m)))
  BY StepKind
<1>2. QED
  BY <1>1, QuietKeep, BeginOwnKeep, BeginFollowupKeep, EnqueueKeep

(* It holds at the beginning.                                              *)
LEMMA InitKeep == Init => KeepInv
<1> SUFFICES ASSUME Init  PROVE KeepInv
  OBVIOUS
<1>1. /\ objects = <<>> /\ accepted = <<>>
      /\ \A q \in Objects : drain[q] = NoDrain
  BY DEF Init
<1>2. \A q \in Objects : /\ Dropped(q) = 0 /\ drain[q].kind = "one"
                         /\ drain[q].at = "idle"
  BY <1>1, NoDrainTyped DEF Dropped
<1>3. ToSet(accepted) = {}
  BY <1>1, EmptySet
<1>4. QED
  BY <1>2, <1>3 DEF KeepInv, Undropped, BatchIsPrefix, HasTurn, BatchWasTold, NoneLost,
                    TurnBegan, BatchWasMissed, Missed

(* What is in the queue in the map is held.                                *)
LEMMA KeepIsEnough ==
    ShapeInv /\ KeepInv => NoSilentLoss
<1> SUFFICES ASSUME ShapeInv, KeepInv, overflows = 0, clears = 0,
                    NEW m \in ToSet(accepted), ~Served(m)
             PROVE  Held(m)
  BY DEF NoSilentLoss, Served
<1>1. current # 0 /\ m \in ToSet(Items(current)) /\ current \in DOMAIN objects
  BY Typed DEF KeepInv, NoneLost, ShapeInv
<1>2. m \in ToSet(objects[current].items)
  BY <1>1 DEF Items
<1>3. QED
  BY <1>1, <1>2 DEF Held

(* As long as the queue neither overflows nor is cleared, a message that   *)
(* was queued stays in a queue until a turn had it in its prompt, or until *)
(* the turn that was to have it failed before it began: no interleaving of *)
(* arrivals, drains, failed turns and deliveries and rescheduled drains    *)
(* removes an item without a turn of its own.                              *)
THEOREM FollowupsAreKept == Spec => []NoSilentLoss
<1>1. Init => ShapeInv /\ QueuedInv /\ OrderInv /\ KeepInv
  BY InitInv, InitOrder, InitKeep
<1>2. ShapeInv /\ QueuedInv /\ OrderInv /\ KeepInv /\ [Next]_vars
        => (ShapeInv /\ QueuedInv /\ OrderInv /\ KeepInv)'
  BY QueuedStep, OrderStep, KeepStep
<1>3. QED
  BY <1>1, <1>2, KeepIsEnough, PTL DEF Spec
=============================================================================
