------------------------- MODULE CommandLanesProofs -------------------------
(***************************************************************************)
(* The lanes of module CommandLanes, for any runs, lanes and concurrency:  *)
(* no command idles beside a free slot, none is lost or settled twice, and *)
(* two runs of one session overlap only if a restart gave up on one.       *)
(*                                                                         *)
(* The inductive invariant adds to the properties that a run is only in    *)
(* its own two lanes and once in each queue, that its global command is    *)
(* new until the pump takes the run out of its session's lane, and that a  *)
(* session's lane has one slot.                                            *)
(***************************************************************************)
EXTENDS CommandLanes, SequenceTheorems, FiniteSetTheorems, TLAPS

Has(s, r) == \E i \in DOMAIN s : s[i] = r
NoDup(s)  == \A i, j \in DOMAIN s : s[i] = s[j] => i = j

QueuedOnce == \A l \in Lanes : NoDup(queue[l])

OwnLanes ==
    \A l \in Lanes, r \in Runs :
        (Has(queue[l], r) \/ r \in active[l] \/ <<l, r>> \in stale) =>
            l = SessionLane[r] \/ l = GlobalLane[r]

InnerNew ==
    \A r \in Runs :
        (turn[r] = "new" \/ Has(queue[SessionLane[r]], r)) => inner[r] = "new"

OneSlot ==
    \A l \in SessionLanes :
        maxConcurrent[l] = 1 /\ \A r, q \in active[l] : r = q

LanesInv ==
    /\ TypeOK /\ NoIdleLane /\ CommandsAreKept
    /\ QueuedOnce /\ OwnLanes /\ InnerNew /\ OneSlot

(* What appending to a queue and taking its head do to the runs in it.     *)
LEMMA InAppended ==
    ASSUME NEW s \in Seq(Runs), NEW q \in Runs
    PROVE  /\ Append(s, q) \in Seq(Runs)
           /\ \A r : Has(Append(s, q), r) <=> (Has(s, r) \/ r = q)
           /\ (NoDup(s) /\ ~Has(s, q)) => NoDup(Append(s, q))
<1>1. /\ Append(s, q) \in Seq(Runs) /\ Len(Append(s, q)) = Len(s) + 1
      /\ \A i \in 1..Len(s) : Append(s, q)[i] = s[i]
      /\ Append(s, q)[Len(s) + 1] = q
    BY AppendProperties
<1>2. DOMAIN s = 1..Len(s) /\ DOMAIN Append(s, q) = 1..(Len(s) + 1)
      /\ Len(s) \in Nat
    BY <1>1, LenProperties
<1>3. ASSUME NEW r  PROVE Has(Append(s, q), r) <=> (Has(s, r) \/ r = q)
    BY <1>1, <1>2 DEF Has
<1>4. ASSUME NoDup(s), ~Has(s, q)  PROVE NoDup(Append(s, q))
    BY <1>1, <1>2, <1>4 DEF Has, NoDup
<1>. QED BY <1>1, <1>3, <1>4

LEMMA InTail ==
    ASSUME NEW s \in Seq(Runs), s # <<>>
    PROVE  /\ Tail(s) \in Seq(Runs) /\ Head(s) \in Runs /\ Has(s, Head(s))
           /\ \A r : Has(s, r) <=> (Has(Tail(s), r) \/ r = Head(s))
           /\ NoDup(s) => NoDup(Tail(s)) /\ ~Has(Tail(s), Head(s))
<1>1. /\ Head(s) \in Runs /\ Tail(s) \in Seq(Runs)
      /\ Len(Tail(s)) = Len(s) - 1
      /\ \A i \in 1..Len(Tail(s)) : Tail(s)[i] = s[i + 1]
    BY HeadTailProperties
<1>2. /\ DOMAIN s = 1..Len(s) /\ Len(s) \in Nat \ {0} /\ Head(s) = s[1]
      /\ DOMAIN Tail(s) = 1..(Len(s) - 1)
    BY <1>1, LenProperties, EmptySeq
<1>3. Has(s, Head(s))
    BY <1>2 DEF Has
<1>4. ASSUME NEW r, Has(s, r), r # Head(s)  PROVE Has(Tail(s), r)
  <2>1. PICK i \in 1..Len(s) : s[i] = r
    BY <1>2, <1>4 DEF Has
  <2>2. i - 1 \in 1..(Len(s) - 1) /\ Tail(s)[i - 1] = r
    BY <1>1, <1>2, <1>4, <2>1
  <2>. QED BY <1>2, <2>2 DEF Has
<1>5. ASSUME NEW r, Has(Tail(s), r)  PROVE Has(s, r)
  <2>1. PICK i \in 1..(Len(s) - 1) : Tail(s)[i] = r
    BY <1>2, <1>5 DEF Has
  <2>2. i + 1 \in 1..Len(s) /\ s[i + 1] = r
    BY <1>1, <1>2, <2>1
  <2>. QED BY <1>2, <2>2 DEF Has
<1>6. ASSUME NoDup(s)  PROVE NoDup(Tail(s)) /\ ~Has(Tail(s), Head(s))
    BY <1>1, <1>2, <1>6 DEF Has, NoDup
<1>. QED BY <1>1, <1>3, <1>4, <1>5, <1>6

LEMMA InEmpty == ASSUME NEW r  PROVE ~Has(<<>>, r) /\ NoDup(<<>>)
BY DEF Has, NoDup

(* The places of one run in one lane, for use with either of its lanes.    *)
Placed(l, r, accepted) ==
    /\ (Has(queue[l], r) \/ r \in active[l] \/ <<l, r>> \in stale) <=> accepted
    /\ ~(Has(queue[l], r) /\ (r \in active[l] \/ <<l, r>> \in stale))
    /\ ~(r \in active[l] /\ <<l, r>> \in stale)

KeptRun(r) ==
    /\ Placed(SessionLane[r], r, turn[r] = "accepted")
    /\ Placed(GlobalLane[r], r, inner[r] = "accepted")
    /\ inner[r] = "accepted" =>
          r \in active[SessionLane[r]] \/ <<SessionLane[r], r>> \in stale

Kept == \A r \in Runs : KeptRun(r)

LEMMA KeptIs ==
    /\ CommandsAreKept => Kept
    /\ (QueuedOnce /\ Kept) => CommandsAreKept
<1>. USE LanesAssumption DEF Lanes
<1>1. CommandsAreKept => Kept
    BY DEF CommandsAreKept, PlacedOnce, Kept, KeptRun, Placed, Has, InQueue,
           Executing
<1>2. ASSUME QueuedOnce, Kept  PROVE CommandsAreKept
  <2>. SUFFICES ASSUME NEW r \in Runs
       PROVE /\ PlacedOnce(SessionLane[r], r, turn[r] = "accepted")
             /\ PlacedOnce(GlobalLane[r], r, inner[r] = "accepted")
             /\ inner[r] = "accepted" => Executing(SessionLane[r], r)
    BY DEF CommandsAreKept
  <2>1. KeptRun(r) /\ NoDup(queue[SessionLane[r]]) /\ NoDup(queue[GlobalLane[r]])
    BY <1>2 DEF QueuedOnce, Kept
  <2>. QED BY <2>1 DEF PlacedOnce, KeptRun, Placed, Has, InQueue, Executing, NoDup
<1>. QED BY <1>1, <1>2

LEMMA KeptIsNext == (QueuedOnce' /\ Kept') => CommandsAreKept'
BY KeptIs, PTL

(* The lanes count with natural numbers, and a lane of none is empty.      *)
LEMMA LaneCounts ==
    ASSUME TypeOK, NEW l \in Lanes
    PROVE  /\ Cardinality(active[l]) \in Nat
           /\ Cardinality(active[l]) = 0 <=> active[l] = {}
<1>1. active[l] \subseteq Runs
    BY DEF TypeOK
<1>2. IsFiniteSet(active[l])
    BY <1>1, LanesAssumption, FS_Subset
<1>. QED BY <1>2, FS_CardinalityType, FS_EmptySet

LEMMA Init_Inv == Init => LanesInv
<1>. SUFFICES ASSUME Init PROVE LanesInv
    OBVIOUS
<1>. USE LanesAssumption DEF Init, Lanes
<1>1. TypeOK
  <2>1. queue \in [Lanes -> Seq(Runs)]
    BY EmptySeq
  <2>2. turn \in [Runs -> Outcomes] /\ inner \in [Runs -> Outcomes]
    BY DEF Outcomes
  <2>3. active \in [Lanes -> SUBSET Runs] /\ maxConcurrent \in [Lanes -> Nat \ {0}]
    OBVIOUS
  <2>4. /\ stale \subseteq Lanes \X Runs /\ waitingFor \subseteq Lanes \X Runs
        /\ toDrain \subseteq Lanes /\ gatewayDraining \in BOOLEAN
        /\ phase \in {"serving", "draining", "closing"}
    OBVIOUS
  <2>. QED BY <2>1, <2>2, <2>3, <2>4 DEF TypeOK
<1>2. NoIdleLane
    BY DEF NoIdleLane
<1>3. QueuedOnce /\ OwnLanes /\ InnerNew /\ OneSlot
    BY InEmpty DEF QueuedOnce, OwnLanes, InnerNew, OneSlot
<1>4. Kept
    BY InEmpty DEF Kept, KeptRun, Placed
<1>. QED BY <1>1, <1>2, <1>3, <1>4, KeptIs DEF LanesInv

LEMMA PumpSession_Inv ==
    ASSUME LanesInv, NEW l \in Lanes, PumpSession(l)  PROVE LanesInv'
<1>. USE LanesAssumption
<1>. DEFINE r == Head(queue[l])
            g == GlobalLane[r]
<1>1. /\ TypeOK /\ l \in SessionLanes /\ l \in Lanes /\ queue[l] \in Seq(Runs)
      /\ queue[l] # <<>> /\ l \in toDrain
    BY DEF LanesInv, PumpSession, TypeOK, Lanes
<1>2. /\ r \in Runs /\ Tail(queue[l]) \in Seq(Runs) /\ Has(queue[l], r)
      /\ \A x : Has(queue[l], x) <=> (Has(Tail(queue[l]), x) \/ x = r)
      /\ NoDup(Tail(queue[l])) /\ ~Has(Tail(queue[l]), r)
    BY <1>1, InTail DEF LanesInv, QueuedOnce
<1>3. l = SessionLane[r] /\ g \in GlobalLanes /\ g \in Lanes /\ g # l
  <2>1. g \in GlobalLanes /\ g \in Lanes /\ g # l
    BY <1>1, <1>2 DEF Lanes
  <2>2. l = SessionLane[r] \/ l = g
    BY <1>1, <1>2 DEF LanesInv, OwnLanes
  <2>. QED BY <2>1, <2>2
<1>4. active[l] = {}
  <2>1. Cardinality(active[l]) < 1
    BY <1>1 DEF PumpSession, Room, LanesInv, OneSlot
  <2>. QED BY <1>1, <2>1, LaneCounts
<1>5. inner[r] = "new" /\ ~Has(queue[g], r) /\ turn[r] = "accepted"
    BY <1>2, <1>3, KeptIs DEF LanesInv, Kept, InnerNew, KeptRun, Placed
<1>6. /\ Append(queue[g], r) \in Seq(Runs) /\ NoDup(Append(queue[g], r))
      /\ \A x : Has(Append(queue[g], r), x) <=> (Has(queue[g], x) \/ x = r)
    BY <1>1, <1>2, <1>3, <1>5, InAppended DEF TypeOK, LanesInv, QueuedOnce
<1>7. /\ active' = [active EXCEPT ![l] = @ \cup {r}]
      /\ UNCHANGED <<stale, maxConcurrent, turn, gatewayDraining, phase,
                     waitingFor>>
    BY DEF PumpSession, loopVars
<1>8. CASE gatewayDraining
  <2>1. /\ queue' = [queue EXCEPT ![l] = Tail(@)]
        /\ inner' = [inner EXCEPT ![r] = "refused"] /\ toDrain' = toDrain
    BY <1>8 DEF PumpSession
  <2>2. TypeOK'
    BY <1>1, <1>2, <1>7, <2>1 DEF TypeOK, Outcomes, Settled
  <2>3. NoIdleLane'
    BY <1>1, <1>7, <2>1 DEF LanesInv, NoIdleLane, TypeOK
  <2>4. \A k \in Lanes, x \in Runs :
            Has(queue'[k], x) <=> (Has(queue[k], x) /\ ~(k = l /\ x = r))
    BY <1>1, <1>2, <2>1 DEF TypeOK
  <2>5. QueuedOnce'
    BY <1>1, <1>2, <2>1 DEF LanesInv, QueuedOnce, TypeOK
  <2>6. OwnLanes'
    BY <1>1, <1>3, <1>7, <2>4 DEF LanesInv, OwnLanes, TypeOK
  <2>7. InnerNew'
    BY <1>1, <1>2, <1>3, <1>5, <1>7, <2>1, <2>4 DEF LanesInv, InnerNew, TypeOK, Lanes
  <2>8. OneSlot'
    BY <1>1, <1>4, <1>7 DEF LanesInv, OneSlot, TypeOK, Lanes
  <2>9. Kept'
    <3>. SUFFICES ASSUME NEW x \in Runs PROVE KeptRun(x)'
      BY DEF Kept
    <3>1. KeptRun(x)
      BY KeptIs DEF LanesInv, Kept
    <3>2. SessionLane[x] \in Lanes /\ GlobalLane[x] \in Lanes
          /\ GlobalLane[x] # l /\ (x = r => SessionLane[x] = l)
      BY <1>1, <1>3 DEF Lanes
    <3>. QED BY <1>1, <1>2, <1>4, <1>5, <1>7, <2>1, <2>4, <3>1, <3>2
             DEF KeptRun, Placed, TypeOK
  <2>. QED BY <2>2, <2>3, <2>5, <2>6, <2>7, <2>8, <2>9, KeptIsNext DEF LanesInv
<1>9. CASE ~gatewayDraining
  <2>1. /\ queue' = [queue EXCEPT ![l] = Tail(@), ![g] = Append(@, r)]
        /\ inner' = [inner EXCEPT ![r] = "accepted"]
        /\ toDrain' = toDrain \cup {g}
    BY <1>9 DEF PumpSession
  <2>2. TypeOK'
    BY <1>1, <1>2, <1>3, <1>6, <1>7, <2>1 DEF TypeOK, Outcomes, Settled
  <2>3. NoIdleLane'
    BY <1>1, <1>3, <1>7, <2>1 DEF LanesInv, NoIdleLane, TypeOK
  <2>4. \A k \in Lanes, x \in Runs :
            Has(queue'[k], x) <=> \/ Has(queue[k], x) /\ ~(k = l /\ x = r)
                                  \/ k = g /\ x = r
    BY <1>1, <1>2, <1>3, <1>6, <2>1 DEF TypeOK
  <2>5. QueuedOnce'
    BY <1>1, <1>2, <1>3, <1>6, <2>1 DEF LanesInv, QueuedOnce, TypeOK
  <2>6. OwnLanes'
    BY <1>1, <1>3, <1>7, <2>4 DEF LanesInv, OwnLanes, TypeOK
  <2>7. InnerNew'
    BY <1>1, <1>2, <1>3, <1>5, <1>7, <2>1, <2>4 DEF LanesInv, InnerNew, TypeOK, Lanes
  <2>8. OneSlot'
    BY <1>1, <1>4, <1>7 DEF LanesInv, OneSlot, TypeOK, Lanes
  <2>9. Kept'
    <3>. SUFFICES ASSUME NEW x \in Runs PROVE KeptRun(x)'
      BY DEF Kept
    <3>1. KeptRun(x) /\ KeptRun(r)
      BY <1>2, KeptIs DEF LanesInv, Kept
    <3>2. /\ SessionLane[x] \in Lanes /\ GlobalLane[x] \in Lanes
          /\ GlobalLane[x] # l /\ SessionLane[x] # g
          /\ (x = r => SessionLane[x] = l /\ GlobalLane[x] = g)
      BY <1>1, <1>3 DEF Lanes
    <3>3. CASE x = r
      <4>1. Placed(l, r, TRUE) /\ Placed(g, r, FALSE)
        BY <1>3, <1>5, <3>1 DEF KeptRun
      <4>2. /\ ~Has(queue'[l], r) /\ r \in active'[l] /\ <<l, r>> \notin stale'
            /\ Has(queue'[g], r) /\ r \notin active'[g] /\ <<g, r>> \notin stale'
        BY <1>1, <1>2, <1>3, <1>7, <2>4, <4>1 DEF Placed, TypeOK
      <4>3. turn'[r] = "accepted" /\ inner'[r] = "accepted"
        BY <1>1, <1>2, <1>5, <1>7, <2>1 DEF TypeOK
      <4>. QED BY <1>3, <3>3, <4>2, <4>3 DEF KeptRun, Placed
    <3>4. CASE x # r
      BY <1>1, <1>2, <1>4, <1>5, <1>7, <2>1, <2>4, <3>1, <3>2, <3>4
         DEF KeptRun, Placed, TypeOK
    <3>. QED BY <3>3, <3>4
  <2>. QED BY <2>2, <2>3, <2>5, <2>6, <2>7, <2>8, <2>9, KeptIsNext DEF LanesInv
<1>. QED BY <1>8, <1>9


LEMMA PumpGlobal_Inv ==
    ASSUME LanesInv, NEW l \in Lanes, PumpGlobal(l)  PROVE LanesInv'
<1>. USE LanesAssumption
<1>. DEFINE r == Head(queue[l])
<1>1. /\ TypeOK /\ l \in GlobalLanes /\ l \in Lanes /\ queue[l] \in Seq(Runs)
      /\ queue[l] # <<>> /\ l \in toDrain /\ l \notin SessionLanes
    BY DEF LanesInv, PumpGlobal, TypeOK, Lanes
<1>2. /\ r \in Runs /\ Tail(queue[l]) \in Seq(Runs) /\ Has(queue[l], r)
      /\ \A x : Has(queue[l], x) <=> (Has(Tail(queue[l]), x) \/ x = r)
      /\ NoDup(Tail(queue[l])) /\ ~Has(Tail(queue[l]), r)
    BY <1>1, InTail DEF LanesInv, QueuedOnce
<1>3. l = GlobalLane[r]
  <2>1. l = SessionLane[r] \/ l = GlobalLane[r]
    BY <1>1, <1>2 DEF LanesInv, OwnLanes
  <2>. QED BY <1>1, <1>2, <2>1
<1>4. /\ active' = [active EXCEPT ![l] = @ \cup {r}]
      /\ queue' = [queue EXCEPT ![l] = Tail(@)]
      /\ UNCHANGED <<stale, maxConcurrent, toDrain, turn, inner,
                     gatewayDraining, phase, waitingFor>>
    BY DEF PumpGlobal, loopVars
<1>5. \A k \in Lanes, x \in Runs :
          /\ Has(queue'[k], x) <=> (Has(queue[k], x) /\ ~(k = l /\ x = r))
          /\ x \in active'[k] <=> (x \in active[k] \/ (k = l /\ x = r))
    BY <1>1, <1>2, <1>4 DEF TypeOK
<1>6. TypeOK'
    BY <1>1, <1>2, <1>4 DEF TypeOK
<1>7. NoIdleLane'
    BY <1>1, <1>4 DEF LanesInv, NoIdleLane, TypeOK
<1>8. QueuedOnce'
    BY <1>1, <1>2, <1>4 DEF LanesInv, QueuedOnce, TypeOK
<1>9. OwnLanes'
    BY <1>1, <1>3, <1>4, <1>5 DEF LanesInv, OwnLanes
<1>10. InnerNew'
    BY <1>4, <1>5 DEF LanesInv, InnerNew, Lanes
<1>11. OneSlot'
    BY <1>1, <1>4 DEF LanesInv, OneSlot, TypeOK, Lanes
<1>12. Kept'
    <2>. SUFFICES ASSUME NEW x \in Runs PROVE KeptRun(x)'
      BY DEF Kept
    <2>1. KeptRun(x)
      BY KeptIs DEF LanesInv, Kept
    <2>2. SessionLane[x] \in Lanes /\ GlobalLane[x] \in Lanes
          /\ SessionLane[x] # l /\ (x = r => GlobalLane[x] = l)
      BY <1>1, <1>3 DEF Lanes
    <2>. QED BY <1>2, <1>4, <1>5, <2>1, <2>2 DEF KeptRun, Placed
<1>. QED BY <1>6, <1>7, <1>8, <1>9, <1>10, <1>11, <1>12, KeptIsNext DEF LanesInv

LEMMA PumpDone_Inv ==
    ASSUME LanesInv, NEW l \in Lanes, PumpDone(l)  PROVE LanesInv'
<1>1. /\ toDrain' = toDrain \ {l} /\ ~(Room(l) /\ queue[l] # <<>>)
      /\ UNCHANGED <<queue, active, stale, maxConcurrent, turn, inner,
                     gatewayDraining, phase, waitingFor>>
    BY DEF PumpDone, loopVars
<1>2. TypeOK'
    BY <1>1 DEF LanesInv, TypeOK
<1>3. NoIdleLane'
  <2>1. queue[l] # <<>> => Cardinality(active[l]) >= maxConcurrent[l]
    <3>1. Cardinality(active[l]) \in Nat /\ maxConcurrent[l] \in Nat
      BY LaneCounts DEF LanesInv, TypeOK
    <3>. QED BY <1>1, <3>1 DEF Room
  <2>. QED BY <1>1, <2>1 DEF LanesInv, NoIdleLane
<1>4. QueuedOnce' /\ OwnLanes' /\ InnerNew' /\ OneSlot'
    BY <1>1 DEF LanesInv, QueuedOnce, OwnLanes, InnerNew, OneSlot
<1>5. Kept'
    BY <1>1, KeptIs DEF LanesInv, Kept, KeptRun, Placed
<1>. QED BY <1>2, <1>3, <1>4, <1>5, KeptIsNext DEF LanesInv

LEMMA Enqueue_Inv ==
    ASSUME LanesInv, NEW r \in Runs, Enqueue(r)  PROVE LanesInv'
<1>. USE LanesAssumption
<1>. DEFINE s == SessionLane[r]
<1>1. /\ TypeOK /\ s \in SessionLanes /\ s \in Lanes /\ s \notin GlobalLanes
      /\ queue[s] \in Seq(Runs) /\ turn[r] = "new" /\ toDrain = {}
      /\ UNCHANGED <<active, stale, maxConcurrent, inner, gatewayDraining, phase,
                     waitingFor>>
    BY DEF LanesInv, Enqueue, TypeOK, Lanes, Quiet, loopVars
<1>2. Kept
    BY KeptIs DEF LanesInv
<1>3. CASE gatewayDraining
  <2>1. /\ turn' = [turn EXCEPT ![r] = "refused"]
        /\ UNCHANGED <<queue, toDrain>>
    BY <1>3 DEF Enqueue
  <2>2. TypeOK'
    BY <1>1, <2>1 DEF TypeOK, Outcomes, Settled
  <2>3. NoIdleLane' /\ QueuedOnce' /\ OwnLanes' /\ OneSlot'
    BY <1>1, <2>1 DEF LanesInv, NoIdleLane, QueuedOnce, OwnLanes, OneSlot
  <2>4. InnerNew'
    BY <1>1, <2>1 DEF LanesInv, InnerNew, TypeOK
  <2>5. Kept'
    BY <1>1, <1>2, <2>1 DEF Kept, KeptRun, Placed, TypeOK
  <2>. QED BY <2>2, <2>3, <2>4, <2>5, KeptIsNext DEF LanesInv
<1>4. CASE ~gatewayDraining
  <2>1. /\ turn' = [turn EXCEPT ![r] = "accepted"]
        /\ queue' = [queue EXCEPT ![s] = Append(@, r)]
        /\ toDrain' = {s}
    BY <1>4 DEF Enqueue
  <2>2. ~Has(queue[s], r) /\ inner[r] = "new" /\ r \notin active[s]
        /\ <<s, r>> \notin stale
    BY <1>1, <1>2 DEF Kept, KeptRun, Placed, LanesInv, InnerNew
  <2>3. /\ Append(queue[s], r) \in Seq(Runs) /\ NoDup(Append(queue[s], r))
        /\ \A x : Has(Append(queue[s], r), x) <=> (Has(queue[s], x) \/ x = r)
    BY <1>1, <2>2, InAppended DEF LanesInv, QueuedOnce
  <2>4. \A k \in Lanes, x \in Runs :
            Has(queue'[k], x) <=> (Has(queue[k], x) \/ (k = s /\ x = r))
    BY <1>1, <2>1, <2>3 DEF TypeOK
  <2>5. TypeOK'
    BY <1>1, <2>1, <2>3 DEF TypeOK, Outcomes, Settled
  <2>6. NoIdleLane'
    BY <1>1, <2>1 DEF LanesInv, NoIdleLane, TypeOK
  <2>7. QueuedOnce'
    BY <1>1, <2>1, <2>3 DEF LanesInv, QueuedOnce, TypeOK
  <2>8. OwnLanes' /\ OneSlot'
    BY <1>1, <2>4 DEF LanesInv, OwnLanes, OneSlot
  <2>9. InnerNew'
    BY <1>1, <2>1, <2>2, <2>4 DEF LanesInv, InnerNew, TypeOK, Lanes
  <2>10. Kept'
    <3>. SUFFICES ASSUME NEW x \in Runs PROVE KeptRun(x)'
      BY DEF Kept
    <3>1. KeptRun(x) /\ SessionLane[x] \in Lanes /\ GlobalLane[x] \in Lanes
          /\ GlobalLane[x] # s
      BY <1>1, <1>2 DEF Kept, Lanes
    <3>2. turn'[x] = (IF x = r THEN "accepted" ELSE turn[x])
      BY <1>1, <2>1 DEF TypeOK
    <3>. QED BY <1>1, <2>2, <2>4, <3>1, <3>2 DEF KeptRun, Placed
  <2>. QED BY <2>5, <2>6, <2>7, <2>8, <2>9, <2>10, KeptIsNext DEF LanesInv
<1>. QED BY <1>3, <1>4

LEMMA SetConcurrency_Inv ==
    ASSUME LanesInv, NEW l \in GlobalLanes, NEW n \in 1..MaxConcurrency,
           SetConcurrency(l, n)
    PROVE  LanesInv'
<1>. USE LanesAssumption
<1>1. /\ maxConcurrent' = [maxConcurrent EXCEPT ![l] = n] /\ toDrain' = {l}
      /\ UNCHANGED <<queue, active, stale, turn, inner, gatewayDraining, phase,
                     waitingFor>>
      /\ toDrain = {} /\ l \in Lanes /\ l \notin SessionLanes /\ TypeOK
    BY DEF SetConcurrency, loopVars, Quiet, Lanes, LanesInv
<1>2. TypeOK'
    BY <1>1 DEF TypeOK
<1>3. NoIdleLane'
    BY <1>1 DEF LanesInv, NoIdleLane, TypeOK
<1>4. QueuedOnce' /\ OwnLanes' /\ InnerNew'
    BY <1>1 DEF LanesInv, QueuedOnce, OwnLanes, InnerNew
<1>5. OneSlot'
    BY <1>1 DEF LanesInv, OneSlot, TypeOK, Lanes
<1>6. Kept'
    BY <1>1, KeptIs DEF LanesInv, Kept, KeptRun, Placed
<1>. QED BY <1>2, <1>3, <1>4, <1>5, <1>6, KeptIsNext DEF LanesInv

(* The steps of the restart before the reset, and stuttering.              *)
LEMMA Loop_Inv ==
    ASSUME LanesInv, TypeOK', UNCHANGED <<queue, active, stale, maxConcurrent,
                                          toDrain, turn, inner>>
    PROVE  LanesInv'
<1>1. NoIdleLane' /\ QueuedOnce' /\ OwnLanes' /\ InnerNew' /\ OneSlot'
    BY DEF LanesInv, NoIdleLane, QueuedOnce, OwnLanes, InnerNew, OneSlot
<1>2. Kept'
    BY KeptIs DEF LanesInv, Kept, KeptRun, Placed
<1>. QED BY <1>1, <1>2, KeptIsNext DEF LanesInv


(* The end of a command in lane l takes its run out of the lane, and only  *)
(* there; a slot it frees is offered to the pump.                          *)
LEMMA Completed ==
    ASSUME LanesInv, NEW l \in Lanes, NEW r \in Runs, Quiet, Executing(l, r),
           Complete(l, r)
    PROVE  /\ queue' = queue /\ maxConcurrent' = maxConcurrent
           /\ active' \in [Lanes -> SUBSET Runs] /\ stale' \subseteq Lanes \X Runs
           /\ toDrain' \subseteq Lanes
           /\ \A k \in Lanes, x \in Runs :
                 /\ x \in active'[k] <=> (x \in active[k] /\ ~(k = l /\ x = r))
                 /\ <<k, x>> \in stale' <=>
                        (<<k, x>> \in stale /\ ~(k = l /\ x = r))
           /\ NoIdleLane' /\ QueuedOnce' /\ OwnLanes' /\ OneSlot'
<1>. USE LanesAssumption
<1>1. TypeOK /\ Placed(l, r, TRUE) /\ queue' = queue
      /\ maxConcurrent' = maxConcurrent /\ toDrain = {}
  <2>1. l = SessionLane[r] \/ l = GlobalLane[r]
    BY DEF LanesInv, OwnLanes, Executing
  <2>2. KeptRun(r)
    BY KeptIs DEF LanesInv, Kept
  <2>3. Placed(l, r, TRUE)
    BY <2>1, <2>2 DEF KeptRun, Placed, Executing
  <2>. QED BY <2>3 DEF LanesInv, Complete, Quiet
<1>2. CASE r \in active[l]
  <2>1. /\ active' = [active EXCEPT ![l] = @ \ {r}] /\ toDrain' = {l}
        /\ stale' = stale
    BY <1>2 DEF Complete
  <2>2. /\ active' \in [Lanes -> SUBSET Runs] /\ stale' \subseteq Lanes \X Runs
        /\ toDrain' \subseteq Lanes
    BY <1>1, <2>1 DEF TypeOK
  <2>3. \A k \in Lanes, x \in Runs :
            /\ x \in active'[k] <=> (x \in active[k] /\ ~(k = l /\ x = r))
            /\ <<k, x>> \in stale' <=> (<<k, x>> \in stale /\ ~(k = l /\ x = r))
    BY <1>1, <1>2, <2>1 DEF TypeOK, Placed
  <2>4. NoIdleLane'
    BY <1>1, <2>1 DEF LanesInv, NoIdleLane, TypeOK
  <2>5. QueuedOnce' /\ OwnLanes'
    BY <1>1, <2>3 DEF LanesInv, QueuedOnce, OwnLanes
  <2>6. OneSlot'
    BY <1>1, <2>1 DEF LanesInv, OneSlot, TypeOK, Lanes
  <2>. QED BY <1>1, <2>2, <2>3, <2>4, <2>5, <2>6
<1>3. CASE r \notin active[l]
  <2>1. active' = active /\ toDrain' = toDrain /\ stale' = stale \ {<<l, r>>}
    BY <1>3 DEF Complete
  <2>2. /\ active' \in [Lanes -> SUBSET Runs] /\ stale' \subseteq Lanes \X Runs
        /\ toDrain' \subseteq Lanes
    BY <1>1, <2>1 DEF TypeOK
  <2>3. \A k \in Lanes, x \in Runs :
            /\ x \in active'[k] <=> (x \in active[k] /\ ~(k = l /\ x = r))
            /\ <<k, x>> \in stale' <=> (<<k, x>> \in stale /\ ~(k = l /\ x = r))
    BY <1>1, <1>3, <2>1
  <2>4. NoIdleLane'
    BY <1>1, <2>1 DEF LanesInv, NoIdleLane
  <2>5. QueuedOnce' /\ OwnLanes' /\ OneSlot'
    BY <1>1, <2>1, <2>3 DEF LanesInv, QueuedOnce, OwnLanes, OneSlot
  <2>. QED BY <1>1, <2>2, <2>3, <2>4, <2>5
<1>. QED BY <1>2, <1>3

LEMMA FinishGlobal_Inv ==
    ASSUME LanesInv, NEW r \in Runs, FinishGlobal(r)  PROVE LanesInv'
<1>. USE LanesAssumption
<1>. DEFINE g == GlobalLane[r]
<1>1. PICK result \in {"ok", "error"} : inner' = [inner EXCEPT ![r] = result]
    BY DEF FinishGlobal
<1>2. /\ Quiet /\ Executing(g, r) /\ Complete(g, r) /\ turn' = turn /\ TypeOK
      /\ g \in Lanes /\ g \in GlobalLanes
      /\ UNCHANGED <<gatewayDraining, phase, waitingFor>>
    BY DEF FinishGlobal, Complete, loopVars, Lanes, LanesInv
<1>3. /\ queue' = queue /\ maxConcurrent' = maxConcurrent
      /\ active' \in [Lanes -> SUBSET Runs] /\ stale' \subseteq Lanes \X Runs
      /\ toDrain' \subseteq Lanes
      /\ \A k \in Lanes, x \in Runs :
            /\ x \in active'[k] <=> (x \in active[k] /\ ~(k = g /\ x = r))
            /\ <<k, x>> \in stale' <=> (<<k, x>> \in stale /\ ~(k = g /\ x = r))
      /\ NoIdleLane' /\ QueuedOnce' /\ OwnLanes' /\ OneSlot'
    BY <1>2, Completed
<1>4. TypeOK'
    BY <1>1, <1>2, <1>3 DEF TypeOK, Outcomes, Settled
<1>5. Kept
    BY KeptIs DEF LanesInv
<1>6. inner[r] = "accepted" /\ ~Has(queue[g], r)
    BY <1>2, <1>5 DEF Kept, KeptRun, Placed, Executing
<1>7. InnerNew'
    BY <1>1, <1>2, <1>3, <1>6 DEF LanesInv, InnerNew, TypeOK
<1>8. Kept'
  <2>. SUFFICES ASSUME NEW x \in Runs PROVE KeptRun(x)'
    BY DEF Kept
  <2>1. KeptRun(x) /\ SessionLane[x] \in Lanes /\ GlobalLane[x] \in Lanes
        /\ SessionLane[x] # g
    BY <1>2, <1>5 DEF Kept, Lanes
  <2>2. inner'[x] = (IF x = r THEN result ELSE inner[x]) /\ result # "accepted"
    BY <1>1, <1>2 DEF TypeOK
  <2>. QED BY <1>2, <1>3, <1>6, <2>1, <2>2 DEF KeptRun, Placed
<1>. QED BY <1>3, <1>4, <1>7, <1>8, KeptIsNext DEF LanesInv

LEMMA FinishSession_Inv ==
    ASSUME LanesInv, NEW r \in Runs, FinishSession(r)  PROVE LanesInv'
<1>. USE LanesAssumption
<1>. DEFINE s == SessionLane[r]
            result == IF inner[r] = "ok" THEN "ok" ELSE "error"
<1>2. /\ Quiet /\ Executing(s, r) /\ Complete(s, r) /\ inner' = inner /\ TypeOK
      /\ s \in Lanes /\ s \in SessionLanes /\ s \notin GlobalLanes
      /\ turn' = [turn EXCEPT ![r] = result] /\ inner[r] # "accepted"
      /\ UNCHANGED <<gatewayDraining, phase, waitingFor>>
    BY DEF FinishSession, Complete, loopVars, Lanes, LanesInv, Settled
<1>3. /\ queue' = queue /\ maxConcurrent' = maxConcurrent
      /\ active' \in [Lanes -> SUBSET Runs] /\ stale' \subseteq Lanes \X Runs
      /\ toDrain' \subseteq Lanes
      /\ \A k \in Lanes, x \in Runs :
            /\ x \in active'[k] <=> (x \in active[k] /\ ~(k = s /\ x = r))
            /\ <<k, x>> \in stale' <=> (<<k, x>> \in stale /\ ~(k = s /\ x = r))
      /\ NoIdleLane' /\ QueuedOnce' /\ OwnLanes' /\ OneSlot'
    BY <1>2, Completed
<1>4. TypeOK'
    BY <1>2, <1>3 DEF TypeOK, Outcomes, Settled
<1>5. Kept
    BY KeptIs DEF LanesInv
<1>6. turn[r] = "accepted" /\ ~Has(queue[s], r)
    BY <1>2, <1>5 DEF Kept, KeptRun, Placed, Executing
<1>7. InnerNew'
    BY <1>2, <1>3, <1>6 DEF LanesInv, InnerNew, TypeOK
<1>8. Kept'
  <2>. SUFFICES ASSUME NEW x \in Runs PROVE KeptRun(x)'
    BY DEF Kept
  <2>1. KeptRun(x) /\ SessionLane[x] \in Lanes /\ GlobalLane[x] \in Lanes
        /\ GlobalLane[x] # s
    BY <1>2, <1>5 DEF Kept, Lanes
  <2>2. turn'[x] = (IF x = r THEN result ELSE turn[x]) /\ result # "accepted"
    BY <1>2 DEF TypeOK
  <2>. QED BY <1>2, <1>3, <1>6, <2>1, <2>2 DEF KeptRun, Placed
<1>. QED BY <1>3, <1>4, <1>7, <1>8, KeptIsNext DEF LanesInv

LEMMA Clear_Inv ==
    ASSUME LanesInv, NEW l \in SessionLanes, Clear(l)  PROVE LanesInv'
<1>. USE LanesAssumption
<1>1. /\ queue' = [queue EXCEPT ![l] = <<>>]
      /\ turn' = [r \in Runs |-> IF Has(queue[l], r) THEN "cleared" ELSE turn[r]]
      /\ UNCHANGED <<active, stale, maxConcurrent, toDrain, inner,
                     gatewayDraining, phase, waitingFor>>
      /\ TypeOK /\ l \in Lanes /\ l \notin GlobalLanes
    BY DEF Clear, Has, loopVars, Lanes, LanesInv
<1>2. \A k \in Lanes, x \in Runs :
          Has(queue'[k], x) <=> (Has(queue[k], x) /\ k # l)
    BY <1>1, InEmpty DEF TypeOK
<1>3. TypeOK'
    BY <1>1, EmptySeq DEF TypeOK, Outcomes, Settled
<1>4. NoIdleLane'
    BY <1>1 DEF LanesInv, NoIdleLane, TypeOK
<1>5. QueuedOnce'
    BY <1>1, InEmpty DEF LanesInv, QueuedOnce, TypeOK
<1>6. OwnLanes' /\ OneSlot'
    BY <1>1, <1>2 DEF LanesInv, OwnLanes, OneSlot
<1>7. InnerNew'
    BY <1>1, <1>2 DEF LanesInv, InnerNew, Lanes
<1>8. Kept'
  <2>. SUFFICES ASSUME NEW x \in Runs PROVE KeptRun(x)'
    BY DEF Kept
  <2>1. KeptRun(x) /\ SessionLane[x] \in Lanes /\ GlobalLane[x] \in Lanes
        /\ GlobalLane[x] # l
    BY <1>1, KeptIs DEF LanesInv, Kept, Lanes
  <2>2. Has(queue[l], x) => l = SessionLane[x]
    BY <1>1, <2>1 DEF LanesInv, OwnLanes
  <2>3. turn'[x] = (IF Has(queue[l], x) THEN "cleared" ELSE turn[x])
    BY <1>1
  <2>. QED BY <1>1, <1>2, <2>1, <2>2, <2>3 DEF KeptRun, Placed
<1>. QED BY <1>3, <1>4, <1>5, <1>6, <1>7, <1>8, KeptIsNext DEF LanesInv

LEMMA Reset_Inv ==
    ASSUME LanesInv, ResetAllLanes  PROVE LanesInv'
<1>. USE LanesAssumption
<1>1. /\ phase' = "serving" /\ gatewayDraining' = FALSE
      /\ stale' = stale \cup AllActive
      /\ active' = [l \in Lanes |-> {}]
      /\ toDrain' = {l \in Lanes : queue[l] # <<>>}
      /\ UNCHANGED <<queue, maxConcurrent, turn, inner, waitingFor>> /\ TypeOK
    BY DEF ResetAllLanes, LanesInv
<1>2. \A l \in Lanes, r \in Runs :
          /\ r \notin active'[l]
          /\ <<l, r>> \in stale' <=> (<<l, r>> \in stale \/ r \in active[l])
    BY <1>1 DEF AllActive
<1>3. TypeOK'
    BY <1>1 DEF TypeOK, AllActive
<1>4. NoIdleLane' /\ QueuedOnce' /\ InnerNew'
    BY <1>1 DEF LanesInv, NoIdleLane, QueuedOnce, InnerNew
<1>5. OwnLanes' /\ OneSlot'
    BY <1>1, <1>2 DEF LanesInv, OwnLanes, OneSlot, Lanes
<1>6. Kept'
  <2>. SUFFICES ASSUME NEW x \in Runs PROVE KeptRun(x)'
    BY DEF Kept
  <2>1. KeptRun(x) /\ SessionLane[x] \in Lanes /\ GlobalLane[x] \in Lanes
    BY KeptIs DEF LanesInv, Kept, Lanes
  <2>. QED BY <1>1, <1>2, <2>1 DEF KeptRun, Placed
<1>. QED BY <1>3, <1>4, <1>5, <1>6, KeptIsNext DEF LanesInv

LEMMA Next_Inv == LanesInv /\ [Next]_vars => LanesInv'
<1>. SUFFICES ASSUME LanesInv, [Next]_vars PROVE LanesInv'
    OBVIOUS
<1>1. ASSUME NEW l \in Lanes, PumpSession(l) \/ PumpGlobal(l) \/ PumpDone(l)
      PROVE  LanesInv'
    BY <1>1, PumpSession_Inv, PumpGlobal_Inv, PumpDone_Inv
<1>2. ASSUME NEW r \in Runs, Enqueue(r) \/ FinishGlobal(r) \/ FinishSession(r)
      PROVE  LanesInv'
    BY <1>2, Enqueue_Inv, FinishGlobal_Inv, FinishSession_Inv
<1>3. ASSUME NEW l \in SessionLanes, Clear(l)  PROVE LanesInv'
    BY <1>3, Clear_Inv
<1>4. ASSUME NEW l \in GlobalLanes, NEW n \in 1..MaxConcurrency,
             SetConcurrency(l, n)
      PROVE  LanesInv'
    BY <1>4, SetConcurrency_Inv
<1>5. CASE RequestRestart \/ Drained \/ DrainTimeout \/ UNCHANGED vars
  <2>1. UNCHANGED <<queue, active, stale, maxConcurrent, toDrain, turn, inner>>
    BY <1>5 DEF RequestRestart, Drained, DrainTimeout, vars, laneVars
  <2>2. TypeOK'
    BY <1>5, <2>1 DEF LanesInv, TypeOK, RequestRestart, Drained, DrainTimeout,
                      vars, AllActive
  <2>. QED BY <2>1, <2>2, Loop_Inv
<1>6. CASE ResetAllLanes
    BY <1>6, Reset_Inv
<1>. QED BY <1>1, <1>2, <1>3, <1>4, <1>5, <1>6 DEF Next, Pump

(* In a session's lane with one slot, two runs whose global commands are   *)
(* under way cannot both hold the slot.                                    *)
LEMMA OneRun == LanesInv => OneRunPerSession
<1>. SUFFICES ASSUME LanesInv, NEW r \in Runs, NEW q \in Runs, r # q,
                     SessionLane[r] = SessionLane[q],
                     inner[r] = "accepted", inner[q] = "accepted"
              PROVE  <<SessionLane[r], r>> \in stale \/ <<SessionLane[q], q>> \in stale
    BY DEF OneRunPerSession
<1>1. KeptRun(r) /\ KeptRun(q)
    BY KeptIs DEF LanesInv, Kept
<1>2. SessionLane[r] \in SessionLanes
    BY LanesAssumption
<1>. QED BY <1>1, <1>2 DEF KeptRun, LanesInv, OneSlot

(* The inductive invariant holds throughout: types, no idle lane, every    *)
(* command in its one place, and one slot per session's lane.              *)
THEOREM LanesInvariant == Spec => []LanesInv
BY Init_Inv, Next_Inv, PTL DEF Spec

(* The state is always well typed.                                         *)
THEOREM LanesTyped == Spec => []TypeOK
<1>1. LanesInv => TypeOK
    BY DEF LanesInv
<1>. QED BY <1>1, LanesInvariant, PTL

(* No lane ever holds a waiting command beside a free slot: every end,     *)
(* reload, clear and reset sets the pump going where it must.              *)
THEOREM LanesNeverIdle == Spec => []NoIdleLane
<1>1. LanesInv => NoIdleLane
    BY DEF LanesInv
<1>. QED BY <1>1, LanesInvariant, PTL

(* No command is lost, run twice or settled twice, across any number of    *)
(* clears and restarts.                                                    *)
THEOREM CommandsStayKept == Spec => []CommandsAreKept
<1>1. LanesInv => CommandsAreKept
    BY DEF LanesInv
<1>. QED BY <1>1, LanesInvariant, PTL

(* Two runs of a session overlap only when a restart stopped waiting.      *)
THEOREM SessionsRunOnce == Spec => []OneRunPerSession
BY OneRun, LanesInvariant, PTL

=============================================================================
