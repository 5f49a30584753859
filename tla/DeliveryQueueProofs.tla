------------------------ MODULE DeliveryQueueProofs ------------------------
(***************************************************************************)
(* The delivery queue of module DeliveryQueue, for any messages, options,  *)
(* hooks, retries, starts and faults: nothing persisted is lost, nothing   *)
(* is given up without a cause, and a payload is sent at most once by each *)
(* pass beside its live delivery.                                          *)
(*                                                                         *)
(* Each of the three has an invariant of its own above the types: what a   *)
(* delivery on its way to an acknowledgement has sent; that the retries a  *)
(* file counts, and the failures that are still to be written into it, are *)
(* errors the attempts met; and that the sends of a payload, and the       *)
(* actors that may still send it, are at most one more than the starts.    *)
(***************************************************************************)
EXTENDS DeliveryQueue, FiniteSetTheorems, TLAPS

(* What an actor's place says about the rest of its job.                   *)
AboutMessage == {"sending", "unqueued", "acking", "failing", "writing",
                 "moving"}

Positions ==
    \A a \in Actors :
        /\ Live(a) => About(a) = a
        /\ job[a].at \in AboutMessage => About(a) \in Messages
        /\ job[a].at = "unqueued" => Live(a)
        /\ job[a].at \in {"loading", "picking", "moving"} => a \in Passes
        /\ job[a].at = "idle" => job[a] = JobOf("idle", a)
        /\ job[a].i >= 1

JobsTyped ==
    job \in [Actors -> [at : Places, about : Actors, i : Nat, any : BOOLEAN,
                        partial : BOOLEAN, count : Nat]]

TypeInv == TypeOK /\ Positions

(* A delivery that is not best effort has tried the payloads before i with *)
(* success, and is acknowledged when all are delivered, or for an abort.   *)
SentSoFar(a) ==
    ~options[About(a)].bestEffort =>
        /\ job[a].at = "sending" =>
              \A j \in 1..Payloads[About(a)] : j < job[a].i =>
                  sent[<<About(a), j>>] > 0 \/ <<About(a), j>> \in cancelled
        /\ job[a].at = "acking" => Delivered(About(a)) \/ About(a) \in aborted

SentFirst ==
    \A a \in Actors : job[a].at \in AboutMessage => SentSoFar(a)

Safe(m) ==
    (Persisted(m) /\ ~options[m].bestEffort) =>
        Kept(m) \/ Delivered(m) \/ m \in aborted

(* The actors that have met an error about m and not yet counted it.       *)
Debt(m) ==
    {a \in Actors : /\ About(a) = m
                    /\ \/ job[a].at = "failing"
                       \/ job[a].at = "sending" /\ job[a].partial}

Counted(m) == IF file[m] = Absent THEN 0 ELSE file[m]

(* What is counted, or about to be, are errors; so are the counts that are *)
(* being written or were loaded; and a message is given up for a cause.    *)
Counts(m) == Counted(m) + Cardinality(Debt(m)) <= attempts[m]

WriteCounts(a) ==
    job[a].at = "writing" =>
        job[a].count + Cardinality(Debt(About(a))) <= attempts[About(a)]

LoadCounts(b) == \A e \in pending[b] : e.retryCount <= attempts[e.m]

MoveHasCause(a) ==
    job[a].at = "moving" =>
        About(a) \in permanent \/ attempts[About(a)] >= MaxRetries

CountsAreErrors ==
    /\ \A m \in Messages : Counts(m)
    /\ \A a \in Actors : WriteCounts(a) /\ MoveHasCause(a)
    /\ \A b \in Passes : LoadCounts(b)

CauseInv == CountsAreErrors /\ FailedHasCause

(* The actors that may still send payload p.                               *)
Able(p) ==
    {a \in Actors :
        \/ job[a].at = "idle" /\ a = p[1]
        \/ Sending(a) /\ About(a) = p[1] /\ job[a].i <= p[2]
        \/ job[a].at = "loading"
        \/ a \in Passes /\ \E e \in pending[a] : e.m = p[1]}

EntriesOnce ==
    \A b \in Passes :
        /\ \A e, f \in pending[b] : e.m = f.m => e = f
        /\ job[b].at = "sending" => \A e \in pending[b] : e.m # About(b)

SendsBounded ==
    \A p \in AllPayloads : sent[p] + Cardinality(Able(p)) <= 1 + boots

-----------------------------------------------------------------------------
(* Types                                                                   *)

LEMMA Kinds ==
    /\ IsFiniteSet(Actors) /\ Passes \subseteq Nat \ {0} /\ 1 \in Passes
    /\ Absent = -1 /\ MaxBoots \in Nat
    /\ \A m \in Messages : \A i \in 1..Payloads[m] : <<m, i>> \in AllPayloads
<1>1. IsFiniteSet(Passes)
    BY FS_Interval, DeliveryAssumption DEF Passes
<1>2. IsFiniteSet(Actors)
    BY <1>1, FS_Union, DeliveryAssumption DEF Actors
<1>3. ASSUME NEW m \in Messages, NEW i \in 1..Payloads[m]
      PROVE  <<m, i>> \in AllPayloads
    BY DEF AllPayloads
<1>. QED BY <1>2, <1>3, DeliveryAssumption DEF Passes, Absent

LEMMA TypeInit == Init => TypeInv
<1>. SUFFICES ASSUME Init PROVE TypeInv
    OBVIOUS
<1>1. TypeOK
  <2>1. JobsTyped
    BY DEF Init, JobOf, Places, JobsTyped
  <2>2. /\ options \in [Messages -> Options] /\ cancelled \subseteq AllPayloads
    BY DeliveryAssumption DEF Init
  <2>. QED BY <2>1, <2>2, Kinds, DeliveryAssumption DEF Init, TypeOK, JobsTyped
<1>2. Positions
  <2>. SUFFICES ASSUME NEW a \in Actors
       PROVE  /\ About(a) = a /\ job[a].i = 1
              /\ a = 1 => job[a].at = "loading"
              /\ a # 1 => job[a] = JobOf("idle", a) /\ job[a].at = "idle"
    BY Kinds, DeliveryAssumption DEF Positions, Live, AboutMessage
  <2>. QED BY DEF Init, JobOf, About
<1>. QED BY <1>1, <1>2 DEF TypeInv

(* An actor that sends is about a message.                                 *)
LEMMA SenderIs ==
    ASSUME TypeInv, NEW a \in Actors, job[a].at \in AboutMessage
    PROVE  /\ About(a) \in Messages /\ job[a].i \in Nat \ {0}
           /\ job[a].at = "unqueued" => Live(a)
           /\ job[a].i <= Payloads[About(a)] => Payload(a) \in AllPayloads
BY Kinds, DeliveryAssumption DEF TypeInv, TypeOK, Positions, Payload, About

(* What the moves of an actor do to the types of the jobs.                 *)
LEMMA JobMoves ==
    ASSUME TypeInv, NEW a \in Actors,
           \/ Through(a)
           \/ \E p \in Places \ {"idle", "unqueued", "sending", "writing",
                                 "loading"} :
                 /\ Goto(a, p)
                 /\ p = "picking" => job[a].at = "loading"
                 /\ p = "moving" => a \in Passes
                 /\ p \in AboutMessage => job[a].at \in AboutMessage
           \/ /\ job[a].at \in {"sending", "unqueued"}
              /\ \E any, partial \in BOOLEAN : NextPayload(a, any, partial)
           \/ /\ job[a].at \in AboutMessage
              /\ \E c \in Nat :
                    job' = [job EXCEPT ![a].at = "writing", ![a].count = c]
    PROVE  JobsTyped' /\ Positions'
<1>. USE DEF JobsTyped
<1>1. JobsTyped /\ Positions
    BY DEF TypeInv, TypeOK
<1>2. CASE Through(a)
    BY <1>1, <1>2, Kinds, DeliveryAssumption
       DEF Through, JobOf, Places, Positions, Live, About, AboutMessage, Actors
<1>3. CASE \E p \in Places \ {"idle", "unqueued", "sending", "writing",
                              "loading"} :
              /\ Goto(a, p)
              /\ p = "picking" => job[a].at = "loading"
              /\ p = "moving" => a \in Passes
              /\ p \in AboutMessage => job[a].at \in AboutMessage
    BY <1>1, <1>3, Kinds, DeliveryAssumption
       DEF Goto, JobOf, Places, Positions, Live, About, AboutMessage, Actors
<1>4. CASE /\ job[a].at \in {"sending", "unqueued"}
           /\ \E any, partial \in BOOLEAN : NextPayload(a, any, partial)
  <2>1. PICK any \in BOOLEAN, partial \in BOOLEAN : NextPayload(a, any, partial)
    BY <1>4
  <2>2. PICK x \in BOOLEAN, y \in BOOLEAN :
           job' = [job EXCEPT ![a].i = @ + 1, ![a].any = x, ![a].partial = y]
    <3>1. /\ (job[a].any \/ any) \in BOOLEAN /\ (job[a].partial \/ partial) \in BOOLEAN
      OBVIOUS
    <3>. QED BY <2>1, <3>1 DEF NextPayload
  <2>. QED BY <1>1, <1>4, <2>2, Kinds, DeliveryAssumption
           DEF JobOf, Places, Positions, Live, About, AboutMessage, Actors
<1>5. CASE /\ job[a].at \in AboutMessage
           /\ \E c \in Nat :
                 job' = [job EXCEPT ![a].at = "writing", ![a].count = c]
    BY <1>1, <1>5, Kinds, DeliveryAssumption
       DEF JobOf, Places, Positions, Live, About, AboutMessage, Actors
<1>. QED BY <1>2, <1>3, <1>4, <1>5

LEMMA EnqueueTypes ==
    ASSUME TypeInv, NEW m \in Messages, NEW ok \in BOOLEAN, Enqueue(m, ok)
    PROVE  TypeInv'
<1>1. JobsTyped' /\ Positions'
  <2>1. /\ m \in Actors /\ Live(m) /\ job[m].at = "idle" /\ About(m) = m
        /\ job[m].i >= 1
    BY DEF TypeInv, Positions, Enqueue, Actors, Live
  <2>2. PICK p \in {"sending", "unqueued"} : job' = [job EXCEPT ![m].at = p]
    BY DEF Enqueue, Goto
  <2>3. m \notin Passes /\ JobsTyped /\ Positions
    BY DeliveryAssumption DEF TypeInv, TypeOK, JobsTyped
  <2>4. JobsTyped'
    BY <2>2, <2>3 DEF JobsTyped, Places
  <2>5. Positions'
    <3>1. \A x \in Actors : x # m => job'[x] = job[x]
      BY <2>2, <2>3 DEF JobsTyped
    <3>2. /\ job'[m].at \in {"sending", "unqueued"}
          /\ job'[m].about = m /\ job'[m].i >= 1
      BY <2>1, <2>2, <2>3 DEF JobsTyped, About
    <3>. SUFFICES ASSUME NEW x \in Actors
         PROVE  /\ Live(x) => job'[x].about = x
                /\ job'[x].at \in AboutMessage => job'[x].about \in Messages
                /\ job'[x].at = "unqueued" => Live(x)
                /\ job'[x].at \in {"loading", "picking", "moving"} => x \in Passes
                /\ job'[x].at = "idle" => job'[x] = JobOf("idle", x)
                /\ job'[x].i >= 1
      BY DEF Positions, Live, About
    <3>3. CASE x = m
      BY <2>1, <3>2, <3>3
    <3>4. CASE x # m
      BY <2>3, <3>1, <3>4 DEF Positions, Live, About
    <3>. QED BY <3>3, <3>4
  <2>. QED BY <2>4, <2>5
<1>2. enqueuedAt' \in [Messages -> Nat]
  <2>1. Cardinality({n \in Messages : enqueuedAt[n] > 0}) \in Nat
    BY FS_Subset, FS_CardinalityType, DeliveryAssumption
  <2>. QED BY <2>1 DEF TypeInv, TypeOK, Enqueue
<1>3. file' \in [Messages -> Nat \cup {Absent}]
    BY DEF TypeInv, TypeOK, Enqueue
<1>. QED BY <1>1, <1>2, <1>3 DEF TypeInv, TypeOK, Enqueue, fixed, JobsTyped

LEMMA ThrownTypes ==
    ASSUME TypeInv, NEW a \in Actors, NEW error, Sending(a), Thrown(a, error)
    PROVE  JobsTyped' /\ Positions'
<1>1. PICK p \in {"done", "acking", "failing", "moving"} :
          Goto(a, p) /\ (p = "moving" => a \in Passes)
    BY DEF Thrown, Live, Actors
<1>2. job[a].at \in AboutMessage
    BY DEF Sending, AboutMessage
<1>. QED BY <1>1, <1>2, JobMoves DEF Places

LEMMA PayloadFailsTypes ==
    ASSUME TypeInv, NEW a \in Actors, NEW error, Sending(a),
           PayloadFails(a, error)
    PROVE  /\ JobsTyped' /\ Positions'
           /\ attempts' \in [Messages -> Nat]
           /\ permanent' \subseteq Messages
<1>1. About(a) \in Messages
    BY SenderIs DEF Sending, AboutMessage
<1>2. JobsTyped' /\ Positions'
  <2>1. CASE options[About(a)].bestEffort
    BY <2>1, JobMoves DEF PayloadFails, Sending
  <2>2. CASE ~options[About(a)].bestEffort
    BY <2>2, ThrownTypes DEF PayloadFails
  <2>. QED BY <2>1, <2>2
<1>. QED BY <1>1, <1>2 DEF PayloadFails, TypeInv, TypeOK

LEMMA DeliverTypes ==
    ASSUME TypeInv, NEW a \in Actors, Deliver(a)
    PROVE  TypeInv'
<1>. USE DEF TypeInv, TypeOK, JobsTyped, disk, fixed, history
<1>1. CASE ChannelMissing(a)
    BY <1>1, ThrownTypes, SenderIs DEF ChannelMissing, Sending, AboutMessage
<1>2. CASE PayloadSent(a)
  <2>1. JobsTyped' /\ Positions'
    BY <1>2, JobMoves DEF PayloadSent, Unaborted, Sending
  <2>2. sent' \in [AllPayloads -> Nat]
    BY <1>2, SenderIs DEF PayloadSent, Unaborted, Sending, AboutMessage
  <2>. QED BY <1>2, <2>1, <2>2 DEF PayloadSent
<1>3. CASE PayloadCancelled(a)
    BY <1>3, JobMoves DEF PayloadCancelled, Unaborted, Sending
<1>4. ASSUME NEW error \in {"transient", "permanent"}, NEW reached \in BOOLEAN,
             ChannelFails(a, error, reached)
      PROVE  TypeInv'
  <2>1. /\ JobsTyped' /\ Positions' /\ attempts' \in [Messages -> Nat]
        /\ permanent' \subseteq Messages
    BY <1>4, PayloadFailsTypes DEF ChannelFails, Unaborted
  <2>2. sent' \in [AllPayloads -> Nat]
    BY <1>4, SenderIs DEF ChannelFails, Unaborted, Sending, AboutMessage
  <2>. QED BY <1>4, <2>1, <2>2, DeliveryAssumption DEF ChannelFails
<1>5. CASE PayloadAborted(a)
    BY <1>5, PayloadFailsTypes DEF PayloadAborted
<1>6. CASE Close(a)
  <2>1. JobsTyped' /\ Positions'
    BY <1>6, JobMoves DEF Close, AllTried, Sending, Places, AboutMessage
  <2>. QED BY <1>6, <2>1 DEF Close
<1>7. CASE MirrorFails(a)
    BY <1>7, ThrownTypes, SenderIs
       DEF MirrorFails, AllTried, Sending, AboutMessage
<1>8. CASE Acknowledge(a)
    BY <1>8, JobMoves, SenderIs DEF Acknowledge, AboutMessage
<1>9. CASE FailRead(a)
  <2>1. JobsTyped' /\ Positions'
    <3>1. About(a) \in Messages /\ job[a].at \in AboutMessage
      BY <1>9, SenderIs DEF FailRead, AboutMessage
    <3>2. CASE file[About(a)] = Absent
      BY <1>9, <3>2, JobMoves DEF FailRead
    <3>3. CASE file[About(a)] # Absent
      <4>1. file[About(a)] + 1 \in Nat
        BY <3>1, <3>3
      <4>2. job' = [job EXCEPT ![a].at = "writing",
                               ![a].count = file[About(a)] + 1]
        BY <1>9, <3>3 DEF FailRead
      <4>. QED BY <3>1, <4>1, <4>2, JobMoves
    <3>. QED BY <3>2, <3>3
  <2>. QED BY <1>9, <2>1 DEF FailRead
<1>10. CASE FailWrite(a)
    BY <1>10, JobMoves, SenderIs DEF FailWrite, AboutMessage
<1>11. CASE MoveToFailed(a)
    BY <1>11, JobMoves, SenderIs DEF MoveToFailed, AboutMessage
<1>. QED BY <1>1, <1>2, <1>3, <1>4, <1>5, <1>6, <1>7, <1>8, <1>9, <1>10, <1>11
         DEF Deliver

LEMMA PickTypes ==
    ASSUME TypeInv, NEW b \in Passes, NEW e \in pending[b],
           NEW place \in {"picking", "sending", "moving"}, Pick(b, e, place)
    PROVE  TypeInv'
<1>1. e \in [m : Messages, retryCount : Nat] /\ b \in Actors
    BY DEF TypeInv, TypeOK, Actors
<1>2. JobsTyped' /\ Positions'
    BY <1>1, Kinds, DeliveryAssumption
       DEF TypeInv, TypeOK, Pick, JobOf, Places, Positions, Live, About,
           AboutMessage, Actors, JobsTyped
<1>. QED BY <1>1, <1>2
         DEF TypeInv, TypeOK, Pick, JobsTyped, disk, fixed, history

LEMMA TypeStep == TypeInv /\ [Next]_vars => TypeInv'
<1>. SUFFICES ASSUME TypeInv, [Next]_vars PROVE TypeInv'
    OBVIOUS
<1>1. ASSUME NEW m \in Messages, Abort(m)  PROVE TypeInv'
    BY <1>1 DEF TypeInv, TypeOK, Positions, Abort, disk, fixed, history, Live,
                About, AboutMessage, JobOf
<1>2. ASSUME NEW b \in Passes, Load(b)  PROVE TypeInv'
  <2>1. b \in Actors
    BY DEF Actors
  <2>2. JobsTyped' /\ Positions'
    <3>1. /\ Goto(b, "picking") /\ "picking" \notin AboutMessage
          /\ "picking" \in Places \ {"idle", "unqueued", "sending", "writing", "loading"}
          /\ "picking" = "picking" => job[b].at = "loading"
      BY <1>2 DEF Load, Places, AboutMessage
    <3>. QED BY <2>1, <3>1, JobMoves
  <2>3. Entries \subseteq [m : Messages, retryCount : Nat]
    BY DEF TypeInv, TypeOK, Entries
  <2>. QED BY <1>2, <2>2, <2>3
           DEF TypeInv, TypeOK, Load, disk, fixed, history, JobsTyped
<1>3. ASSUME NEW b \in Passes, EndPass(b)  PROVE TypeInv'
  <2>1. b \in Actors
    BY DEF Actors
  <2>2. JobsTyped' /\ Positions'
    <3>1. /\ Goto(b, "done") /\ "done" \notin AboutMessage
          /\ "done" \in Places \ {"idle", "unqueued", "sending", "writing", "loading"}
          /\ "done" = "picking" => job[b].at = "loading"
      BY <1>3 DEF EndPass, Places, AboutMessage
    <3>. QED BY <2>1, <3>1, JobMoves
  <2>. QED BY <1>3, <2>2
           DEF TypeInv, TypeOK, EndPass, disk, fixed, history, JobsTyped
<1>4. ASSUME NEW b \in Passes, NEW e \in pending[b],
             PickSpent(b, e) \/ PickEligible(b, e) \/ Defer(b, e)
      PROVE  TypeInv'
    BY <1>4, PickTypes DEF PickSpent, PickEligible, Defer
<1>5. CASE Restart
  <2>1. boots + 1 \in Passes
    BY <1>5, DeliveryAssumption DEF Restart, TypeInv, TypeOK, Passes
  <2>2. JobsTyped' /\ Positions'
    BY <1>5, <2>1, Kinds, DeliveryAssumption
       DEF TypeInv, TypeOK, Restart, JobOf, Places, Positions, Live, About,
           AboutMessage, Actors, JobsTyped
  <2>. QED BY <1>5, <2>1, <2>2
           DEF TypeInv, TypeOK, Restart, disk, fixed, history, JobsTyped
<1>6. CASE Crash
  <2>1. boots + 1 \in Passes
    BY <1>6, DeliveryAssumption DEF Crash, TypeInv, TypeOK, Passes
  <2>2. JobsTyped' /\ Positions'
    BY <1>6, <2>1, Kinds, DeliveryAssumption
       DEF TypeInv, TypeOK, Crash, JobOf, Places, Positions, Live, About,
           AboutMessage, Actors, JobsTyped
  <2>. QED BY <1>6, <2>1, <2>2
           DEF TypeInv, TypeOK, Crash, disk, fixed, history, JobsTyped
<1>7. CASE UNCHANGED vars
    BY <1>7 DEF TypeInv, TypeOK, Positions, vars, disk, fixed, history, Live,
                About, AboutMessage, JobOf
<1>. QED BY <1>1, <1>2, <1>3, <1>4, <1>5, <1>6, <1>7, EnqueueTypes, DeliverTypes
         DEF Next

(* The positions, files and counts of the queue stay within their types,   *)
(* for any messages, options, starts and faults.                           *)
THEOREM DeliveryTyped == Spec => []TypeOK
<1>1. TypeInv => TypeOK
    BY DEF TypeInv
<1>. QED BY <1>1, TypeInit, TypeStep, PTL DEF Spec

-----------------------------------------------------------------------------
(* One step of an actor                                                    *)

LEMMA AfterGoto ==
    ASSUME TypeInv, NEW a \in Actors, NEW place, Goto(a, place)
    PROVE  /\ \A x \in Actors : x # a => job'[x] = job[x]
           /\ job'[a].at = place /\ job'[a].about = job[a].about
           /\ job'[a].i = job[a].i /\ job'[a].partial = job[a].partial
           /\ job'[a].count = job[a].count
BY DEF TypeInv, TypeOK, Goto

LEMMA AfterThrough ==
    ASSUME TypeInv, NEW a \in Actors, Through(a)
    PROVE  /\ \A x \in Actors : x # a => job'[x] = job[x]
           /\ job'[a].at \in {"done", "picking"} /\ job'[a].about = a
BY DEF TypeInv, TypeOK, Through, JobOf

LEMMA AfterNextPayload ==
    ASSUME TypeInv, NEW a \in Actors, NEW any \in BOOLEAN,
           NEW partial \in BOOLEAN, NextPayload(a, any, partial)
    PROVE  /\ \A x \in Actors : x # a => job'[x] = job[x]
           /\ job'[a].at = job[a].at /\ job'[a].about = job[a].about
           /\ job'[a].i = job[a].i + 1
           /\ (job'[a].partial => job[a].partial \/ partial)
<1>1. PICK x, y :
          /\ job' = [job EXCEPT ![a].i = @ + 1, ![a].any = x, ![a].partial = y]
          /\ y <=> (job[a].partial \/ partial)
    BY DEF NextPayload
<1>. QED BY <1>1 DEF TypeInv, TypeOK

(* The place an error sends a delivery to.                                 *)
LEMMA AfterThrown ==
    ASSUME TypeInv, NEW a \in Actors, NEW error, Sending(a), Thrown(a, error)
    PROVE  /\ \A x \in Actors : x # a => job'[x] = job[x]
           /\ job'[a].about = job[a].about
           /\ \/ job'[a].at \in {"done", "failing"}
              \/ job'[a].at = "acking" /\ error = "abort"
              \/ job'[a].at = "moving" /\ error = "permanent"
<1>1. PICK p : /\ Goto(a, p)
               /\ \/ p \in {"done", "failing"}
                  \/ p = "acking" /\ error = "abort"
                  \/ p = "moving" /\ error = "permanent"
    BY DEF Thrown
<1>. QED BY <1>1, AfterGoto

LEMMA OthersStay ==
    ASSUME TypeInv, NEW a \in Actors, Deliver(a)
    PROVE  \A x \in Actors : x # a => job'[x] = job[x]
<1>1. CASE ChannelMissing(a)
    BY <1>1, AfterThrown DEF ChannelMissing
<1>2. CASE PayloadSent(a)
    BY <1>2, AfterNextPayload DEF PayloadSent
<1>3. CASE PayloadCancelled(a)
    BY <1>3, AfterNextPayload DEF PayloadCancelled
<1>4. ASSUME NEW error, Sending(a), PayloadFails(a, error)
      PROVE  \A x \in Actors : x # a => job'[x] = job[x]
    BY <1>4, AfterNextPayload, AfterThrown DEF PayloadFails
<1>5. ASSUME NEW error, NEW reached, ChannelFails(a, error, reached)
      PROVE  \A x \in Actors : x # a => job'[x] = job[x]
    BY <1>4, <1>5 DEF ChannelFails, Unaborted
<1>6. CASE PayloadAborted(a)
    BY <1>4, <1>6 DEF PayloadAborted
<1>7. CASE Close(a)
    BY <1>7, AfterGoto DEF Close
<1>8. CASE MirrorFails(a)
    BY <1>8, AfterThrown DEF MirrorFails, AllTried
<1>9. CASE Acknowledge(a) \/ FailWrite(a) \/ MoveToFailed(a)
    BY <1>9, AfterThrough DEF Acknowledge, FailWrite, MoveToFailed
<1>10. CASE FailRead(a)
  <2>1. CASE file[About(a)] = Absent
    BY <1>10, <2>1, AfterThrough DEF FailRead
  <2>2. CASE file[About(a)] # Absent
    BY <1>10, <2>2 DEF FailRead, TypeInv, TypeOK
  <2>. QED BY <2>1, <2>2
<1>. QED BY <1>1, <1>2, <1>3, <1>5, <1>6, <1>7, <1>8, <1>9, <1>10 DEF Deliver

(* What was sent, aborted or asked for stays so.                           *)
Grown ==
    /\ UNCHANGED fixed /\ aborted \subseteq aborted'
    /\ \A p \in AllPayloads : sent'[p] \in Nat /\ sent[p] <= sent'[p]

LEMMA Growing == TypeInv /\ [Next]_vars => Grown
<1>. SUFFICES ASSUME TypeInv, [Next]_vars PROVE Grown
    OBVIOUS
<1>. USE DEF Grown, fixed, history
<1>0. \A p \in AllPayloads :
         sent[p] \in Nat /\ sent[p] <= sent[p] /\ sent'[p] \in Nat
    BY TypeStep DEF TypeInv, TypeOK
<1>1. ASSUME NEW a \in Actors, Deliver(a)  PROVE Grown
  <2>1. CASE PayloadSent(a)
    BY <1>0, <2>1 DEF TypeInv, TypeOK, PayloadSent
  <2>2. ASSUME NEW error, NEW reached, ChannelFails(a, error, reached)
        PROVE  Grown
    BY <1>0, <2>2 DEF TypeInv, TypeOK, ChannelFails
  <2>. QED BY <1>0, <1>1, <2>1, <2>2
           DEF Deliver, ChannelMissing, PayloadCancelled, PayloadAborted, Close,
               MirrorFails, Acknowledge, FailRead, FailWrite, MoveToFailed
<1>2. ASSUME NEW m \in Messages, Abort(m) \/ \E ok \in BOOLEAN : Enqueue(m, ok)
      PROVE  Grown
    BY <1>0, <1>2 DEF Abort, Enqueue
<1>3. ASSUME NEW b \in Passes,
             \/ Load(b) \/ EndPass(b)
             \/ \E e \in pending[b] : \E place : Pick(b, e, place)
      PROVE  Grown
    BY <1>0, <1>3 DEF Load, EndPass, Pick
<1>4. CASE Restart \/ Crash
    BY <1>0, <1>4 DEF Restart, Crash
<1>5. CASE UNCHANGED vars
    BY <1>0, <1>5 DEF vars
<1>. QED BY <1>1, <1>2, <1>3, <1>4, <1>5
         DEF Next, PickSpent, PickEligible, Defer

-----------------------------------------------------------------------------
(* Nothing is lost                                                         *)

LossInv == SentFirst /\ NothingLost

LEMMA NothingLostIs == NothingLost <=> \A m \in Messages : Safe(m)
BY DEF NothingLost, Safe

LEMMA DeliveredStays ==
    ASSUME TypeInv, Grown, NEW m \in Messages, NEW n \in Nat,
           \A i \in 1..Payloads[m] :
               i < n => sent[<<m, i>>] > 0 \/ <<m, i>> \in cancelled
    PROVE  \A i \in 1..Payloads[m] :
               i < n => sent'[<<m, i>>] > 0 \/ <<m, i>> \in cancelled'
<1>. SUFFICES ASSUME NEW i \in 1..Payloads[m], i < n
     PROVE  sent'[<<m, i>>] > 0 \/ <<m, i>> \in cancelled'
    OBVIOUS
<1>1. /\ <<m, i>> \in AllPayloads /\ sent[<<m, i>>] \in Nat
      /\ sent'[<<m, i>>] \in Nat /\ sent[<<m, i>>] <= sent'[<<m, i>>]
      /\ cancelled' = cancelled
    BY Kinds DEF TypeInv, TypeOK, Grown, fixed
<1>. QED BY <1>1

LEMMA AllDelivered ==
    ASSUME NEW m \in Messages
    PROVE  Delivered(m) <=> \A i \in 1..Payloads[m] : i < Payloads[m] + 1 =>
               sent[<<m, i>>] > 0 \/ <<m, i>> \in cancelled
BY DeliveryAssumption DEF Delivered

LEMMA DeliveredIsStable ==
    ASSUME TypeInv, Grown, NEW m \in Messages, Delivered(m)
    PROVE  Delivered(m)'
BY AllDelivered, DeliveredStays, DeliveryAssumption DEF Delivered

LEMMA SafeStays ==
    ASSUME TypeInv, Grown, NEW m \in Messages, Safe(m), enqueuedAt' = enqueuedAt,
           Kept(m) => Kept(m)' \/ Delivered(m)' \/ m \in aborted'
    PROVE  Safe(m)'
<1>1. Delivered(m) => Delivered(m)'
    BY DeliveredIsStable
<1>. QED BY <1>1 DEF Safe, Persisted, Grown, fixed

LEMMA SentStays ==
    ASSUME TypeInv, Grown, NEW a \in Actors, job'[a] = job[a],
           job[a].at \in AboutMessage => SentSoFar(a)
    PROVE  job'[a].at \in AboutMessage => SentSoFar(a)'
<1>. SUFFICES ASSUME job[a].at \in AboutMessage PROVE SentSoFar(a)'
    OBVIOUS
<1>1. About(a) \in Messages /\ job[a].i \in Nat
    BY SenderIs
<1>. DEFINE D(n) == \A i \in 1..Payloads[About(a)] : i < n =>
               sent[<<About(a), i>>] > 0 \/ <<About(a), i>> \in cancelled
<1>2. Delivered(About(a)) => Delivered(About(a))'
    BY <1>1, DeliveredIsStable DEF About, Delivered
<1>3. D(job[a].i) => D(job[a].i)'
    BY <1>1, DeliveredStays DEF About
<1>. QED BY <1>2, <1>3 DEF SentSoFar, About, Grown, fixed

(* What the moves of its actor do to a delivery.                           *)
LEMMA SentByNextPayload ==
    ASSUME TypeInv, Grown, NEW a \in Actors, Sending(a), SentSoFar(a),
           job[a].i <= Payloads[About(a)],
           NEW any \in BOOLEAN, NEW partial \in BOOLEAN,
           NextPayload(a, any, partial),
           \/ options[About(a)].bestEffort
           \/ sent'[Payload(a)] > 0 \/ Payload(a) \in cancelled
    PROVE  SentSoFar(a)'
<1>1. /\ About(a) \in Messages /\ job[a].i \in Nat
      /\ job'[a].at = job[a].at /\ job'[a].about = job[a].about
      /\ job'[a].i = job[a].i + 1 /\ job[a].at # "acking"
    BY SenderIs, AfterNextPayload DEF Sending, AboutMessage
<1>2. SUFFICES ASSUME ~options[About(a)].bestEffort, job[a].at = "sending",
                      NEW j \in 1..Payloads[About(a)], j < job[a].i + 1
      PROVE  sent'[<<About(a), j>>] > 0 \/ <<About(a), j>> \in cancelled'
    BY <1>1 DEF SentSoFar, About, Grown, fixed
<1>3. \A i \in 1..Payloads[About(a)] : i < job[a].i =>
          sent[<<About(a), i>>] > 0 \/ <<About(a), i>> \in cancelled
    BY <1>2 DEF SentSoFar
<1>4. CASE j < job[a].i
    BY <1>1, <1>3, <1>4, DeliveredStays
<1>5. CASE j = job[a].i
    BY <1>2, <1>5 DEF Payload, Grown, fixed
<1>. QED BY <1>1, <1>2, <1>4, <1>5, DeliveryAssumption

LEMMA SentByAcking ==
    ASSUME TypeInv, Grown, NEW a \in Actors, job'[a].about = job[a].about,
           job[a].at \in AboutMessage, job'[a].at # "sending",
           job'[a].at = "acking" =>
               \/ About(a) \in aborted
               \/ ~options[About(a)].bestEffort => Delivered(About(a))
    PROVE  SentSoFar(a)'
<1>1. About(a) \in Messages
    BY SenderIs
<1>2. Delivered(About(a)) => Delivered(About(a))'
    BY <1>1, DeliveredIsStable DEF Delivered, About
<1>. QED BY <1>2 DEF SentSoFar, About, Grown, fixed

LEMMA SentByDeliver ==
    ASSUME TypeInv, Grown, NEW a \in Actors, Deliver(a),
           job[a].at \in AboutMessage => SentSoFar(a)
    PROVE  job'[a].at \in AboutMessage => SentSoFar(a)'
<1>1. CASE ChannelMissing(a)
    BY <1>1, AfterThrown, SentByAcking DEF ChannelMissing, Sending, AboutMessage
<1>2. CASE PayloadSent(a)
  <2>1. sent'[Payload(a)] > 0
    BY <1>2, SenderIs
       DEF PayloadSent, Unaborted, Sending, AboutMessage, TypeInv, TypeOK
  <2>. QED BY <1>2, <2>1, SentByNextPayload
           DEF PayloadSent, Unaborted, Sending, AboutMessage
<1>3. CASE PayloadCancelled(a)
    BY <1>3, SentByNextPayload
       DEF PayloadCancelled, Unaborted, Sending, AboutMessage
<1>4. ASSUME NEW error, Sending(a), PayloadFails(a, error),
             job[a].i <= Payloads[About(a)],
             error = "abort" => About(a) \in aborted
      PROVE  SentSoFar(a)'
  <2>1. CASE options[About(a)].bestEffort
    BY <1>4, <2>1, SentByNextPayload DEF PayloadFails, Sending, AboutMessage
  <2>2. CASE ~options[About(a)].bestEffort
    BY <1>4, <2>2, AfterThrown, SentByAcking
       DEF PayloadFails, Sending, AboutMessage
  <2>. QED BY <2>1, <2>2
<1>5. ASSUME NEW error \in {"transient", "permanent"}, NEW reached \in BOOLEAN,
             ChannelFails(a, error, reached)
      PROVE  SentSoFar(a)'
    BY <1>4, <1>5 DEF ChannelFails, Unaborted
<1>6. CASE PayloadAborted(a)
  <2>1. About(a) = a
    BY <1>6 DEF PayloadAborted, TypeInv, Positions
  <2>. QED BY <1>4, <1>6, <2>1 DEF PayloadAborted
<1>7. CASE Close(a)
  <2>1. /\ job[a].at \in AboutMessage /\ About(a) \in Messages
        /\ job[a].i \in Nat /\ job[a].i > Payloads[About(a)]
    BY <1>7, SenderIs DEF Close, AllTried, Sending, AboutMessage
  <2>2. job'[a].about = job[a].about /\ job'[a].at # "sending"
    BY <1>7, AfterGoto DEF Close
  <2>3. CASE job[a].at = "sending"
    <3>1. ~options[About(a)].bestEffort => Delivered(About(a))
      BY <1>7, <2>1, <2>3, DeliveryAssumption DEF SentSoFar, Delivered
    <3>. QED BY <2>1, <2>2, <3>1, SentByAcking
  <2>4. CASE job[a].at = "unqueued"
    BY <1>7, <2>1, <2>2, <2>4, AfterGoto, SentByAcking DEF Close
  <2>. QED BY <1>7, <2>3, <2>4 DEF Close, AllTried, Sending
<1>8. CASE MirrorFails(a)
    BY <1>8, AfterThrown, SentByAcking DEF MirrorFails, AllTried, Sending, AboutMessage
<1>9. CASE Acknowledge(a) \/ FailWrite(a) \/ MoveToFailed(a)
    BY <1>9, AfterThrough DEF Acknowledge, FailWrite, MoveToFailed, AboutMessage
<1>10. CASE FailRead(a)
  <2>1. CASE file[About(a)] = Absent
    BY <1>10, <2>1, AfterThrough DEF FailRead, AboutMessage
  <2>2. CASE file[About(a)] # Absent
    <3>1. /\ job'[a].at = "writing" /\ job'[a].about = job[a].about
      BY <1>10, <2>2 DEF FailRead, TypeInv, TypeOK
    <3>. QED BY <1>10, <3>1, SentByAcking DEF FailRead, AboutMessage
  <2>. QED BY <2>1, <2>2
<1>. QED BY <1>1, <1>2, <1>3, <1>5, <1>6, <1>7, <1>8, <1>9, <1>10 DEF Deliver

LEMMA LossDeliver ==
    ASSUME TypeInv, Grown, LossInv, NEW a \in Actors, Deliver(a)
    PROVE  LossInv'
<1>1. SentFirst'
  <2>1. ASSUME NEW x \in Actors
        PROVE  job'[x].at \in AboutMessage => SentSoFar(x)'
    BY OthersStay, SentStays, SentByDeliver DEF LossInv, SentFirst
  <2>. QED BY <2>1 DEF SentFirst
<1>2. \A m \in Messages : Safe(m)
    BY NothingLostIs DEF LossInv
<1>3. CASE Acknowledge(a)
  <2>. SUFFICES ASSUME NEW m \in Messages PROVE Safe(m)'
    BY <1>1, NothingLostIs DEF LossInv, NothingLost, Safe
  <2>1. CASE m = About(a)
    <3>1. SentSoFar(a)
      BY <1>3 DEF Acknowledge, LossInv, SentFirst, AboutMessage
    <3>2. ~options[m].bestEffort => Delivered(m) \/ m \in aborted
      BY <1>3, <2>1, <3>1 DEF Acknowledge, SentSoFar
    <3>3. Delivered(m) => Delivered(m)'
      BY DeliveredIsStable
    <3>. QED BY <3>2, <3>3 DEF Safe, Grown, fixed
  <2>2. CASE m # About(a)
    <3>1. Kept(m) => Kept(m)'
      BY <1>3, <2>2 DEF Acknowledge, Kept, TypeInv, TypeOK
    <3>2. enqueuedAt' = enqueuedAt
      BY <1>3 DEF Acknowledge, history
    <3>. QED BY <1>2, <3>1, <3>2, SafeStays
  <2>. QED BY <2>1, <2>2
<1>4. CASE ~Acknowledge(a)
  <2>1. enqueuedAt' = enqueuedAt
    BY DEF Deliver, ChannelMissing, PayloadSent, PayloadCancelled,
           PayloadAborted, ChannelFails, Close, MirrorFails, Acknowledge,
           FailRead, FailWrite, MoveToFailed, history
  <2>2. ASSUME NEW m \in Messages  PROVE Kept(m) => Kept(m)'
    <3>1. CASE FailWrite(a)
      BY <3>1 DEF FailWrite, Kept, TypeInv, TypeOK, Absent
    <3>2. CASE MoveToFailed(a)
      BY <3>2 DEF MoveToFailed, Kept, TypeInv, TypeOK, Absent
    <3>3. CASE UNCHANGED disk
      BY <3>3 DEF Kept, disk
    <3>. QED BY <1>4, <3>1, <3>2, <3>3
         DEF Deliver, ChannelMissing, PayloadSent, PayloadCancelled,
             PayloadAborted, ChannelFails, Close, MirrorFails, FailRead, disk
  <2>. QED BY <1>1, <1>2, <2>1, <2>2, SafeStays, NothingLostIs
           DEF LossInv, NothingLost, Safe
<1>. QED BY <1>3, <1>4

LEMMA LossStep == TypeInv /\ LossInv /\ [Next]_vars => LossInv'
<1>. SUFFICES ASSUME TypeInv, LossInv, [Next]_vars PROVE LossInv'
    OBVIOUS
<1>1. Grown
    BY Growing
<1>2. \A m \in Messages : Safe(m)
    BY NothingLostIs DEF LossInv
(* A step that neither settles an entry nor moves a delivery.              *)
<1>3. ASSUME \A x \in Actors : job'[x] = job[x] \/ job'[x].at \notin AboutMessage
                               \/ SentSoFar(x)',
             UNCHANGED <<disk, enqueuedAt>>
      PROVE  LossInv'
  <2>1. SentFirst'
    BY <1>1, <1>3, SentStays DEF LossInv, SentFirst
  <2>2. \A m \in Messages : Safe(m)'
    BY <1>1, <1>2, <1>3, SafeStays DEF Kept, disk
  <2>. QED BY <2>1, <2>2 DEF LossInv, NothingLost, Safe
<1>4. ASSUME NEW m \in Messages, NEW ok \in BOOLEAN, Enqueue(m, ok)
      PROVE  LossInv'
  <2>1. /\ m \in Actors /\ \A x \in Actors : x # m => job'[x] = job[x]
        /\ job'[m].i = 1 /\ job'[m].at # "acking"
    <3>1. m \in Actors /\ \E p \in {"sending", "unqueued"} : Goto(m, p)
      BY <1>4 DEF Enqueue, Actors
    <3>2. job[m].i = 1
      <4>1. job[m].at = "idle" /\ (job[m].at = "idle" => job[m] = JobOf("idle", m))
        BY <1>4, <3>1 DEF Enqueue, TypeInv, Positions
      <4>2. JobOf("idle", m).i = 1
        BY DEF JobOf
      <4>. QED BY <4>1, <4>2
    <3>. QED BY <3>1, <3>2, AfterGoto
  <2>2. SentSoFar(m)'
    BY <2>1 DEF SentSoFar
  <2>3. SentFirst'
    BY <1>1, <2>1, <2>2, SentStays DEF LossInv, SentFirst
  <2>4. ASSUME NEW n \in Messages  PROVE Safe(n)'
    <3>1. CASE n = m /\ ok
      BY <1>4, <3>1 DEF Enqueue, Safe, Kept, TypeInv, TypeOK, Absent
    <3>2. CASE ~ok
      BY <1>1, <1>2, <1>4, <3>2, SafeStays DEF Enqueue, Kept
    <3>3. CASE n # m /\ ok
      <4>1. enqueuedAt'[n] = enqueuedAt[n] /\ (Kept(n) => Kept(n)')
        BY <1>4, <3>3 DEF Enqueue, Kept, TypeInv, TypeOK
      <4>2. Delivered(n) => Delivered(n)'
        BY <1>1, DeliveredIsStable
      <4>. QED BY <1>1, <1>2, <4>1, <4>2 DEF Safe, Persisted, Grown, fixed
    <3>. QED BY <3>1, <3>2, <3>3
  <2>. QED BY <2>3, <2>4 DEF LossInv, NothingLost, Safe
<1>5. ASSUME NEW m \in Messages, Abort(m)  PROVE LossInv'
    BY <1>3, <1>5 DEF Abort, history
<1>6. ASSUME NEW b \in Passes, NEW e \in pending[b],
             NEW place \in {"picking", "sending", "moving"}, Pick(b, e, place)
      PROVE  LossInv'
  <2>1. \A x \in Actors : x # b => job'[x] = job[x]
    BY <1>6 DEF Pick, TypeInv, TypeOK
  <2>2. job'[b] = job[b] \/ SentSoFar(b)'
    <3>1. CASE place = "picking"
      BY <1>6, <3>1 DEF Pick, TypeInv, TypeOK, Actors
    <3>2. CASE place # "picking"
      <4>1. job'[b].i = 1 /\ job'[b].at \in {"sending", "moving"}
        BY <1>6, <3>2 DEF Pick, JobOf, TypeInv, TypeOK, Actors
      <4>. QED BY <4>1 DEF SentSoFar
    <3>. QED BY <3>1, <3>2
  <2>. QED BY <1>3, <1>6, <2>1, <2>2 DEF Pick, history
<1>7. ASSUME NEW b \in Passes, Load(b) \/ EndPass(b)  PROVE LossInv'
  <2>1. \A x \in Actors : x # b => job'[x] = job[x]
    BY <1>7, AfterGoto DEF Load, EndPass, Actors
  <2>2. job'[b].at \notin AboutMessage
    BY <1>7, AfterGoto DEF Load, EndPass, Actors, AboutMessage
  <2>. QED BY <1>3, <1>7, <2>1, <2>2 DEF Load, EndPass, history
<1>8. CASE Restart
  <2>1. \A x \in Actors : job'[x] = job[x] \/ job'[x].at = "loading"
    BY <1>8 DEF Restart, TypeInv, TypeOK
  <2>. QED BY <1>3, <1>8, <2>1 DEF Restart, history, AboutMessage
<1>9. CASE Crash
  <2>1. \A x \in Actors : job'[x] = job[x] \/ job'[x].at \in {"loading", "done"}
    BY <1>9 DEF Crash, JobOf
  <2>. QED BY <1>3, <1>9, <2>1 DEF Crash, history, AboutMessage
<1>10. CASE UNCHANGED vars
    BY <1>3, <1>10 DEF vars, history
<1>. QED BY <1>1, <1>4, <1>5, <1>6, <1>7, <1>8, <1>9, <1>10, LossDeliver
         DEF Next, PickSpent, PickEligible, Defer

(* A persisted message is in the queue or under failed/ until it was       *)
(* delivered or aborted, for any messages and payloads, however many       *)
(* starts, crashes and errors fall between the steps.                      *)
THEOREM NothingIsLost == Spec => []NothingLost
<1>1. Init => LossInv
    BY DEF Init, LossInv, SentFirst, JobOf, AboutMessage, NothingLost, Persisted
<1>2. LossInv => NothingLost
    BY DEF LossInv
<1>. QED BY <1>1, <1>2, TypeInit, TypeStep, LossStep, PTL DEF Spec

-----------------------------------------------------------------------------
(* Nothing is given up without a cause                                     *)

(* The size of a set that changes by one element at most.                  *)
LEMMA SetSteps ==
    ASSUME NEW S, NEW T, NEW a, IsFiniteSet(S), T \subseteq S \cup {a}
    PROVE  /\ IsFiniteSet(T)
           /\ Cardinality(S) \in Nat /\ Cardinality(T) \in Nat
           /\ Cardinality(T) <= Cardinality(S) + 1
           /\ T \subseteq S => Cardinality(T) <= Cardinality(S)
           /\ (a \in S /\ a \notin T) => Cardinality(T) <= Cardinality(S) - 1
<1>1. /\ IsFiniteSet(S \cup {a}) /\ Cardinality(S \cup {a}) <= Cardinality(S) + 1
      /\ Cardinality(S) \in Nat
    BY FS_AddElement, FS_CardinalityType
<1>2. IsFiniteSet(T) /\ Cardinality(T) <= Cardinality(S \cup {a})
    BY <1>1, FS_Subset
<1>3. Cardinality(T) \in Nat /\ Cardinality(S \cup {a}) \in Nat
    BY <1>1, <1>2, FS_CardinalityType
<1>4. ASSUME T \subseteq S  PROVE Cardinality(T) <= Cardinality(S)
    BY <1>4, FS_Subset
<1>5. ASSUME a \in S, a \notin T  PROVE Cardinality(T) <= Cardinality(S) - 1
  <2>1. IsFiniteSet(S \ {a}) /\ Cardinality(S \ {a}) = Cardinality(S) - 1
    BY <1>5, FS_RemoveElement
  <2>2. T \subseteq S \ {a}
    BY <1>5
  <2>. QED BY <2>1, <2>2, FS_Subset
<1>. QED BY <1>1, <1>2, <1>3, <1>4, <1>5

LEMMA DebtIs ==
    ASSUME NEW m
    PROVE  IsFiniteSet(Debt(m)) /\ Cardinality(Debt(m)) \in Nat
BY Kinds, FS_Subset, FS_CardinalityType DEF Debt

LEMMA DebtIsNext ==
    ASSUME NEW m
    PROVE  IsFiniteSet(Debt(m)') /\ Cardinality(Debt(m)') \in Nat
<1>1. Debt(m)' \subseteq Actors
    BY DEF Debt
<1>. QED BY <1>1, Kinds, FS_Subset, FS_CardinalityType

LEMMA DelivererIs ==
    ASSUME TypeInv, NEW a \in Actors, Deliver(a)
    PROVE  job[a].at \in AboutMessage /\ About(a) \in Messages
<1>1. job[a].at \in AboutMessage
    BY DEF Deliver, ChannelMissing, PayloadSent, PayloadCancelled,
           PayloadAborted, ChannelFails, Close, MirrorFails, Acknowledge,
           FailRead, FailWrite, MoveToFailed, Unaborted, AllTried, Sending,
           AboutMessage
<1>. QED BY <1>1, SenderIs

(* A step of one actor, as far as counts go.                               *)
LEMMA CountsByOne ==
    ASSUME TypeInv, TypeInv', CountsAreErrors, NEW a \in Actors,
           NEW m \in Messages, About(a) = m,
           \A x \in Actors : x # a => job'[x] = job[x],
           job'[a].about \in {m, a},
           pending' = pending, permanent \subseteq permanent',
           NEW d \in {0, 1},
           attempts' = [attempts EXCEPT ![m] = @ + d],
           Cardinality(Debt(m)') <= Cardinality(Debt(m)) + d,
           \A n \in Messages : n # m => file'[n] = file[n],
           Counted(m)' <= Counted(m) \/ Counts(m)',
           WriteCounts(a)', MoveHasCause(a)'
    PROVE  CountsAreErrors'
<1>1. \A n \in Messages : /\ attempts[n] \in Nat /\ attempts'[n] \in Nat
                          /\ attempts[n] <= attempts'[n]
                          /\ n # m => attempts'[n] = attempts[n]
    BY DEF TypeInv, TypeOK
<1>2. attempts'[m] = attempts[m] + d
    BY DEF TypeInv, TypeOK
<1>3. ASSUME NEW n \in Messages, n # m
      PROVE  Cardinality(Debt(n)') <= Cardinality(Debt(n))
  <2>1. a \in Messages => About(a) = a
    BY DEF TypeInv, Positions, Live
  <2>2. Debt(n)' \subseteq Debt(n)
    BY <1>3, <2>1 DEF Debt, About
  <2>. QED BY <2>2, DebtIs, SetSteps
<1>4. \A n \in Messages : /\ Cardinality(Debt(n)) \in Nat
                          /\ Cardinality(Debt(n)') \in Nat
                          /\ Counted(n) \in Nat /\ Counted(n)' \in Nat
    BY DebtIs, DebtIsNext DEF Counted, TypeInv, TypeOK, Absent
<1>5. ASSUME NEW n \in Messages  PROVE Counts(n)'
  <2>1. CASE n = m
    BY <1>1, <1>2, <1>4, <2>1 DEF CountsAreErrors, Counts
  <2>2. CASE n # m
    <3>1. Counted(n)' = Counted(n)
      BY <2>2 DEF Counted
    <3>. QED BY <1>1, <1>3, <1>4, <2>2, <3>1 DEF CountsAreErrors, Counts
  <2>. QED BY <2>1, <2>2
<1>6. ASSUME NEW x \in Actors, x # a  PROVE WriteCounts(x)' /\ MoveHasCause(x)'
  <2>1. job'[x] = job[x] /\ (job[x].at \in AboutMessage => About(x) \in Messages)
    BY <1>6, SenderIs
  <2>2. CASE job[x].at = "writing"
    <3>1. About(x) \in Messages /\ job[x].count \in Nat
      BY <2>1, <2>2 DEF AboutMessage, TypeInv, TypeOK
    <3>2. PICK n \in Messages : n = About(x)
      BY <3>1
    <3>3. job[x].count + Cardinality(Debt(n)) <= attempts[n]
      BY <2>2, <3>2 DEF CountsAreErrors, WriteCounts
    <3>4. job[x].count + Cardinality(Debt(n)') <= attempts'[n]
      <4>1. CASE n = m
        BY <1>1, <1>2, <1>4, <3>1, <3>3, <4>1
      <4>2. CASE n # m
        BY <1>1, <1>3, <1>4, <3>1, <3>3, <4>2
      <4>. QED BY <4>1, <4>2
    <3>5. About(x)' = n
      BY <2>1, <3>2 DEF About
    <3>. QED BY <2>1, <2>2, <3>4, <3>5 DEF WriteCounts, MoveHasCause
  <2>3. CASE job[x].at # "writing"
    <3>1. job[x].at = "moving" =>
             About(x) \in permanent' \/ attempts'[About(x)] >= MaxRetries
      BY <1>1, <2>1, DeliveryAssumption
         DEF CountsAreErrors, MoveHasCause, AboutMessage
    <3>. QED BY <2>1, <2>3, <3>1 DEF WriteCounts, MoveHasCause, About
  <2>. QED BY <2>2, <2>3
<1>7. ASSUME NEW b \in Passes  PROVE LoadCounts(b)'
  <2>. SUFFICES ASSUME NEW e \in pending[b]
       PROVE e.retryCount <= attempts'[e.m]
    BY DEF LoadCounts
  <2>1. e.m \in Messages /\ e.retryCount \in Nat
    BY DEF TypeInv, TypeOK
  <2>. QED BY <1>1, <2>1 DEF CountsAreErrors, LoadCounts
<1>. QED BY <1>5, <1>6, <1>7 DEF CountsAreErrors

(* An error: the actor may owe a count, and moves on a permanent one only. *)
LEMMA CountsByError ==
    ASSUME TypeInv, TypeInv', CountsAreErrors, NEW a \in Actors,
           NEW m \in Messages, About(a) = m,
           \A x \in Actors : x # a => job'[x] = job[x],
           job'[a].about = m, job'[a].at # "writing",
           job'[a].at = "moving" => m \in permanent',
           pending' = pending, file' = file, permanent \subseteq permanent',
           attempts' = [attempts EXCEPT ![m] = @ + 1]
    PROVE  CountsAreErrors'
<1>1. Debt(m)' \subseteq Debt(m) \cup {a}
    BY DEF Debt, About
<1>2. Cardinality(Debt(m)') <= Cardinality(Debt(m)) + 1
    BY <1>1, DebtIs, SetSteps
<1>3. Counted(m)' <= Counted(m)
    BY DEF Counted, TypeInv, TypeOK, Absent
<1>4. WriteCounts(a)' /\ MoveHasCause(a)'
    BY DEF WriteCounts, MoveHasCause, About
<1>. QED BY <1>2, <1>3, <1>4, CountsByOne

(* No error: the actor owes a count only if it did before.                 *)
LEMMA CountsByQuiet ==
    ASSUME TypeInv, TypeInv', CountsAreErrors, NEW a \in Actors,
           NEW m \in Messages, About(a) = m,
           \A x \in Actors : x # a => job'[x] = job[x],
           job'[a].about \in {m, a}, job'[a].at \notin {"writing", "moving"},
           a \in Debt(m)' => a \in Debt(m),
           pending' = pending, permanent \subseteq permanent',
           attempts' = attempts,
           \A n \in Messages : n # m => file'[n] = file[n],
           file'[m] \in {file[m], Absent}
    PROVE  CountsAreErrors'
<1>1. Debt(m)' \subseteq Debt(m)
    BY DEF Debt, About
<1>2. Cardinality(Debt(m)') <= Cardinality(Debt(m)) + 0
    BY <1>1, DebtIs, DebtIsNext, SetSteps
<1>3. Counted(m)' <= Counted(m)
    BY DEF Counted, TypeInv, TypeOK, Absent
<1>4. WriteCounts(a)' /\ MoveHasCause(a)'
    BY DEF WriteCounts, MoveHasCause
<1>5. attempts' = [attempts EXCEPT ![m] = @ + 0]
    BY DEF TypeInv, TypeOK
<1>. QED BY <1>2, <1>3, <1>4, <1>5, CountsByOne

LEMMA CountsByFailRead ==
    ASSUME TypeInv, TypeInv', CountsAreErrors, NEW a \in Actors, FailRead(a)
    PROVE  CountsAreErrors'
<1>1. PICK m \in Messages : m = About(a)
    BY SenderIs DEF FailRead, AboutMessage
<1>2. /\ \A x \in Actors : x # a => job'[x] = job[x]
      /\ pending' = pending /\ permanent' = permanent /\ attempts' = attempts
      /\ file' = file
    BY OthersStay DEF Deliver, FailRead, history, disk
<1>3. CASE file[m] = Absent
  <2>1. job'[a].about = a /\ job'[a].at \in {"done", "picking"}
    BY <1>1, <1>3, AfterThrough DEF FailRead
  <2>2. a \notin Debt(m)'
    BY <2>1 DEF Debt
  <2>. QED BY <1>1, <1>2, <2>1, <2>2, CountsByQuiet
<1>4. CASE file[m] # Absent
  <2>1. /\ job'[a].at = "writing" /\ job'[a].about = m
        /\ job'[a].count = file[m] + 1
    BY <1>1, <1>4 DEF FailRead, TypeInv, TypeOK, About
  <2>2. a \in Debt(m) /\ a \notin Debt(m)'
    BY <1>1, <2>1 DEF FailRead, Debt
  <2>3. Debt(m)' \subseteq Debt(m) \cup {a}
    BY <1>2, <2>2 DEF Debt, About
  <2>4. Cardinality(Debt(m)') <= Cardinality(Debt(m)) - 1
    BY <2>2, <2>3, DebtIs, SetSteps
  <2>5. Counts(m) /\ Counted(m) = file[m] /\ file[m] \in Nat
        /\ Counted(m)' <= Counted(m) /\ attempts[m] \in Nat
    BY <1>2, <1>4 DEF CountsAreErrors, Counted, TypeInv, TypeOK
  <2>6. file[m] + 1 + Cardinality(Debt(m)') <= attempts[m]
    BY <2>4, <2>5, DebtIs, DebtIsNext DEF Counts
  <2>7. WriteCounts(a)'
    BY <1>2, <2>1, <2>6 DEF WriteCounts, About
  <2>8. MoveHasCause(a)'
    BY <2>1 DEF MoveHasCause
  <2>9. attempts' = [attempts EXCEPT ![m] = @ + 0]
    BY <1>2 DEF TypeInv, TypeOK
  <2>10. Cardinality(Debt(m)') <= Cardinality(Debt(m)) + 0
    BY <2>4, DebtIs, DebtIsNext
  <2>. QED BY <1>1, <1>2, <2>1, <2>5, <2>7, <2>8, <2>9, <2>10, CountsByOne
<1>. QED BY <1>3, <1>4

LEMMA CountsByFailWrite ==
    ASSUME TypeInv, TypeInv', CountsAreErrors, NEW a \in Actors, FailWrite(a)
    PROVE  CountsAreErrors'
<1>1. PICK m \in Messages : m = About(a)
    BY SenderIs DEF FailWrite, AboutMessage
<1>2. /\ \A x \in Actors : x # a => job'[x] = job[x]
      /\ pending' = pending /\ permanent' = permanent /\ attempts' = attempts
      /\ job'[a].about = a /\ job'[a].at \in {"done", "picking"}
    BY OthersStay, AfterThrough DEF Deliver, FailWrite, history
<1>3. /\ file'[m] = job[a].count /\ job[a].count \in Nat
      /\ \A n \in Messages : n # m => file'[n] = file[n]
    BY <1>1 DEF FailWrite, TypeInv, TypeOK
<1>4. Debt(m)' \subseteq Debt(m)
    BY <1>1, <1>2 DEF Debt, About
<1>5. Cardinality(Debt(m)') <= Cardinality(Debt(m)) + 0
    BY <1>4, DebtIs, DebtIsNext, SetSteps
<1>6. job[a].count + Cardinality(Debt(m)) <= attempts[m] /\ attempts[m] \in Nat
    BY <1>1 DEF CountsAreErrors, WriteCounts, FailWrite, TypeInv, TypeOK
<1>7. Counts(m)'
    BY <1>2, <1>3, <1>5, <1>6, DebtIs, DebtIsNext DEF Counts, Counted
<1>8. WriteCounts(a)' /\ MoveHasCause(a)'
    BY <1>2 DEF WriteCounts, MoveHasCause
<1>9. attempts' = [attempts EXCEPT ![m] = @ + 0]
    BY <1>2 DEF TypeInv, TypeOK
<1>. QED BY <1>1, <1>2, <1>3, <1>5, <1>7, <1>8, <1>9, CountsByOne

LEMMA CountsByPayloadFails ==
    ASSUME TypeInv, TypeInv', CountsAreErrors, NEW a \in Actors,
           NEW error \in {"transient", "permanent", "abort"}, Sending(a),
           PayloadFails(a, error), pending' = pending, file' = file
    PROVE  CountsAreErrors'
<1>1. PICK m \in Messages : m = About(a)
    BY SenderIs DEF Sending, AboutMessage
<1>2. /\ \A x \in Actors : x # a => job'[x] = job[x]
      /\ job'[a].about = m /\ job'[a].at # "writing"
      /\ job'[a].at = "moving" => error = "permanent"
  <2>1. CASE options[m].bestEffort
    <3>1. NextPayload(a, FALSE, Live(a) /\ options[m].onError)
      BY <1>1, <2>1 DEF PayloadFails
    <3>2. (Live(a) /\ options[m].onError) \in BOOLEAN
      OBVIOUS
    <3>. QED BY <1>1, <3>1, <3>2, AfterNextPayload DEF Sending, About
  <2>2. CASE ~options[m].bestEffort
    BY <1>1, <2>2, AfterThrown DEF PayloadFails, About
  <2>. QED BY <2>1, <2>2
<1>3. /\ attempts' = [attempts EXCEPT ![m] = @ + 1]
      /\ permanent \subseteq permanent'
      /\ error = "permanent" => m \in permanent'
    BY <1>1 DEF PayloadFails
<1>. QED BY <1>1, <1>2, <1>3, CountsByError

LEMMA CountsByDeliver ==
    ASSUME TypeInv, TypeInv', CountsAreErrors, NEW a \in Actors, Deliver(a)
    PROVE  CountsAreErrors'
<1>1. PICK m \in Messages : m = About(a)
    BY DelivererIs
<1>2. \A x \in Actors : x # a => job'[x] = job[x]
    BY OthersStay
<1>3. CASE ChannelMissing(a) \/ MirrorFails(a)
  <2>1. Sending(a) /\ \E error : /\ Thrown(a, error)
                                 /\ error = "permanent" => m \in permanent'
    BY <1>1, <1>3 DEF ChannelMissing, MirrorFails, AllTried
  <2>2. /\ job'[a].about = m /\ job'[a].at # "writing"
        /\ job'[a].at = "moving" => m \in permanent'
    BY <1>1, <2>1, AfterThrown DEF About
  <2>3. /\ pending' = pending /\ file' = file /\ permanent \subseteq permanent'
        /\ attempts' = [attempts EXCEPT ![m] = @ + 1]
    BY <1>1, <1>3 DEF ChannelMissing, MirrorFails, disk
  <2>. QED BY <1>1, <1>2, <2>2, <2>3, CountsByError
<1>4. ASSUME NEW error \in {"transient", "permanent"}, NEW reached \in BOOLEAN,
             ChannelFails(a, error, reached)
      PROVE  CountsAreErrors'
    BY <1>4, CountsByPayloadFails DEF ChannelFails, Unaborted, disk
<1>5. CASE PayloadAborted(a)
    BY <1>5, CountsByPayloadFails DEF PayloadAborted, disk
<1>6. CASE PayloadSent(a) \/ PayloadCancelled(a)
  <2>1. Sending(a) /\ \E any \in BOOLEAN : NextPayload(a, any, FALSE)
    BY <1>6 DEF PayloadSent, PayloadCancelled, Unaborted
  <2>2. /\ job'[a].about = m /\ job'[a].at \notin {"writing", "moving"}
        /\ job'[a].at = job[a].at /\ (job'[a].partial => job[a].partial)
    BY <1>1, <2>1, AfterNextPayload DEF About, Sending
  <2>3. a \in Debt(m)' => a \in Debt(m)
    BY <1>1, <2>2 DEF Debt
  <2>4. /\ pending' = pending /\ file' = file /\ permanent' = permanent
        /\ attempts' = attempts
    BY <1>6 DEF PayloadSent, PayloadCancelled, disk, history
  <2>. QED BY <1>1, <1>2, <2>2, <2>3, <2>4, CountsByQuiet
<1>7. CASE Close(a)
  <2>1. /\ job'[a].about = m /\ job'[a].at \in {"done", "failing", "acking"}
        /\ job'[a].at = "failing" => job[a].at = "sending" /\ job[a].partial
    BY <1>1, <1>7, AfterGoto DEF Close, AllTried, Sending, About
  <2>2. a \in Debt(m)' => a \in Debt(m)
    BY <1>1, <2>1 DEF Debt
  <2>3. /\ pending' = pending /\ file' = file /\ permanent' = permanent
        /\ attempts' = attempts
    BY <1>7 DEF Close, disk, history
  <2>. QED BY <1>1, <1>2, <2>1, <2>2, <2>3, CountsByQuiet
<1>8. CASE Acknowledge(a) \/ MoveToFailed(a)
  <2>1. job'[a].about = a /\ job'[a].at \in {"done", "picking"}
    BY <1>8, AfterThrough DEF Acknowledge, MoveToFailed
  <2>2. a \notin Debt(m)'
    BY <2>1 DEF Debt
  <2>3. /\ pending' = pending /\ permanent' = permanent /\ attempts' = attempts
        /\ \A n \in Messages : n # m => file'[n] = file[n]
        /\ file'[m] \in {file[m], Absent}
    BY <1>1, <1>8 DEF Acknowledge, MoveToFailed, history, TypeInv, TypeOK
  <2>. QED BY <1>1, <1>2, <2>1, <2>2, <2>3, CountsByQuiet
<1>. QED BY <1>3, <1>4, <1>5, <1>6, <1>7, <1>8, CountsByFailRead,
            CountsByFailWrite DEF Deliver

(* Steps that begin or end the work of actors, and count nothing.          *)
LEMMA CountsBetween ==
    ASSUME TypeInv, TypeInv', CountsAreErrors,
           \A x \in Actors :
               \/ job'[x] = job[x]
               \/ /\ job'[x].at \notin {"failing", "writing", "moving"}
                  /\ job'[x].at = "sending" => ~job'[x].partial
               \/ MoveHasCause(x)' /\ job'[x].at = "moving",
           attempts' = attempts, permanent' = permanent,
           \A n \in Messages : Counted(n)' <= Counted(n),
           \A b \in Passes : LoadCounts(b)'
    PROVE  CountsAreErrors'
<1>1. ASSUME NEW n \in Messages
      PROVE  /\ Cardinality(Debt(n)') <= Cardinality(Debt(n))
             /\ Cardinality(Debt(n)') \in Nat /\ Cardinality(Debt(n)) \in Nat
             /\ Counted(n) \in Nat /\ Counted(n)' \in Nat /\ attempts[n] \in Nat
  <2>1. Debt(n)' \subseteq Debt(n)
    BY DEF Debt, About
  <2>. QED BY <2>1, DebtIs, DebtIsNext, SetSteps
       DEF Counted, TypeInv, TypeOK, Absent
<1>2. ASSUME NEW n \in Messages  PROVE Counts(n)'
    BY <1>1 DEF CountsAreErrors, Counts
<1>3. ASSUME NEW x \in Actors  PROVE WriteCounts(x)' /\ MoveHasCause(x)'
  <2>1. CASE job'[x] = job[x]
    <3>1. MoveHasCause(x)'
      BY <2>1 DEF CountsAreErrors, MoveHasCause, About
    <3>2. CASE job[x].at = "writing"
      <4>1. PICK n \in Messages : n = About(x)
        BY <3>2, SenderIs DEF AboutMessage
      <4>2. job[x].count \in Nat
        BY DEF TypeInv, TypeOK
      <4>3. job[x].count + Cardinality(Debt(n)) <= attempts[n]
        BY <3>2, <4>1 DEF CountsAreErrors, WriteCounts
      <4>4. job[x].count + Cardinality(Debt(n)') <= attempts[n]
        BY <1>1, <4>2, <4>3
      <4>5. About(x)' = n
        BY <2>1, <4>1 DEF About
      <4>. QED BY <2>1, <3>1, <4>4, <4>5 DEF WriteCounts
    <3>3. CASE job[x].at # "writing"
      BY <2>1, <3>1, <3>3 DEF WriteCounts
    <3>. QED BY <3>2, <3>3
  <2>2. CASE job'[x] # job[x]
    BY <2>2 DEF WriteCounts, MoveHasCause
  <2>. QED BY <2>1, <2>2
<1>. QED BY <1>2, <1>3 DEF CountsAreErrors

LEMMA CountsByPick ==
    ASSUME TypeInv, TypeInv', CountsAreErrors, NEW b \in Passes,
           NEW e \in pending[b], NEW place \in {"picking", "sending", "moving"},
           place = "moving" => e.retryCount >= MaxRetries, Pick(b, e, place)
    PROVE  CountsAreErrors'
<1>1. /\ e.m \in Messages /\ e.retryCount \in Nat /\ attempts[e.m] \in Nat
      /\ b \in Actors /\ attempts' = attempts /\ permanent' = permanent
      /\ file' = file
    BY DEF TypeInv, TypeOK, Actors, Pick, history, disk
<1>2. ASSUME NEW x \in Actors, x # b  PROVE job'[x] = job[x]
    BY <1>2 DEF Pick, TypeInv, TypeOK
<1>4. ASSUME place # "picking"
      PROVE  /\ job'[b].at = place /\ job'[b].about = e.m /\ ~job'[b].partial
  <2>1. job'[b] = JobOf(place, e.m)
    BY <1>1, <1>4 DEF Pick, TypeInv, TypeOK
  <2>. QED BY <2>1 DEF JobOf
<1>5. \/ job'[b] = job[b]
      \/ /\ job'[b].at \notin {"failing", "writing", "moving"}
         /\ job'[b].at = "sending" => ~job'[b].partial
      \/ MoveHasCause(b)' /\ job'[b].at = "moving"
  <2>1. CASE place = "picking"
    BY <1>1, <2>1 DEF Pick, TypeInv, TypeOK
  <2>2. CASE place = "sending"
    BY <1>4, <2>2
  <2>3. CASE place = "moving"
    <3>1. e.retryCount <= attempts[e.m]
      BY DEF CountsAreErrors, LoadCounts
    <3>2. attempts[e.m] >= MaxRetries
      BY <1>1, <2>3, <3>1, DeliveryAssumption
    <3>. QED BY <1>1, <1>4, <2>3, <3>2 DEF MoveHasCause, About
  <2>. QED BY <2>1, <2>2, <2>3
<1>6. \A n \in Messages : Counted(n)' <= Counted(n)
    BY <1>1 DEF Counted, TypeInv, TypeOK, Absent
<1>7. ASSUME NEW c \in Passes  PROVE LoadCounts(c)'
  <2>1. pending'[c] \subseteq pending[c]
    BY DEF Pick, TypeInv, TypeOK
  <2>. QED BY <1>1, <2>1 DEF LoadCounts, CountsAreErrors
<1>. QED BY <1>1, <1>2, <1>5, <1>6, <1>7, CountsBetween

LEMMA CountsByLoad ==
    ASSUME TypeInv, TypeInv', CountsAreErrors, NEW b \in Passes, Load(b)
    PROVE  CountsAreErrors'
<1>1. /\ attempts' = attempts /\ permanent' = permanent /\ file' = file
      /\ b \in Actors
    BY DEF Load, history, disk, Actors
<1>2. \A x \in Actors : job'[x] = job[x] \/ job'[x].at = "picking"
    BY <1>1, AfterGoto DEF Load
<1>3. \A n \in Messages : Counted(n)' <= Counted(n)
    BY <1>1 DEF Counted, TypeInv, TypeOK, Absent
<1>4. \A n \in Messages : file[n] # Absent => file[n] <= attempts[n]
  <2>. SUFFICES ASSUME NEW n \in Messages, file[n] # Absent
       PROVE file[n] <= attempts[n]
    OBVIOUS
  <2>1. file[n] + Cardinality(Debt(n)) <= attempts[n]
    BY DEF CountsAreErrors, Counts, Counted
  <2>. QED BY <2>1, DebtIs DEF TypeInv, TypeOK
<1>5. ASSUME NEW c \in Passes  PROVE LoadCounts(c)'
  <2>1. CASE c = b
    BY <1>1, <1>4, <2>1 DEF Load, LoadCounts, Entries, TypeInv, TypeOK
  <2>2. CASE c # b
    BY <1>1, <2>2 DEF Load, LoadCounts, CountsAreErrors, TypeInv, TypeOK
  <2>. QED BY <2>1, <2>2
<1>. QED BY <1>1, <1>2, <1>3, <1>5, CountsBetween

LEMMA CountsStep == TypeInv /\ CountsAreErrors /\ [Next]_vars => CountsAreErrors'
<1>. SUFFICES ASSUME TypeInv, TypeInv', CountsAreErrors, [Next]_vars
     PROVE CountsAreErrors'
    BY TypeStep
(* Steps that leave files, errors and what was loaded alone.               *)
<1>1. ASSUME \A x \in Actors : \/ job'[x] = job[x]
                               \/ job'[x].at \in {"done", "loading", "unqueued"}
                               \/ job'[x].at = "sending" /\ ~job'[x].partial,
             attempts' = attempts, permanent' = permanent,
             \A n \in Messages : Counted(n)' <= Counted(n),
             \A b \in Passes : pending'[b] \in {pending[b], {}}
      PROVE  CountsAreErrors'
  <2>1. \A b \in Passes : LoadCounts(b)'
    BY <1>1 DEF CountsAreErrors, LoadCounts
  <2>. QED BY <1>1, <2>1, CountsBetween
<1>2. file' = file => \A n \in Messages : Counted(n)' <= Counted(n)
    BY DEF Counted, TypeInv, TypeOK, Absent
<1>3. ASSUME NEW m \in Messages, NEW ok \in BOOLEAN, Enqueue(m, ok)
      PROVE  CountsAreErrors'
  <2>1. /\ m \in Actors /\ \A x \in Actors : x # m => job'[x] = job[x]
        /\ job'[m].at \in {"sending", "unqueued"} /\ job'[m].partial = job[m].partial
    BY <1>3, AfterGoto DEF Enqueue, Actors
  <2>2. ~job[m].partial
    <3>1. job[m] = JobOf("idle", m)
      BY <1>3, <2>1 DEF Enqueue, TypeInv, Positions
    <3>2. ~JobOf("idle", m).partial
      BY DEF JobOf
    <3>. QED BY <3>1, <3>2
  <2>3. \A n \in Messages : Counted(n)' <= Counted(n)
    BY <1>3 DEF Enqueue, Counted, TypeInv, TypeOK, Absent
  <2>. QED BY <1>1, <1>3, <2>1, <2>2, <2>3 DEF Enqueue
<1>4. ASSUME NEW m \in Messages, Abort(m)  PROVE CountsAreErrors'
    BY <1>1, <1>2, <1>4 DEF Abort, history, disk
<1>5. ASSUME NEW b \in Passes, EndPass(b)  PROVE CountsAreErrors'
  <2>1. \A x \in Actors : job'[x] = job[x] \/ job'[x].at = "done"
    BY <1>5, AfterGoto DEF EndPass, Actors
  <2>2. \A c \in Passes : pending'[c] \in {pending[c], {}}
    BY <1>5 DEF EndPass, TypeInv, TypeOK
  <2>. QED BY <1>1, <1>2, <1>5, <2>1, <2>2 DEF EndPass, history, disk
<1>6. CASE Restart
  <2>1. \A x \in Actors : job'[x] = job[x] \/ job'[x].at = "loading"
    BY <1>6 DEF Restart, TypeInv, TypeOK
  <2>. QED BY <1>1, <1>2, <1>6, <2>1 DEF Restart, history, disk
<1>7. CASE Crash
  <2>1. \A x \in Actors : job'[x] = job[x] \/ job'[x].at \in {"loading", "done"}
    BY <1>7 DEF Crash, JobOf
  <2>2. \A c \in Passes : pending'[c] \in {pending[c], {}}
    BY <1>7 DEF Crash
  <2>. QED BY <1>1, <1>2, <1>7, <2>1, <2>2 DEF Crash, history, disk
<1>8. CASE UNCHANGED vars
    BY <1>1, <1>2, <1>8 DEF vars, history, disk
<1>9. ASSUME NEW b \in Passes, NEW e \in pending[b],
             PickSpent(b, e) \/ PickEligible(b, e) \/ Defer(b, e)
      PROVE  CountsAreErrors'
    BY <1>9, CountsByPick DEF PickSpent, PickEligible, Defer
<1>. QED BY <1>3, <1>4, <1>5, <1>6, <1>7, <1>8, <1>9, CountsByDeliver, CountsByLoad
         DEF Next

LEMMA CauseStep == TypeInv /\ CauseInv /\ [Next]_vars => CauseInv'
<1>. SUFFICES ASSUME TypeInv, TypeInv', CauseInv, [Next]_vars PROVE CauseInv'
    BY TypeStep
<1>1. CountsAreErrors'
    BY CountsStep DEF CauseInv
<1>. DEFINE Cause(m) == m \in permanent \/ attempts[m] >= MaxRetries
<1>2. ASSUME NEW m \in Messages, Cause(m)  PROVE Cause(m)'
  <2>1. /\ attempts[m] \in Nat /\ attempts'[m] \in Nat
        /\ attempts[m] <= attempts'[m] /\ permanent \subseteq permanent'
    <3>1. attempts[m] \in Nat /\ attempts'[m] \in Nat
      BY DEF TypeInv, TypeOK
    <3>2. ASSUME NEW n, attempts' = [attempts EXCEPT ![n] = @ + 1]
          PROVE  attempts[m] <= attempts'[m]
      BY <3>1, <3>2 DEF TypeInv, TypeOK
    <3>3. ASSUME NEW a \in Actors, Deliver(a)
          PROVE  /\ permanent \subseteq permanent'
                 /\ \/ attempts' = attempts
                    \/ \E n : attempts' = [attempts EXCEPT ![n] = @ + 1]
      BY <3>3
         DEF Deliver, ChannelMissing, PayloadSent, PayloadCancelled,
             PayloadAborted, ChannelFails, Close, MirrorFails, Acknowledge,
             FailRead, FailWrite, MoveToFailed, PayloadFails, history
    <3>4. \/ \E a \in Actors : Deliver(a)
          \/ UNCHANGED <<attempts, permanent>>
      BY DEF Next, Enqueue, Abort, Load, EndPass, PickSpent, PickEligible,
             Defer, Pick, Restart, Crash, history, vars
    <3>. QED BY <3>1, <3>2, <3>3, <3>4
  <2>. QED BY <1>2, <2>1, DeliveryAssumption
<1>3. ASSUME NEW m \in Messages, failed'[m] # Absent  PROVE Cause(m)'
  <2>1. CASE failed'[m] = failed[m]
    BY <1>2, <1>3, <2>1 DEF CauseInv, FailedHasCause
  <2>2. CASE failed'[m] # failed[m]
    <3>1. PICK a \in Actors : MoveToFailed(a)
      BY <2>2 DEF Next, Enqueue, Abort, Load, EndPass, PickSpent, PickEligible,
             Defer, Pick, Restart, Crash, disk, vars,
             Deliver, ChannelMissing, PayloadSent, PayloadCancelled,
             PayloadAborted, ChannelFails, Close, MirrorFails, Acknowledge,
             FailRead, FailWrite
    <3>2. m = About(a) /\ job[a].at = "moving"
      BY <2>2, <3>1 DEF MoveToFailed, TypeInv, TypeOK
    <3>3. Cause(m)
      BY <3>2 DEF CauseInv, CountsAreErrors, MoveHasCause
    <3>. QED BY <1>2, <3>3
  <2>. QED BY <2>1, <2>2
<1>. QED BY <1>1, <1>3 DEF CauseInv, FailedHasCause

(* What lies under failed/ met a permanent error or MAX_RETRIES errors, for *)
(* any number of retries and any actors that rewrite its file at once.     *)
THEOREM GivenUpWithCause == Spec => []FailedHasCause
<1>1. Init => CauseInv
  <2>. SUFFICES ASSUME Init PROVE CauseInv
    OBVIOUS
  <2>1. \A a \in Actors : job[a].at \in {"loading", "idle"}
    BY DEF Init, JobOf
  <2>2. \A m \in Messages : Debt(m) = {}
    BY <2>1 DEF Debt
  <2>3. \A m \in Messages : Counts(m)
    <3>1. \A m \in Messages : Counted(m) = 0 /\ attempts[m] = 0
      BY DEF Init, Counted
    <3>2. \A m \in Messages : Cardinality(Debt(m)) = 0
      BY <2>2, FS_EmptySet
    <3>. QED BY <3>1, <3>2 DEF Counts
  <2>. QED BY <2>1, <2>3
       DEF Init, CauseInv, CountsAreErrors, WriteCounts, MoveHasCause,
           LoadCounts, FailedHasCause
<1>2. CauseInv => FailedHasCause
    BY DEF CauseInv
<1>. QED BY <1>1, <1>2, TypeInit, TypeStep, CauseStep, PTL DEF Spec

-----------------------------------------------------------------------------
(* Sends are bounded                                                       *)

SendInv == EntriesOnce /\ SendsBounded

(* A step of a delivery: it stays at sending, with its next payload or     *)
(* without, or leaves it; the payload it sends is the one it is at.        *)
LEMMA DeliverMoves ==
    ASSUME TypeInv, NEW a \in Actors, Deliver(a)
    PROVE  /\ pending' = pending /\ boots' = boots
           /\ \/ job'[a].at \notin {"idle", "sending", "unqueued", "loading"}
              \/ /\ Sending(a) /\ job'[a].at = job[a].at
                 /\ job'[a].about = job[a].about /\ job'[a].i = job[a].i + 1
           /\ \/ sent' = sent
              \/ /\ Sending(a) /\ job[a].i <= Payloads[About(a)]
                 /\ sent' = [sent EXCEPT ![Payload(a)] = @ + 1]
<1>1. pending' = pending /\ boots' = boots
    BY DEF Deliver, ChannelMissing, PayloadSent, PayloadCancelled,
           PayloadAborted, ChannelFails, Close, MirrorFails, Acknowledge,
           FailRead, FailWrite, MoveToFailed
<1>2. \/ sent' = sent
      \/ /\ Sending(a) /\ job[a].i <= Payloads[About(a)]
         /\ sent' = [sent EXCEPT ![Payload(a)] = @ + 1]
    BY DEF Deliver, ChannelMissing, PayloadSent, PayloadCancelled,
           PayloadAborted, ChannelFails, Close, MirrorFails, Acknowledge,
           FailRead, FailWrite, MoveToFailed, history, Unaborted
<1>. DEFINE Left == job'[a].at \notin {"idle", "sending", "unqueued", "loading"}
            Went == /\ Sending(a) /\ job'[a].at = job[a].at
                    /\ job'[a].about = job[a].about /\ job'[a].i = job[a].i + 1
<1>3. Left \/ Went
  <2>1. ASSUME NEW any \in BOOLEAN, NEW partial \in BOOLEAN, Sending(a),
               NextPayload(a, any, partial)
        PROVE  Went
    BY <2>1, AfterNextPayload
  <2>2. ASSUME NEW error, Sending(a), Thrown(a, error)  PROVE Left
    BY <2>2, AfterThrown
  <2>3. ASSUME NEW error, Sending(a), PayloadFails(a, error)  PROVE Left \/ Went
    <3>1. (Live(a) /\ options[About(a)].onError) \in BOOLEAN
      OBVIOUS
    <3>. QED BY <2>1, <2>2, <2>3, <3>1 DEF PayloadFails
  <2>4. CASE ChannelMissing(a) \/ MirrorFails(a)
    BY <2>2, <2>4 DEF ChannelMissing, MirrorFails, AllTried
  <2>5. CASE PayloadSent(a) \/ PayloadCancelled(a)
    BY <2>1, <2>5 DEF PayloadSent, PayloadCancelled, Unaborted
  <2>6. ASSUME NEW error, NEW reached, ChannelFails(a, error, reached)
        PROVE  Left \/ Went
    BY <2>3, <2>6 DEF ChannelFails, Unaborted
  <2>7. CASE PayloadAborted(a)
    BY <2>3, <2>7 DEF PayloadAborted
  <2>8. CASE Close(a)
    BY <2>8, AfterGoto DEF Close
  <2>9. CASE Acknowledge(a) \/ FailWrite(a) \/ MoveToFailed(a)
    BY <2>9, AfterThrough DEF Acknowledge, FailWrite, MoveToFailed
  <2>10. CASE FailRead(a)
    <3>1. CASE file[About(a)] = Absent
      BY <2>10, <3>1, AfterThrough DEF FailRead
    <3>2. CASE file[About(a)] # Absent
      BY <2>10, <3>2 DEF FailRead, TypeInv, TypeOK
    <3>. QED BY <3>1, <3>2
  <2>. QED BY <2>4, <2>5, <2>6, <2>7, <2>8, <2>9, <2>10 DEF Deliver
<1>. QED BY <1>1, <1>2, <1>3

LEMMA AbleIs ==
    ASSUME NEW p
    PROVE  /\ IsFiniteSet(Able(p)) /\ Cardinality(Able(p)) \in Nat
           /\ IsFiniteSet(Able(p)') /\ Cardinality(Able(p)') \in Nat
<1>1. Able(p) \subseteq Actors /\ Able(p)' \subseteq Actors
    BY DEF Able
<1>. QED BY <1>1, Kinds, FS_Subset, FS_CardinalityType

LEMMA SendsByDeliver ==
    ASSUME TypeInv, TypeInv', SendInv, NEW a \in Actors, Deliver(a)
    PROVE  SendInv'
<1>1. \A x \in Actors : x # a => job'[x] = job[x]
    BY OthersStay
<1>2. pending' = pending /\ boots' = boots
    BY DeliverMoves
<1>3. EntriesOnce'
  <2>. SUFFICES ASSUME NEW b \in Passes, job'[b].at = "sending"
       PROVE  job[b].at = "sending" /\ job'[b].about = job[b].about
    BY <1>2 DEF SendInv, EntriesOnce, About
  <2>. QED BY <1>1, DeliverMoves DEF Actors
<1>4. ASSUME NEW p \in AllPayloads  PROVE Able(p)' \subseteq Able(p)
  <2>1. a \in Able(p)' => a \in Able(p)
    <3>1. CASE job'[a].at \notin {"idle", "sending", "unqueued", "loading"}
      BY <1>2, <3>1 DEF Able, Sending
    <3>2. CASE /\ Sending(a) /\ job'[a].at = job[a].at
               /\ job'[a].about = job[a].about /\ job'[a].i = job[a].i + 1
      <4>1. job[a].i \in Nat /\ p[2] \in Int
        BY DeliveryAssumption DEF TypeInv, TypeOK, AllPayloads
      <4>. QED BY <1>2, <3>2, <4>1 DEF Able, Sending, About
    <3>. QED BY <3>1, <3>2, DeliverMoves
  <2>2. ASSUME NEW x \in Able(p)', x # a  PROVE x \in Able(p)
    BY <1>1, <1>2, <2>2 DEF Able, Sending, About
  <2>. QED BY <2>1, <2>2
<1>5. ASSUME sent' = [sent EXCEPT ![Payload(a)] = @ + 1], Sending(a)
      PROVE  a \in Able(Payload(a)) /\ \A p : p = Payload(a) => a \notin Able(p)'
  <2>1. /\ About(a) \in Messages /\ job[a].i \in Nat
        /\ job[a].at \in {"sending", "unqueued"}
        /\ job[a].at = "unqueued" => a \in Messages
    BY <1>5, SenderIs DEF Sending, AboutMessage, Live
  <2>2. a \in Able(Payload(a))
    BY <1>5, <2>1 DEF Able, Payload
  <2>3. a \in Passes => \A e \in pending'[a] : e.m # About(a)
    BY <1>2, <2>1, DeliveryAssumption DEF SendInv, EntriesOnce
  <2>4. \/ job'[a].at \notin {"idle", "sending", "unqueued", "loading"}
        \/ /\ job'[a].at = job[a].at /\ job'[a].i = job[a].i + 1
    BY DeliverMoves
  <2>5. ASSUME NEW p, p = Payload(a)  PROVE a \notin Able(p)'
    <3>1. p[1] = About(a) /\ p[2] = job[a].i
      BY <2>5 DEF Payload
    <3>2. ~(job'[a].at \in {"idle", "loading"})
      BY <2>1, <2>4
    <3>3. ~(job'[a].at \in {"sending", "unqueued"} /\ job'[a].i <= p[2])
      BY <2>1, <2>4, <3>1
    <3>. QED BY <2>3, <3>1, <3>2, <3>3 DEF Able, Sending
  <2>. QED BY <2>2, <2>5
<1>6. SendsBounded'
  <2>. SUFFICES ASSUME NEW p \in AllPayloads
       PROVE  sent'[p] + Cardinality(Able(p)') <= 1 + boots'
    BY DEF SendsBounded
  <2>1. /\ sent[p] + Cardinality(Able(p)) <= 1 + boots
        /\ sent[p] \in Nat /\ boots \in Nat
        /\ Cardinality(Able(p)') <= Cardinality(Able(p))
    BY <1>4, AbleIs, SetSteps, Kinds DEF SendInv, SendsBounded, TypeInv, TypeOK
  <2>2. CASE sent'[p] = sent[p]
    BY <1>2, <2>1, <2>2, AbleIs
  <2>3. CASE sent'[p] # sent[p]
    <3>1. /\ sent' = [sent EXCEPT ![Payload(a)] = @ + 1] /\ Sending(a)
      BY <2>3, DeliverMoves
    <3>2. p = Payload(a) /\ sent'[p] = sent[p] + 1
      BY <2>3, <3>1 DEF TypeInv, TypeOK
    <3>3. a \in Able(p) /\ a \notin Able(p)'
      BY <1>5, <3>1, <3>2
    <3>4. Cardinality(Able(p)') <= Cardinality(Able(p)) - 1
      BY <1>4, <3>3, AbleIs, SetSteps
    <3>. QED BY <1>2, <2>1, <3>2, <3>4, AbleIs
  <2>. QED BY <2>2, <2>3
<1>. QED BY <1>3, <1>6 DEF SendInv

(* Steps that send nothing, and give at most a new start leave to send.    *)
LEMMA SendsBetween ==
    ASSUME TypeInv, TypeInv', SendsBounded, sent' = sent,
           \/ boots' = boots /\ \A p \in AllPayloads : Able(p)' \subseteq Able(p)
           \/ /\ boots' = boots + 1
              /\ \E c : \A p \in AllPayloads : Able(p)' \subseteq Able(p) \cup {c}
    PROVE  SendsBounded'
<1>. SUFFICES ASSUME NEW p \in AllPayloads
     PROVE  sent[p] + Cardinality(Able(p)') <= 1 + boots'
    BY DEF SendsBounded
<1>1. /\ sent[p] + Cardinality(Able(p)) <= 1 + boots
      /\ sent[p] \in Nat /\ boots \in Nat
    BY Kinds DEF SendsBounded, TypeInv, TypeOK
<1>2. CASE boots' = boots /\ Able(p)' \subseteq Able(p)
  <2>1. Cardinality(Able(p)') <= Cardinality(Able(p))
    BY <1>2, AbleIs, SetSteps
  <2>. QED BY <1>1, <1>2, <2>1, AbleIs
<1>3. ASSUME NEW c, boots' = boots + 1, Able(p)' \subseteq Able(p) \cup {c}
      PROVE  sent[p] + Cardinality(Able(p)') <= 1 + boots'
  <2>1. Cardinality(Able(p)') <= Cardinality(Able(p)) + 1
    BY <1>3, AbleIs, SetSteps
  <2>. QED BY <1>1, <1>3, <2>1, AbleIs
<1>. QED BY <1>2, <1>3

LEMMA SendsByPick ==
    ASSUME TypeInv, TypeInv', SendInv, NEW b \in Passes, NEW e \in pending[b],
           NEW place \in {"picking", "sending", "moving"}, Pick(b, e, place)
    PROVE  SendInv'
<1>1. /\ b \in Actors /\ sent' = sent /\ boots' = boots
      /\ job[b].at = "picking" /\ pending'[b] = pending[b] \ {e}
      /\ \A c \in Passes : c # b => pending'[c] = pending[c]
      /\ \A x \in Actors : x # b => job'[x] = job[x]
    BY DEF Pick, history, Actors, TypeInv, TypeOK
<1>2. job'[b] = IF place = "picking" THEN job[b] ELSE JobOf(place, e.m)
    BY <1>1 DEF Pick, TypeInv, TypeOK
<1>3. job'[b].at = place /\ (place # "picking" => job'[b].about = e.m)
    BY <1>1, <1>2 DEF JobOf
<1>4. EntriesOnce'
  <2>1. ASSUME NEW c \in Passes, NEW f \in pending'[c], NEW g \in pending'[c],
               f.m = g.m
        PROVE  f = g
    BY <1>1, <2>1 DEF SendInv, EntriesOnce
  <2>2. ASSUME NEW c \in Passes, job'[c].at = "sending", NEW f \in pending'[c]
        PROVE  f.m # About(c)'
    <3>1. CASE c = b
      BY <1>1, <1>3, <2>2, <3>1 DEF SendInv, EntriesOnce, About
    <3>2. CASE c # b
      BY <1>1, <2>2, <3>2 DEF SendInv, EntriesOnce, About, Actors
    <3>. QED BY <3>1, <3>2
  <2>. QED BY <2>1, <2>2 DEF EntriesOnce
<1>5. ASSUME NEW p \in AllPayloads  PROVE Able(p)' \subseteq Able(p)
  <2>1. b \in Able(p)' => b \in Able(p)
    BY <1>1, <1>3 DEF Able, Sending, About
  <2>2. ASSUME NEW x \in Able(p)', x # b  PROVE x \in Able(p)
    BY <1>1, <2>2 DEF Able, Sending, About
  <2>. QED BY <2>1, <2>2
<1>. QED BY <1>1, <1>4, <1>5, SendsBetween DEF SendInv

LEMMA SendStep == TypeInv /\ SendInv /\ [Next]_vars => SendInv'
<1>. SUFFICES ASSUME TypeInv, TypeInv', SendInv, [Next]_vars PROVE SendInv'
    BY TypeStep
(* Steps by which an actor ends, stays or begins as it was.                *)
<1>1. ASSUME NEW X,
             \A x \in Actors :
                \/ job'[x] = job[x]
                \/ x \in X /\ job'[x].at = "loading"
                \/ job'[x].at \in {"done", "acking"}
                \/ /\ job[x] = JobOf("idle", x) /\ x \in Messages
                   /\ job'[x].at \in {"sending", "unqueued"}
                   /\ job'[x].about = x,
             \A b \in Passes : pending'[b] \in {pending[b], {}},
             NEW p \in AllPayloads
      PROVE  Able(p)' \subseteq Able(p) \cup X
  <2>. SUFFICES ASSUME NEW x \in Able(p)', x \notin X PROVE x \in Able(p)
    OBVIOUS
  <2>1. CASE job'[x] = job[x]
    BY <1>1, <2>1 DEF Able, Sending, About
  <2>2. CASE job'[x].at \in {"done", "acking"}
    BY <1>1, <2>2 DEF Able, Sending
  <2>3. CASE /\ job[x] = JobOf("idle", x) /\ x \in Messages
             /\ job'[x].at \in {"sending", "unqueued"} /\ job'[x].about = x
    <3>1. job[x].at = "idle" /\ x \notin Passes
      BY <2>3, DeliveryAssumption DEF JobOf
    <3>2. x = p[1]
      BY <2>3, <3>1 DEF Able, Sending, About
    <3>. QED BY <3>1, <3>2 DEF Able
  <2>. QED BY <1>1, <2>1, <2>2, <2>3 DEF Able
<1>2. ASSUME \A b \in Passes :
                \/ pending'[b] = {}
                \/ /\ pending'[b] = pending[b]
                   /\ job'[b] = job[b] \/ job'[b].at # "sending"
      PROVE  EntriesOnce'
    BY <1>2 DEF SendInv, EntriesOnce, About
<1>3. ASSUME NEW m \in Messages, NEW ok \in BOOLEAN, Enqueue(m, ok)
      PROVE  SendInv'
  <2>1. /\ m \in Actors /\ \A x \in Actors : x # m => job'[x] = job[x]
        /\ job'[m].at \in {"sending", "unqueued"} /\ job'[m].about = job[m].about
    BY <1>3, AfterGoto DEF Enqueue, Actors
  <2>2. job[m] = JobOf("idle", m) /\ job[m].about = m
    BY <1>3, <2>1 DEF Enqueue, TypeInv, Positions, Live, About
  <2>3. EntriesOnce'
    BY <1>2, <1>3, <2>1, DeliveryAssumption DEF Enqueue, Actors
  <2>4. \A p \in AllPayloads : Able(p)' \subseteq Able(p) \cup {}
    BY <1>1, <1>3, <2>1, <2>2 DEF Enqueue
  <2>. QED BY <1>3, <2>3, <2>4, SendsBetween DEF Enqueue, SendInv
<1>4. ASSUME NEW m \in Messages, Abort(m)  PROVE SendInv'
  <2>1. EntriesOnce'
    BY <1>2, <1>4 DEF Abort
  <2>2. \A p \in AllPayloads : Able(p)' \subseteq Able(p) \cup {}
    BY <1>1, <1>4 DEF Abort
  <2>. QED BY <1>4, <2>1, <2>2, SendsBetween DEF Abort, SendInv, history
<1>5. ASSUME NEW b \in Passes, Load(b)  PROVE SendInv'
  <2>1. /\ b \in Actors /\ \A x \in Actors : x # b => job'[x] = job[x]
        /\ job'[b].at = "picking" /\ job[b].at = "loading"
    BY <1>5, AfterGoto DEF Load, Actors
  <2>2. /\ \A c \in Passes : c # b => pending'[c] = pending[c]
        /\ pending'[b] = Entries
    BY <1>5 DEF Load, TypeInv, TypeOK
  <2>3. \A e, f \in Entries : e.m = f.m => e = f
    BY DEF Entries
  <2>4. EntriesOnce'
    BY <2>1, <2>2, <2>3 DEF SendInv, EntriesOnce, About, Actors
  <2>5. ASSUME NEW p \in AllPayloads, NEW x \in Able(p)'  PROVE x \in Able(p)
    BY <2>1, <2>2, <2>5 DEF Able, Sending, About
  <2>. QED BY <1>5, <2>4, <2>5, SendsBetween DEF Load, SendInv, history
<1>6. ASSUME NEW b \in Passes, EndPass(b)  PROVE SendInv'
  <2>1. \A x \in Actors : job'[x] = job[x] \/ job'[x].at = "done"
    BY <1>6, AfterGoto DEF EndPass, Actors
  <2>2. \A c \in Passes : pending'[c] \in {pending[c], {}}
    BY <1>6 DEF EndPass, TypeInv, TypeOK
  <2>3. EntriesOnce'
    BY <1>2, <2>1, <2>2 DEF Actors
  <2>4. \A p \in AllPayloads : Able(p)' \subseteq Able(p) \cup {}
    BY <1>1, <2>1, <2>2
  <2>. QED BY <1>6, <2>3, <2>4, SendsBetween DEF EndPass, SendInv, history
<1>7. CASE Restart
  <2>1. \A x \in Actors : \/ job'[x] = job[x]
                          \/ x \in {boots + 1} /\ job'[x].at = "loading"
    BY <1>7 DEF Restart, TypeInv, TypeOK
  <2>2. EntriesOnce'
    BY <1>2, <1>7, <2>1 DEF Restart, Actors
  <2>3. \A p \in AllPayloads : Able(p)' \subseteq Able(p) \cup {boots + 1}
    BY <1>1, <1>7, <2>1 DEF Restart
  <2>. QED BY <1>7, <2>2, <2>3, SendsBetween DEF Restart, SendInv, history
<1>8. CASE Crash
  <2>1. \A x \in Actors : \/ job'[x] = job[x]
                          \/ x \in {boots + 1} /\ job'[x].at = "loading"
                          \/ job'[x].at = "done"
    BY <1>8 DEF Crash, JobOf
  <2>2. \A c \in Passes : pending'[c] = {}
    BY <1>8 DEF Crash
  <2>3. EntriesOnce'
    BY <1>2, <2>2
  <2>4. \A p \in AllPayloads : Able(p)' \subseteq Able(p) \cup {boots + 1}
    BY <1>1, <2>1, <2>2
  <2>. QED BY <1>8, <2>3, <2>4, SendsBetween DEF Crash, SendInv, history
<1>9. CASE UNCHANGED vars
  <2>1. EntriesOnce'
    BY <1>2, <1>9 DEF vars
  <2>2. \A p \in AllPayloads : Able(p)' \subseteq Able(p) \cup {}
    BY <1>1, <1>9 DEF vars
  <2>. QED BY <1>9, <2>1, <2>2, SendsBetween DEF vars, SendInv, history
<1>10. ASSUME NEW b \in Passes, NEW e \in pending[b],
              PickSpent(b, e) \/ PickEligible(b, e) \/ Defer(b, e)
       PROVE  SendInv'
    BY <1>10, SendsByPick DEF PickSpent, PickEligible, Defer
<1>. QED BY <1>3, <1>4, <1>5, <1>6, <1>7, <1>8, <1>9, <1>10, SendsByDeliver
         DEF Next

(* A payload is sent at most once by its live delivery and once by the     *)
(* pass of each start, for any interleaving of passes, crashes and faults. *)
THEOREM SendsStayBounded == Spec => []ResendsBounded
<1>1. Init => SendInv
  <2>. SUFFICES ASSUME Init PROVE SendInv
    OBVIOUS
  <2>1. ASSUME NEW p \in AllPayloads  PROVE sent[p] + Cardinality(Able(p)) <= 1 + boots
    <3>1. Able(p) \subseteq {p[1]} \cup {1}
      BY DEF Init, Able, Sending, JobOf
    <3>2. IsFiniteSet({p[1]}) /\ Cardinality({p[1]}) = 1
      BY FS_Singleton
    <3>3. Cardinality(Able(p)) <= 2 /\ Cardinality(Able(p)) \in Nat
      <4>1. /\ Cardinality(Able(p)) <= Cardinality({p[1]}) + 1
            /\ Cardinality(Able(p)) \in Nat
        BY <3>1, <3>2, SetSteps, Zenon
      <4>. QED BY <3>2, <4>1
    <3>. QED BY <3>3 DEF Init
  <2>. QED BY <2>1 DEF Init, SendInv, EntriesOnce, SendsBounded, JobOf
<1>2. TypeInv /\ SendInv => ResendsBounded
  <2>. SUFFICES ASSUME TypeInv, SendInv, NEW p \in AllPayloads
       PROVE  sent[p] <= 1 + boots
    BY DEF ResendsBounded
  <2>. QED BY AbleIs, Kinds DEF SendInv, SendsBounded, TypeInv, TypeOK
<1>. QED BY <1>1, <1>2, TypeInit, TypeStep, SendStep, PTL DEF Spec

=============================================================================
