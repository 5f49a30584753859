------------------------------ MODULE EventLog ------------------------------
(***************************************************************************)
(* The numbering of a run's workflow_event rows.  append_workflow_event    *)
(* reads the row with the greatest seq and inserts one with the next seq.  *)
(* For most events the read is a statement of its own, so two processes    *)
(* that append to the same run may read the same row.  That goes for the   *)
(* event of the run's creation too, a state_transition from no state: the  *)
(* row of the run is committed before, so a POST /advance may find it and  *)
(* be numbered first or alike.  For the event of a move it is different:   *)
(* the orchestrator has changed current_state, the session flushes that    *)
(* UPDATE before the read, and the store's write lock is held from there   *)
(* to the commit of the insert.                                            *)
(*                                                                         *)
(* One run; the writers are the worker and the request threads of the API. *)
(***************************************************************************)
EXTENDS Naturals, Sequences, FiniteSets

CONSTANTS
    Writers,
    MaxEvents   \* bound: events appended in a behaviour

ASSUME EventLogAssumption == MaxEvents \in Nat

VARIABLES
    stream,     \* the rows in commit order: seq, kind and writer
    next        \* next[w]: the seq w will insert, 0 when it has read none

vars == <<stream, next>>

(* "creation" and "move" are the event type state_transition, without and  *)
(* with a from_state.                                                      *)
Kinds == {"creation", "move", "other"}

Init ==
    /\ stream = <<>>
    /\ next = [w \in Writers |-> 0]

Seqs == {stream[i].seq : i \in DOMAIN stream}

(* What a numbering by the count of rows would give.                       *)
NextSeqByCount == 1 + Len(stream)

(* ORDER BY seq DESC LIMIT 1                                               *)
LastSeq == CHOOSE last \in Seqs : \A n \in Seqs : n <= last

(* last.seq + 1 if last else 1                                             *)
NextSeq ==
    IF stream = <<>> THEN 1
    ELSE LastSeq + 1

Append1(w, kind, seq) ==
    stream' = Append(stream, [seq |-> seq, kind |-> kind, writer |-> w])

ReadLast(w) ==
    /\ next[w] = 0
    /\ Len(stream) < MaxEvents
    /\ next' = [next EXCEPT ![w] = NextSeq]
    /\ UNCHANGED stream

(* A run is created once.                                                  *)
Insert(w, kind) ==
    /\ next[w] # 0
    /\ kind = "creation" => \A i \in DOMAIN stream : stream[i].kind # "creation"
    /\ Append1(w, kind, next[w])
    /\ next' = [next EXCEPT ![w] = 0]

(* A move numbered before its transaction holds the write lock.            *)
AppendTransitionLate(w) ==
    /\ next[w] # 0
    /\ Append1(w, "move", next[w])
    /\ next' = [next EXCEPT ![w] = 0]

(* append_workflow_event as Orchestrator.transition calls it.              *)
(* The writer's own read, for another event, is never pending here.        *)
AppendTransition(w) ==
    /\ next[w] = 0
    /\ Len(stream) < MaxEvents
    /\ Append1(w, "move", NextSeq)
    /\ UNCHANGED next

(* The writer's process stops between the read and the insert.             *)
Crash(w) ==
    /\ next[w] # 0
    /\ next' = [next EXCEPT ![w] = 0]
    /\ UNCHANGED stream

Next ==
    \E w \in Writers :
        \/ ReadLast(w) \/ AppendTransition(w) \/ Crash(w)
        \/ \E kind \in {"creation", "other"} : Insert(w, kind)

Spec == Init /\ [][Next]_vars

-----------------------------------------------------------------------------

(* The type of the state.                                                  *)
TypeOK ==
    /\ stream \in Seq([seq : Nat \ {0}, kind : Kinds, writer : Writers])
    /\ next \in [Writers -> Nat]

(* Racing writers may give two events the same seq, but they never leave a *)
(* hole: the numbers in use are 1..n, so a reader that has seen n of them  *)
(* has seen every number below.                                            *)
SeqsHaveNoHoles == \A n \in Seqs : \A m \in 1..n : m \in Seqs

(* A move is numbered above every event committed before it: ordered by    *)
(* seq, as GET /workflows/{id} does, the moves of a run appear in the      *)
(* order they were made.  It says nothing of the event of the creation,    *)
(* which may share the number of a move made meanwhile or come after it.   *)
TransitionsInOrder ==
    \A i, j \in DOMAIN stream :
        (i < j /\ stream[j].kind = "move") =>
            stream[i].seq < stream[j].seq

(* Events that share a seq are of different writers, so at most as many    *)
(* share one as there are writers.                                         *)
SharersDiffer ==
    \A i, j \in DOMAIN stream :
        (stream[i].seq = stream[j].seq /\ stream[i].writer = stream[j].writer)
            => i = j
=============================================================================
