--------------------------- MODULE EventLogProofs ---------------------------
(***************************************************************************)
(* The numbering of module EventLog, for every set of writers and every    *)
(* length of the stream.  The inductive invariant: the numbers in use are  *)
(* 1..m for some m, a number that was read and not yet used is at most     *)
(* m + 1, and it is above every number its writer has used.                *)
(***************************************************************************)
EXTENDS EventLog, TLAPS

Numbered(m) == Seqs = 1..m /\ \A w \in Writers : next[w] \in 0..(m + 1)

OwnNumbersBelow ==
    \A w \in Writers, i \in DOMAIN stream :
        (stream[i].writer = w /\ next[w] # 0) => stream[i].seq < next[w]

LogInv ==
    /\ TypeOK
    /\ \E m \in Nat : Numbered(m)
    /\ OwnNumbersBelow
    /\ TransitionsInOrder
    /\ SharersDiffer

Rows == [seq : Nat \ {0}, kind : Kinds, writer : Writers]

LEMMA NumbersAreNoHoles ==
    ASSUME NEW m \in Nat, Numbered(m)  PROVE SeqsHaveNoHoles
BY DEF Numbered, SeqsHaveNoHoles

(* NextSeq is one above the greatest number in use.                        *)
LEMMA NextSeqIs ==
    ASSUME TypeOK, NEW m \in Nat, Numbered(m)  PROVE NextSeq = m + 1
<1>1. CASE stream = <<>>
  <2>1. Seqs = {}
    BY <1>1 DEF Seqs
  <2>2. m = 0
    BY <2>1 DEF Numbered
  <2>. QED BY <1>1, <2>2 DEF NextSeq
<1>2. CASE stream # <<>>
  <2>1. 1 \in DOMAIN stream
    BY <1>2 DEF TypeOK
  <2>2. stream[1].seq \in 1..m
    BY <2>1 DEF Seqs, Numbered
  <2>3. m \in Seqs /\ \A n \in Seqs : n <= m
    BY <2>2 DEF Numbered
  <2>4. LastSeq = m
    <3>1. Seqs \subseteq Nat
      BY DEF Numbered
    <3>2. LastSeq \in Seqs /\ \A n \in Seqs : n <= LastSeq
      BY <2>3 DEF LastSeq
    <3>. QED BY <2>3, <3>1, <3>2
  <2>. QED BY <1>2, <2>4 DEF NextSeq
<1>. QED BY <1>1, <1>2

(* What a row appended to the stream changes.                              *)
LEMMA Appended ==
    ASSUME TypeOK, NEW w \in Writers, NEW kind \in Kinds, NEW n \in Nat \ {0},
           Append1(w, kind, n)
    PROVE  /\ stream' \in Seq(Rows)
           /\ Len(stream') = Len(stream) + 1
           /\ \A i \in 1..Len(stream) : stream'[i] = stream[i]
           /\ stream'[Len(stream) + 1] = [seq |-> n, kind |-> kind, writer |-> w]
           /\ Seqs' = Seqs \cup {n}
<1>1. stream \in Seq(Rows) /\ [seq |-> n, kind |-> kind, writer |-> w] \in Rows
  BY DEF TypeOK, Rows
<1>2. /\ stream' \in Seq(Rows)
      /\ Len(stream') = Len(stream) + 1
      /\ \A i \in 1..Len(stream) : stream'[i] = stream[i]
      /\ stream'[Len(stream) + 1] = [seq |-> n, kind |-> kind, writer |-> w]
  BY <1>1 DEF Append1
<1>3. DOMAIN stream' = 1..(Len(stream) + 1) /\ DOMAIN stream = 1..Len(stream)
  BY <1>1, <1>2
<1>4. Seqs' \subseteq Seqs \cup {n}
  BY <1>1, <1>2, <1>3 DEF Seqs
<1>5. Seqs \cup {n} \subseteq Seqs'
  BY <1>1, <1>2, <1>3 DEF Seqs
<1>. QED BY <1>2, <1>4, <1>5

LEMMA ReadLastKeeps ==
    ASSUME LogInv, NEW w \in Writers, ReadLast(w)  PROVE LogInv'
<1>1. PICK m \in Nat : Numbered(m)
  BY DEF LogInv
<1>2. next' = [next EXCEPT ![w] = m + 1] /\ UNCHANGED stream
  BY <1>1, NextSeqIs DEF LogInv, ReadLast
<1>3. TypeOK' /\ UNCHANGED Seqs
  BY <1>2 DEF LogInv, TypeOK, Seqs
<1>4. Numbered(m)'
  BY <1>1, <1>2, <1>3 DEF Numbered, LogInv, TypeOK
<1>5. OwnNumbersBelow'
  <2>1. \A i \in DOMAIN stream : stream[i].seq \in 1..m
    BY <1>1 DEF Numbered, Seqs
  <2>2. next \in [Writers -> Nat]
    BY DEF LogInv, TypeOK
  <2>. QED BY <1>2, <2>1, <2>2 DEF LogInv, OwnNumbersBelow
<1>6. TransitionsInOrder' /\ SharersDiffer'
  BY <1>2 DEF LogInv, TransitionsInOrder, SharersDiffer
<1>. QED BY <1>3, <1>4, <1>5, <1>6 DEF LogInv

LEMMA InsertKeeps ==
    ASSUME LogInv, NEW w \in Writers, NEW kind \in {"creation", "other"},
           Insert(w, kind)
    PROVE  LogInv'
<1> DEFINE n == next[w]
<1>1. PICK m \in Nat : Numbered(m)
  BY DEF LogInv
<1>2. n \in 1..(m + 1) /\ Append1(w, kind, n) /\ kind \in Kinds
  BY <1>1 DEF Insert, Numbered, Kinds
<1>3. /\ stream' \in Seq(Rows)
      /\ Len(stream') = Len(stream) + 1
      /\ \A i \in 1..Len(stream) : stream'[i] = stream[i]
      /\ stream'[Len(stream) + 1] = [seq |-> n, kind |-> kind, writer |-> w]
      /\ Seqs' = Seqs \cup {n}
  BY <1>2, Appended DEF LogInv
<1>4. next' = [next EXCEPT ![w] = 0] /\ next \in [Writers -> Nat]
  BY DEF Insert, LogInv, TypeOK
<1>5. TypeOK'
  BY <1>3, <1>4 DEF TypeOK, Rows
<1>6. \E k \in Nat : Numbered(k)'
  <2>1. /\ Seqs' = (1..m) \cup {n}
        /\ \A v \in Writers : next'[v] \in 0..(m + 1)
    BY <1>1, <1>3, <1>4 DEF Numbered
  <2>2. CASE n = m + 1
    BY <1>2, <2>1, <2>2 DEF Numbered
  <2>3. CASE n # m + 1
    <3>1. n \in 1..m
      BY <1>2, <2>3
    <3>. QED BY <2>1, <3>1 DEF Numbered
  <2>. QED BY <2>2, <2>3
<1>7. DOMAIN stream = 1..Len(stream) /\ DOMAIN stream' = 1..(Len(stream) + 1)
  BY <1>3 DEF LogInv, TypeOK
<1>8. OwnNumbersBelow'
  BY <1>3, <1>4, <1>7 DEF LogInv, OwnNumbersBelow
<1>9. TransitionsInOrder'
  <2>1. stream'[Len(stream) + 1].kind # "move"
    BY <1>3
  <2>2. SUFFICES ASSUME NEW i \in DOMAIN stream', NEW j \in DOMAIN stream',
                        i < j, stream'[j].kind = "move"
                 PROVE  stream'[i].seq < stream'[j].seq
    BY DEF TransitionsInOrder
  <2>3. i \in 1..Len(stream) /\ j \in 1..Len(stream)
    BY <1>7, <2>1, <2>2 DEF LogInv, TypeOK
  <2>. QED BY <1>3, <1>7, <2>2, <2>3 DEF LogInv, TransitionsInOrder
<1>10. SharersDiffer'
  <2>1. \A i \in 1..Len(stream) : stream[i].writer = w => stream[i].seq < n
    BY <1>2, <1>7 DEF LogInv, OwnNumbersBelow
  <2>2. \A i \in 1..Len(stream) : stream[i].writer = w => stream[i].seq # n
    <3>1. \A i \in 1..Len(stream) : stream[i].seq \in 1..m
      BY <1>1, <1>7 DEF Numbered, Seqs
    <3>. QED BY <1>2, <2>1, <3>1
  <2>3. SUFFICES ASSUME NEW i \in DOMAIN stream', NEW j \in DOMAIN stream',
                        stream'[i].seq = stream'[j].seq,
                        stream'[i].writer = stream'[j].writer
                 PROVE  i = j
    BY DEF SharersDiffer
  <2>4. CASE i \in 1..Len(stream) /\ j \in 1..Len(stream)
    BY <1>3, <1>7, <2>3, <2>4 DEF LogInv, SharersDiffer
  <2>5. CASE i = Len(stream) + 1 \/ j = Len(stream) + 1
    BY <1>3, <1>7, <2>2, <2>3, <2>5
  <2>. QED BY <1>7, <2>4, <2>5 DEF LogInv, TypeOK
<1>. QED BY <1>5, <1>6, <1>8, <1>9, <1>10 DEF LogInv

LEMMA AppendTransitionKeeps ==
    ASSUME LogInv, NEW w \in Writers, AppendTransition(w)  PROVE LogInv'
<1>1. PICK m \in Nat : Numbered(m)
  BY DEF LogInv
<1>2. /\ Append1(w, "move", m + 1)
      /\ "move" \in Kinds
      /\ next' = next /\ next[w] = 0
  BY <1>1, NextSeqIs DEF LogInv, AppendTransition, Kinds
<1>3. /\ stream' \in Seq(Rows)
      /\ Len(stream') = Len(stream) + 1
      /\ \A i \in 1..Len(stream) : stream'[i] = stream[i]
      /\ stream'[Len(stream) + 1] =
            [seq |-> m + 1, kind |-> "move", writer |-> w]
      /\ Seqs' = Seqs \cup {m + 1}
  BY <1>2, Appended DEF LogInv
<1>4. TypeOK'
  BY <1>2, <1>3 DEF LogInv, TypeOK, Rows
<1>5. Numbered(m + 1)'
  BY <1>1, <1>2, <1>3 DEF Numbered
<1>6. DOMAIN stream = 1..Len(stream) /\ DOMAIN stream' = 1..(Len(stream) + 1)
  BY <1>3 DEF LogInv, TypeOK
<1>7. \A i \in 1..Len(stream) : stream[i].seq \in 1..m
  BY <1>1, <1>6 DEF Numbered, Seqs
<1>8. OwnNumbersBelow'
  BY <1>2, <1>3, <1>6 DEF LogInv, OwnNumbersBelow
<1>9. TransitionsInOrder'
  BY <1>3, <1>6, <1>7 DEF LogInv, TransitionsInOrder
<1>10. SharersDiffer'
  BY <1>3, <1>6, <1>7 DEF LogInv, SharersDiffer
<1>. QED BY <1>4, <1>5, <1>8, <1>9, <1>10 DEF LogInv

LEMMA CrashKeeps ==
    ASSUME LogInv, NEW w \in Writers, Crash(w)  PROVE LogInv'
<1>1. PICK m \in Nat : Numbered(m)
  BY DEF LogInv
<1>2. next' = [next EXCEPT ![w] = 0] /\ UNCHANGED <<stream, Seqs>>
  BY DEF Crash, Seqs
<1>3. Numbered(m)'
  BY <1>1, <1>2 DEF Numbered, LogInv, TypeOK
<1>. QED
  BY <1>2, <1>3
  DEF LogInv, TypeOK, OwnNumbersBelow, TransitionsInOrder, SharersDiffer

LEMMA LogInvInit == Init => LogInv
<1> SUFFICES ASSUME Init PROVE LogInv
  OBVIOUS
<1>1. TypeOK
  BY DEF Init, TypeOK
<1>2. Numbered(0)
  BY DEF Init, Numbered, Seqs
<1>. QED
  BY <1>1, <1>2
  DEF Init, LogInv, OwnNumbersBelow, TransitionsInOrder, SharersDiffer

LEMMA LogInvStep == LogInv /\ [Next]_vars => LogInv'
<1> SUFFICES ASSUME LogInv, [Next]_vars  PROVE LogInv'
  OBVIOUS
<1>1. CASE UNCHANGED vars
  <2>1. UNCHANGED <<stream, next, Seqs>>
    BY <1>1 DEF vars, Seqs
  <2>. QED
    BY <2>1 DEF LogInv, TypeOK, Numbered, OwnNumbersBelow, TransitionsInOrder,
                SharersDiffer
<1>. QED
  BY <1>1, ReadLastKeeps, InsertKeeps, AppendTransitionKeeps, CrashKeeps DEF Next

(* Rows have numbers from 1 on, and a writer's read is a number or none.   *)
THEOREM LogTyped == Spec => []TypeOK
<1>1. LogInv => TypeOK
  BY DEF LogInv
<1>. QED BY <1>1, LogInvInit, LogInvStep, PTL DEF Spec

(* However many writers race, the numbers in use are 1..n for some n.      *)
THEOREM NoHoles == Spec => []SeqsHaveNoHoles
<1>1. LogInv => SeqsHaveNoHoles
  BY NumbersAreNoHoles DEF LogInv
<1>. QED BY <1>1, LogInvInit, LogInvStep, PTL DEF Spec

(* Ordered by seq, the moves of a run are in the order they were made.     *)
THEOREM MovesAreOrdered == Spec => []TransitionsInOrder
<1>1. LogInv => TransitionsInOrder
  BY DEF LogInv
<1>. QED BY <1>1, LogInvInit, LogInvStep, PTL DEF Spec

(* Only events of different writers ever share a number.                   *)
THEOREM SharersAreDistinct == Spec => []SharersDiffer
<1>1. LogInv => SharersDiffer
  BY DEF LogInv
<1>. QED BY <1>1, LogInvInit, LogInvStep, PTL DEF Spec
=============================================================================
