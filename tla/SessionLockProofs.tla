-------------------------- MODULE SessionLockProofs --------------------------
(***************************************************************************)
(* The safety of the session write lock, for every set of processes and    *)
(* callers.  SharedInv holds whatever happens; CalmInv says how one claim  *)
(* to the lock file passes from hand to hand as long as no file has been   *)
(* left behind or taken away: from the caller that made the file to the    *)
(* table of its process, and from there to whoever removes it.             *)
(***************************************************************************)
EXTENDS SessionLock, FiniteSetTheorems, TLAPS

Steps == {"opening", "waiting", "inspecting", "statting", "reclaiming",
          "writing", "written"}

Files == [lock : Nat \ {0}, proc : Procs, pid : Nat, starttime : Nat,
          written : BOOLEAN, old : BOOLEAN]

(* Every lock was named by an earlier request.                             *)
FileOK == file = NoFile \/ file \in Files

HeldOK == held \in [Procs -> [lock : Nat, count : Nat]]

CallersOK ==
    /\ caller \in [Callers -> [at : Places, lock : Nat]]
    /\ \A c \in Callers : caller[c].at = "idle" <=> caller[c].lock = NoLock

LocksNamed ==
    /\ file # NoFile => file.lock <= requests
    /\ \A p \in Procs : held[p].lock <= requests
    /\ \A c \in Callers : caller[c].lock <= requests

OthersOK ==
    /\ watchdog \in [Procs -> {"idle", "removing"}]
    /\ cleaner \in [Procs -> {"idle", "listed", "removing"}]
    /\ proc \in [Procs -> [pid : Nat, starttime : Nat]]
    /\ revoked \subseteq 1..requests
    /\ requests \in 0..MaxRequests /\ disturbances \in 0..MaxDisturbances

TypeInv == FileOK /\ HeldOK /\ CallersOK /\ LocksNamed /\ OthersOK

LEMMA TypeInvIsTypeOK == TypeInv => TypeOK
<1> SUFFICES ASSUME TypeInv PROVE TypeOK
  OBVIOUS
<1>1. requests \in Nat
  BY LockAssumption DEF TypeInv, OthersOK
<1>2. file = NoFile \/ file \in [lock : 1..requests, proc : Procs, pid : Nat,
                                 starttime : Nat, written : BOOLEAN,
                                 old : BOOLEAN]
  BY <1>1 DEF TypeInv, FileOK, LocksNamed, Files
<1>3. held \in [Procs -> [lock : 0..requests, count : Nat]]
  BY <1>1 DEF TypeInv, HeldOK, LocksNamed
<1>4. caller \in [Callers -> [at : Places, lock : 0..requests]]
  BY <1>1 DEF TypeInv, CallersOK, LocksNamed
<1>. QED BY <1>2, <1>3, <1>4 DEF TypeInv, OthersOK, TypeOK

(* What a caller's record is after its place, or all of it, has changed.   *)
LEMMA CallerMoves ==
    ASSUME TypeInv, NEW c \in Callers, NEW place \in Places, place # "idle",
           caller[c].at # "idle", Goto(c, place)
    PROVE  /\ CallersOK'
           /\ caller'[c] = [at |-> place, lock |-> caller[c].lock]
           /\ \A d \in Callers \ {c} : caller'[d] = caller[d]
           /\ \A d \in Callers : caller'[d].lock = caller[d].lock
BY DEF TypeInv, CallersOK, Goto

LEMMA PlacesNamed ==
    /\ "writing" \in Places /\ "inspecting" \in Places
    /\ "written" \in Places /\ "holding" \in Places
    /\ "removing" \in Places /\ "statting" \in Places
    /\ "reclaiming" \in Places /\ "waiting" \in Places
BY DEF Places

LEMMA CallerReturns ==
    ASSUME TypeInv, NEW c \in Callers, Return(c)
    PROVE  /\ CallersOK'
           /\ caller'[c] = Idle
           /\ \A d \in Callers \ {c} : caller'[d] = caller[d]
BY DEF TypeInv, CallersOK, Return, Idle, NoLock, Places

LEMMA TableDropped ==
    ASSUME TypeInv, NEW p \in Procs, Drop(p)
    PROVE  /\ HeldOK'
           /\ held'[p] = [lock |-> NoLock, count |-> 0]
           /\ \A q \in Procs \ {p} : held'[q] = held[q]
BY DEF TypeInv, HeldOK, Drop, NoLock

LEMMA TableCounts ==
    ASSUME TypeInv, NEW p \in Procs, NEW n \in Nat, Count(p, n)
    PROVE  /\ HeldOK'
           /\ held'[p] = [lock |-> held[p].lock, count |-> n]
           /\ \A q \in Procs \ {p} : held'[q] = held[q]
           /\ \A q \in Procs : held'[q].lock = held[q].lock
BY DEF TypeInv, HeldOK, Count

LEMMA TypesInit == Init => TypeInv
BY LockAssumption
DEF Init, TypeInv, FileOK, HeldOK, CallersOK, LocksNamed, OthersOK, Idle,
    NoLock, NoFile, Places

LEMMA TypesKept == TypeInv /\ [Next]_vars => TypeInv'
<1> SUFFICES ASSUME TypeInv, [Next]_vars PROVE TypeInv'
  OBVIOUS
<1> USE LockAssumption
<1>n. requests \in Nat /\ disturbances \in Nat
  BY DEF TypeInv, OthersOK
<1>1. ASSUME NEW c \in Callers, Begin(c) PROVE TypeInv'
  <2>1. ProcOf[c] \in Procs
    OBVIOUS
  <2>2. requests' = requests + 1 /\ requests' \in 0..MaxRequests
    BY <1>1, <1>n DEF Begin
  <2>3. FileOK' /\ OthersOK'
    BY <1>1, <1>n, <2>2 DEF TypeInv, FileOK, OthersOK, Begin
  <2>4. CASE c \in Reentrant /\ held[ProcOf[c]].lock # NoLock
    <3>1. Count(ProcOf[c], held[ProcOf[c]].count + 1)
      BY <1>1, <2>4 DEF Begin
    <3>2. held[ProcOf[c]].count + 1 \in Nat /\ held[ProcOf[c]].lock \in Nat
      BY <2>1 DEF TypeInv, HeldOK
    <3>3. HeldOK' /\ \A q \in Procs : held'[q].lock = held[q].lock
      BY <2>1, <3>1, <3>2, TableCounts
    <3>4. caller' = [caller EXCEPT ![c] = [at |-> "holding",
                                           lock |-> held[ProcOf[c]].lock]]
      BY <1>1, <2>4 DEF Begin
    <3>5. CallersOK' /\ \A d \in Callers : caller'[d].lock <= requests
      BY <2>1, <2>4, <3>2, <3>4 DEF TypeInv, CallersOK, LocksNamed, Places
    <3>6. LocksNamed'
      BY <1>1, <1>n, <2>2, <3>3, <3>5
      DEF TypeInv, FileOK, HeldOK, CallersOK, LocksNamed, Files, Begin
    <3>. QED BY <2>3, <3>3, <3>5, <3>6 DEF TypeInv
  <2>5. CASE ~(c \in Reentrant /\ held[ProcOf[c]].lock # NoLock)
    <3>1. /\ caller' = [caller EXCEPT ![c] = [at |-> "opening",
                                              lock |-> requests + 1]]
          /\ UNCHANGED held
      BY <1>1, <2>5 DEF Begin
    <3>2. CallersOK' /\ \A d \in Callers : caller'[d].lock <= requests + 1
      BY <1>n, <3>1 DEF TypeInv, CallersOK, LocksNamed, Places, NoLock
    <3>3. HeldOK' /\ LocksNamed'
      BY <1>1, <1>n, <2>2, <3>1, <3>2
      DEF TypeInv, FileOK, HeldOK, LocksNamed, Files, Begin
    <3>. QED BY <2>3, <3>2, <3>3 DEF TypeInv
  <2>. QED BY <2>4, <2>5
<1>2. ASSUME NEW c \in Callers, Open(c) PROVE TypeInv'
  <2>1. OthersOK' /\ HeldOK'
    BY <1>2 DEF TypeInv, HeldOK, OthersOK, Open
  <2>a. UNCHANGED <<held, requests>>
    BY <1>2 DEF Open
  <2>2. CASE Exists
    <3>1. Goto(c, "inspecting") /\ UNCHANGED file
      BY <1>2, <2>2 DEF Open
    <3>2. CallersOK' /\ \A d \in Callers : caller'[d].lock = caller[d].lock
      <4>1. caller[c].at # "idle"
        BY <1>2 DEF Open
      <4>. QED BY <3>1, <4>1, PlacesNamed, CallerMoves
    <3>3. LocksNamed' /\ FileOK'
      BY <2>a, <3>1, <3>2 DEF TypeInv, FileOK, LocksNamed
    <3>. QED BY <2>1, <3>2, <3>3 DEF TypeInv
  <2>3. CASE ~Exists
    <3>1. Goto(c, "writing")
      BY <1>2, <2>3 DEF Open
    <3>2. CallersOK' /\ \A d \in Callers : caller'[d].lock = caller[d].lock
      <4>1. caller[c].at # "idle"
        BY <1>2 DEF Open
      <4>. QED BY <3>1, <4>1, PlacesNamed, CallerMoves
    <3>3. file' \in Files /\ file'.lock = caller[c].lock
      <4>1. caller[c].lock \in Nat \ {0}
        BY <1>2 DEF TypeInv, CallersOK, Open, NoLock
      <4>2. proc[ProcOf[c]] \in [pid : Nat, starttime : Nat]
        BY DEF TypeInv, OthersOK
      <4>3. file' = [lock |-> caller[c].lock, proc |-> ProcOf[c],
                     pid |-> proc[ProcOf[c]].pid,
                     starttime |-> proc[ProcOf[c]].starttime,
                     written |-> FALSE, old |-> FALSE]
        BY <1>2, <2>3 DEF Open
      <4>. QED BY <4>1, <4>2, <4>3 DEF Files
    <3>4. LocksNamed' /\ FileOK'
      BY <2>a, <3>2, <3>3 DEF TypeInv, FileOK, LocksNamed
    <3>. QED BY <2>1, <3>2, <3>4 DEF TypeInv
  <2>. QED BY <2>2, <2>3
<1>3. ASSUME NEW c \in Callers, Write(c) PROVE TypeInv'
  <2>1. OthersOK' /\ HeldOK'
    BY <1>3 DEF TypeInv, HeldOK, OthersOK, Write
  <2>2. CallersOK' /\ \A d \in Callers : caller'[d].lock = caller[d].lock
    <3>1. caller[c].at # "idle" /\ Goto(c, "written")
      BY <1>3 DEF Write
    <3>. QED BY <3>1, PlacesNamed, CallerMoves
  <2>3. FileOK' /\ (file' # NoFile => file # NoFile /\ file'.lock = file.lock)
    <3>1. CASE file.lock = caller[c].lock
      <4>1. file # NoFile
        BY <1>3, <3>1 DEF TypeInv, CallersOK, Write, NoFile
      <4>2. file \in Files /\ file' = [file EXCEPT !.written = TRUE]
        BY <1>3, <3>1, <4>1 DEF TypeInv, FileOK, Write
      <4>. QED BY <4>1, <4>2 DEF FileOK, Files
    <3>2. CASE file.lock # caller[c].lock
      BY <1>3, <3>2 DEF TypeInv, FileOK, Write
    <3>. QED BY <3>1, <3>2
  <2>4. UNCHANGED <<held, requests>>
    BY <1>3 DEF Write
  <2>5. LocksNamed'
    BY <2>2, <2>3, <2>4 DEF TypeInv, LocksNamed
  <2>. QED BY <2>1, <2>2, <2>3, <2>5 DEF TypeInv
<1>4. ASSUME NEW c \in Callers,
             WriteFails(c) \/ Inspect(c) \/ Stat(c) \/ Reclaim(c)
      PROVE  TypeInv'
  <2>1. OthersOK' /\ HeldOK' /\ FileOK'
    BY <1>4
    DEF TypeInv, FileOK, HeldOK, OthersOK, WriteFails, Inspect, Stat, Reclaim
  <2>2. PICK place \in Places : place # "idle" /\ Goto(c, place)
    BY <1>4 DEF WriteFails, Inspect, Stat, Reclaim, Places
  <2>3. CallersOK' /\ \A d \in Callers : caller'[d].lock = caller[d].lock
    <3>1. caller[c].at # "idle"
      BY <1>4 DEF WriteFails, Inspect, Stat, Reclaim
    <3>. QED BY <2>2, <3>1, CallerMoves
  <2>4. UNCHANGED <<held, requests>> /\ (file' = file \/ file' = NoFile)
    BY <1>4 DEF WriteFails, Inspect, Stat, Reclaim
  <2>5. LocksNamed'
    BY <2>3, <2>4 DEF TypeInv, LocksNamed
  <2>. QED BY <2>1, <2>3, <2>5 DEF TypeInv
<1>5. ASSUME NEW c \in Callers, Hold(c) PROVE TypeInv'
  <2>1. OthersOK' /\ FileOK'
    BY <1>5 DEF TypeInv, FileOK, OthersOK, Hold
  <2>2. CallersOK' /\ \A d \in Callers : caller'[d].lock = caller[d].lock
    <3>1. caller[c].at # "idle" /\ Goto(c, "holding")
      BY <1>5 DEF Hold
    <3>. QED BY <3>1, PlacesNamed, CallerMoves
  <2>3. HeldOK' /\ \A p \in Procs : held'[p].lock <= requests
    <3>1. caller[c].lock \in Nat /\ caller[c].lock <= requests
      BY DEF TypeInv, CallersOK, LocksNamed
    <3>2. held' = [held EXCEPT ![ProcOf[c]] = [lock |-> caller[c].lock,
                                               count |-> 1]]
      BY <1>5 DEF Hold
    <3>. QED BY <3>1, <3>2 DEF TypeInv, HeldOK, LocksNamed
  <2>. QED BY <1>5, <2>1, <2>2, <2>3 DEF TypeInv, LocksNamed, Hold
<1>6. ASSUME NEW c \in Callers, GiveUp(c) \/ Remove(c) \/ RemoveFails(c)
      PROVE  TypeInv'
  <2>1. OthersOK' /\ HeldOK' /\ FileOK'
    <3>1. /\ UNCHANGED <<held, watchdog, cleaner, proc, revoked, requests>>
          /\ file' = file \/ file' = NoFile
          /\ \/ UNCHANGED disturbances
             \/ disturbances < MaxDisturbances /\ disturbances' = disturbances + 1
      BY <1>6 DEF GiveUp, Remove, RemoveFails
    <3>. QED BY <1>n, <3>1 DEF TypeInv, FileOK, HeldOK, OthersOK
  <2>2. CallersOK' /\ \A d \in Callers : caller'[d].lock <= requests
    BY <1>6, <1>n, CallerReturns
    DEF TypeInv, LocksNamed, GiveUp, Remove, RemoveFails, Idle, NoLock
  <2>. QED BY <1>6, <2>1, <2>2
    DEF TypeInv, LocksNamed, GiveUp, Remove, RemoveFails
<1>7. ASSUME NEW c \in Callers, Release(c) PROVE TypeInv'
  <2>1. OthersOK' /\ FileOK'
    BY <1>7 DEF TypeInv, FileOK, OthersOK, Release
  <2>2. CallersOK' /\ \A d \in Callers : caller'[d].lock <= requests
    <3>1. caller[c].at # "idle" /\ (Return(c) \/ Goto(c, "removing"))
      BY <1>7 DEF Release
    <3>2. \A d \in Callers : caller[d].lock <= requests
      BY DEF TypeInv, LocksNamed
    <3>3. CASE Return(c)
      BY <1>n, <3>2, <3>3, CallerReturns DEF Idle, NoLock
    <3>4. CASE Goto(c, "removing")
      BY <3>1, <3>2, <3>4, PlacesNamed, CallerMoves
    <3>. QED BY <3>1, <3>3, <3>4
  <2>3. HeldOK' /\ \A p \in Procs : held'[p].lock <= requests
    <3>1. CASE held' = held
      BY <3>1 DEF TypeInv, HeldOK, LocksNamed
    <3>2. CASE Drop(ProcOf[c])
      BY <1>n, <3>2, TableDropped DEF TypeInv, LocksNamed, NoLock
    <3>3. CASE /\ held[ProcOf[c]].count > 1
               /\ Count(ProcOf[c], held[ProcOf[c]].count - 1)
      <4>1. held[ProcOf[c]].count - 1 \in Nat
        BY <3>3 DEF TypeInv, HeldOK
      <4>. QED BY <3>3, <4>1, TableCounts DEF TypeInv, LocksNamed
    <3>. QED BY <1>7, <3>1, <3>2, <3>3 DEF Release
  <2>4. UNCHANGED <<file, requests>>
    BY <1>7 DEF Release
  <2>5. LocksNamed'
    BY <2>2, <2>3, <2>4 DEF TypeInv, LocksNamed
  <2>. QED BY <2>1, <2>2, <2>3, <2>5 DEF TypeInv
<1>8. ASSUME NEW p \in Procs, Expire(p) \/ Signal(p) PROVE TypeInv'
  <2>1. HeldOK' /\ \A q \in Procs : held'[q].lock <= requests
    BY <1>8, <1>n, TableDropped
    DEF TypeInv, LocksNamed, Expire, Signal, NoLock
  <2>2. held[p].lock \in 1..requests
    BY <1>8, <1>n DEF TypeInv, HeldOK, LocksNamed, Expire, Signal, NoLock
  <2>3. OthersOK' /\ FileOK' /\ CallersOK'
    <3>1. /\ UNCHANGED <<caller, cleaner, proc, requests>>
          /\ file' = file \/ file' = NoFile
          /\ revoked' = revoked \cup {held[p].lock}
          /\ \/ watchdog' = [watchdog EXCEPT ![p] = "removing"]
             \/ UNCHANGED watchdog
          /\ \/ UNCHANGED disturbances
             \/ disturbances < MaxDisturbances /\ disturbances' = disturbances + 1
      BY <1>8 DEF Expire, Signal
    <3>2. FileOK' /\ CallersOK'
      BY <3>1 DEF TypeInv, FileOK, CallersOK
    <3>3. revoked' \subseteq 1..requests'
      BY <2>2, <3>1 DEF TypeInv, OthersOK
    <3>4. watchdog' \in [Procs -> {"idle", "removing"}]
      BY <3>1 DEF TypeInv, OthersOK
    <3>5. OthersOK'
      BY <1>n, <3>1, <3>3, <3>4 DEF TypeInv, OthersOK
    <3>. QED BY <3>2, <3>5
  <2>4. /\ UNCHANGED <<caller, requests>>
        /\ file' = file \/ file' = NoFile
    BY <1>8 DEF Expire, Signal
  <2>5. LocksNamed'
    BY <2>1, <2>4 DEF TypeInv, LocksNamed
  <2>. QED BY <2>1, <2>3, <2>5 DEF TypeInv
<1>9. ASSUME NEW p \in Procs,
             \/ RemoveExpired(p) \/ CleanList(p) \/ CleanRead(p)
             \/ CleanRemove(p)
      PROVE  TypeInv'
  <2>1. /\ UNCHANGED <<held, caller, proc, revoked, requests>>
        /\ file' = file \/ file' = NoFile
        /\ \/ UNCHANGED watchdog
           \/ watchdog' = [watchdog EXCEPT ![p] = "idle"]
        /\ \/ UNCHANGED cleaner
           \/ \E place \in {"idle", "listed", "removing"} :
                  cleaner' = [cleaner EXCEPT ![p] = place]
        /\ \/ UNCHANGED disturbances
           \/ disturbances < MaxDisturbances /\ disturbances' = disturbances + 1
    BY <1>9 DEF RemoveExpired, CleanList, CleanRead, CleanRemove
  <2>2. OthersOK'
    BY <1>n, <2>1 DEF TypeInv, OthersOK
  <2>3. FileOK' /\ LocksNamed'
    BY <2>1 DEF TypeInv, FileOK, LocksNamed
  <2>. QED BY <2>1, <2>2, <2>3 DEF TypeInv, HeldOK, CallersOK
<1>10. ASSUME NEW p \in Procs, NEW pid \in {proc[p].pid, proc[p].pid + 1},
              NEW orderly \in BOOLEAN, Restart(p, pid, orderly)
       PROVE  TypeInv'
  <2>1. HeldOK' /\ \A q \in Procs : held'[q].lock <= requests
    BY <1>10, <1>n, TableDropped DEF TypeInv, LocksNamed, Restart, NoLock
  <2>2. CallersOK' /\ \A c \in Callers : caller'[c].lock <= requests
    BY <1>10, <1>n
    DEF TypeInv, CallersOK, LocksNamed, Restart, Idle, NoLock, Places
  <2>3. pid \in Nat
    BY DEF TypeInv, OthersOK
  <2>4. OthersOK'
    BY <1>10, <1>n, <2>3 DEF TypeInv, OthersOK, Restart
  <2>5. FileOK' /\ (file' # NoFile => file' = file)
    BY <1>10 DEF TypeInv, FileOK, Restart
  <2>. QED BY <1>10, <2>1, <2>2, <2>4, <2>5 DEF TypeInv, LocksNamed, Restart
<1>11. CASE GrowOld
  <2>1. file' \in Files /\ file'.lock = file.lock
    BY <1>11 DEF TypeInv, FileOK, Files, GrowOld, Exists
  <2>. QED BY <1>11, <2>1
    DEF TypeInv, FileOK, HeldOK, CallersOK, LocksNamed, OthersOK, GrowOld,
        Exists
<1>12. CASE UNCHANGED vars
  BY <1>12
  DEF TypeInv, FileOK, HeldOK, CallersOK, LocksNamed, OthersOK, vars
<1>. QED
  BY <1>1, <1>2, <1>3, <1>4, <1>5, <1>6, <1>7, <1>8, <1>9, <1>10, <1>11, <1>12
  DEF Next, Acquire, Leave, Clean

(* The lock file, the tables of held locks and the callers of              *)
(* acquireSessionWriteLock stay within their types.                        *)
THEOREM SessionLocksTyped == Spec => []TypeOK
<1>1. Spec => []TypeInv
  BY TypesInit, TypesKept, PTL DEF Spec
<1>. QED BY <1>1, TypeInvIsTypeOK, PTL

-----------------------------------------------------------------------------
(* Who shares a lock.                                                      *)

(* A caller on its way to a lock has a name for it that nobody else has.   *)
NamesAreOwn ==
    \A c \in Callers : caller[c].at \in Steps =>
        /\ \A p \in Procs : held[p].lock # caller[c].lock
        /\ \A d \in Callers \ {c} : caller[d].lock # caller[c].lock

SharedInv == SharedUntilLast /\ NamesAreOwn

LEMMA SharersFinite ==
    ASSUME NEW p \in Procs  PROVE IsFiniteSet(Sharers(p))
BY LockAssumption, FS_Subset DEF Sharers

LEMMA SharedInit == Init => SharedInv
BY DEF Init, SharedInv, SharedUntilLast, NamesAreOwn, Idle, NoLock, Steps

LEMMA StepsAreNamed ==
    ASSUME TypeInv, NEW c \in Callers, caller[c].at # "idle"
    PROVE  caller[c].lock # NoLock
BY DEF TypeInv, CallersOK

(* Names stay one's own unless somebody takes or makes one.                *)
LEMMA NamesKept ==
    ASSUME TypeInv, NamesAreOwn,
           \A p \in Procs : held'[p].lock \in {held[p].lock, NoLock},
           \A c \in Callers :
              /\ caller'[c].lock \in {caller[c].lock, NoLock}
              /\ caller'[c].at \in Steps =>
                    caller[c].at \in Steps /\ caller'[c].lock = caller[c].lock
    PROVE  NamesAreOwn'
<1> SUFFICES ASSUME NEW c \in Callers, caller'[c].at \in Steps
             PROVE  /\ \A p \in Procs : held'[p].lock # caller'[c].lock
                    /\ \A d \in Callers \ {c} :
                          caller'[d].lock # caller'[c].lock
  BY DEF NamesAreOwn
<1>1. caller[c].at \in Steps /\ caller'[c].lock = caller[c].lock
  OBVIOUS
<1>2. caller[c].lock # NoLock
  BY <1>1, StepsAreNamed DEF Steps
<1>. QED BY <1>1, <1>2 DEF NamesAreOwn

(* A step of callers that hold nothing keeps what is shared.               *)
LEMMA SharedSame ==
    ASSUME TypeInv, SharedInv, UNCHANGED held,
           \A c \in Callers :
              \/ caller'[c] = caller[c]
              \/ /\ caller[c].at # "holding" /\ caller'[c].at # "holding"
                 /\ caller'[c].lock \in {caller[c].lock, NoLock}
                 /\ caller'[c].at \in Steps =>
                       /\ caller[c].at \in Steps
                       /\ caller'[c].lock = caller[c].lock
    PROVE  SharedInv'
<1>1. \A p \in Procs : Sharers(p)' = Sharers(p)
  BY DEF Sharers
<1>2. SharedUntilLast'
  BY <1>1 DEF SharedInv, SharedUntilLast
<1>3. NamesAreOwn'
  BY NamesKept DEF SharedInv
<1>. QED BY <1>2, <1>3 DEF SharedInv

LEMMA SharedBegin ==
    ASSUME TypeInv, SharedInv, NEW c \in Callers, Begin(c)  PROVE SharedInv'
<1> DEFINE p == ProcOf[c]
<1>p. p \in Procs /\ requests \in Nat
  BY LockAssumption DEF TypeInv, OthersOK
<1>1. CASE c \in Reentrant /\ held[p].lock # NoLock
  <2>1. /\ Count(p, held[p].count + 1)
        /\ caller' = [caller EXCEPT ![c] = [at |-> "holding",
                                            lock |-> held[p].lock]]
        /\ caller[c].at = "idle"
    BY <1>1 DEF Begin
  <2>2. held[p].count + 1 \in Nat
    BY <1>p DEF TypeInv, HeldOK
  <2>3. /\ \A q \in Procs : held'[q].lock = held[q].lock
        /\ held'[p].count = held[p].count + 1
        /\ \A q \in Procs \ {p} : held'[q] = held[q]
    <3>1. /\ held'[p] = [lock |-> held[p].lock, count |-> held[p].count + 1]
          /\ \A q \in Procs \ {p} : held'[q] = held[q]
      BY <1>p, <2>1, <2>2, TableCounts
    <3>. QED BY <3>1
  <2>4. /\ caller'[c] = [at |-> "holding", lock |-> held[p].lock]
        /\ \A d \in Callers \ {c} : caller'[d] = caller[d]
    BY <2>1 DEF TypeInv, CallersOK
  <2>5. c \notin Sharers(p) /\ Sharers(p)' = Sharers(p) \cup {c}
    BY <2>1, <2>3, <2>4, <1>p DEF Sharers
  <2>6. Cardinality(Sharers(p)') = Cardinality(Sharers(p)) + 1
    BY <1>p, <2>5, SharersFinite, FS_AddElement
  <2>7. \A q \in Procs \ {p} : Sharers(q)' = Sharers(q)
    BY <2>3, <2>4 DEF Sharers
  <2>8. SharedUntilLast'
    <3> SUFFICES ASSUME NEW q \in Procs, held'[q].lock # NoLock
                 PROVE  held'[q].count = Cardinality(Sharers(q)')
      BY DEF SharedUntilLast
    <3>1. held[q].count = Cardinality(Sharers(q))
      BY <2>3 DEF SharedInv, SharedUntilLast
    <3>2. CASE q = p
      BY <2>3, <2>6, <3>1, <3>2
    <3>3. CASE q # p
      BY <2>3, <2>7, <3>1, <3>3
    <3>. QED BY <3>2, <3>3
  <2>9. NamesAreOwn'
    BY <1>p, <2>3, <2>4 DEF SharedInv, NamesAreOwn, Steps
  <2>. QED BY <2>8, <2>9 DEF SharedInv
<1>2. CASE ~(c \in Reentrant /\ held[p].lock # NoLock)
  <2>1. /\ caller' = [caller EXCEPT ![c] = [at |-> "opening",
                                            lock |-> requests + 1]]
        /\ caller[c].at = "idle" /\ UNCHANGED held
    BY <1>2 DEF Begin
  <2>2. /\ caller'[c] = [at |-> "opening", lock |-> requests + 1]
        /\ \A d \in Callers \ {c} : caller'[d] = caller[d]
    BY <2>1 DEF TypeInv, CallersOK
  <2>3. \A q \in Procs : Sharers(q)' = Sharers(q)
    BY <2>1, <2>2 DEF Sharers
  <2>4. SharedUntilLast'
    BY <2>1, <2>3 DEF SharedInv, SharedUntilLast
  <2>5. /\ \A q \in Procs : held[q].lock \in Nat /\ held[q].lock <= requests
        /\ \A d \in Callers : caller[d].lock \in Nat /\ caller[d].lock <= requests
    BY DEF TypeInv, HeldOK, CallersOK, LocksNamed
  <2>6. NamesAreOwn'
    <3> SUFFICES ASSUME NEW d \in Callers, caller'[d].at \in Steps
                 PROVE  /\ \A q \in Procs : held'[q].lock # caller'[d].lock
                        /\ \A e \in Callers \ {d} :
                              caller'[e].lock # caller'[d].lock
      BY DEF NamesAreOwn
    <3>1. CASE d = c
      <4>1. caller'[d].lock = requests + 1
        BY <2>2, <3>1
      <4>2. \A e \in Callers \ {d} : caller'[e] = caller[e]
        BY <2>2, <3>1
      <4>. QED BY <1>p, <2>1, <2>5, <4>1, <4>2
    <3>2. CASE d # c
      <4>1. caller[d].at \in Steps /\ caller'[d] = caller[d]
        BY <2>2, <3>2
      <4>2. caller'[c].lock # caller'[d].lock
        BY <1>p, <2>2, <2>5, <4>1
      <4>. QED BY <2>1, <2>2, <4>1, <4>2 DEF SharedInv, NamesAreOwn
    <3>. QED BY <3>1, <3>2
  <2>. QED BY <2>4, <2>6 DEF SharedInv
<1>. QED BY <1>1, <1>2

LEMMA SharedHold ==
    ASSUME TypeInv, SharedInv, NEW c \in Callers, Hold(c)  PROVE SharedInv'
<1> DEFINE p == ProcOf[c]
<1>p. p \in Procs
  BY LockAssumption
<1>1. /\ caller[c].at = "written"
      /\ held' = [held EXCEPT ![p] = [lock |-> caller[c].lock, count |-> 1]]
      /\ Goto(c, "holding")
  BY DEF Hold
<1>2. /\ held'[p] = [lock |-> caller[c].lock, count |-> 1]
      /\ \A q \in Procs \ {p} : held'[q] = held[q]
  BY <1>p, <1>1 DEF TypeInv, HeldOK
<1>3. /\ caller'[c] = [at |-> "holding", lock |-> caller[c].lock]
      /\ \A d \in Callers \ {c} : caller'[d] = caller[d]
  BY <1>1, CallerMoves, PlacesNamed
<1>4. caller[c].at \in Steps
  BY <1>1 DEF Steps
<1>5. \A d \in Callers \ {c} : caller[d].lock # caller[c].lock
  BY <1>4 DEF SharedInv, NamesAreOwn
<1>6. Sharers(p)' = {c}
  BY <1>2, <1>3, <1>5 DEF Sharers
<1>7. \A q \in Procs \ {p} : Sharers(q)' = Sharers(q)
  BY <1>2, <1>3 DEF Sharers
<1>8. SharedUntilLast'
  <2>1. Cardinality(Sharers(p)') = 1
    BY <1>6, FS_Singleton
  <2>. QED BY <1>2, <1>7, <2>1 DEF SharedInv, SharedUntilLast
<1>9. NamesAreOwn'
  <2> SUFFICES ASSUME NEW d \in Callers, caller'[d].at \in Steps
               PROVE  /\ \A q \in Procs : held'[q].lock # caller'[d].lock
                      /\ \A e \in Callers \ {d} :
                            caller'[e].lock # caller'[d].lock
    BY DEF NamesAreOwn
  <2>1. d # c
    BY <1>3 DEF Steps
  <2>2. caller'[d] = caller[d]
    BY <1>3, <2>1
  <2>3. /\ \A q \in Procs : held[q].lock # caller[d].lock
        /\ \A e \in Callers \ {d} : caller[e].lock # caller[d].lock
    BY <2>2 DEF SharedInv, NamesAreOwn
  <2>4. \A e \in Callers : caller'[e].lock = caller[e].lock
    BY <1>3
  <2>. QED BY <1>2, <2>1, <2>2, <2>3, <2>4
<1>. QED BY <1>8, <1>9 DEF SharedInv

(* A table that is emptied, whatever its callers do meanwhile.             *)
LEMMA SharedDrop ==
    ASSUME TypeInv, SharedInv, NEW p \in Procs, Drop(p),
           \A c \in Callers : \/ caller'[c] = caller[c]
                             \/ /\ ProcOf[c] = p
                                /\ caller'[c].at \in {"idle", "removing"}
                                /\ caller'[c].lock \in {caller[c].lock, NoLock}
    PROVE  SharedInv'
<1>1. /\ held'[p].lock = NoLock
      /\ \A q \in Procs \ {p} : held'[q] = held[q]
  BY TableDropped
<1>2. \A q \in Procs \ {p} : Sharers(q)' = Sharers(q)
  BY <1>1 DEF Sharers
<1>3. SharedUntilLast'
  BY <1>1, <1>2 DEF SharedInv, SharedUntilLast
<1>4. NamesAreOwn'
  <2>1. \A q \in Procs : held'[q].lock \in {held[q].lock, NoLock}
    BY <1>1
  <2>. QED BY <2>1, NamesKept DEF SharedInv, Steps
<1>. QED BY <1>3, <1>4 DEF SharedInv

LEMMA SharedRelease ==
    ASSUME TypeInv, SharedInv, NEW c \in Callers, Release(c)
    PROVE  SharedInv'
<1> DEFINE p == ProcOf[c]
<1>p. p \in Procs /\ caller[c].at = "holding"
  BY LockAssumption DEF Release
<1>1. CASE held[p].lock # caller[c].lock
  <2>1. Return(c) /\ UNCHANGED held
    BY <1>1 DEF Release
  <2>2. caller'[c] = Idle /\ \A d \in Callers \ {c} : caller'[d] = caller[d]
    BY <2>1, CallerReturns
  <2>3. \A q \in Procs : Sharers(q)' = Sharers(q)
    BY <1>1, <2>1, <2>2 DEF Sharers, Idle
  <2>4. SharedUntilLast'
    BY <2>1, <2>3 DEF SharedInv, SharedUntilLast
  <2>5. NamesAreOwn'
    BY <2>1, <2>2, NamesKept DEF SharedInv, Idle, Steps
  <2>. QED BY <2>4, <2>5 DEF SharedInv
<1>2. CASE held[p].lock = caller[c].lock /\ held[p].count > 1
  <2>1. Return(c) /\ Count(p, held[p].count - 1)
    BY <1>2 DEF Release
  <2>2. caller'[c] = Idle /\ \A d \in Callers \ {c} : caller'[d] = caller[d]
    BY <2>1, CallerReturns
  <2>3. held[p].count - 1 \in Nat
    BY <1>p, <1>2 DEF TypeInv, HeldOK
  <2>4. /\ \A q \in Procs : held'[q].lock = held[q].lock
        /\ held'[p].count = held[p].count - 1
        /\ \A q \in Procs \ {p} : held'[q] = held[q]
    <3>1. /\ held'[p] = [lock |-> held[p].lock, count |-> held[p].count - 1]
          /\ \A q \in Procs \ {p} : held'[q] = held[q]
      BY <1>p, <2>1, <2>3, TableCounts
    <3>. QED BY <3>1
  <2>5. c \in Sharers(p) /\ Sharers(p)' = Sharers(p) \ {c}
    <3>1. caller[c] = [at |-> "holding", lock |-> held[p].lock]
      BY <1>p, <1>2 DEF TypeInv, CallersOK
    <3>. QED BY <2>2, <2>4, <1>p, <3>1 DEF Sharers, Idle
  <2>6. Cardinality(Sharers(p)') = Cardinality(Sharers(p)) - 1
    BY <1>p, <2>5, SharersFinite, FS_RemoveElement
  <2>7. \A q \in Procs \ {p} : Sharers(q)' = Sharers(q)
    BY <2>2, <2>4 DEF Sharers
  <2>8. SharedUntilLast'
    <3> SUFFICES ASSUME NEW q \in Procs, held'[q].lock # NoLock
                 PROVE  held'[q].count = Cardinality(Sharers(q)')
      BY DEF SharedUntilLast
    <3>1. held[q].count = Cardinality(Sharers(q))
      BY <2>4 DEF SharedInv, SharedUntilLast
    <3>2. CASE q = p
      BY <2>4, <2>6, <3>1, <3>2
    <3>3. CASE q # p
      BY <2>4, <2>7, <3>1, <3>3
    <3>. QED BY <3>2, <3>3
  <2>9. NamesAreOwn'
    BY <2>2, <2>4, NamesKept DEF SharedInv, Idle, Steps
  <2>. QED BY <2>8, <2>9 DEF SharedInv
<1>3. CASE held[p].lock = caller[c].lock /\ ~(held[p].count > 1)
  <2>1. Drop(p) /\ Goto(c, "removing")
    BY <1>3 DEF Release
  <2>2. /\ caller'[c] = [at |-> "removing", lock |-> caller[c].lock]
        /\ \A d \in Callers \ {c} : caller'[d] = caller[d]
    BY <1>p, <2>1, CallerMoves, PlacesNamed
  <2> HIDE DEF p
  <2>3. p = ProcOf[c]
    BY DEF p
  <2>. QED BY <1>p, <2>1, <2>2, <2>3, SharedDrop
<1>. QED BY <1>1, <1>2, <1>3

LEMMA SharedKept == TypeInv /\ SharedInv /\ [Next]_vars => SharedInv'
<1> SUFFICES ASSUME TypeInv, SharedInv, [Next]_vars PROVE SharedInv'
  OBVIOUS
<1>1. ASSUME NEW c \in Callers,
             \/ Open(c) \/ Write(c) \/ WriteFails(c) \/ Inspect(c) \/ Stat(c)
             \/ Reclaim(c)
      PROVE  SharedInv'
  <2>1. UNCHANGED held
    BY <1>1 DEF Open, Write, WriteFails, Inspect, Stat, Reclaim
  <2>2. PICK place \in Places : place \notin {"idle", "holding"} /\ Goto(c, place)
    BY <1>1, PlacesNamed DEF Open, Write, WriteFails, Inspect, Stat, Reclaim
  <2>3. caller[c].at \in Steps
    BY <1>1 DEF Open, Write, WriteFails, Inspect, Stat, Reclaim, Steps
  <2>4. caller[c].at \notin {"idle", "holding"}
    BY <2>3 DEF Steps
  <2>5. /\ caller'[c] = [at |-> place, lock |-> caller[c].lock]
        /\ \A d \in Callers \ {c} : caller'[d] = caller[d]
    BY <2>2, <2>4, CallerMoves
  <2>6. caller'[c].at = place /\ caller'[c].lock = caller[c].lock
    BY <2>5
  <2>. QED BY <2>1, <2>2, <2>3, <2>4, <2>5, <2>6, SharedSame
<1>2. ASSUME NEW c \in Callers, GiveUp(c) \/ Remove(c) \/ RemoveFails(c)
      PROVE  SharedInv'
  <2>1. UNCHANGED held /\ Return(c) /\ caller[c].at # "holding"
    BY <1>2 DEF GiveUp, Remove, RemoveFails
  <2>2. /\ caller'[c].at = "idle" /\ caller'[c].lock = NoLock
        /\ \A d \in Callers \ {c} : caller'[d] = caller[d]
    BY <2>1, CallerReturns DEF Idle
  <2>. QED BY <2>1, <2>2, SharedSame DEF Steps
<1>3. ASSUME NEW p \in Procs, Expire(p) \/ Signal(p)  PROVE SharedInv'
  BY <1>3, SharedDrop DEF Expire, Signal
<1>4. ASSUME NEW p \in Procs, NEW pid \in {proc[p].pid, proc[p].pid + 1},
             NEW orderly \in BOOLEAN, Restart(p, pid, orderly)
      PROVE  SharedInv'
  <2>1. Drop(p)
    BY <1>4 DEF Restart
  <2>2. \A c \in Callers : \/ caller'[c] = caller[c]
                          \/ /\ ProcOf[c] = p
                             /\ caller'[c].at = "idle"
                             /\ caller'[c].lock = NoLock
    BY <1>4 DEF Restart, Idle
  <2>. QED BY <2>1, <2>2, SharedDrop
<1>5. ASSUME UNCHANGED <<held, caller>>  PROVE SharedInv'
  BY <1>5, SharedSame
<1>6. ASSUME NEW p \in Procs,
             RemoveExpired(p) \/ CleanList(p) \/ CleanRead(p) \/ CleanRemove(p)
      PROVE  SharedInv'
  BY <1>5, <1>6 DEF RemoveExpired, CleanList, CleanRead, CleanRemove
<1>7. CASE GrowOld \/ UNCHANGED vars
  BY <1>5, <1>7 DEF GrowOld, vars
<1>. QED
  BY <1>1, <1>2, <1>3, <1>4, <1>6, <1>7, SharedBegin, SharedHold, SharedRelease
  DEF Next, Acquire, Leave, Clean

(* releaseHeldLock: the count of a held lock is the number of callers that *)
(* share it, whatever the watchdog, a signal, a cleaner or another process *)
(* does in between.                                                        *)
THEOREM LocksSharedUntilLast == Spec => []SharedUntilLast
<1>1. Init => TypeInv /\ SharedInv
  BY TypesInit, SharedInit
<1>2. TypeInv /\ SharedInv /\ [Next]_vars => (TypeInv /\ SharedInv)'
  BY TypesKept, SharedKept
<1>3. Spec => [](TypeInv /\ SharedInv)
  BY <1>1, <1>2, PTL DEF Spec
<1>. QED BY <1>3, PTL DEF SharedInv

-----------------------------------------------------------------------------
(* One claim to the file.                                                  *)

Calm == disturbances = 0 /\ HasStarttime /\ ~LongRuns

Working(c) == caller[c].at \in {"writing", "written", "removing"}
Holds(p)   == held[p].lock # NoLock
Ending(p)  == watchdog[p] = "removing"

(* Nobody means to take the file for stale, and nobody would.              *)
Quiet ==
    /\ \A c \in Callers : caller[c].at # "reclaiming"
    /\ \A p \in Procs : cleaner[p] = "idle"
    /\ Exists =>
          /\ ~file.old
          /\ file.pid = proc[file.proc].pid
          /\ file.starttime = proc[file.proc].starttime

(* Whoever has a claim has it to the file that is there ...                *)
ClaimsMatch ==
    /\ \A c \in Callers : Working(c) => Exists /\ file.lock = caller[c].lock
    /\ \A p \in Procs : Holds(p) => Exists /\ file.lock = held[p].lock
    /\ \A p \in Procs : Ending(p) => Exists

(* ... nobody else has one ...                                             *)
OneClaim ==
    /\ \A c, d \in Callers : Working(c) /\ Working(d) => c = d
    /\ \A p, q \in Procs : Holds(p) /\ Holds(q) => p = q
    /\ \A p, q \in Procs : Ending(p) /\ Ending(q) => p = q
    /\ \A c \in Callers, p \in Procs : Working(c) => ~Holds(p) /\ ~Ending(p)
    /\ \A p, q \in Procs : Holds(p) => ~Ending(q)

(* ... and a file that is there has somebody who does.                     *)
FileClaimed ==
    Exists => \/ \E c \in Callers : Working(c)
              \/ \E p \in Procs : Holds(p) \/ Ending(p)

(* A caller whose lock was not revoked finds it in the table.              *)
Owns(c) == caller[c].at = "holding" /\ caller[c].lock \notin revoked

OwnersHold ==
    \A c \in Callers : Owns(c) => held[ProcOf[c]].lock = caller[c].lock

OneHand == Quiet /\ ClaimsMatch /\ OneClaim /\ FileClaimed /\ OwnersHold

CalmInv == Calm => OneHand

LEMMA CalmInit == Init => CalmInv
BY DEF Init, CalmInv, OneHand, Quiet, ClaimsMatch, OneClaim, FileClaimed, OwnersHold,
       Owns, Working, Holds, Ending, Exists, Idle

LEMMA CalmIsSingle == TypeInv /\ CalmInv => SingleWriter
<1> SUFFICES ASSUME TypeInv, CalmInv, Calm, NEW c \in Callers, NEW d \in Callers,
                    Writes(c), Writes(d), ~Overrun(c), ~Overrun(d)
             PROVE  caller[c].lock = caller[d].lock
  BY DEF SingleWriter, Calm
<1>1. Owns(c) /\ Owns(d)
  BY DEF Owns, Writes, Overrun
<1>2. /\ held[ProcOf[c]].lock = caller[c].lock
      /\ held[ProcOf[d]].lock = caller[d].lock
  BY <1>1 DEF CalmInv, OneHand, OwnersHold
<1>3. caller[c].lock # NoLock /\ caller[d].lock # NoLock
  BY <1>1, StepsAreNamed DEF Owns
<1>4. ProcOf[c] = ProcOf[d]
  BY <1>2, <1>3, LockAssumption DEF CalmInv, OneHand, OneClaim, Holds
<1>. QED BY <1>2, <1>4

(* A step that moves no claim.                                             *)
LEMMA HandSame ==
    ASSUME TypeInv, OneHand, UNCHANGED <<file, watchdog, cleaner, proc>>,
           \A p \in Procs : held'[p].lock = held[p].lock,
           \A c \in Callers :
              /\ caller'[c].at # "reclaiming"
              /\ Working(c)' <=> Working(c)
              /\ Working(c) => caller'[c].lock = caller[c].lock
              /\ Owns(c)' => held[ProcOf[c]].lock = caller'[c].lock
    PROVE  OneHand'
<1>1. \A p \in Procs : (Holds(p)' <=> Holds(p)) /\ (Ending(p)' <=> Ending(p))
  BY DEF Holds, Ending
<1>2. Quiet'
  BY DEF OneHand, Quiet, Exists
<1>3. ClaimsMatch' /\ OneClaim' /\ FileClaimed'
  BY <1>1 DEF OneHand, ClaimsMatch, OneClaim, FileClaimed, Exists
<1>4. OwnersHold'
  BY LockAssumption DEF OwnersHold
<1>. QED BY <1>2, <1>3, <1>4 DEF OneHand

LEMMA HandBegin ==
    ASSUME TypeInv, OneHand, NEW c \in Callers, Begin(c)  PROVE OneHand'
<1> DEFINE p == ProcOf[c]
<1>p. p \in Procs
  BY LockAssumption
<1>1. /\ UNCHANGED <<file, watchdog, cleaner, proc, revoked>>
      /\ caller[c].at = "idle"
  BY DEF Begin
<1>2. /\ \A q \in Procs : held'[q].lock = held[q].lock
      /\ \/ caller' = [caller EXCEPT ![c] = [at |-> "holding",
                                             lock |-> held[p].lock]]
         \/ caller' = [caller EXCEPT ![c] = [at |-> "opening",
                                             lock |-> requests + 1]]
  <2>1. CASE c \in Reentrant /\ held[p].lock # NoLock
    <3>1. Count(p, held[p].count + 1)
      BY <2>1 DEF Begin
    <3>2. held[p].count + 1 \in Nat
      BY <1>p DEF TypeInv, HeldOK
    <3>3. \A q \in Procs : held'[q].lock = held[q].lock
      BY <1>p, <3>1, <3>2, TableCounts
    <3>. QED BY <2>1, <3>3 DEF Begin
  <2>2. CASE ~(c \in Reentrant /\ held[p].lock # NoLock)
    BY <2>2 DEF Begin
  <2>. QED BY <2>1, <2>2
<1>3. /\ \A d \in Callers \ {c} : caller'[d] = caller[d]
      /\ \/ caller'[c] = [at |-> "holding", lock |-> held[p].lock]
         \/ caller'[c] = [at |-> "opening", lock |-> requests + 1]
  BY <1>2 DEF TypeInv, CallersOK
<1>4. ASSUME NEW d \in Callers
      PROVE  /\ caller'[d].at # "reclaiming"
             /\ Working(d)' <=> Working(d)
             /\ Working(d) => caller'[d].lock = caller[d].lock
             /\ Owns(d)' => held[ProcOf[d]].lock = caller'[d].lock
  <2>1. CASE d = c
    BY <1>1, <1>3, <2>1 DEF Working, Owns
  <2>2. CASE d # c
    BY <1>1, <1>3, <2>2 DEF Working, Owns, OneHand, Quiet, OwnersHold
  <2>. QED BY <2>1, <2>2
<1>. QED BY <1>1, <1>2, <1>4, HandSame

LEMMA HandWaits ==
    ASSUME TypeInv, OneHand, HasStarttime, NEW c \in Callers,
           Inspect(c) \/ Stat(c) \/ GiveUp(c) \/ (Open(c) /\ Exists)
    PROVE  OneHand'
<1>1. /\ UNCHANGED <<file, held, watchdog, cleaner, proc, revoked>>
      /\ caller[c].at \in {"opening", "waiting", "inspecting", "statting",
                            "reclaiming"}
  BY DEF Inspect, Stat, GiveUp, Open
<1>2. \/ Return(c)
      \/ \E place \in {"waiting", "inspecting", "statting"} : Goto(c, place)
  <2>1. CASE GiveUp(c) \/ (Open(c) /\ Exists)
    BY <2>1 DEF GiveUp, Open
  <2>2. CASE Inspect(c)
    <3>1. Readable => ~Stale /\ ~OrphanOf(ProcOf[c])
      BY DEF OneHand, Quiet, Readable, Stale, OrphanOf, PidAlive, PidRecycled
    <3>. QED BY <2>2, <3>1 DEF Inspect
  <2>3. CASE Stat(c)
    BY <2>3 DEF Stat, OneHand, Quiet
  <2>. QED BY <2>1, <2>2, <2>3
<1>3. /\ \A d \in Callers \ {c} : caller'[d] = caller[d]
      /\ caller'[c].at \in {"idle", "waiting", "inspecting", "statting"}
  <2>1. CASE Return(c)
    BY <2>1, CallerReturns DEF Idle
  <2>2. ASSUME NEW place \in {"waiting", "inspecting", "statting"}, Goto(c, place)
        PROVE  /\ \A d \in Callers \ {c} : caller'[d] = caller[d]
               /\ caller'[c].at = place
    <3>1. place \in Places /\ place # "idle" /\ caller[c].at # "idle"
      BY <1>1, PlacesNamed
    <3>2. /\ \A d \in Callers \ {c} : caller'[d] = caller[d]
          /\ caller'[c] = [at |-> place, lock |-> caller[c].lock]
      BY <2>2, <3>1, CallerMoves
    <3>. QED BY <3>2
  <2>. QED BY <1>2, <2>1, <2>2
<1>4. ASSUME NEW d \in Callers
      PROVE  /\ caller'[d].at # "reclaiming"
             /\ Working(d)' <=> Working(d)
             /\ Working(d) => caller'[d].lock = caller[d].lock
             /\ Owns(d)' => held[ProcOf[d]].lock = caller'[d].lock
  <2>1. CASE d = c
    BY <1>1, <1>3, <2>1 DEF Working, Owns
  <2>2. CASE d # c
    BY <1>1, <1>3, <2>2 DEF Working, Owns, OneHand, Quiet, OwnersHold
  <2>. QED BY <2>1, <2>2
<1>. QED BY <1>1, <1>4, HandSame

LEMMA HandOpen ==
    ASSUME TypeInv, OneHand, NEW c \in Callers, Open(c), ~Exists
    PROVE  OneHand'
<1>1. /\ UNCHANGED <<held, watchdog, cleaner, proc, revoked>>
      /\ caller[c].at \in {"opening", "waiting"} /\ Goto(c, "writing")
      /\ file' = [lock |-> caller[c].lock, proc |-> ProcOf[c],
                  pid |-> proc[ProcOf[c]].pid,
                  starttime |-> proc[ProcOf[c]].starttime,
                  written |-> FALSE, old |-> FALSE]
  BY DEF Open
<1>2. /\ caller'[c] = [at |-> "writing", lock |-> caller[c].lock]
      /\ \A d \in Callers \ {c} : caller'[d] = caller[d]
  BY <1>1, PlacesNamed, CallerMoves
<1>3. /\ \A d \in Callers : ~Working(d)
      /\ \A p \in Procs : ~Holds(p) /\ ~Ending(p)
  BY DEF OneHand, ClaimsMatch
<1>4. /\ \A d \in Callers : Working(d)' <=> d = c
      /\ \A p \in Procs : ~Holds(p)' /\ ~Ending(p)'
  BY <1>1, <1>2, <1>3 DEF Working, Holds, Ending
<1>5. Exists' /\ file'.lock = caller'[c].lock
  <2>1. file'.old = FALSE
    BY <1>1
  <2>2. caller[c].lock # NoLock
    BY <1>1, StepsAreNamed
  <2>. QED BY <1>1, <1>2, <2>2 DEF Exists, NoFile
<1>6. Quiet'
  BY <1>1, <1>2 DEF OneHand, Quiet
<1>7. ClaimsMatch' /\ OneClaim' /\ FileClaimed'
  BY <1>4, <1>5 DEF ClaimsMatch, OneClaim, FileClaimed
<1>8. OwnersHold'
  BY <1>1, <1>2 DEF OneHand, OwnersHold, Owns
<1>. QED BY <1>6, <1>7, <1>8 DEF OneHand

LEMMA HandWrite ==
    ASSUME TypeInv, OneHand, NEW c \in Callers, Write(c) \/ WriteFails(c)
    PROVE  OneHand'
<1>1. /\ UNCHANGED <<held, watchdog, cleaner, proc, revoked>>
      /\ caller[c].at = "writing"
      /\ \E place \in {"written", "removing"} : Goto(c, place)
  BY DEF Write, WriteFails
<1>2. /\ caller'[c].at \in {"written", "removing"}
      /\ caller'[c].lock = caller[c].lock
      /\ \A d \in Callers \ {c} : caller'[d] = caller[d]
  <2>1. PICK place \in {"written", "removing"} : Goto(c, place)
    BY <1>1
  <2>2. place \in Places /\ place # "idle" /\ caller[c].at # "idle"
    BY <1>1, PlacesNamed
  <2>3. /\ caller'[c] = [at |-> place, lock |-> caller[c].lock]
        /\ \A d \in Callers \ {c} : caller'[d] = caller[d]
    BY <2>1, <2>2, CallerMoves
  <2>. QED BY <2>3
<1>3. Exists /\ file.lock = caller[c].lock
  BY <1>1 DEF OneHand, ClaimsMatch, Working
<1>4. file' = file \/ file' = [file EXCEPT !.written = TRUE]
  BY <1>3 DEF Write, WriteFails
<1>5. /\ file'.lock = file.lock /\ file'.old = file.old /\ file'.pid = file.pid
      /\ file'.starttime = file.starttime /\ file'.proc = file.proc
      /\ Exists'
  <2>1. file \in Files
    BY <1>3 DEF TypeInv, FileOK, Exists
  <2>2. file'.lock = file.lock /\ file'.lock # NoLock
    BY <1>4, <2>1 DEF Files, NoLock
  <2>. QED BY <1>4, <2>1, <2>2 DEF Files, Exists, NoFile
<1>6. /\ \A d \in Callers : Working(d)' <=> Working(d)
      /\ \A d \in Callers : caller'[d].lock = caller[d].lock
      /\ \A p \in Procs : (Holds(p)' <=> Holds(p)) /\ (Ending(p)' <=> Ending(p))
  BY <1>1, <1>2 DEF Working, Holds, Ending
<1>7. Quiet'
  BY <1>1, <1>2, <1>3, <1>5 DEF OneHand, Quiet
<1>8. ClaimsMatch' /\ OneClaim' /\ FileClaimed'
  BY <1>1, <1>3, <1>5, <1>6
  DEF OneHand, ClaimsMatch, OneClaim, FileClaimed
<1>9. OwnersHold'
  BY <1>1, <1>2 DEF OneHand, OwnersHold, Owns
<1>. QED BY <1>7, <1>8, <1>9 DEF OneHand

(* The claim passes from the caller to the table of its process.           *)
LEMMA HandHold ==
    ASSUME TypeInv, OneHand, NEW c \in Callers, Hold(c)  PROVE OneHand'
<1> DEFINE p == ProcOf[c]
<1>p. p \in Procs
  BY LockAssumption
<1>1. /\ UNCHANGED <<file, watchdog, cleaner, proc, revoked>>
      /\ caller[c].at = "written" /\ Goto(c, "holding")
      /\ held' = [held EXCEPT ![p] = [lock |-> caller[c].lock, count |-> 1]]
  BY DEF Hold
<1>2. /\ caller'[c] = [at |-> "holding", lock |-> caller[c].lock]
      /\ \A d \in Callers \ {c} : caller'[d] = caller[d]
  BY <1>1, CallerMoves, PlacesNamed
<1>3. /\ held'[p].lock = caller[c].lock
      /\ \A q \in Procs \ {p} : held'[q] = held[q]
  BY <1>p, <1>1 DEF TypeInv, HeldOK
<1>4. /\ Exists /\ file.lock = caller[c].lock
      /\ \A d \in Callers : Working(d) => d = c
      /\ \A q \in Procs : ~Holds(q) /\ ~Ending(q)
  BY <1>1 DEF OneHand, ClaimsMatch, OneClaim, Working
<1>5. caller[c].lock # NoLock
  BY <1>1, StepsAreNamed
<1>6. /\ \A d \in Callers : ~Working(d)'
      /\ \A q \in Procs : (Holds(q)' <=> q = p) /\ ~Ending(q)'
  BY <1>1, <1>2, <1>3, <1>4, <1>5 DEF Working, Holds, Ending
<1>7. Quiet'
  BY <1>1, <1>2 DEF OneHand, Quiet, Exists
<1>8. ClaimsMatch' /\ OneClaim' /\ FileClaimed'
  BY <1>p, <1>1, <1>3, <1>4, <1>6
  DEF ClaimsMatch, OneClaim, FileClaimed, Exists
<1>9. OwnersHold'
  <2> SUFFICES ASSUME NEW d \in Callers, Owns(d)'
               PROVE  held'[ProcOf[d]].lock = caller'[d].lock
    BY DEF OwnersHold
  <2>1. CASE d = c
    BY <1>2, <1>3, <2>1
  <2>2. CASE d # c
    <3>1. Owns(d) /\ caller'[d] = caller[d]
      BY <1>1, <1>2, <2>2 DEF Owns
    <3>2. held[ProcOf[d]].lock = caller[d].lock /\ caller[d].lock # NoLock
      BY <3>1, StepsAreNamed DEF OneHand, OwnersHold, Owns
    <3>. QED BY <1>4, <3>2, LockAssumption DEF Holds
  <2>. QED BY <2>1, <2>2
<1>. QED BY <1>7, <1>8, <1>9 DEF OneHand

(* The last sharer takes the claim over; nobody else owns a lock by then.  *)
LEMMA HandRelease ==
    ASSUME TypeInv, SharedInv, OneHand, NEW c \in Callers, Release(c)
    PROVE  OneHand'
<1> DEFINE p == ProcOf[c]
<1>p. p \in Procs /\ caller[c].at = "holding"
      /\ UNCHANGED <<file, watchdog, cleaner, proc, revoked>>
  BY LockAssumption DEF Release
<1>1. CASE \/ held[p].lock # caller[c].lock
           \/ held[p].count > 1
  <2>1. /\ Return(c)
        /\ \A q \in Procs : held'[q].lock = held[q].lock
    <3>1. CASE held[p].lock # caller[c].lock
      BY <3>1 DEF Release
    <3>2. CASE held[p].lock = caller[c].lock /\ held[p].count > 1
      <4>1. Return(c) /\ Count(p, held[p].count - 1)
        BY <3>2 DEF Release
      <4>2. held[p].count - 1 \in Nat
        BY <1>p, <3>2 DEF TypeInv, HeldOK
      <4>3. \A q \in Procs : held'[q].lock = held[q].lock
        BY <1>p, <4>1, <4>2, TableCounts
      <4>. QED BY <4>1, <4>3
    <3>. QED BY <1>1, <3>1, <3>2
  <2>2. caller'[c].at = "idle" /\ \A d \in Callers \ {c} : caller'[d] = caller[d]
    BY <2>1, CallerReturns DEF Idle
  <2>3. ASSUME NEW d \in Callers
        PROVE  /\ caller'[d].at # "reclaiming"
               /\ Working(d)' <=> Working(d)
               /\ Working(d) => caller'[d].lock = caller[d].lock
               /\ Owns(d)' => held[ProcOf[d]].lock = caller'[d].lock
    <3>1. CASE d = c
      BY <1>p, <2>2, <3>1 DEF Working, Owns
    <3>2. CASE d # c
      BY <1>p, <2>2, <3>2 DEF Working, Owns, OneHand, Quiet, OwnersHold
    <3>. QED BY <3>1, <3>2
  <2>. QED BY <1>p, <2>1, <2>3, HandSame
<1>2. CASE held[p].lock = caller[c].lock /\ ~(held[p].count > 1)
  <2>1. Drop(p) /\ Goto(c, "removing")
    BY <1>2 DEF Release
  <2>2. /\ caller'[c] = [at |-> "removing", lock |-> caller[c].lock]
        /\ \A d \in Callers \ {c} : caller'[d] = caller[d]
    BY <1>p, <2>1, CallerMoves, PlacesNamed
  <2>3. /\ held'[p].lock = NoLock
        /\ \A q \in Procs \ {p} : held'[q] = held[q]
    BY <1>p, <2>1, TableDropped
  <2>4. caller[c].lock # NoLock
    BY <1>p, StepsAreNamed
  <2>5. /\ Exists /\ file.lock = caller[c].lock
        /\ \A d \in Callers : ~Working(d)
        /\ \A q \in Procs : (Holds(q) <=> q = p) /\ ~Ending(q)
    BY <1>p, <1>2, <2>4 DEF OneHand, ClaimsMatch, OneClaim, Holds
  <2>6. /\ \A d \in Callers : Working(d)' <=> d = c
        /\ \A q \in Procs : ~Holds(q)' /\ ~Ending(q)'
    BY <1>p, <2>2, <2>3, <2>5 DEF Working, Holds, Ending
  <2>7. Quiet'
    BY <1>p, <2>2 DEF OneHand, Quiet, Exists
  <2>8. ClaimsMatch' /\ OneClaim' /\ FileClaimed'
    BY <1>p, <2>2, <2>5, <2>6 DEF ClaimsMatch, OneClaim, FileClaimed, Exists
  <2>9. OwnersHold'
    <3> SUFFICES ASSUME NEW d \in Callers, Owns(d)'  PROVE FALSE
      BY DEF OwnersHold
    <3>1. d # c /\ caller'[d] = caller[d]
      BY <2>2 DEF Owns
    <3>2. caller[d].at = "holding" /\ Owns(d)
      BY <1>p, <3>1 DEF Owns
    <3>3. caller[d].lock # NoLock
      BY <3>2, StepsAreNamed
    <3>4. held[ProcOf[d]].lock = caller[d].lock
      BY <3>2 DEF OneHand, OwnersHold
    <3>5. ProcOf[d] = p
      BY <2>5, <3>3, <3>4, LockAssumption DEF Holds
    <3>6. c \in Sharers(p) /\ d \in Sharers(p)
      BY <1>p, <1>2, <3>2, <3>4, <3>5 DEF Sharers, TypeInv, CallersOK
    <3>7. /\ Cardinality(Sharers(p)) \in Nat
          /\ Cardinality(Sharers(p) \ {c}) = Cardinality(Sharers(p)) - 1
          /\ IsFiniteSet(Sharers(p) \ {c})
      BY <1>p, <3>6, SharersFinite, FS_RemoveElement, FS_CardinalityType
    <3>8. Cardinality(Sharers(p) \ {c}) # 0
      <4> DEFINE S == Sharers(p) \ {c}
      <4>1. d \in S /\ IsFiniteSet(S)
        BY <3>1, <3>6, <3>7
      <4>2. S # {}
        BY <4>1
      <4> HIDE DEF S
      <4>3. Cardinality(S) # 0
        BY <4>1, <4>2, FS_EmptySet
      <4>. QED BY <4>3 DEF S
    <3>9. held[p].count = Cardinality(Sharers(p))
      BY <1>p, <1>2, <2>4 DEF SharedInv, SharedUntilLast
    <3>10. Cardinality(Sharers(p) \ {c}) \in Nat
      BY <3>7, FS_CardinalityType
    <3>. QED BY <1>2, <3>7, <3>8, <3>9, <3>10
  <2>. QED BY <2>7, <2>8, <2>9 DEF OneHand
<1>. QED BY <1>1, <1>2

(* The claim ends with the file.                                           *)
LEMMA HandRemove ==
    ASSUME TypeInv, OneHand, NEW c \in Callers, Remove(c)  PROVE OneHand'
<1>1. /\ UNCHANGED <<held, watchdog, cleaner, proc, revoked>>
      /\ caller[c].at = "removing" /\ Return(c) /\ file' = NoFile
  BY DEF Remove
<1>2. caller'[c].at = "idle" /\ \A d \in Callers \ {c} : caller'[d] = caller[d]
  BY <1>1, CallerReturns DEF Idle
<1>3. /\ \A d \in Callers : Working(d) => d = c
      /\ \A q \in Procs : ~Holds(q) /\ ~Ending(q)
  BY <1>1 DEF OneHand, OneClaim, Working
<1>4. /\ \A d \in Callers : ~Working(d)'
      /\ \A q \in Procs : ~Holds(q)' /\ ~Ending(q)'
  BY <1>1, <1>2, <1>3 DEF Working, Holds, Ending
<1>5. Quiet'
  BY <1>1, <1>2 DEF OneHand, Quiet, Exists
<1>6. ClaimsMatch' /\ OneClaim' /\ FileClaimed'
  BY <1>1, <1>4 DEF ClaimsMatch, OneClaim, FileClaimed, Exists
<1>7. OwnersHold'
  BY <1>1, <1>2 DEF OneHand, OwnersHold, Owns
<1>. QED BY <1>5, <1>6, <1>7 DEF OneHand

(* The watchdog takes the claim from the holders, who write on.            *)
LEMMA HandExpire ==
    ASSUME TypeInv, OneHand, NEW p \in Procs, Expire(p)  PROVE OneHand'
<1>1. /\ UNCHANGED <<file, caller, cleaner, proc>>
      /\ held[p].lock # NoLock /\ Drop(p)
      /\ revoked' = revoked \cup {held[p].lock}
      /\ watchdog' = [watchdog EXCEPT ![p] = "removing"]
  BY DEF Expire
<1>2. /\ held'[p].lock = NoLock
      /\ \A q \in Procs \ {p} : held'[q] = held[q]
  BY <1>1, TableDropped
<1>3. watchdog'[p] = "removing" /\ \A q \in Procs \ {p} : watchdog'[q] = watchdog[q]
  BY <1>1 DEF TypeInv, OthersOK
<1>4. /\ Exists
      /\ \A d \in Callers : ~Working(d)
      /\ \A q \in Procs : (Holds(q) <=> q = p) /\ ~Ending(q)
  BY <1>1 DEF OneHand, ClaimsMatch, OneClaim, Holds
<1>5. /\ \A d \in Callers : ~Working(d)'
      /\ \A q \in Procs : ~Holds(q)' /\ (Ending(q)' <=> q = p)
  BY <1>1, <1>2, <1>3, <1>4 DEF Working, Holds, Ending
<1>6. Quiet'
  BY <1>1 DEF OneHand, Quiet, Exists
<1>7. ClaimsMatch' /\ OneClaim' /\ FileClaimed'
  BY <1>1, <1>4, <1>5 DEF ClaimsMatch, OneClaim, FileClaimed, Exists
<1>8. OwnersHold'
  <2> SUFFICES ASSUME NEW d \in Callers, Owns(d)'  PROVE FALSE
    BY DEF OwnersHold
  <2>1. Owns(d) /\ caller[d].lock # held[p].lock
    BY <1>1 DEF Owns
  <2>2. held[ProcOf[d]].lock = caller[d].lock /\ caller[d].lock # NoLock
    BY <2>1, StepsAreNamed DEF OneHand, OwnersHold, Owns
  <2>. QED BY <1>4, <2>1, <2>2, LockAssumption DEF Holds
<1>. QED BY <1>6, <1>7, <1>8 DEF OneHand

LEMMA HandEnd ==
    ASSUME TypeInv, OneHand, NEW p \in Procs, RemoveExpired(p)  PROVE OneHand'
<1>1. /\ UNCHANGED <<held, caller, cleaner, proc, revoked>>
      /\ watchdog[p] = "removing" /\ file' = NoFile
      /\ watchdog' = [watchdog EXCEPT ![p] = "idle"]
  BY DEF RemoveExpired
<1>2. watchdog'[p] = "idle" /\ \A q \in Procs \ {p} : watchdog'[q] = watchdog[q]
  BY <1>1 DEF TypeInv, OthersOK
<1>3. /\ \A d \in Callers : ~Working(d)
      /\ \A q \in Procs : ~Holds(q) /\ (Ending(q) => q = p)
  BY <1>1 DEF OneHand, OneClaim, Ending
<1>4. /\ \A d \in Callers : ~Working(d)'
      /\ \A q \in Procs : ~Holds(q)' /\ ~Ending(q)'
  BY <1>1, <1>2, <1>3 DEF Working, Holds, Ending
<1>5. Quiet'
  BY <1>1 DEF OneHand, Quiet, Exists
<1>6. ClaimsMatch' /\ OneClaim' /\ FileClaimed'
  BY <1>1, <1>4 DEF ClaimsMatch, OneClaim, FileClaimed, Exists
<1>7. OwnersHold'
  BY <1>1 DEF OneHand, OwnersHold, Owns
<1>. QED BY <1>5, <1>6, <1>7 DEF OneHand

(* A file that somebody has a claim to does not grow old.                  *)
LEMMA ClaimedIsInUse ==
    ASSUME OneHand, ~LongRuns, Exists  PROVE InUse
BY DEF OneHand, ClaimsMatch, FileClaimed, Working, Holds, Ending, InUse

LEMMA CalmKept ==
    TypeInv /\ SharedInv /\ CalmInv /\ [Next]_vars => CalmInv'
<1> SUFFICES ASSUME TypeInv, SharedInv, CalmInv, [Next]_vars, Calm'
             PROVE  OneHand'
  BY DEF CalmInv
<1>n. disturbances \in Nat /\ disturbances' = 0 /\ HasStarttime /\ ~LongRuns
  BY LockAssumption DEF TypeInv, OthersOK, Calm
<1>o. disturbances = 0 => OneHand
  BY <1>n DEF CalmInv, Calm
<1>1. ASSUME NEW c \in Callers, Begin(c)  PROVE OneHand'
  BY <1>1, <1>n, <1>o, HandBegin DEF Begin
<1>2. ASSUME NEW c \in Callers, Open(c)  PROVE OneHand'
  <2>1. OneHand
    BY <1>2, <1>n, <1>o DEF Open
  <2>. QED BY <1>2, <1>n, <2>1, HandOpen, HandWaits
<1>3. ASSUME NEW c \in Callers, Inspect(c) \/ Stat(c) \/ GiveUp(c)  PROVE OneHand'
  <2>1. OneHand
    BY <1>3, <1>n, <1>o DEF Inspect, Stat, GiveUp
  <2>. QED BY <1>3, <1>n, <2>1, HandWaits
<1>4. ASSUME NEW c \in Callers, Write(c) \/ WriteFails(c)  PROVE OneHand'
  <2>1. OneHand
    BY <1>4, <1>n, <1>o DEF Write, WriteFails
  <2>. QED BY <1>4, <2>1, HandWrite
<1>5. ASSUME NEW c \in Callers, Hold(c)  PROVE OneHand'
  BY <1>5, <1>n, <1>o, HandHold DEF Hold
<1>6. ASSUME NEW c \in Callers, Release(c)  PROVE OneHand'
  BY <1>6, <1>n, <1>o, HandRelease DEF Release
<1>7. ASSUME NEW c \in Callers, Remove(c)  PROVE OneHand'
  BY <1>7, <1>n, <1>o, HandRemove DEF Remove
<1>8. ASSUME NEW c \in Callers, Reclaim(c)  PROVE FALSE
  BY <1>8, <1>n, <1>o DEF Reclaim, OneHand, Quiet
<1>9. ASSUME NEW p \in Procs, Expire(p)  PROVE OneHand'
  BY <1>9, <1>n, <1>o, HandExpire DEF Expire
<1>10. ASSUME NEW p \in Procs, RemoveExpired(p)  PROVE OneHand'
  BY <1>10, <1>n, <1>o, HandEnd DEF RemoveExpired
<1>11. ASSUME NEW p \in Procs, CleanRead(p) \/ CleanRemove(p)  PROVE FALSE
  BY <1>11, <1>n, <1>o DEF CleanRead, CleanRemove, OneHand, Quiet
<1>12. ASSUME NEW p \in Procs, CleanList(p) \/ Signal(p)  PROVE FALSE
  BY <1>12, <1>n DEF CleanList, Signal
<1>13. ASSUME NEW c \in Callers, RemoveFails(c)  PROVE FALSE
  BY <1>13, <1>n DEF RemoveFails
<1>14. ASSUME NEW p \in Procs, NEW pid \in {proc[p].pid, proc[p].pid + 1},
              NEW orderly \in BOOLEAN, Restart(p, pid, orderly)
       PROVE  FALSE
  BY <1>14, <1>n DEF Restart
<1>15. CASE GrowOld
  BY <1>15, <1>n, <1>o, ClaimedIsInUse DEF GrowOld
<1>16. CASE UNCHANGED vars
  BY <1>16, <1>n, <1>o
  DEF vars, OneHand, Quiet, ClaimsMatch, OneClaim, FileClaimed, OwnersHold,
      Owns, Working, Holds, Ending, Exists
<1>. QED
  BY <1>1, <1>2, <1>3, <1>4, <1>5, <1>6, <1>7, <1>8, <1>9, <1>10, <1>11, <1>12,
     <1>13, <1>14, <1>15, <1>16
  DEF Next, Acquire, Leave, Clean

(* acquireSessionWriteLock: as long as no lock file was left behind or     *)
(* taken away, all who write a session at once share one lock, apart from  *)
(* those whose lock the watchdog released while they held it.              *)
THEOREM SessionsHaveOneWriter == Spec => []SingleWriter
<1>1. Init => TypeInv /\ SharedInv /\ CalmInv
  BY TypesInit, SharedInit, CalmInit
<1>2. TypeInv /\ SharedInv /\ CalmInv /\ [Next]_vars
        => (TypeInv /\ SharedInv /\ CalmInv)'
  BY TypesKept, SharedKept, CalmKept
<1>3. Spec => [](TypeInv /\ SharedInv /\ CalmInv)
  BY <1>1, <1>2, PTL DEF Spec
<1>. QED BY <1>3, CalmIsSingle, PTL
=============================================================================
