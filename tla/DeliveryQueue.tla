---------------------------- MODULE DeliveryQueue ----------------------------
(***************************************************************************)
(* The write-ahead queue of outbound messages: a delivery is a file in     *)
(* delivery-queue/ before the first payload is sent, the file goes when    *)
(* the delivery is over, and a gateway that starts replays what it finds.  *)
(*                                                                         *)
(* The actors are the live delivery of each message and the recovery pass  *)
(* of each start.  A pass runs beside live deliveries and, when the        *)
(* gateway restarts inside its process, beside an earlier pass.  A step is *)
(* what runs between two awaits, one file operation or one call of the     *)
(* channel.                                                                *)
(***************************************************************************)
EXTENDS Integers, FiniteSets

CONSTANTS
    Messages,    \* outbound messages, each delivered once by its caller
    Payloads,    \* message -> number of payloads the channel takes one by one
    Options,     \* options a caller may pass: bestEffort, onError, mirror
    Hooked,      \* sets of payloads a message_sending hook may cancel
    MaxRetries,  \* MAX_RETRIES of the code
    MaxBoots,    \* bound: starts of the gateway
    MaxFaults    \* bound: calls of the channel or the mirror that fail

Passes == 1..MaxBoots
Absent == -1
AllPayloads == UNION {{m} \X (1..Payloads[m]) : m \in Messages}

ASSUME DeliveryAssumption ==
    /\ IsFiniteSet(Messages) /\ Messages \cap Passes = {}
    /\ Payloads \in [Messages -> Nat \ {0}]
    /\ Options \subseteq [bestEffort : BOOLEAN, onError : BOOLEAN,
                          mirror : BOOLEAN]
    /\ Hooked \subseteq SUBSET AllPayloads
    /\ MaxRetries \in Nat \ {0} /\ MaxBoots \in Nat \ {0} /\ MaxFaults \in Nat

VARIABLES
    file,      \* retryCount in the message's queue file, or Absent
    failed,    \* retryCount in its file under failed/, or Absent
    options,   \* what the caller of its delivery asked for
    cancelled, \* payloads a message_sending hook cancels, each time
    job,       \* where each actor is
    pending,   \* entries a recovery pass has loaded and not picked
    enqueuedAt,\* rank of a persisted message, or 0
    aborted,   \* messages whose caller has fired the abort signal
    sent,      \* <<message, payload>> -> times the channel took it
    attempts,  \* message -> errors its attempts ran into
    permanent, \* messages some attempt failed on with a permanent error
    boots, faults

disk    == <<file, failed>>
history == <<enqueuedAt, sent, attempts, permanent>>
fixed   == <<options, cancelled>>
vars == <<disk, fixed, job, pending, aborted, history, boots, faults>>

Actors == Messages \cup Passes

(* A job is about a message; a pass has none (is about itself) until it    *)
(* picks an entry.                                                         *)
JobOf(place, about) == [at |-> place, about |-> about, i |-> 1, any |-> FALSE,
                           partial |-> FALSE, count |-> 0]

Init ==
    /\ file   = [m \in Messages |-> Absent]
    /\ failed = [m \in Messages |-> Absent]
    /\ options \in [Messages -> Options]
    /\ cancelled \in Hooked
    /\ job = [a \in Actors |-> JobOf(IF a = 1 THEN "loading" ELSE "idle", a)]
    /\ pending = [b \in Passes |-> {}]
    /\ enqueuedAt = [m \in Messages |-> 0]
    /\ aborted = {}
    /\ sent = [p \in AllPayloads |-> 0]
    /\ attempts = [m \in Messages |-> 0]
    /\ permanent = {}
    /\ boots = 1 /\ faults = 0

-----------------------------------------------------------------------------
(* Actors                                                                  *)

Live(a) == a \in Messages
About(a) == job[a].about

(* An actor is through with its message: a caller returns, a recovery pass *)
(* turns to its next entry.                                                *)
Through(a) ==
    job' = [job EXCEPT ![a] = IF Live(a) THEN JobOf("done", a)
                                         ELSE JobOf("picking", a)]

Goto(a, place) == job' = [job EXCEPT ![a].at = place]

(* enqueueDelivery, or its error, which the delivery ignores.              *)
Enqueue(m, persisted) ==
    /\ job[m].at = "idle"
    /\ IF persisted
       THEN /\ file' = [file EXCEPT ![m] = 0]
            /\ enqueuedAt' = [enqueuedAt EXCEPT ![m] = 1 +
                   Cardinality({n \in Messages : enqueuedAt[n] > 0})]
            /\ Goto(m, "sending")
       ELSE /\ Goto(m, "unqueued")
            /\ UNCHANGED <<file, enqueuedAt>>
    /\ UNCHANGED <<failed, fixed, pending, aborted, sent, attempts, permanent,
                   boots, faults>>

Abort(m) ==
    /\ job[m].at \in {"sending", "unqueued"} /\ m \notin aborted
    /\ aborted' = aborted \cup {m}
    /\ UNCHANGED <<disk, fixed, job, pending, history, boots, faults>>

-----------------------------------------------------------------------------
(* deliverOutboundPayloads                                                 *)

Sending(a) == job[a].at \in {"sending", "unqueued"}
Payload(a) == <<About(a), job[a].i>>

NextPayload(a, any, partial) ==
    job' = [job EXCEPT ![a].i = @ + 1, ![a].any = @ \/ any,
                       ![a].partial = @ \/ partial]

(* Mutant: every error of a live delivery is taken for an abort.           *)
ThrownAborted(a, error) ==
    IF job[a].at = "unqueued" THEN Goto(a, "done")
    ELSE IF Live(a) THEN Goto(a, "acking")
    ELSE Goto(a, IF error = "permanent" THEN "moving" ELSE "failing")

(* What becomes of the entry when the delivery throws.  A delivery without *)
(* an entry has nothing to do.                                             *)
Thrown(a, error) ==
    IF job[a].at = "unqueued" THEN Goto(a, "done")
    ELSE IF Live(a)
    THEN Goto(a, IF error = "abort" THEN "acking" ELSE "failing")
    ELSE Goto(a, IF error = "permanent" THEN "moving" ELSE "failing")

(* Mutant: a failed payload of a best-effort delivery is tried again.      *)
PayloadFailsRetrying(a, error) ==
    LET m == About(a)
    IN  /\ IF options[m].bestEffort THEN UNCHANGED job ELSE Thrown(a, error)
        /\ attempts' = [attempts EXCEPT ![m] = @ + 1]
        /\ permanent' = IF error = "permanent" THEN permanent \cup {m}
                                               ELSE permanent

(* One payload fails: the others go on under bestEffort, and only a caller *)
(* with an onError of its own learns of it.                                *)
PayloadFails(a, error) ==
    LET m == About(a)
    IN  /\ IF options[m].bestEffort
           THEN NextPayload(a, FALSE, Live(a) /\ options[m].onError)
           ELSE Thrown(a, error)
        /\ attempts' = [attempts EXCEPT ![m] = @ + 1]
        /\ permanent' = IF error = "permanent" THEN permanent \cup {m}
                                               ELSE permanent

(* createChannelHandler: the channel has no adapter any more.  That is a    *)
(* permanent error, and the whole delivery's rather than a payload's.      *)
ChannelMissing(a) ==
    /\ Sending(a) /\ job[a].i = 1 /\ faults < MaxFaults
    /\ faults' = faults + 1
    /\ Thrown(a, "permanent")
    /\ attempts' = [attempts EXCEPT ![About(a)] = @ + 1]
    /\ permanent' = permanent \cup {About(a)}
    /\ UNCHANGED <<disk, fixed, pending, aborted, enqueuedAt, sent, boots>>

Unaborted(a) ==
    /\ Sending(a) /\ job[a].i <= Payloads[About(a)]
    /\ ~(Live(a) /\ a \in aborted)

PayloadSent(a) ==
    /\ Unaborted(a) /\ Payload(a) \notin cancelled
    /\ sent' = [sent EXCEPT ![Payload(a)] = @ + 1]
    /\ NextPayload(a, TRUE, FALSE)
    /\ UNCHANGED <<disk, fixed, pending, aborted, enqueuedAt, attempts,
                   permanent, boots, faults>>

PayloadCancelled(a) ==
    /\ Unaborted(a) /\ Payload(a) \in cancelled
    /\ NextPayload(a, FALSE, FALSE)
    /\ UNCHANGED <<disk, fixed, pending, aborted, history, boots, faults>>

(* The channel reports an error.  When it is not a permanent one, the      *)
(* channel may have taken the payload all the same.                        *)
ChannelFails(a, error, reached) ==
    /\ Unaborted(a) /\ Payload(a) \notin cancelled /\ faults < MaxFaults
    /\ reached => error = "transient"
    /\ faults' = faults + 1
    /\ sent' = IF reached THEN [sent EXCEPT ![Payload(a)] = @ + 1] ELSE sent
    /\ PayloadFails(a, error)
    /\ UNCHANGED <<disk, fixed, pending, aborted, enqueuedAt, boots>>

PayloadAborted(a) ==
    /\ Live(a) /\ a \in aborted
    /\ Sending(a) /\ job[a].i <= Payloads[a]
    /\ PayloadFails(a, "abort")
    /\ UNCHANGED <<disk, fixed, pending, aborted, enqueuedAt, sent, boots,
                   faults>>

(* After the last payload: append to the session's transcript, which may   *)
(* throw, and settle the entry.                                            *)
AllTried(a) == Sending(a) /\ job[a].i > Payloads[About(a)]

Close(a) ==
    /\ AllTried(a)
    /\ IF job[a].at = "unqueued" THEN Goto(a, "done")
       ELSE Goto(a, IF job[a].partial THEN "failing" ELSE "acking")
    /\ UNCHANGED <<disk, fixed, pending, aborted, history, boots, faults>>

MirrorFails(a) ==
    /\ AllTried(a) /\ faults < MaxFaults
    /\ options[About(a)].mirror /\ job[a].any
    /\ faults' = faults + 1
    /\ Thrown(a, "transient")
    /\ attempts' = [attempts EXCEPT ![About(a)] = @ + 1]
    /\ UNCHANGED <<disk, fixed, pending, aborted, enqueuedAt, sent,
                   permanent, boots>>

-----------------------------------------------------------------------------
(* Files                                                                   *)

Acknowledge(a) ==
    /\ job[a].at = "acking"
    /\ file' = [file EXCEPT ![About(a)] = Absent]
    /\ Through(a)
    /\ UNCHANGED <<failed, fixed, pending, aborted, history, boots, faults>>

(* failDelivery reads the file, then writes a temporary one and renames it *)
(* over the file, whether or not that is still there.                      *)
FailRead(a) ==
    /\ job[a].at = "failing"
    /\ IF file[About(a)] = Absent
       THEN Through(a)
       ELSE job' = [job EXCEPT ![a].at = "writing",
                               ![a].count = file[About(a)] + 1]
    /\ UNCHANGED <<disk, fixed, pending, aborted, history, boots, faults>>

FailWrite(a) ==
    /\ job[a].at = "writing"
    /\ file' = [file EXCEPT ![About(a)] = job[a].count]
    /\ Through(a)
    /\ UNCHANGED <<failed, fixed, pending, aborted, history, boots, faults>>

MoveToFailed(a) ==
    LET m == About(a)
    IN  /\ job[a].at = "moving"
        /\ IF file[m] = Absent THEN UNCHANGED <<file, failed>>
           ELSE /\ failed' = [failed EXCEPT ![m] = file[m]]
                /\ file' = [file EXCEPT ![m] = Absent]
        /\ Through(a)
        /\ UNCHANGED <<fixed, pending, aborted, history, boots, faults>>

-----------------------------------------------------------------------------
(* recoverPendingDeliveries                                                *)

Entries == {[m |-> m, retryCount |-> file[m]] :
               m \in {n \in Messages : file[n] # Absent}}

(* loadPendingDeliveries                                                   *)
Load(b) ==
    /\ job[b].at = "loading"
    /\ Goto(b, "picking")
    /\ pending' = [pending EXCEPT ![b] = Entries]
    /\ UNCHANGED <<disk, fixed, aborted, history, boots, faults>>

(* The pass takes its oldest entry and decides by what it loaded, not by   *)
(* the file as it is now.                                                  *)
Pick(b, e, place) ==
    /\ job[b].at = "picking"
    /\ e \in pending[b]
    /\ \A f \in pending[b] : enqueuedAt[e.m] <= enqueuedAt[f.m]
    /\ pending' = [pending EXCEPT ![b] = @ \ {e}]
    /\ job' = [job EXCEPT ![b] =
                  IF place = "picking" THEN @ ELSE JobOf(place, e.m)]
    /\ UNCHANGED <<disk, fixed, aborted, history, boots, faults>>

(* Mutant: an entry is given up one retry early.                           *)
PickSpentEarly(b, e) == e.retryCount + 1 >= MaxRetries /\ Pick(b, e, "moving")

PickSpent(b, e) == e.retryCount >= MaxRetries /\ Pick(b, e, "moving")

(* An entry no attempt has touched yet needs no backoff; for the others    *)
(* the clock says whether theirs is over.                                  *)
PickEligible(b, e) == e.retryCount < MaxRetries /\ Pick(b, e, "sending")

Defer(b, e) ==
    /\ e.retryCount \in 1..(MaxRetries - 1)
    /\ Pick(b, e, "picking")

(* No entry is left, or the time budget of the pass is used up.            *)
EndPass(b) ==
    /\ job[b].at = "picking"
    /\ Goto(b, "done")
    /\ pending' = [pending EXCEPT ![b] = {}]
    /\ UNCHANGED <<disk, fixed, aborted, history, boots, faults>>

-----------------------------------------------------------------------------
(* Starts and crashes                                                      *)

(* A restart inside the process: what is under way goes on beside the pass *)
(* of the new start.                                                       *)
Restart ==
    /\ boots < MaxBoots
    /\ boots' = boots + 1
    /\ job' = [job EXCEPT ![boots + 1].at = "loading"]
    /\ UNCHANGED <<disk, fixed, pending, aborted, history, faults>>

(* A crash and the next start.                                             *)
Crash ==
    /\ boots < MaxBoots
    /\ boots' = boots + 1
    /\ job' = [a \in Actors |->
                  IF a = boots + 1 THEN JobOf("loading", a)
                  ELSE IF job[a].at = "idle" THEN job[a]
                  ELSE JobOf("done", a)]
    /\ pending' = [b \in Passes |-> {}]
    /\ UNCHANGED <<disk, fixed, aborted, history, faults>>

-----------------------------------------------------------------------------
Deliver(a) ==
    \/ ChannelMissing(a)
    \/ PayloadSent(a) \/ PayloadCancelled(a) \/ PayloadAborted(a)
    \/ \E error \in {"transient", "permanent"}, reached \in BOOLEAN :
          ChannelFails(a, error, reached)
    \/ Close(a) \/ MirrorFails(a)
    \/ Acknowledge(a) \/ FailRead(a) \/ FailWrite(a)
    \/ MoveToFailed(a)

Next ==
    \/ \E m \in Messages : Abort(m) \/ \E ok \in BOOLEAN : Enqueue(m, ok)
    \/ \E a \in Actors : Deliver(a)
    \/ \E b \in Passes :
          \/ Load(b) \/ EndPass(b)
          \/ \E e \in pending[b] : PickSpent(b, e) \/ PickEligible(b, e)
                                   \/ Defer(b, e)
    \/ Restart \/ Crash

Spec == Init /\ [][Next]_vars

-----------------------------------------------------------------------------
(* Properties                                                              *)

Places == {"idle", "unqueued", "sending", "acking", "failing", "writing",
           "moving", "loading", "picking", "done"}

(* The type of the state.                                                  *)
TypeOK ==
    /\ file   \in [Messages -> Nat \cup {Absent}]
    /\ failed \in [Messages -> Nat \cup {Absent}]
    /\ options \in [Messages -> Options]
    /\ job \in [Actors -> [at : Places, about : Actors, i : Nat, any : BOOLEAN,
                          partial : BOOLEAN, count : Nat]]
    /\ pending \in [Passes -> SUBSET [m : Messages, retryCount : Nat]]
    /\ enqueuedAt \in [Messages -> Nat]
    /\ aborted \subseteq Messages
    /\ sent \in [AllPayloads -> Nat]
    /\ cancelled \subseteq AllPayloads
    /\ attempts \in [Messages -> Nat]
    /\ permanent \subseteq Messages
    /\ boots \in Passes /\ faults \in Nat

Persisted(m) == enqueuedAt[m] > 0
Kept(m)      == file[m] # Absent \/ failed[m] # Absent
Delivered(m) == \A i \in 1..Payloads[m] :
                    sent[<<m, i>>] > 0 \/ <<m, i>> \in cancelled

(* A persisted message is in the queue or under failed/ until all of its   *)
(* payloads were sent or cancelled, or its caller aborted it: crashes      *)
(* between any two steps, errors the channel reports too late, and actors  *)
(* that rewrite, move or remove one file at once lose none.  (Best-effort  *)
(* deliveries are another matter, see BestEffortIsRetried.)                *)
NothingLost ==
    \A m \in Messages :
        (Persisted(m) /\ ~options[m].bestEffort) =>
            Kept(m) \/ Delivered(m) \/ m \in aborted

(* What lies under failed/ was given up for a reason: an attempt met a     *)
(* permanent error, or MAX_RETRIES of them ran into errors.                *)
FailedHasCause ==
    \A m \in Messages :
        failed[m] # Absent => m \in permanent \/ attempts[m] >= MaxRetries

(* However crashes, restarts and errors fall, each pass sends a payload at *)
(* most once, beside the one time of its live delivery.                    *)
ResendsBounded == \A p \in AllPayloads : sent[p] <= 1 + boots

(* "We track whether any payload failed so we can call failDelivery        *)
(* instead of ackDelivery": a best-effort delivery that was persisted is   *)
(* kept too until its payloads were sent.                                  *)
BestEffortIsRetried ==
    \A m \in Messages :
        (Persisted(m) /\ options[m].bestEffort) =>
            Kept(m) \/ Delivered(m) \/ m \in aborted

(* "Recover pending outbound deliveries from previous crash/restart": as   *)
(* long as nothing crashed, restarted or failed, nothing is sent twice.    *)
SentOnce ==
    (boots = 1 /\ faults = 0) => \A p \in AllPayloads : sent[p] <= 1
=============================================================================
