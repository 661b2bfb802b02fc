-------------------------- MODULE ReplicaSyncProofs --------------------------
(***************************************************************************)
(* The safety of the replica queue, for any number of writes, snapshots    *)
(* and faults: Inductive is an invariant of ReplicaSync.  One lemma per    *)
(* action shows that the action preserves it.                              *)
(***************************************************************************)
EXTENDS ReplicaSync, FiniteSetTheorems, WellFoundedInduction, TLAPS

-----------------------------------------------------------------------------
(* The operators                                                           *)

\* A set of naturals that is not empty has a least element.
LEMMA LeastElement ==
    ASSUME NEW S \in SUBSET Nat, S # {}
    PROVE  \E x \in S : \A y \in S : x <= y
  <1> DEFINE R == OpToRel(<, Nat)
  <1>1. IsWellFoundedOn(R, Nat)
    BY NatLessThanWellFounded
  <1>2. PICK z : z \in S
    OBVIOUS
  <1> HIDE DEF R
  <1>3. PICK x \in S : \A y \in S : ~(<<y, x>> \in R)
    BY <1>1, <1>2, WFMin
  <1>4. \A y \in S : y < x => <<y, x>> \in R
    BY DEF R, OpToRel
  <1>5. \A y \in S : x <= y
    <2> TAKE y \in S
    <2>1. x \in Nat /\ y \in Nat
      OBVIOUS
    <2>2. ~(y < x)
      BY <1>3, <1>4
    <2> QED
      BY <2>1, <2>2
  <1> QED
    BY <1>5

\* The snapshot that the loop takes next is one of those that are left.
LEMMA UnqueuedIsLeft ==
    ASSUME NEW p \in Thread, thread[p].todo \in SUBSET Nat, thread[p].todo # {}
    PROVE  Unqueued(p) \in thread[p].todo
  <1>1. \E x \in thread[p].todo : \A y \in thread[p].todo : x <= y
    BY LeastElement
  <1> QED
    BY <1>1 DEF Unqueued

\* It is the same one as long as the list is.
LEMMA UnqueuedStays ==
    ASSUME NEW p \in Thread, thread'[p].todo = thread[p].todo
    PROVE  Unqueued(p)' = Unqueued(p)
  BY DEF Unqueued

\* There is always a pin id that no pin and no row has.
LEMMA FreshPinExists ==
    ASSUME TypeOK
    PROVE  FreshPin \in Nat \ {NoPin} /\ FreshPin \notin UsedPins
  <1> DEFINE n == Cardinality(pins) + MaxSnapshots
             I == {x.id : x \in pins}
             J == {pending[s] : s \in Snapshot}
  <1>1. IsFiniteSet(pins) /\ Cardinality(pins) \in Nat /\ MaxSnapshots \in Nat
    BY FS_CardinalityType, SyncAssumption DEF TypeOK, QueueTypeOK
  <1>2. IsFiniteSet(I) /\ Cardinality(I) <= Cardinality(pins)
    <2>1. [x \in pins |-> x.id] \in Surjection(pins, I)
      BY DEF Surjection
    <2> QED
      BY <1>1, <2>1, FS_Surjection
  <1>3. IsFiniteSet(J) /\ Cardinality(J) <= MaxSnapshots
    <2>1. [s \in Snapshot |-> pending[s]] \in Surjection(Snapshot, J)
      BY DEF Surjection
    <2>2. IsFiniteSet(Snapshot) /\ Cardinality(Snapshot) = MaxSnapshots
      BY <1>1, FS_Interval DEF Snapshot
    <2> HIDE DEF J
    <2> QED
      BY <2>1, <2>2, FS_Surjection
  <1>4. IsFiniteSet(UsedPins) /\ Cardinality(UsedPins) <= n
    <2>1. UsedPins = I \cup J
      BY DEF UsedPins
    <2>2. IsFiniteSet(I \cap J) /\ IsFiniteSet(I \cup J)
      BY <1>2, <1>3, FS_Union, FS_Intersection
    <2> HIDE DEF I, J
    <2>3. /\ Cardinality(I \cap J) \in Nat /\ Cardinality(I) \in Nat /\ Cardinality(J) \in Nat
          /\ Cardinality(I \cup J) = Cardinality(I) + Cardinality(J) - Cardinality(I \cap J)
      BY <1>2, <1>3, <2>2, FS_Union, FS_CardinalityType
    <2> QED
      BY <1>1, <1>2, <1>3, <2>1, <2>2, <2>3
  <1>5. IsFiniteSet(1..(n + 1)) /\ Cardinality(1..(n + 1)) = n + 1
    BY <1>1, FS_Interval
  <1> HIDE DEF n, I, J
  <1>6. \E i \in 1..(n + 1) : i \notin UsedPins
    <2>1. ASSUME 1..(n + 1) \subseteq UsedPins PROVE FALSE
      <3>1. Cardinality(1..(n + 1)) <= Cardinality(UsedPins)
        BY <1>4, <2>1, FS_Subset
      <3>2. n \in Nat
        BY <1>1 DEF n
      <3> QED
        BY <1>4, <1>5, <3>1, <3>2, FS_CardinalityType
    <2> QED
      BY <2>1
  <1>7. FreshPin \in 1..(n + 1) /\ FreshPin \notin UsedPins
    BY <1>6 DEF FreshPin, n
  <1> QED
    BY <1>1, <1>7 DEF n, NoPin

-----------------------------------------------------------------------------
(* Threads                                                                 *)

\* A thread moved to a point of the code is well-formed.
LEMMA AtIsLocal ==
    ASSUME NEW pc \in Point
    PROVE  At(pc) \in Local /\ At(pc).pc = pc /\ At(pc).todo = {} /\ At(pc).item = 0
  BY DEF At, Local

\* Moving a thread keeps the rest of it, and leaves the other threads alone.
LEMMA MoveThread ==
    ASSUME TypeOK, NEW p \in Thread, NEW l \in Local, thread' = [thread EXCEPT ![p] = l]
    PROVE  /\ thread' \in [Thread -> Local] /\ thread'[p] = l
           /\ \A q \in Thread \ {p} : thread'[q] = thread[q]
  BY DEF TypeOK

LEMMA GotoThread ==
    ASSUME TypeOK, NEW p \in Thread, NEW pc \in Point, Goto(p, pc)
    PROVE  /\ thread' = [thread EXCEPT ![p] = [thread[p] EXCEPT !.pc = pc]]
           /\ [thread[p] EXCEPT !.pc = pc] \in Local
           /\ [thread[p] EXCEPT !.pc = pc].pc = pc
           /\ [thread[p] EXCEPT !.pc = pc].todo = thread[p].todo
           /\ [thread[p] EXCEPT !.pc = pc].item = thread[p].item
  BY DEF TypeOK, Local, Goto

\* A thread outside Manager.mu asks nothing of the queue.
LEMMA OutsideIsAlone ==
    ASSUME NEW p \in Thread, thread'[p].pc \notin Critical
    PROVE  Alone(p)'
  BY DEF Alone, Critical, InSync, SyncOrder

\* What Inductive says of the queue does not depend on the threads.
QueueIsSound ==
    /\ PinsAreNamed /\ VerifiedIsRemote /\ CompletedIsVerified /\ PinHeldUntilVerified
    /\ QueueFollowsCatalog

LEMMA QueueUntouched ==
    ASSUME QueueIsSound, UNCHANGED <<catalog, queue>>
    PROVE  QueueIsSound'
  BY DEF QueueIsSound, queue, PinsAreNamed, VerifiedIsRemote, CompletedIsVerified,
         PinHeldUntilVerified, QueueFollowsCatalog, Latest

\* A thread that did not move is still alone when the queue is the same and
\* its mutex was not taken away.
LEMMA StillAlone ==
    ASSUME NEW p \in Thread, Alone(p), thread'[p] = thread[p], mutex = p => mutex' = p,
           UNCHANGED <<catalog, queue>>
    PROVE  Alone(p)'
  <1>1. Unqueued(p)' = Unqueued(p)
    BY UnqueuedStays
  <1> QED
    BY <1>1 DEF Alone, queue, Latest

\* Whoever moves while it holds the mutex is the only one inside it.
LEMMA OthersAreOutside ==
    ASSUME Inductive, NEW p \in Thread, mutex = p,
           \A q \in Thread \ {p} : thread'[q] = thread[q]
    PROVE  \A q \in Thread \ {p} : Alone(q)'
  <1> SUFFICES ASSUME NEW q \in Thread \ {p} PROVE Alone(q)'
    OBVIOUS
  <1>1. thread[q].pc \notin Critical
    BY DEF Inductive, Exclusive, Alone
  <1> QED
    BY <1>1, OutsideIsAlone

\* A step that moves one thread and leaves the queue alone.
LEMMA ControlStep ==
    ASSUME Inductive, NEW p \in Thread, NEW l \in Local, thread' = [thread EXCEPT ![p] = l],
           UNCHANGED <<catalog, queue>>,
           p = "worker" => l.pc \notin InSync,
           \A q \in Thread \ {p} : mutex = q => mutex' = q,
           Alone(p)'
    PROVE  Progress' /\ QueueTypeOK' /\ QueueIsSound' /\ Exclusive'
  <1>1. /\ thread'[p] = l
        /\ \A q \in Thread \ {p} : thread'[q] = thread[q]
    BY MoveThread DEF Inductive
  <1>2. Progress'
    <2>1. CASE p = "worker"
      BY <1>1, <2>1 DEF Progress, InSync, SyncOrder
    <2>2. CASE p # "worker"
      <3>1. thread'["worker"] = thread["worker"]
        BY <1>1, <2>2 DEF Thread
      <3> QED
        BY <3>1 DEF Inductive, Progress, Current, Latest, queue
    <2> QED
      BY <2>1, <2>2
  <1>3. QueueIsSound'
    BY QueueUntouched DEF Inductive, QueueIsSound
  <1>4. Exclusive'
    <2>1. ASSUME NEW q \in Thread \ {p} PROVE Alone(q)'
      BY <1>1, StillAlone DEF Inductive, Exclusive
    <2> QED
      BY <2>1 DEF Exclusive
  <1>5. QueueTypeOK'
    BY DEF Inductive, TypeOK, QueueTypeOK, queue
  <1> QED
    BY <1>2, <1>3, <1>4, <1>5

\* A step that moves nobody and leaves the queue alone.
LEMMA NobodyMoves ==
    ASSUME Inductive, UNCHANGED <<catalog, queue, thread, mutex>>
    PROVE  Progress' /\ QueueTypeOK' /\ QueueIsSound' /\ Exclusive'
  <1>1. Progress'
    BY DEF Inductive, Progress, Current, Latest, queue
  <1>2. QueueIsSound' /\ Exclusive'
    BY QueueUntouched, StillAlone DEF Inductive, QueueIsSound, Exclusive
  <1>3. QueueTypeOK'
    BY DEF Inductive, TypeOK, QueueTypeOK, queue
  <1> QED
    BY <1>1, <1>2, <1>3

\* A fault is counted.
LEMMA FaultCounted ==
    ASSUME TypeOK, Fault
    PROVE  faults' \in 0..MaxFaults
  BY SyncAssumption DEF TypeOK, Fault

\* The parts of Inductive, put together.
LEMMA Assembled ==
    ASSUME TypeOK', Progress', QueueIsSound', Exclusive', DeadIsIdle'
    PROVE  Inductive'
  BY DEF Inductive, QueueIsSound

-----------------------------------------------------------------------------
(* Steps outside Manager.mu                                                *)

\* markPending writes the status row.
LEMMA MarkFailedStep ==
    ASSUME Inductive, NEW p \in Thread, MarkFailed(p)
    PROVE  Inductive'
  <1> DEFINE l == [thread[p] EXCEPT !.pc = "markFile"]
  <1>1. p \in Thread /\ "markFile" \in Point \ Critical
    BY DEF Thread, Point, Critical, InSync, SyncOrder
  <1>2. thread' = [thread EXCEPT ![p] = l] /\ l \in Local /\ l.pc = "markFile"
    BY <1>1, GotoThread DEF Inductive, MarkFailed
  <1> HIDE DEF l
  <1>3. Progress' /\ QueueTypeOK' /\ QueueIsSound' /\ Exclusive'
    <2>1. Alone(p)'
      BY <1>1, <1>2, MoveThread, OutsideIsAlone DEF Inductive
    <2>2. "markFile" \notin InSync /\ UNCHANGED <<catalog, queue, mutex>>
      BY <1>1 DEF MarkFailed, Critical, durable
    <2> QED
      BY <1>1, <1>2, <2>1, <2>2, ControlStep
  <1>4. TypeOK'
    BY <1>1, <1>2, <1>3, MoveThread DEF Inductive, MarkFailed, TypeOK, SyncState
  <1>5. DeadIsIdle'
    BY DEF Inductive, MarkFailed, On, DeadIsIdle
  <1> QED
    BY <1>3, <1>4, <1>5, Assembled

\* The last write of a marker.
LEMMA MarkPendingStep ==
    ASSUME Inductive, NEW p \in Thread, MarkPending(p)
    PROVE  Inductive'
  <1> DEFINE l == At("idle")
  <1>1. p \in Thread /\ "idle" \in Point \ Critical
    BY DEF Thread, Point, Critical, InSync, SyncOrder
  <1>2. thread' = [thread EXCEPT ![p] = l] /\ l \in Local /\ l.pc = "idle"
    BY <1>1, AtIsLocal DEF MarkPending, Idle
  <1> HIDE DEF l
  <1>3. Progress' /\ QueueTypeOK' /\ QueueIsSound' /\ Exclusive'
    <2>1. Alone(p)'
      BY <1>1, <1>2, MoveThread, OutsideIsAlone DEF Inductive
    <2>2. "idle" \notin InSync /\ UNCHANGED <<catalog, queue, mutex>>
      BY <1>1 DEF MarkPending, Critical, durable
    <2> QED
      BY <1>1, <1>2, <2>1, <2>2, ControlStep
  <1>4. TypeOK'
    BY <1>1, <1>2, <1>3, MoveThread DEF Inductive, MarkPending, TypeOK, SyncState
  <1>5. DeadIsIdle'
    BY DEF Inductive, MarkPending, On, DeadIsIdle
  <1> QED
    BY <1>3, <1>4, <1>5, Assembled

\* A pass that cannot begin.
LEMMA BeginPassFailsStep ==
    ASSUME Inductive, BeginPassFails
    PROVE  Inductive'
  <1> DEFINE l == [thread["worker"] EXCEPT !.pc = "markFailed"]
  <1>1. "worker" \in Thread /\ "markFailed" \in Point \ Critical
    BY DEF Thread, Point, Critical, InSync, SyncOrder
  <1>2. thread' = [thread EXCEPT !["worker"] = l] /\ l \in Local /\ l.pc = "markFailed"
    BY <1>1, GotoThread DEF Inductive, BeginPassFails
  <1> HIDE DEF l
  <1>3. Progress' /\ QueueTypeOK' /\ QueueIsSound' /\ Exclusive'
    <2>1. Alone("worker")'
      BY <1>1, <1>2, MoveThread, OutsideIsAlone DEF Inductive
    <2>2. "markFailed" \notin InSync /\ UNCHANGED <<catalog, queue, mutex>>
      BY <1>1 DEF BeginPassFails, Critical, durable
    <2> QED
      BY <1>1, <1>2, <2>1, <2>2, ControlStep
  <1>4. TypeOK'
    BY <1>1, <1>2, <1>3, MoveThread DEF Inductive, BeginPassFails, TypeOK, durable, report
  <1>5. DeadIsIdle'
    BY DEF Inductive, BeginPassFails, On, DeadIsIdle
  <1> QED
    BY <1>3, <1>4, <1>5, Assembled

\* The marker goes.
LEMMA ClearMarkerStep ==
    ASSUME Inductive, ClearMarker
    PROVE  Inductive'
  <1> DEFINE l == [thread["worker"] EXCEPT !.pc = "settle"]
  <1>1. "worker" \in Thread /\ "settle" \in Point \ Critical
    BY DEF Thread, Point, Critical, InSync, SyncOrder
  <1>2. thread' = [thread EXCEPT !["worker"] = l] /\ l \in Local /\ l.pc = "settle"
    BY <1>1, GotoThread DEF Inductive, ClearMarker
  <1> HIDE DEF l
  <1>3. Progress' /\ QueueTypeOK' /\ QueueIsSound' /\ Exclusive'
    <2>1. Alone("worker")'
      BY <1>1, <1>2, MoveThread, OutsideIsAlone DEF Inductive
    <2>2. "settle" \notin InSync /\ UNCHANGED <<catalog, queue, mutex>>
      BY <1>1 DEF ClearMarker, Critical, durable
    <2> QED
      BY <1>1, <1>2, <2>1, <2>2, ControlStep
  <1>4. TypeOK'
    BY <1>1, <1>2, <1>3, MoveThread DEF Inductive, ClearMarker, TypeOK
  <1>5. DeadIsIdle'
    BY DEF Inductive, ClearMarker, On, DeadIsIdle
  <1> QED
    BY <1>3, <1>4, <1>5, Assembled

\* The row follows the marker.
LEMMA SettleStatusStep ==
    ASSUME Inductive, SettleStatus
    PROVE  Inductive'
  <1> DEFINE l == At("idle")
  <1>1. "worker" \in Thread /\ "idle" \in Point \ Critical
    BY DEF Thread, Point, Critical, InSync, SyncOrder
  <1>2. thread' = [thread EXCEPT !["worker"] = l] /\ l \in Local /\ l.pc = "idle"
    BY <1>1, AtIsLocal DEF SettleStatus, Idle
  <1> HIDE DEF l
  <1>3. Progress' /\ QueueTypeOK' /\ QueueIsSound' /\ Exclusive'
    <2>1. Alone("worker")'
      BY <1>1, <1>2, MoveThread, OutsideIsAlone DEF Inductive
    <2>2. "idle" \notin InSync /\ UNCHANGED <<catalog, queue, mutex>>
      BY <1>1 DEF SettleStatus, Critical, durable
    <2> QED
      BY <1>1, <1>2, <2>1, <2>2, ControlStep
  <1>4. TypeOK'
    BY <1>1, <1>2, <1>3, MoveThread DEF Inductive, SettleStatus, TypeOK, SyncState
  <1>5. DeadIsIdle'
    BY DEF Inductive, SettleStatus, On, DeadIsIdle
  <1> QED
    BY <1>3, <1>4, <1>5, Assembled

\* replica.status stores its answer.
LEMMA StatusRequestStep ==
    ASSUME Inductive, StatusRequest
    PROVE  Inductive'
  <1>1. Progress' /\ QueueTypeOK' /\ QueueIsSound' /\ Exclusive'
    BY NobodyMoves DEF StatusRequest, durable
  <1>2. TypeOK'
    BY <1>1 DEF Inductive, StatusRequest, durable, report, TypeOK, SyncState, Reported
  <1>3. DeadIsIdle'
    BY DEF Inductive, StatusRequest, DeadIsIdle
  <1> QED
    BY <1>1, <1>2, <1>3, Assembled

\* The replica goes away.
LEMMA DisconnectStep ==
    ASSUME Inductive, Disconnect
    PROVE  Inductive'
  <1>1. Progress' /\ QueueTypeOK' /\ QueueIsSound' /\ Exclusive'
    BY NobodyMoves DEF Disconnect, durable
  <1>2. TypeOK'
    BY <1>1, FaultCounted DEF Inductive, Disconnect, durable, report, TypeOK
  <1>3. DeadIsIdle'
    BY DEF Inductive, Disconnect, DeadIsIdle
  <1> QED
    BY <1>1, <1>2, <1>3, Assembled

\* The replica comes back.
LEMMA ReconnectStep ==
    ASSUME Inductive, Reconnect
    PROVE  Inductive'
  <1>1. Progress' /\ QueueTypeOK' /\ QueueIsSound' /\ Exclusive'
    BY NobodyMoves DEF Reconnect, durable
  <1>2. TypeOK'
    BY <1>1 DEF Inductive, Reconnect, durable, report, TypeOK
  <1>3. DeadIsIdle'
    BY DEF Inductive, Reconnect, DeadIsIdle
  <1> QED
    BY <1>1, <1>2, <1>3, Assembled

\* A coordinated write, with or without a marker to follow.
LEMMA WriteStep ==
    ASSUME Inductive, Write
    PROVE  Inductive'
  <1> DEFINE l == [thread["request"] EXCEPT !.pc = "markFailed"]
  <1>1. DeadIsIdle'
    BY DEF Inductive, Write, On, DeadIsIdle
  <1>2. CASE UNCHANGED thread
    <2>1. Progress' /\ QueueTypeOK' /\ QueueIsSound' /\ Exclusive'
      BY <1>2, NobodyMoves DEF Write
    <2>2. TypeOK'
      BY <1>2, <2>1, SyncAssumption DEF Inductive, Write, TypeOK, report
    <2> QED
      BY <1>1, <2>1, <2>2, Assembled
  <1>3. CASE Goto("request", "markFailed")
    <2>1. "request" \in Thread /\ "markFailed" \in Point \ Critical
      BY DEF Thread, Point, Critical, InSync, SyncOrder
    <2>2. thread' = [thread EXCEPT !["request"] = l] /\ l \in Local /\ l.pc = "markFailed"
      BY <1>3, <2>1, GotoThread DEF Inductive
    <2> HIDE DEF l
    <2>3. Alone("request")'
      BY <2>1, <2>2, MoveThread, OutsideIsAlone DEF Inductive
    <2>4. Progress' /\ QueueTypeOK' /\ QueueIsSound' /\ Exclusive'
      BY <2>1, <2>2, <2>3, ControlStep DEF Write, Critical
    <2>5. TypeOK'
      BY <2>1, <2>2, <2>4, MoveThread, SyncAssumption DEF Inductive, Write, TypeOK, report
    <2> QED
      BY <1>1, <2>4, <2>5, Assembled
  <1> QED
    BY <1>2, <1>3 DEF Write

\* markPending writes the marker file.
LEMMA MarkFileStep ==
    ASSUME Inductive, NEW p \in Thread, MarkFile(p)
    PROVE  Inductive'
  <1>1. PICK pc \in {"markPending", "idle"} : Goto(p, pc)
    BY DEF MarkFile
  <1> DEFINE l == [thread[p] EXCEPT !.pc = pc]
  <1>2. pc \in Point \ Critical
    BY DEF Point, Critical, InSync, SyncOrder
  <1>3. thread' = [thread EXCEPT ![p] = l] /\ l \in Local /\ l.pc = pc
    BY <1>1, <1>2, GotoThread DEF Inductive
  <1> HIDE DEF l
  <1>4. Alone(p)'
    BY <1>2, <1>3, MoveThread, OutsideIsAlone DEF Inductive
  <1>5. Progress' /\ QueueTypeOK' /\ QueueIsSound' /\ Exclusive'
    BY <1>2, <1>3, <1>4, ControlStep DEF MarkFile, Critical
  <1>6. TypeOK'
    BY <1>3, <1>5, MoveThread DEF Inductive, MarkFile, TypeOK
  <1>7. DeadIsIdle'
    BY DEF Inductive, MarkFile, On, DeadIsIdle
  <1> QED
    BY <1>5, <1>6, <1>7, Assembled

\* replica.synchronize queues or marks.
LEMMA SynchronizeRequestStep ==
    ASSUME Inductive, SynchronizeRequest
    PROVE  Inductive'
  <1> DEFINE l == IF manager THEN At("enter") ELSE [At("markFailed") EXCEPT !.item = 1]
  <1>1. /\ "capture" \in Thread /\ l \in Local
        /\ l.pc \in {"enter", "markFailed"}
        /\ thread' = [thread EXCEPT !["capture"] = l]
    BY DEF SynchronizeRequest, Thread, Local, Point, At
  <1> HIDE DEF l
  <1>2. Alone("capture")'
    BY <1>1, MoveThread, OutsideIsAlone DEF Inductive, Critical, InSync, SyncOrder
  <1>3. Progress' /\ QueueTypeOK' /\ QueueIsSound' /\ Exclusive'
    BY <1>1, <1>2, ControlStep DEF SynchronizeRequest, durable
  <1>4. TypeOK'
    BY <1>1, <1>3, MoveThread DEF Inductive, SynchronizeRequest, TypeOK, durable, report
  <1>5. DeadIsIdle'
    BY DEF Inductive, SynchronizeRequest, On, DeadIsIdle
  <1> QED
    BY <1>3, <1>4, <1>5, Assembled

\* The worker compares queue, counter and newest snapshot.
LEMMA AssessStep ==
    ASSUME Inductive, Assess
    PROVE  Inductive'
  <1>1. "worker" \in Thread
    BY DEF Thread
  <1>2. PICK l \in Local : l.pc \in {"idle", "unmark"} /\ thread' = [thread EXCEPT !["worker"] = l]
    <2>1. "idle" \in Point /\ "unmark" \in Point
      BY DEF Point
    <2>2. CASE Goto("worker", "unmark")
      <3> DEFINE l == [thread["worker"] EXCEPT !.pc = "unmark"]
      <3>1. l \in Local /\ l.pc = "unmark" /\ thread' = [thread EXCEPT !["worker"] = l]
        BY <1>1, <2>1, <2>2, GotoThread DEF Inductive
      <3> QED
        BY <3>1
    <2>3. CASE thread' = [thread EXCEPT !["worker"] = Idle]
      BY <2>1, <2>3, AtIsLocal DEF Idle
    <2> QED
      BY <2>2, <2>3 DEF Assess
  <1>3. Alone("worker")' /\ l.pc \notin InSync
    BY <1>1, <1>2, MoveThread, OutsideIsAlone DEF Inductive, Critical, InSync, SyncOrder
  <1>4. Progress' /\ QueueTypeOK' /\ QueueIsSound' /\ Exclusive'
    BY <1>1, <1>2, <1>3, ControlStep DEF Assess
  <1>5. status' \in SyncState
    BY DEF Inductive, TypeOK, Assess, SyncState
  <1>6. TypeOK'
    BY <1>1, <1>2, <1>4, <1>5, MoveThread DEF Inductive, Assess, TypeOK
  <1>7. DeadIsIdle'
    BY DEF Inductive, Assess, On, DeadIsIdle
  <1> QED
    BY <1>4, <1>6, <1>7, Assembled

\* The scheduler adds a snapshot to the catalogue.
LEMMA CaptureStep ==
    ASSUME Inductive, Capture
    PROVE  Inductive'
  <1>1. "capture" \in Thread
    BY DEF Thread
  <1>2. PICK pc \in {"enter", "markFailed"} : Goto("capture", pc)
    BY DEF Capture
  <1>3. pc \in Point \ Critical
    BY DEF Point, Critical, InSync, SyncOrder
  <1> DEFINE l == [thread["capture"] EXCEPT !.pc = pc]
  <1>4. thread' = [thread EXCEPT !["capture"] = l] /\ l \in Local /\ l.pc = pc
    BY <1>1, <1>2, <1>3, GotoThread DEF Inductive
  <1> HIDE DEF l
  <1>5. /\ thread' \in [Thread -> Local] /\ thread'["capture"].pc = pc
        /\ \A q \in Thread \ {"capture"} : thread'[q] = thread[q]
    BY <1>1, <1>4, MoveThread DEF Inductive
  <1>6. /\ catalog' \in Seq(0..MaxWrites) /\ Len(catalog') <= MaxSnapshots
        /\ Latest' = Latest + 1 /\ Latest \in Nat
    BY SyncAssumption DEF Inductive, TypeOK, Capture, Latest
  <1>7. QueueTypeOK' /\ QueueIsSound'
    <2>1. QueueTypeOK'
      BY DEF Inductive, TypeOK, QueueTypeOK, Capture, queue
    <2>2. QueueFollowsCatalog'
      BY <1>6 DEF Inductive, TypeOK, QueueTypeOK, Capture, queue, QueueFollowsCatalog, Snapshot
    <2>3. PinsAreNamed' /\ VerifiedIsRemote' /\ CompletedIsVerified' /\ PinHeldUntilVerified'
      BY DEF Inductive, Capture, queue, PinsAreNamed, VerifiedIsRemote, CompletedIsVerified,
             PinHeldUntilVerified
    <2> QED
      BY <2>1, <2>2, <2>3 DEF QueueIsSound
  <1>8. TypeOK'
    BY <1>5, <1>6, <1>7 DEF Inductive, Capture, TypeOK, report
  <1>9. Progress'
    <2>1. thread'["worker"] = thread["worker"]
      BY <1>5 DEF Thread
    <2> QED
      BY <1>6, <2>1 DEF Inductive, Progress, Current, Capture, queue
  <1>10. Exclusive'
    <2>1. Alone("capture")'
      BY <1>1, <1>3, <1>5, OutsideIsAlone
    <2>2. ASSUME NEW q \in Thread \ {"capture"} PROVE Alone(q)'
      <3>1. thread'[q] = thread[q] /\ Unqueued(q)' = Unqueued(q)
        BY <1>5, UnqueuedStays
      <3>2. (1..Latest) \ verified \subseteq ((1..Latest) \ verified)'
        BY <1>6 DEF Capture, queue
      <3> QED
        BY <3>1, <3>2 DEF Inductive, Exclusive, Alone, Capture, queue
    <2> QED
      BY <2>1, <2>2 DEF Exclusive
  <1>11. DeadIsIdle'
    BY DEF Inductive, Capture, On, DeadIsIdle
  <1> QED
    BY <1>7, <1>8, <1>9, <1>10, <1>11, Assembled

\* A crash forgets the process and nothing else.
LEMMA CrashStep ==
    ASSUME Inductive, Crash
    PROVE  Inductive'
  <1>1. \A p \in Thread : thread'[p] = Idle /\ Idle \in Local /\ Idle.pc = "idle"
    BY AtIsLocal DEF Crash, Idle, Point
  <1>2. UNCHANGED <<catalog, queue>>
    BY DEF Crash, durable
  <1>3. Progress' /\ Exclusive'
    <2>1. Progress'
      BY <1>1 DEF Progress, InSync, SyncOrder, Thread
    <2>2. \A p \in Thread : Alone(p)'
      BY <1>1, OutsideIsAlone DEF Critical, InSync, SyncOrder
    <2> QED
      BY <2>1, <2>2 DEF Exclusive
  <1>4. QueueIsSound'
    BY <1>2, QueueUntouched DEF Inductive, QueueIsSound
  <1>5. QueueTypeOK'
    BY <1>2 DEF Inductive, TypeOK, QueueTypeOK, queue
  <1>6. thread' \in [Thread -> Local]
    BY <1>1 DEF Crash
  <1>7. TypeOK'
    BY <1>5, <1>6, FaultCounted DEF Inductive, Crash, durable, report, TypeOK
  <1>8. DeadIsIdle'
    BY DEF Crash, DeadIsIdle
  <1> QED
    BY <1>3, <1>4, <1>7, <1>8, Assembled

\* cleanupVerifiedPins takes only pins of snapshots that have a receipt: it
\* neither unpins what is still to be copied nor the pin that a loop has just
\* made.
LEMMA CleanupIsSound ==
    ASSUME Inductive, CleanupVerifiedPins, UNCHANGED <<catalog, task, verified, remote>>
    PROVE  /\ QueueTypeOK' /\ QueueIsSound'
           /\ \A s \in Snapshot : pending'[s] = pending[s] \/ pending'[s] = NoPin
           /\ \A q \in Thread : thread'[q] = thread[q] /\ mutex' = mutex => Alone(q)'
  <1> USE DEF Inductive, CleanupVerifiedPins
  <1>1. /\ pins' \subseteq pins
        /\ \A s \in Snapshot : s \in verified => pending'[s] = NoPin
        /\ \A s \in Snapshot : s \notin verified => pending'[s] = pending[s]
    OBVIOUS
  <1>2. \A x \in pins : x \in pins' \/ \E s \in verified : x.id = pending[s]
    OBVIOUS
  <1>3. QueueTypeOK'
    <2>1. IsFiniteSet(pins')
      BY <1>1, FS_Subset DEF TypeOK, QueueTypeOK
    <2>2. pending' \in [Snapshot -> Nat]
      BY DEF TypeOK, QueueTypeOK, NoPin
    <2> QED
      BY <1>1, <2>1, <2>2 DEF TypeOK, QueueTypeOK
  <1>4. \A s \in Snapshot \ verified :
          [snap |-> s, id |-> pending[s]] \in pins => [snap |-> s, id |-> pending[s]] \in pins'
    <2> SUFFICES ASSUME NEW s \in Snapshot \ verified, [snap |-> s, id |-> pending[s]] \in pins,
                        NEW t \in verified, pending[s] = pending[t]
                 PROVE  FALSE
      BY <1>2
    <2>1. pending[s] # NoPin /\ t \in Snapshot
      BY DEF TypeOK, QueueTypeOK
    <2> QED
      BY <2>1 DEF PinsAreNamed
  <1>5. PinsAreNamed'
    <2>1. \A x, y \in pins' : x.id = y.id => x = y
      BY <1>1 DEF PinsAreNamed
    <2>2. \A s, t \in Snapshot : pending'[s] = pending'[t] /\ pending'[s] # NoPin => s = t
      BY <1>1 DEF PinsAreNamed
    <2>3. \A x \in pins', s \in Snapshot : x.id = pending'[s] => x.snap = s
      BY <1>1 DEF PinsAreNamed, TypeOK, QueueTypeOK
    <2>4. \A s \in Snapshot \ verified :
            /\ task[s].state # "none" => pending'[s] # NoPin
            /\ pending'[s] # NoPin => [snap |-> s, id |-> pending'[s]] \in pins'
      BY <1>1, <1>4 DEF PinsAreNamed
    <2> QED
      BY <2>1, <2>2, <2>3, <2>4 DEF PinsAreNamed
  <1>6. CompletedIsVerified' /\ VerifiedIsRemote' /\ PinHeldUntilVerified' /\ QueueFollowsCatalog'
    BY <1>1, <1>4 DEF CompletedIsVerified, VerifiedIsRemote, PinHeldUntilVerified,
                      QueueFollowsCatalog, Latest
  <1>7. ASSUME NEW q \in Thread, thread'[q] = thread[q], mutex' = mutex PROVE Alone(q)'
    <2>1. Unqueued(q)' = Unqueued(q) /\ Alone(q)
      BY <1>7, UnqueuedStays DEF Exclusive
    <2>2. CASE thread[q].pc = "row"
      <3> DEFINE x == [snap |-> Unqueued(q), id |-> thread[q].item]
      <3>1. /\ x \in pins /\ Unqueued(q) \in Snapshot /\ pending[Unqueued(q)] = NoPin
            /\ \A s \in Snapshot : pending[s] # thread[q].item
            /\ x.id = thread[q].item /\ x.id # NoPin
        BY <2>1, <2>2 DEF Alone, TypeOK, QueueTypeOK
      <3>2. x \in pins'
        BY <1>2, <3>1 DEF TypeOK, QueueTypeOK
      <3>3. /\ pending'[Unqueued(q)] = NoPin
            /\ \A s \in Snapshot : pending'[s] # thread[q].item
        BY <1>1, <3>1
      <3> QED
        BY <1>7, <2>1, <2>2, <3>2, <3>3 DEF Alone, Latest
    <2>3. CASE thread[q].pc # "row"
      BY <1>7, <2>1, <2>3 DEF Alone, Latest
    <2> QED
      BY <2>2, <2>3
  <1> QED
    BY <1>1, <1>3, <1>5, <1>6, <1>7 DEF QueueIsSound

\* A launch, with the replica there or not.
LEMMA LaunchStep ==
    ASSUME Inductive, Launch
    PROVE  Inductive'
  <1>1. UNCHANGED <<thread, mutex>> /\ thread = [p \in Thread |-> Idle]
    BY DEF Inductive, Launch, DeadIsIdle
  <1>2. Progress'
    BY <1>1 DEF Progress, InSync, SyncOrder, Thread, Idle, At
  <1>3. DeadIsIdle'
    BY DEF Launch, DeadIsIdle
  <1>4. CASE online
    <2>1. QueueTypeOK' /\ QueueIsSound' /\ Exclusive'
      BY <1>1, <1>4, CleanupIsSound DEF Launch, Exclusive
    <2>2. TypeOK'
      BY <1>1, <1>4, <2>1 DEF Inductive, Launch, TypeOK, QueueState, SyncState
    <2> QED
      BY <1>2, <1>3, <2>1, <2>2, Assembled
  <1>5. CASE ~online
    <2>1. QueueTypeOK' /\ QueueIsSound' /\ Exclusive'
      BY <1>1, <1>5, NobodyMoves DEF Launch, queue
    <2>2. TypeOK'
      BY <1>1, <1>5, <2>1 DEF Inductive, Launch, TypeOK, SyncState
    <2> QED
      BY <1>2, <1>3, <2>1, <2>2, Assembled
  <1> QED
    BY <1>4, <1>5

\* A pass of the worker begins.
LEMMA BeginPassStep ==
    ASSUME Inductive, BeginPass
    PROVE  Inductive'
  <1> DEFINE l == [thread["worker"] EXCEPT !.pc = "enter"]
  <1>1. "worker" \in Thread /\ "enter" \in Point \ Critical
    BY DEF Thread, Point, Critical, InSync, SyncOrder
  <1>2. thread' = [thread EXCEPT !["worker"] = l] /\ l \in Local /\ l.pc = "enter"
    BY <1>1, GotoThread DEF Inductive, BeginPass
  <1> HIDE DEF l
  <1>3. /\ thread' \in [Thread -> Local] /\ thread'["worker"].pc = "enter"
        /\ \A q \in Thread \ {"worker"} : thread'[q] = thread[q]
    BY <1>1, <1>2, MoveThread DEF Inductive
  <1>4. Alone("worker")' /\ Progress'
    BY <1>1, <1>3, OutsideIsAlone DEF Progress, InSync, SyncOrder
  <1>5. DeadIsIdle'
    BY DEF Inductive, BeginPass, On, DeadIsIdle
  <1>6. CASE manager
    <2>1. QueueTypeOK' /\ QueueIsSound' /\ Exclusive'
      BY <1>1, <1>2, <1>4, <1>6, ControlStep DEF BeginPass, queue, Critical
    <2>2. TypeOK'
      BY <1>3, <1>6, <2>1 DEF Inductive, BeginPass, TypeOK, SyncState
    <2> QED
      BY <1>4, <1>5, <2>1, <2>2, Assembled
  <1>7. CASE ~manager
    <2>1. QueueTypeOK' /\ QueueIsSound' /\ Exclusive'
      BY <1>3, <1>4, <1>7, CleanupIsSound DEF BeginPass, Exclusive
    <2>2. TypeOK'
      BY <1>3, <1>7, <2>1 DEF Inductive, BeginPass, TypeOK, SyncState
    <2> QED
      BY <1>4, <1>5, <2>1, <2>2, Assembled
  <1> QED
    BY <1>6, <1>7

-----------------------------------------------------------------------------
(* Taking and giving back Manager.mu                                       *)

\* The snapshots without a receipt are listed.
LEMMA ListingIsLocal ==
    ASSUME Inductive
    PROVE  /\ Listing \in Local /\ Listing.pc = "queue"
           /\ Listing.todo = (1..Latest) \ verified
  <1>1. 1..Latest \subseteq Snapshot
    BY SyncAssumption DEF Inductive, TypeOK, Latest, Snapshot
  <1> QED
    BY <1>1 DEF Listing, At, Local, Point

\* A thread takes the mutex.
LEMMA EnterStep ==
    ASSUME Inductive, NEW p \in Thread, Enter(p)
    PROVE  Inductive'
  <1>1. PICK l \in Local :
          /\ thread' = [thread EXCEPT ![p] = l]
          /\ l.pc = "identity" \/ (l.pc = "queue" /\ l.todo = (1..Latest) \ verified)
    <2>1. CASE p = "worker"
      <3> DEFINE l == [thread[p] EXCEPT !.pc = "identity"]
      <3>1. thread' = [thread EXCEPT ![p] = l] /\ l \in Local /\ l.pc = "identity"
        BY <2>1, GotoThread DEF Inductive, Enter, Point
      <3> QED
        BY <3>1
    <2>2. CASE p # "worker"
      BY <2>2, ListingIsLocal DEF Enter
    <2> QED
      BY <2>1, <2>2
  <1>2. l.pc \notin InSync /\ l.pc # "row" /\ mutex = Nobody /\ mutex' = p
    BY <1>1 DEF Enter, InSync, SyncOrder
  <1>3. Alone(p)'
    BY <1>1, <1>2, MoveThread DEF Inductive, Alone, Enter, durable, queue, Latest
  <1>4. Nobody \notin Thread /\ UNCHANGED <<catalog, queue>>
    BY DEF Nobody, Thread, Enter, durable
  <1>5. Progress' /\ QueueTypeOK' /\ QueueIsSound' /\ Exclusive'
    BY <1>1, <1>2, <1>3, <1>4, ControlStep
  <1>6. TypeOK'
    BY <1>1, <1>2, <1>5, MoveThread DEF Inductive, Enter, durable, report, TypeOK
  <1>7. DeadIsIdle'
    BY DEF Inductive, Enter, On, DeadIsIdle
  <1> QED
    BY <1>5, <1>6, <1>7, Assembled

\* Synchronize knows who the replica is and lists the snapshots.
LEMMA VerifyIdentityStep ==
    ASSUME Inductive, VerifyIdentity
    PROVE  Inductive'
  <1>1. "worker" \in Thread /\ thread["worker"].pc = "identity"
    BY DEF VerifyIdentity, On, Thread
  <1>2. Listing \in Local /\ Listing.pc = "queue" /\ Listing.todo = (1..Latest) \ verified
    BY ListingIsLocal
  <1>3. mutex = "worker" /\ Listing.pc \notin InSync
    BY <1>1, <1>2 DEF Inductive, Exclusive, Alone, Critical, InSync, SyncOrder
  <1>4. thread' = [thread EXCEPT !["worker"] = Listing] /\ UNCHANGED <<catalog, queue, mutex>>
    BY DEF VerifyIdentity, durable
  <1>5. Alone("worker")'
    BY <1>1, <1>2, <1>3, <1>4, MoveThread DEF Inductive, Alone, queue, Latest
  <1>6. Progress' /\ QueueTypeOK' /\ QueueIsSound' /\ Exclusive'
    BY <1>1, <1>2, <1>3, <1>4, <1>5, ControlStep
  <1>7. TypeOK'
    BY <1>1, <1>2, <1>4, <1>6, MoveThread DEF Inductive, VerifyIdentity, durable, report, TypeOK
  <1>8. DeadIsIdle'
    BY DEF Inductive, VerifyIdentity, On, DeadIsIdle
  <1> QED
    BY <1>6, <1>7, <1>8, Assembled

\* A thread that leaves the mutex, or stays in it at a point where it asks
\* nothing of the queue.
LEMMA LeavingStep ==
    ASSUME Inductive, NEW p \in Thread, NEW l \in Local, thread' = [thread EXCEPT ![p] = l],
           UNCHANGED <<catalog, queue>>, mutex' = mutex \/ (mutex = p /\ mutex' = Nobody),
           l.pc \notin Critical \/ (l.pc \in {"claim", "discover"} /\ mutex' = p)
    PROVE  Progress' /\ QueueTypeOK' /\ QueueIsSound' /\ Exclusive'
  <1>1. thread'[p] = l
    BY MoveThread DEF Inductive
  <1>2. l.pc \notin InSync /\ (l.pc \in Critical => mutex' = p)
    BY DEF Critical, InSync, SyncOrder
  <1>3. l.pc \notin {"queue", "row"}
    BY DEF Critical
  <1>4. Alone(p)'
    BY <1>1, <1>2, <1>3 DEF Alone
  <1> QED
    BY <1>2, <1>4, ControlStep

\* The loop is done.
LEMMA QueuedStep ==
    ASSUME Inductive, NEW p \in Thread, Queued(p)
    PROVE  Inductive'
  <1> DEFINE l == At(IF p = "worker" THEN "claim" ELSE "markPending")
  <1>1. mutex = p
    BY DEF Inductive, Exclusive, Alone, Queued, On, Critical
  <1>2. /\ thread' = [thread EXCEPT ![p] = l] /\ l \in Local
        /\ l.pc = IF p = "worker" THEN "claim" ELSE "markPending"
    BY AtIsLocal DEF Queued, Point
  <1> HIDE DEF l
  <1>3. UNCHANGED <<catalog, queue>> /\ mutex' \in {p, Nobody}
    BY <1>1 DEF Queued, durable
  <1>4. Progress' /\ QueueTypeOK' /\ QueueIsSound' /\ Exclusive'
    <2>1. l.pc \notin Critical \/ (l.pc \in {"claim", "discover"} /\ mutex' = p)
      BY <1>1, <1>2 DEF Queued, Critical, InSync, SyncOrder
    <2> QED
      BY <1>1, <1>2, <1>3, <2>1, LeavingStep
  <1>5. TypeOK'
    BY <1>2, <1>3, <1>4, MoveThread DEF Inductive, Queued, durable, report, TypeOK
  <1>6. DeadIsIdle'
    BY DEF Inductive, Queued, On, DeadIsIdle
  <1> QED
    BY <1>4, <1>5, <1>6, Assembled

\* The drain has nothing left to claim.
LEMMA NothingToClaimStep ==
    ASSUME Inductive, NothingToClaim
    PROVE  Inductive'
  <1> DEFINE l == [thread["worker"] EXCEPT !.pc = "discover"]
  <1>1. "worker" \in Thread /\ "discover" \in Point
    BY DEF Thread, Point
  <1>2. thread' = [thread EXCEPT !["worker"] = l] /\ l \in Local /\ l.pc = "discover"
    BY <1>1, GotoThread DEF Inductive, NothingToClaim
  <1> HIDE DEF l
  <1>3. mutex = "worker" /\ UNCHANGED <<catalog, queue, mutex>>
    BY <1>1 DEF Inductive, Exclusive, Alone, NothingToClaim, On, Critical, durable
  <1>4. Progress' /\ QueueTypeOK' /\ QueueIsSound' /\ Exclusive'
    BY <1>1, <1>2, <1>3, LeavingStep
  <1>5. TypeOK'
    BY <1>1, <1>2, <1>4, MoveThread DEF Inductive, NothingToClaim, durable, report, TypeOK
  <1>6. DeadIsIdle'
    BY DEF Inductive, NothingToClaim, On, DeadIsIdle
  <1> QED
    BY <1>4, <1>5, <1>6, Assembled

\* The conflicts are discovered; the mutex is released.
LEMMA DiscoverStep ==
    ASSUME Inductive, Discover
    PROVE  Inductive'
  <1> DEFINE l == [thread["worker"] EXCEPT !.pc = "assess"]
  <1>1. "worker" \in Thread /\ "assess" \in Point \ Critical
    BY DEF Thread, Point, Critical, InSync, SyncOrder
  <1>2. thread' = [thread EXCEPT !["worker"] = l] /\ l \in Local /\ l.pc = "assess"
    BY <1>1, GotoThread DEF Inductive, Discover
  <1> HIDE DEF l
  <1>3. mutex = "worker" /\ mutex' = Nobody /\ UNCHANGED <<catalog, queue>>
    BY <1>1 DEF Inductive, Exclusive, Alone, Discover, On, Critical, durable
  <1>4. Progress' /\ QueueTypeOK' /\ QueueIsSound' /\ Exclusive'
    BY <1>1, <1>2, <1>3, LeavingStep
  <1>5. TypeOK'
    BY <1>1, <1>2, <1>3, <1>4, MoveThread DEF Inductive, Discover, durable, report, TypeOK
  <1>6. DeadIsIdle'
    BY DEF Inductive, Discover, On, DeadIsIdle
  <1> QED
    BY <1>4, <1>5, <1>6, Assembled

\* Where an error leaves a thread.
LEMMA AbandonMoves ==
    ASSUME Inductive, NEW p \in Thread, Abandon(p)
    PROVE  \E l \in Local :
             /\ thread' = [thread EXCEPT ![p] = l] /\ l.pc \notin Critical
             /\ mutex' = mutex \/ (mutex = p /\ mutex' = Nobody)
  <1> DEFINE l == IF p = "worker" THEN At("markFailed") ELSE Idle
  <1>1. l \in Local /\ l.pc \notin Critical
    BY AtIsLocal DEF Idle, Point, Critical, InSync, SyncOrder
  <1> QED
    BY <1>1 DEF Abandon

\* An error ends the pass.
LEMMA PassFailsStep ==
    ASSUME Inductive, PassFails
    PROVE  Inductive'
  <1>1. "worker" \in Thread /\ Abandon("worker") /\ UNCHANGED <<catalog, queue>>
    BY DEF Thread, PassFails, durable
  <1>2. PICK l \in Local :
          /\ thread' = [thread EXCEPT !["worker"] = l] /\ l.pc \notin Critical
          /\ mutex' = mutex \/ (mutex = "worker" /\ mutex' = Nobody)
    BY <1>1, AbandonMoves
  <1>3. Progress' /\ QueueTypeOK' /\ QueueIsSound' /\ Exclusive'
    BY <1>1, <1>2, LeavingStep
  <1>4. faults' \in 0..MaxFaults
    BY FaultCounted DEF PassFails, Inductive, TypeOK
  <1>5. TypeOK'
    BY <1>1, <1>2, <1>3, <1>4, MoveThread DEF Inductive, PassFails, durable, report, TypeOK
  <1>6. DeadIsIdle'
    BY DEF Inductive, PassFails, DeadIsIdle
  <1> QED
    BY <1>3, <1>5, <1>6, Assembled

-----------------------------------------------------------------------------
(* The loop of queuePublishedSnapshots                                     *)

\* Where the loop is: it holds the mutex, the next snapshot is a captured one
\* without a receipt.
LEMMA LoopHolds ==
    ASSUME Inductive, NEW p \in Thread, thread[p].pc \in {"queue", "row"}, thread[p].todo # {}
    PROVE  /\ mutex = p /\ Alone(p) /\ thread[p] \in Local
           /\ Unqueued(p) \in thread[p].todo
           /\ Unqueued(p) \in Snapshot \ verified /\ Unqueued(p) \in 1..Latest
  <1>1. Alone(p) /\ thread[p] \in Local
    BY DEF Inductive, Exclusive, TypeOK
  <1>2. /\ mutex = p /\ thread[p].todo \subseteq Snapshot
        /\ thread[p].todo \subseteq (1..Latest) \ verified
    BY <1>1 DEF Alone, Critical, Local
  <1>3. Unqueued(p) \in thread[p].todo
    BY <1>2, UnqueuedIsLeft DEF Snapshot
  <1> QED
    BY <1>1, <1>2, <1>3

\* A step of a thread that holds the mutex, away from Manager.Sync, that adds
\* to or takes from the queue.
LEMMA LoopStep ==
    ASSUME Inductive, NEW p \in Thread, mutex = p, NEW l \in Local,
           thread' = [thread EXCEPT ![p] = l], thread[p].pc \notin InSync, l.pc \notin InSync,
           Alone(p)'
    PROVE  Progress' /\ Exclusive'
  <1>1. thread'[p] = l /\ \A q \in Thread \ {p} : thread'[q] = thread[q]
    BY MoveThread DEF Inductive
  <1>2. thread'["worker"].pc \notin InSync
    <2>1. CASE p = "worker"
      BY <1>1, <2>1
    <2>2. CASE p # "worker"
      <3>1. "worker" \in Thread
        BY DEF Thread
      <3>2. thread'["worker"] = thread["worker"]
        BY <1>1, <2>2, <3>1
      <3> QED
        BY <2>2, <3>1, <3>2 DEF Inductive, Exclusive, Alone, Critical
    <2> QED
      BY <2>1, <2>2
  <1>3. Progress'
    BY <1>2 DEF Progress, InSync, SyncOrder
  <1>4. Exclusive'
    BY <1>1, OthersAreOutside DEF Exclusive
  <1> QED
    BY <1>3, <1>4

\* The roots of a snapshot are pinned under a new id.
LEMMA PinRootsStep ==
    ASSUME Inductive, NEW p \in Thread, PinRoots(p)
    PROVE  Inductive'
  <1> DEFINE l == [thread[p] EXCEPT !.pc = "row", !.item = FreshPin]
             n == Unqueued(p)
             x == [snap |-> n, id |-> FreshPin]
  <1>1. /\ mutex = p /\ Alone(p) /\ thread[p] \in Local /\ thread[p].pc = "queue"
        /\ n \in Snapshot \ verified /\ pending[n] = NoPin /\ thread[p].todo # {}
    BY LoopHolds DEF PinRoots, On
  <1>2. /\ FreshPin \in Nat \ {NoPin}
        /\ \A y \in pins : y.id # FreshPin
        /\ \A s \in Snapshot : pending[s] # FreshPin
    BY FreshPinExists DEF Inductive, UsedPins
  <1>3. /\ thread' = [thread EXCEPT ![p] = l] /\ l \in Local /\ l.pc = "row"
        /\ l.todo = thread[p].todo /\ l.item = FreshPin
    BY <1>1, <1>2 DEF PinRoots, Local, Point
  <1> HIDE DEF l
  <1>4. thread'[p] = l /\ Unqueued(p)' = n
    BY <1>3, MoveThread, UnqueuedStays DEF Inductive
  <1> HIDE DEF n
  <1>5. /\ pins' = pins \cup {x} /\ x.id = FreshPin /\ x.snap = n
        /\ UNCHANGED <<catalog, pending, task, verified, remote, mutex, up>>
    BY DEF PinRoots, n
  <1>6. Alone(p)'
    <2>1. x \in pins'
      BY <1>5
    <2> QED
      BY <1>1, <1>2, <1>3, <1>4, <1>5, <2>1 DEF Alone, Latest
  <1>7. Progress' /\ Exclusive'
    BY <1>1, <1>3, <1>6, LoopStep DEF InSync, SyncOrder
  <1>8. QueueTypeOK'
    <2>1. IsFiniteSet(pins')
      BY <1>5, FS_AddElement DEF Inductive, TypeOK, QueueTypeOK
    <2>2. pins' \in SUBSET [snap : Snapshot, id : Nat \ {NoPin}]
      BY <1>1, <1>2, <1>5 DEF Inductive, TypeOK, QueueTypeOK
    <2> QED
      BY <1>5, <2>1, <2>2 DEF Inductive, TypeOK, QueueTypeOK
  <1> HIDE DEF x
  <1>9. PinsAreNamed'
    BY <1>1, <1>2, <1>5 DEF Inductive, PinsAreNamed
  <1>10. QueueIsSound'
    BY <1>5, <1>9 DEF Inductive, QueueIsSound, VerifiedIsRemote, CompletedIsVerified,
                      PinHeldUntilVerified, QueueFollowsCatalog, Latest
  <1>11. TypeOK'
    BY <1>3, <1>8, MoveThread DEF Inductive, PinRoots, report, TypeOK
  <1>12. DeadIsIdle'
    BY DEF Inductive, PinRoots, On, DeadIsIdle
  <1> QED
    BY <1>7, <1>10, <1>11, <1>12, Assembled

\* The row that names the pin is written.
LEMMA AddPendingStep ==
    ASSUME Inductive, NEW p \in Thread, AddPending(p)
    PROVE  Inductive'
  <1> DEFINE l == [thread[p] EXCEPT !.pc = "queue", !.item = 0]
             n == Unqueued(p)
             i == thread[p].item
  <1>1. thread[p].pc = "row" /\ thread[p].todo # {}
    BY DEF Inductive, Exclusive, Alone, AddPending, On
  <1>2. /\ mutex = p /\ Alone(p) /\ thread[p] \in Local
        /\ n \in Snapshot \ verified
    BY <1>1, LoopHolds
  <1>3. /\ pending[n] = NoPin /\ [snap |-> n, id |-> i] \in pins
        /\ \A s \in Snapshot : pending[s] # i
    BY <1>1, <1>2 DEF Alone
  <1>4. i \in Nat \ {NoPin}
    BY <1>3 DEF Inductive, TypeOK, QueueTypeOK
  <1>5. /\ thread' = [thread EXCEPT ![p] = l] /\ l \in Local /\ l.pc = "queue"
        /\ l.todo = thread[p].todo
    BY <1>2 DEF AddPending, Local, Point
  <1> HIDE DEF l
  <1>6. /\ pending' = [pending EXCEPT ![n] = i]
        /\ UNCHANGED <<catalog, pins, task, verified, remote, mutex, up>>
    BY DEF AddPending
  <1>7. thread'[p] = l
    BY <1>5, MoveThread DEF Inductive
  <1> HIDE DEF n, i
  <1>8. Alone(p)'
    BY <1>1, <1>2, <1>5, <1>6, <1>7 DEF Alone, Latest
  <1>9. Progress' /\ Exclusive'
    BY <1>1, <1>2, <1>5, <1>8, LoopStep DEF InSync, SyncOrder
  <1>10. QueueTypeOK'
    BY <1>4, <1>6 DEF Inductive, TypeOK, QueueTypeOK
  <1>11. /\ pending'[n] = i
         /\ \A s \in Snapshot : s # n => pending'[s] = pending[s]
    BY <1>2, <1>6 DEF Inductive, TypeOK, QueueTypeOK
  <1>12. PinsAreNamed'
    <2>1. \A y, z \in pins : y.id = z.id => y = z
      BY DEF Inductive, PinsAreNamed
    <2>2. \A s, t \in Snapshot : pending'[s] = pending'[t] /\ pending'[s] # NoPin => s = t
      BY <1>3, <1>11 DEF Inductive, PinsAreNamed
    <2>3. \A y \in pins, s \in Snapshot : y.id = pending'[s] => y.snap = s
      BY <1>3, <1>11, <2>1 DEF Inductive, PinsAreNamed
    <2>4. \A s \in Snapshot \ verified :
            /\ task[s].state # "none" => pending'[s] # NoPin
            /\ pending'[s] # NoPin => [snap |-> s, id |-> pending'[s]] \in pins
      BY <1>3, <1>4, <1>11 DEF Inductive, PinsAreNamed
    <2> QED
      BY <1>6, <2>1, <2>2, <2>3, <2>4 DEF PinsAreNamed
  <1>13. CompletedIsVerified' /\ PinHeldUntilVerified'
    BY <1>2, <1>3, <1>6, <1>11 DEF Inductive, CompletedIsVerified, PinHeldUntilVerified
  <1>14. QueueIsSound'
    BY <1>6, <1>12, <1>13 DEF Inductive, QueueIsSound, VerifiedIsRemote, QueueFollowsCatalog, Latest
  <1>15. TypeOK'
    BY <1>5, <1>10, MoveThread DEF Inductive, AddPending, report, TypeOK
  <1>16. DeadIsIdle'
    BY DEF Inductive, AddPending, On, DeadIsIdle
  <1> QED
    BY <1>9, <1>14, <1>15, <1>16, Assembled

\* The task is queued, unless there is one.
LEMMA EnqueueStep ==
    ASSUME Inductive, NEW p \in Thread, Enqueue(p)
    PROVE  Inductive'
  <1> DEFINE n == Unqueued(p)
             l == [thread[p] EXCEPT !.todo = @ \ {n}]
  <1>1. /\ mutex = p /\ Alone(p) /\ thread[p] \in Local /\ thread[p].pc = "queue"
        /\ n \in Snapshot \ verified /\ n \in 1..Latest /\ pending[n] # NoPin
    BY LoopHolds DEF Enqueue, On
  <1>2. /\ thread' = [thread EXCEPT ![p] = l] /\ l \in Local /\ l.pc = "queue"
        /\ l.todo \subseteq thread[p].todo
    BY <1>1 DEF Inductive, TypeOK, Enqueue, Local
  <1> HIDE DEF l
  <1>3. PICK t \in [state : TaskState \ {"none"}, error : BOOLEAN] :
          /\ task' = [task EXCEPT ![n] = t]
          /\ t.state = "completed" => task[n].state = "completed"
    <2>1. task[n] \in [state : TaskState, error : BOOLEAN]
      BY <1>1 DEF Inductive, TypeOK, QueueTypeOK
    <2>2. CASE task[n].state = "none"
      <3> DEFINE t == [state |-> "queued", error |-> FALSE]
      <3>1. task' = [task EXCEPT ![n] = t]
        BY <2>2 DEF Enqueue
      <3>2. t \in [state : TaskState \ {"none"}, error : BOOLEAN] /\ t.state = "queued"
        BY DEF TaskState
      <3> QED
        BY <3>1, <3>2
    <2>3. CASE task[n].state # "none"
      BY <2>1, <2>3 DEF Enqueue
    <2> QED
      BY <2>2, <2>3
  <1>4. UNCHANGED <<catalog, pins, pending, verified, remote, mutex, up>>
    BY DEF Enqueue
  <1> HIDE DEF n
  <1>5. thread'[p] = l
    BY <1>2, MoveThread DEF Inductive
  <1>6. Alone(p)'
    BY <1>1, <1>2, <1>4, <1>5 DEF Alone, Latest
  <1>7. Progress' /\ Exclusive'
    BY <1>1, <1>2, <1>6, LoopStep DEF InSync, SyncOrder
  <1>8. task'[n] = t /\ \A s \in Snapshot : s # n => task'[s] = task[s]
    BY <1>1, <1>3 DEF Inductive, TypeOK, QueueTypeOK
  <1>9. QueueTypeOK'
    BY <1>3, <1>4 DEF Inductive, TypeOK, QueueTypeOK
  <1>10. PinsAreNamed'
    BY <1>1, <1>4, <1>8 DEF Inductive, PinsAreNamed
  <1>11. CompletedIsVerified'
    BY <1>3, <1>4, <1>8 DEF Inductive, CompletedIsVerified
  <1>12. PinHeldUntilVerified'
    BY <1>1, <1>4, <1>8 DEF Inductive, PinHeldUntilVerified, PinsAreNamed
  <1>13. QueueFollowsCatalog' /\ VerifiedIsRemote'
    BY <1>1, <1>4, <1>8 DEF Inductive, TypeOK, QueueFollowsCatalog, VerifiedIsRemote, Latest
  <1>14. TypeOK'
    BY <1>2, <1>9, MoveThread DEF Inductive, Enqueue, report, TypeOK
  <1>15. DeadIsIdle'
    BY DEF Inductive, Enqueue, On, DeadIsIdle
  <1> QED
    BY <1>7, <1>10, <1>11, <1>12, <1>13, <1>14, <1>15, Assembled DEF QueueIsSound

\* A statement of the loop fails; the pin it made goes if it can.
LEMMA QueueFailsStep ==
    ASSUME Inductive, NEW p \in Thread, QueueFails(p)
    PROVE  Inductive'
  <1>1. PICK l \in Local :
          /\ thread' = [thread EXCEPT ![p] = l] /\ l.pc \notin Critical
          /\ mutex' = mutex \/ (mutex = p /\ mutex' = Nobody)
    BY AbandonMoves DEF QueueFails
  <1>2. Alone(p) /\ mutex = p /\ thread[p].pc \notin InSync
    BY DEF Inductive, Exclusive, Alone, QueueFails, Critical, InSync, SyncOrder
  <1>3. thread'[p] = l
    BY <1>1, MoveThread DEF Inductive
  <1>4. Alone(p)'
    BY <1>1, <1>3, OutsideIsAlone
  <1>5. Progress' /\ Exclusive'
    BY <1>1, <1>2, <1>4, LoopStep DEF Critical
  <1>6. UNCHANGED <<catalog, pending, task, verified, remote, up>>
    BY DEF QueueFails
  <1>7. /\ pins' \subseteq pins
        /\ \A x \in pins : x \in pins' \/ \A s \in Snapshot : x.id # pending[s]
    <2>1. CASE UNCHANGED pins
      BY <2>1
    <2>2. CASE thread[p].pc = "row" /\ pins' = {x \in pins : x.id # thread[p].item}
      BY <1>2, <2>2 DEF Alone
    <2> QED
      BY <2>1, <2>2 DEF QueueFails
  <1>8. QueueTypeOK'
    <2>1. IsFiniteSet(pins')
      BY <1>7, FS_Subset DEF Inductive, TypeOK, QueueTypeOK
    <2> QED
      BY <1>6, <1>7, <2>1 DEF Inductive, TypeOK, QueueTypeOK
  <1>9. \A s \in Snapshot :
          [snap |-> s, id |-> pending[s]] \in pins => [snap |-> s, id |-> pending[s]] \in pins'
    BY <1>7
  <1>10. QueueIsSound'
    BY <1>6, <1>7, <1>9 DEF Inductive, QueueIsSound, PinsAreNamed, VerifiedIsRemote,
         CompletedIsVerified, PinHeldUntilVerified, QueueFollowsCatalog, Latest
  <1>11. TypeOK'
    BY <1>1, <1>8, MoveThread, FaultCounted DEF Inductive, QueueFails, report, TypeOK
  <1>12. DeadIsIdle'
    BY DEF Inductive, QueueFails, DeadIsIdle
  <1> QED
    BY <1>5, <1>10, <1>11, <1>12, Assembled

-----------------------------------------------------------------------------
(* Queue.Drain and Manager.Sync                                            *)

\* A worker that drains holds the mutex, so nobody else is inside it.
LEMMA DrainHolds ==
    ASSUME Inductive, thread["worker"].pc \in InSync \cup {"claim"}
    PROVE  /\ "worker" \in Thread /\ mutex = "worker" /\ thread["worker"] \in Local
           /\ thread["worker"].pc \in InSync => Current \in Snapshot /\ Current \in 1..Latest
  <1>1. "worker" \in Thread
    BY DEF Thread
  <1>2. mutex = "worker" /\ thread["worker"] \in Local
    BY <1>1 DEF Inductive, Exclusive, Alone, Critical, TypeOK
  <1>3. 1..Latest \subseteq Snapshot
    BY SyncAssumption DEF Inductive, TypeOK, Latest, Snapshot
  <1> QED
    BY <1>1, <1>2, <1>3 DEF Inductive, Progress

\* A step of the drain: what is left to show is what it does to the queue.
LEMMA DrainStep ==
    ASSUME Inductive, thread["worker"].pc \in InSync \cup {"claim"}, NEW l \in Local,
           thread' = [thread EXCEPT !["worker"] = l], l.pc \in InSync \cup {"claim"},
           mutex' = mutex
    PROVE  Exclusive' /\ thread'["worker"] = l /\ thread' \in [Thread -> Local]
  <1>1. "worker" \in Thread /\ mutex = "worker"
    BY DrainHolds
  <1>2. /\ thread'["worker"] = l /\ thread' \in [Thread -> Local]
        /\ \A q \in Thread \ {"worker"} : thread'[q] = thread[q]
    BY <1>1, MoveThread DEF Inductive
  <1>3. Alone("worker")'
    BY <1>1, <1>2 DEF Alone, InSync, SyncOrder
  <1> QED
    BY <1>1, <1>2, <1>3, OthersAreOutside DEF Exclusive

\* A step from one point of Manager.Sync to the next.
LEMMA SyncMoves ==
    ASSUME Inductive, NEW pc \in DOMAIN SyncOrder, SyncStep(pc), mutex' = mutex
    PROVE  /\ Exclusive' /\ thread' \in [Thread -> Local]
           /\ thread["worker"].pc = pc
           /\ thread'["worker"].pc = SyncOrder[pc] /\ Current' = Current
           /\ Current \in Snapshot /\ Current \in 1..Latest
  <1> DEFINE l == [thread["worker"] EXCEPT !.pc = SyncOrder[pc]]
  <1>1. /\ thread["worker"].pc = pc /\ pc \in InSync
        /\ SyncOrder[pc] \in InSync /\ SyncOrder[pc] \in Point
    BY DEF SyncStep, On, InSync, SyncOrder, Point
  <1>2. "worker" \in Thread /\ Current \in Snapshot /\ Current \in 1..Latest
    BY <1>1, DrainHolds
  <1>3. /\ thread' = [thread EXCEPT !["worker"] = l] /\ l \in Local
        /\ l.pc = SyncOrder[pc] /\ l.item = thread["worker"].item
    BY <1>1, <1>2, GotoThread DEF Inductive, SyncStep
  <1> HIDE DEF l
  <1> QED
    BY <1>1, <1>2, <1>3, DrainStep DEF Current

\* A due task is claimed.
LEMMA ClaimStep ==
    ASSUME Inductive, Claim
    PROVE  Inductive'
  <1>1. PICK n \in Snapshot :
          /\ task[n].state = "queued" /\ task' = [task EXCEPT ![n].state = "inflight"]
          /\ thread' = [thread EXCEPT !["worker"] = [At("replicate") EXCEPT !.item = n]]
    BY DEF Claim, Claimable
  <1> DEFINE l == [At("replicate") EXCEPT !.item = n]
  <1>2. l \in Local /\ l.pc = "replicate" /\ l.item = n
    BY DEF At, Local, Point, Snapshot
  <1> HIDE DEF l
  <1>3. Exclusive' /\ thread'["worker"] = l /\ thread' \in [Thread -> Local]
    <2>1. thread["worker"].pc = "claim" /\ l.pc \in InSync /\ mutex' = mutex
      BY <1>2 DEF Claim, On, InSync, SyncOrder
    <2> QED
      BY <1>1, <1>2, <2>1, DrainStep DEF l
  <1>4. UNCHANGED <<catalog, pins, pending, verified, remote, up>>
    BY DEF Claim
  <1>5. /\ task' \in [Snapshot -> [state : TaskState, error : BOOLEAN]]
        /\ task'[n].state = "inflight"
        /\ \A s \in Snapshot : s # n => task'[s] = task[s]
    BY <1>1 DEF Inductive, TypeOK, QueueTypeOK, TaskState
  <1>6. \A s \in Snapshot : /\ (task'[s].state = "none") = (task[s].state = "none")
                            /\ task'[s].state = "completed" => task[s].state = "completed"
    BY <1>1, <1>5
  <1>7. n \in 1..Latest
    BY <1>1, SyncAssumption DEF Inductive, TypeOK, QueueFollowsCatalog, Snapshot, Latest
  <1>8. Progress'
    BY <1>2, <1>3, <1>4, <1>5, <1>7 DEF Progress, Current, Latest, InSync, SyncOrder
  <1>9. QueueTypeOK'
    BY <1>4, <1>5 DEF Inductive, TypeOK, QueueTypeOK
  <1>10. QueueIsSound'
    BY <1>4, <1>6 DEF Inductive, QueueIsSound, PinsAreNamed, VerifiedIsRemote,
         CompletedIsVerified, PinHeldUntilVerified, QueueFollowsCatalog, Latest
  <1>11. TypeOK'
    BY <1>3, <1>9 DEF Inductive, Claim, report, TypeOK
  <1>12. DeadIsIdle'
    BY DEF Inductive, Claim, On, DeadIsIdle
  <1> QED
    BY <1>3, <1>8, <1>10, <1>11, <1>12, Assembled

\* The objects are copied and reopened.
LEMMA ReplicateStep ==
    ASSUME Inductive, Replicate
    PROVE  Inductive'
  <1>1. /\ Exclusive' /\ thread' \in [Thread -> Local] /\ Current \in Snapshot
        /\ Current \in 1..Latest /\ thread["worker"].pc = "replicate"
        /\ thread'["worker"].pc = "publish" /\ Current' = Current
    BY SyncMoves DEF Replicate, SyncOrder
  <1>2. UNCHANGED <<catalog, pins, pending, task, verified, up>>
    BY DEF Replicate
  <1>3. /\ remote' \in [{"checkpoint", "publication"} -> SUBSET Snapshot]
        /\ Current \in remote'["checkpoint"]
        /\ remote["checkpoint"] \subseteq remote'["checkpoint"]
        /\ remote["publication"] \subseteq remote'["publication"]
    BY <1>1 DEF Inductive, TypeOK, QueueTypeOK, Replicate
  <1>4. Progress'
    BY <1>1, <1>2, <1>3 DEF Inductive, Progress, Latest, InSync, SyncOrder
  <1>5. QueueTypeOK'
    BY <1>2, <1>3 DEF Inductive, TypeOK, QueueTypeOK
  <1>6. QueueIsSound'
    BY <1>2, <1>3 DEF Inductive, QueueIsSound, PinsAreNamed, VerifiedIsRemote,
         CompletedIsVerified, PinHeldUntilVerified, QueueFollowsCatalog, Latest
  <1>7. TypeOK'
    BY <1>1, <1>5 DEF Inductive, Replicate, report, TypeOK
  <1>8. DeadIsIdle'
    BY DEF Inductive, Replicate, SyncStep, On, DeadIsIdle
  <1> QED
    BY <1>1, <1>4, <1>6, <1>7, <1>8, Assembled

\* The publication is written.
LEMMA PublishStep ==
    ASSUME Inductive, Publish
    PROVE  Inductive'
  <1>1. /\ Exclusive' /\ thread' \in [Thread -> Local] /\ Current \in Snapshot
        /\ Current \in 1..Latest /\ thread["worker"].pc = "publish"
        /\ thread'["worker"].pc = "verify" /\ Current' = Current
    BY SyncMoves DEF Publish, SyncOrder
  <1>2. UNCHANGED <<catalog, pins, pending, task, verified, up>>
    BY DEF Publish
  <1>3. /\ remote' \in [{"checkpoint", "publication"} -> SUBSET Snapshot]
        /\ Current \in remote'["publication"]
        /\ remote["checkpoint"] \subseteq remote'["checkpoint"]
        /\ remote["publication"] \subseteq remote'["publication"]
    BY <1>1 DEF Inductive, TypeOK, QueueTypeOK, Publish
  <1>4. Progress'
    BY <1>1, <1>2, <1>3 DEF Inductive, Progress, Latest, InSync, SyncOrder
  <1>5. QueueTypeOK'
    BY <1>2, <1>3 DEF Inductive, TypeOK, QueueTypeOK
  <1>6. QueueIsSound'
    BY <1>2, <1>3 DEF Inductive, QueueIsSound, PinsAreNamed, VerifiedIsRemote,
         CompletedIsVerified, PinHeldUntilVerified, QueueFollowsCatalog, Latest
  <1>7. TypeOK'
    BY <1>1, <1>5 DEF Inductive, Publish, report, TypeOK
  <1>8. DeadIsIdle'
    BY DEF Inductive, Publish, SyncStep, On, DeadIsIdle
  <1> QED
    BY <1>1, <1>4, <1>6, <1>7, <1>8, Assembled

\* The receipt is written: only now, when the replica holds and publishes the
\* snapshot.
LEMMA MarkVerifiedStep ==
    ASSUME Inductive, MarkVerified
    PROVE  Inductive'
  <1>1. /\ Exclusive' /\ thread' \in [Thread -> Local] /\ Current \in Snapshot
        /\ Current \in 1..Latest /\ thread["worker"].pc = "verify"
        /\ thread'["worker"].pc = "release" /\ Current' = Current
    BY SyncMoves DEF MarkVerified, SyncOrder
  <1>2. /\ UNCHANGED <<catalog, pins, pending, task, remote, up>>
        /\ verified' = verified \cup {Current}
    BY DEF MarkVerified
  <1>3. Current \in remote["checkpoint"] \cap remote["publication"]
    BY <1>1 DEF Inductive, Progress
  <1>4. Progress'
    BY <1>1, <1>2 DEF Inductive, Progress, Latest, InSync, SyncOrder
  <1>5. QueueTypeOK'
    BY <1>1, <1>2 DEF Inductive, TypeOK, QueueTypeOK
  <1>6. QueueIsSound'
    <2>1. VerifiedIsRemote' /\ CompletedIsVerified' /\ QueueFollowsCatalog'
      BY <1>1, <1>2, <1>3 DEF Inductive, VerifiedIsRemote, CompletedIsVerified,
                              QueueFollowsCatalog, Latest
    <2>2. PinsAreNamed' /\ PinHeldUntilVerified'
      BY <1>2 DEF Inductive, PinsAreNamed, PinHeldUntilVerified
    <2> QED
      BY <2>1, <2>2 DEF QueueIsSound
  <1>7. TypeOK'
    BY <1>1, <1>5 DEF Inductive, MarkVerified, report, TypeOK
  <1>8. DeadIsIdle'
    BY DEF Inductive, MarkVerified, SyncStep, On, DeadIsIdle
  <1> QED
    BY <1>1, <1>4, <1>6, <1>7, <1>8, Assembled

\* The pin of the copied snapshot is released; no other row names it.
LEMMA ReleasePinStep ==
    ASSUME Inductive, ReleasePin
    PROVE  Inductive'
  <1>1. /\ Exclusive' /\ thread' \in [Thread -> Local] /\ Current \in Snapshot
        /\ Current \in 1..Latest /\ thread["worker"].pc = "release"
        /\ thread'["worker"].pc = "clear" /\ Current' = Current
    BY SyncMoves DEF ReleasePin, SyncOrder
  <1>2. /\ UNCHANGED <<catalog, pending, task, verified, remote, up>>
        /\ pins' = {x \in pins : x.id # pending[Current]}
    BY DEF ReleasePin
  <1>3. Current \in verified
    BY <1>1 DEF Inductive, Progress
  <1>4. Progress'
    BY <1>1, <1>2, <1>3 DEF Inductive, Progress, Latest, InSync, SyncOrder
  <1>5. QueueTypeOK'
    <2>1. IsFiniteSet(pins')
      BY <1>2, FS_Subset DEF Inductive, TypeOK, QueueTypeOK
    <2> QED
      BY <1>2, <2>1 DEF Inductive, TypeOK, QueueTypeOK
  <1>6. \A s \in Snapshot \ verified :
          [snap |-> s, id |-> pending[s]] \in pins => [snap |-> s, id |-> pending[s]] \in pins'
    <2> SUFFICES ASSUME NEW s \in Snapshot \ verified, [snap |-> s, id |-> pending[s]] \in pins
                 PROVE  pending[s] # pending[Current]
      BY <1>2
    <2>1. pending[s] # NoPin
      BY DEF Inductive, TypeOK, QueueTypeOK
    <2> QED
      BY <1>1, <1>3, <2>1 DEF Inductive, PinsAreNamed
  <1>7. QueueIsSound'
    BY <1>2, <1>6 DEF Inductive, QueueIsSound, PinsAreNamed, VerifiedIsRemote,
         CompletedIsVerified, PinHeldUntilVerified, QueueFollowsCatalog, Latest
  <1>8. TypeOK'
    BY <1>1, <1>5 DEF Inductive, ReleasePin, report, TypeOK
  <1>9. DeadIsIdle'
    BY DEF Inductive, ReleasePin, SyncStep, On, DeadIsIdle
  <1> QED
    BY <1>1, <1>4, <1>7, <1>8, <1>9, Assembled

\* The row is forgotten.
LEMMA ClearPendingStep ==
    ASSUME Inductive, ClearPending
    PROVE  Inductive'
  <1>1. /\ Exclusive' /\ thread' \in [Thread -> Local] /\ Current \in Snapshot
        /\ Current \in 1..Latest /\ thread["worker"].pc = "clear"
        /\ thread'["worker"].pc = "complete" /\ Current' = Current
    BY SyncMoves DEF ClearPending, SyncOrder
  <1>2. /\ UNCHANGED <<catalog, pins, task, verified, remote, up>>
        /\ pending' = [pending EXCEPT ![Current] = NoPin]
    BY DEF ClearPending
  <1>3. Current \in verified
    BY <1>1 DEF Inductive, Progress
  <1>4. /\ pending' \in [Snapshot -> Nat] /\ pending'[Current] = NoPin
        /\ \A s \in Snapshot : s # Current => pending'[s] = pending[s]
    BY <1>1, <1>2 DEF Inductive, TypeOK, QueueTypeOK, NoPin
  <1>5. Progress'
    BY <1>1, <1>2, <1>3, <1>4 DEF Inductive, Progress, Latest, InSync, SyncOrder
  <1>6. QueueTypeOK'
    BY <1>2, <1>4 DEF Inductive, TypeOK, QueueTypeOK
  <1>7. PinsAreNamed'
    <2>1. \A x \in pins : x.id # NoPin
      BY DEF Inductive, TypeOK, QueueTypeOK
    <2> QED
      BY <1>1, <1>2, <1>3, <1>4, <2>1 DEF Inductive, PinsAreNamed
  <1>8. CompletedIsVerified' /\ PinHeldUntilVerified'
    BY <1>1, <1>2, <1>3, <1>4 DEF Inductive, CompletedIsVerified, PinHeldUntilVerified
  <1>9. QueueIsSound'
    BY <1>2, <1>7, <1>8 DEF Inductive, QueueIsSound, VerifiedIsRemote, QueueFollowsCatalog, Latest
  <1>10. TypeOK'
    BY <1>1, <1>6 DEF Inductive, ClearPending, report, TypeOK
  <1>11. DeadIsIdle'
    BY DEF Inductive, ClearPending, SyncStep, On, DeadIsIdle
  <1> QED
    BY <1>1, <1>5, <1>9, <1>10, <1>11, Assembled

\* The drain lets go of its task, which it leaves in state t.
LEMMA TaskLeft ==
    ASSUME Inductive, thread["worker"].pc \in InSync,
           NEW t \in [state : TaskState, error : BOOLEAN],
           thread' = [thread EXCEPT !["worker"] = At("claim")],
           task' = [task EXCEPT ![Current] = t], t.state # "none",
           t.state = "completed" => Current \in verified /\ pending[Current] = NoPin,
           UNCHANGED <<catalog, pins, pending, verified, remote, mutex>>
    PROVE  /\ Exclusive' /\ Progress' /\ QueueTypeOK' /\ QueueIsSound'
           /\ thread' \in [Thread -> Local]
  <1>1. Current \in Snapshot /\ Current \in 1..Latest /\ task[Current].state # "none"
    BY DrainHolds DEF Inductive, Progress
  <1>2. At("claim") \in Local /\ At("claim").pc = "claim"
    BY AtIsLocal DEF Point
  <1>3. Exclusive' /\ thread'["worker"].pc = "claim" /\ thread' \in [Thread -> Local]
    BY <1>2, DrainStep
  <1>4. task'[Current] = t /\ \A s \in Snapshot : s # Current => task'[s] = task[s]
    BY <1>1 DEF Inductive, TypeOK, QueueTypeOK
  <1>5. Progress'
    BY <1>3 DEF Progress, InSync, SyncOrder
  <1>6. QueueTypeOK'
    BY DEF Inductive, TypeOK, QueueTypeOK
  <1>7. PinsAreNamed' /\ PinHeldUntilVerified'
    BY <1>1, <1>4 DEF Inductive, PinsAreNamed, PinHeldUntilVerified
  <1>8. CompletedIsVerified'
    BY <1>1, <1>4 DEF Inductive, CompletedIsVerified
  <1>9. QueueFollowsCatalog' /\ VerifiedIsRemote'
    BY <1>1, <1>4 DEF Inductive, QueueFollowsCatalog, VerifiedIsRemote, Latest
  <1> QED
    BY <1>3, <1>5, <1>6, <1>7, <1>8, <1>9 DEF QueueIsSound

\* The task is completed.
LEMMA CompleteClaimStep ==
    ASSUME Inductive, CompleteClaim
    PROVE  Inductive'
  <1> DEFINE t == [state |-> "completed", error |-> FALSE]
  <1>1. thread["worker"].pc = "complete" /\ thread["worker"].pc \in InSync
    BY DEF CompleteClaim, On, InSync
  <1>2. Current \in verified /\ pending[Current] = NoPin
    BY <1>1 DEF Inductive, Progress
  <1>3. t \in [state : TaskState, error : BOOLEAN] /\ t.state = "completed"
    BY DEF TaskState
  <1>4. /\ task' = [task EXCEPT ![Current] = t]
        /\ thread' = [thread EXCEPT !["worker"] = At("claim")]
        /\ UNCHANGED <<catalog, pins, pending, verified, remote, mutex>>
    BY DEF CompleteClaim
  <1> HIDE DEF t
  <1>5. /\ Exclusive' /\ Progress' /\ QueueTypeOK' /\ QueueIsSound'
        /\ thread' \in [Thread -> Local]
    BY <1>1, <1>2, <1>3, <1>4, TaskLeft
  <1>6. TypeOK'
    BY <1>5 DEF Inductive, CompleteClaim, report, TypeOK
  <1>7. DeadIsIdle'
    BY DEF Inductive, CompleteClaim, On, DeadIsIdle
  <1> QED
    BY <1>5, <1>6, <1>7, Assembled

\* A failed Sync puts its task back.
LEMMA SyncFailsStep ==
    ASSUME Inductive, SyncFails
    PROVE  Inductive'
  <1> DEFINE t == [state |-> "waiting", error |-> TRUE]
  <1>1. thread["worker"].pc \in InSync
    BY DEF SyncFails, InSync, SyncOrder
  <1>2. t \in [state : TaskState, error : BOOLEAN] /\ t.state = "waiting"
    BY DEF TaskState
  <1>3. /\ task' = [task EXCEPT ![Current] = t]
        /\ thread' = [thread EXCEPT !["worker"] = At("claim")]
        /\ UNCHANGED <<catalog, pins, pending, verified, remote, mutex>>
    BY DEF SyncFails
  <1> HIDE DEF t
  <1>4. /\ Exclusive' /\ Progress' /\ QueueTypeOK' /\ QueueIsSound'
        /\ thread' \in [Thread -> Local]
    BY <1>1, <1>2, <1>3, TaskLeft
  <1>5. faults' \in 0..MaxFaults
    BY FaultCounted DEF SyncFails, Inductive, TypeOK
  <1>6. TypeOK'
    BY <1>4, <1>5 DEF Inductive, SyncFails, report, TypeOK
  <1>7. DeadIsIdle'
    BY DEF Inductive, SyncFails, DeadIsIdle
  <1> QED
    BY <1>4, <1>6, <1>7, Assembled

\* A backoff or a lease ends.
LEMMA BecomesDueStep ==
    ASSUME Inductive, NEW n \in Snapshot, BecomesDue(n)
    PROVE  Inductive'
  <1>1. /\ UNCHANGED <<catalog, pins, pending, verified, remote, thread, mutex, up>>
        /\ task' = [task EXCEPT ![n].state = "queued"]
        /\ task[n].state \notin {"none", "completed"}
    BY DEF BecomesDue
  <1>2. /\ task' \in [Snapshot -> [state : TaskState, error : BOOLEAN]]
        /\ task'[n].state = "queued"
        /\ \A s \in Snapshot : s # n => task'[s] = task[s]
    BY <1>1 DEF Inductive, TypeOK, QueueTypeOK, TaskState
  <1>3. \A s \in Snapshot : /\ (task'[s].state = "none") = (task[s].state = "none")
                            /\ task'[s].state = "completed" => task[s].state = "completed"
    BY <1>1, <1>2
  <1>4. Progress'
    <2>1. ASSUME thread["worker"].pc \in InSync
          PROVE  Current \in Snapshot /\ task[Current].state # "none"
      BY <2>1, DrainHolds DEF Inductive, Progress
    <2> QED
      BY <1>1, <1>3, <2>1 DEF Inductive, Progress, Current, Latest
  <1>5. QueueTypeOK'
    BY <1>1, <1>2 DEF Inductive, TypeOK, QueueTypeOK
  <1>6. QueueIsSound'
    BY <1>1, <1>3 DEF Inductive, QueueIsSound, PinsAreNamed, VerifiedIsRemote,
         CompletedIsVerified, PinHeldUntilVerified, QueueFollowsCatalog, Latest
  <1>7. Exclusive'
    <2>1. ASSUME NEW p \in Thread PROVE Unqueued(p)' = Unqueued(p)
      BY <1>1, UnqueuedStays
    <2> QED
      BY <1>1, <2>1 DEF Inductive, Exclusive, Alone, Latest
  <1>8. TypeOK'
    BY <1>5 DEF Inductive, BecomesDue, report, TypeOK
  <1>9. DeadIsIdle'
    BY <1>1 DEF Inductive, DeadIsIdle
  <1> QED
    BY <1>4, <1>6, <1>7, <1>8, <1>9, Assembled

-----------------------------------------------------------------------------
(* The theorems                                                            *)

\* The initial state.
LEMMA InitInductive == Init => Inductive
  <1> SUFFICES ASSUME Init PROVE Inductive
    OBVIOUS
  <1>1. \A p \in Thread : thread[p] = Idle /\ Idle \in Local /\ Idle.pc = "idle"
    BY AtIsLocal DEF Init, Idle, Point
  <1>2. QueueTypeOK
    BY FS_EmptySet DEF Init, QueueTypeOK, TaskState, NoPin
  <1>3. TypeOK
    <2>1. thread \in [Thread -> Local] /\ mutex \in Thread \cup {Nobody}
      BY <1>1 DEF Init
    <2>2. catalog \in Seq(0..MaxWrites) /\ Len(catalog) <= MaxSnapshots
      BY SyncAssumption DEF Init
    <2>3. revision \in 0..MaxWrites /\ faults \in 0..MaxFaults
      BY SyncAssumption DEF Init
    <2>4. /\ marker \in BOOLEAN /\ status \in SyncState
          /\ up \in BOOLEAN /\ manager \in BOOLEAN /\ online \in BOOLEAN
      BY DEF Init, SyncState
    <2> QED
      BY <1>2, <2>1, <2>2, <2>3, <2>4 DEF TypeOK
  <1>4. Progress
    BY <1>1 DEF Progress, InSync, SyncOrder, Thread
  <1>5. Exclusive
    BY <1>1 DEF Exclusive, Alone, Critical, InSync, SyncOrder
  <1>6. PinsAreNamed /\ VerifiedIsRemote /\ CompletedIsVerified /\ PinHeldUntilVerified
    BY DEF Init, PinsAreNamed, VerifiedIsRemote, CompletedIsVerified, PinHeldUntilVerified
  <1>7. QueueFollowsCatalog /\ DeadIsIdle
    BY DEF Init, QueueFollowsCatalog, DeadIsIdle
  <1> QED
    BY <1>3, <1>4, <1>5, <1>6, <1>7 DEF Inductive

\* No step of any thread leaves the invariant.
LEMMA NextInductive == Inductive /\ [Next]_vars => Inductive'
  <1> SUFFICES ASSUME Inductive, [Next]_vars PROVE Inductive'
    OBVIOUS
  <1>1. ASSUME NEW p \in Thread, Marking(p) \/ Queueing(p) PROVE Inductive'
    BY <1>1, MarkFailedStep, MarkFileStep, MarkPendingStep, EnterStep, PinRootsStep,
       AddPendingStep, EnqueueStep, QueuedStep, QueueFailsStep DEF Marking, Queueing
  <1>2. CASE Write \/ SynchronizeRequest \/ Capture \/ StatusRequest
    BY <1>2, WriteStep, SynchronizeRequestStep, CaptureStep, StatusRequestStep
  <1>3. CASE Syncing
    BY <1>3, ClaimStep, NothingToClaimStep, ReplicateStep, PublishStep, MarkVerifiedStep,
       ReleasePinStep, ClearPendingStep, CompleteClaimStep, SyncFailsStep, DiscoverStep DEF Syncing
  <1>4. CASE Pass
    BY <1>4, BeginPassStep, BeginPassFailsStep, VerifyIdentityStep, PassFailsStep, AssessStep,
       ClearMarkerStep, SettleStatusStep DEF Pass
  <1>5. ASSUME NEW s \in Snapshot, BecomesDue(s) PROVE Inductive'
    BY <1>5, BecomesDueStep
  <1>6. CASE Crash \/ Launch \/ Disconnect \/ Reconnect
    BY <1>6, CrashStep, LaunchStep, DisconnectStep, ReconnectStep
  <1>7. CASE UNCHANGED vars
    <2>1. Progress' /\ QueueTypeOK' /\ QueueIsSound' /\ Exclusive'
      BY <1>7, NobodyMoves DEF vars, durable
    <2>2. TypeOK' /\ DeadIsIdle'
      BY <1>7, <2>1 DEF vars, durable, report, Inductive, TypeOK, DeadIsIdle
    <2> QED
      BY <2>1, <2>2, Assembled
  <1> QED
    BY <1>1, <1>2, <1>3, <1>4, <1>5, <1>6, <1>7 DEF Next

\* The whole invariant of the replica queue holds in every reachable state,
\* however many writes, snapshots, crashes and lost connections there are.
THEOREM InductiveInvariant == Spec => []Inductive
  BY InitInductive, NextInductive, PTL DEF Spec

\* A receipt, which lets the desktop drop its local copy, exists only for a
\* snapshot that the replica holds and publishes.
THEOREM ReceiptsAreTrue == Spec => []VerifiedIsRemote
  <1>1. Inductive => VerifiedIsRemote
    BY DEF Inductive
  <1> QED
    BY <1>1, InductiveInvariant, PTL

\* A queued snapshot stays pinned until its receipt is there: retention cannot
\* take its objects between a crash and the next pass.
THEOREM QueuedStaysPinned == Spec => []PinHeldUntilVerified
  <1>1. Inductive => PinHeldUntilVerified
    BY DEF Inductive
  <1> QED
    BY <1>1, InductiveInvariant, PTL

\* A completed task, which no pass runs again, has its receipt.
THEOREM CompletionIsFinal == Spec => []CompletedIsVerified
  <1>1. Inductive => CompletedIsVerified
    BY DEF Inductive
  <1> QED
    BY <1>1, InductiveInvariant, PTL
=============================================================================
