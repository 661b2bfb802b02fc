----------------------------- MODULE ReplicaSync -----------------------------
(***************************************************************************)
(* One device copying its snapshots to a directory replica: the durable    *)
(* sync queue (sidecar/internal/replica/queue.go), the manager that pins,  *)
(* replicates, verifies and publishes (production.go) and the worker,      *)
(* marker file and status row of workspacev2/replica_conflict_handlers.go  *)
(* that tell the desktop whether the local cache may be released.          *)
(*                                                                         *)
(* A snapshot is its place in the catalogue and knows the mutation         *)
(* revision it was captured at.  Objects, manifests and receipts are left  *)
(* out: a snapshot is on the replica or it is not.  What the publications  *)
(* of several devices do to each other is module ReplicaPublication.       *)
(***************************************************************************)
EXTENDS Integers, FiniteSets, Sequences

CONSTANTS
    MaxWrites,      \* bound on coordinated writes
    MaxSnapshots,   \* bound on captured snapshots
    MaxFaults       \* bound on crashes, failed steps and lost connections

ASSUME SyncAssumption == {MaxWrites, MaxSnapshots, MaxFaults} \subseteq Nat

Snapshot == 1..MaxSnapshots
NoPin == 0

VARIABLES
    revision,     \* MutationRevision of the write coordinator
    catalog,      \* revision each published snapshot was captured at
    pins,         \* live root pins of the object repository, by snapshot
    pending,      \* replica_pending: the pin of a snapshot, or NoPin
    task,         \* replica_sync_tasks: state and whether last_error is set
    verified,     \* replica_verified
    remote,       \* snapshots replicated to, and published on, the replica
    marker,       \* the pending marker file
    status,       \* sync_state of the status row in the workspace state
    up,           \* the sidecar process runs
    manager,      \* replica.Manager is open
    online,       \* the replica directory is reachable
    thread,       \* where writer, capture and sync worker are
    mutex,        \* holder of Manager.mu
    faults

queue == <<pins, pending, task, verified, remote>>
report == <<marker, status>>
durable == <<revision, catalog, queue, report>>
vars == <<durable, up, manager, online, thread, mutex, faults>>

Thread == {"request", "capture", "worker"}
Nobody == "nobody"

\* A thread: its control point, the snapshots it still has to queue, and the
\* one thing it works on (a pin it made, a snapshot it sends; 1 for a
\* replica.synchronize that has to mark).
At(pc) == [pc |-> pc, todo |-> {}, item |-> 0]
Idle == At("idle")

TaskState == {"none", "queued", "inflight", "waiting", "completed"}
SyncState == {"pending", "failed", "syncing", "replicated"}
Point == {"idle", "enter", "identity", "queue", "row", "claim", "replicate", "publish",
          "verify", "release", "clear", "complete", "discover", "assess", "unmark",
          "settle", "markFailed", "markFile", "markPending"}

Local == [pc : Point, todo : SUBSET Snapshot, item : Nat]

QueueTypeOK ==
    /\ pins \in SUBSET [snap : Snapshot, id : Nat \ {NoPin}] /\ IsFiniteSet(pins)
    /\ pending \in [Snapshot -> Nat]
    /\ task \in [Snapshot -> [state : TaskState, error : BOOLEAN]]
    /\ verified \in SUBSET Snapshot
    /\ remote \in [{"checkpoint", "publication"} -> SUBSET Snapshot]

TypeOK ==
    /\ revision \in 0..MaxWrites
    /\ catalog \in Seq(0..MaxWrites) /\ Len(catalog) <= MaxSnapshots
    /\ QueueTypeOK
    /\ marker \in BOOLEAN /\ status \in SyncState
    /\ up \in BOOLEAN /\ manager \in BOOLEAN /\ online \in BOOLEAN
    /\ thread \in [Thread -> Local]
    /\ mutex \in Thread \cup {Nobody} /\ faults \in 0..MaxFaults

Init ==
    /\ revision = 0 /\ catalog = <<>>
    /\ pins = {} /\ pending = [s \in Snapshot |-> NoPin]
    /\ task = [s \in Snapshot |-> [state |-> "none", error |-> FALSE]]
    /\ verified = {} /\ remote = [x \in {"checkpoint", "publication"} |-> {}]
    /\ marker = FALSE /\ status = "replicated"
    /\ up = FALSE /\ manager = FALSE /\ online \in BOOLEAN
    /\ thread = [p \in Thread |-> Idle] /\ mutex = Nobody /\ faults = 0

Fault == faults < MaxFaults /\ faults' = faults + 1

On(p, pc) == up /\ thread[p].pc = pc
Goto(p, pc) == thread' = [thread EXCEPT ![p].pc = pc]
Latest == Len(catalog)

\* The revision of the newest snapshot, below every revision when there is none.
LatestRevision == IF Latest = 0 THEN -1 ELSE catalog[Latest]

-----------------------------------------------------------------------------
(* Writes and captures                                                     *)

\* A coordinated write.  Only business writes go through
\* coordinateBusinessWriteReceipt and are followed by the marker.
Write ==
    /\ On("request", "idle") /\ revision < MaxWrites
    /\ revision' = revision + 1
    /\ Goto("request", "markFailed") \/ UNCHANGED thread
    /\ UNCHANGED <<catalog, queue, report, up, manager, online, mutex, faults>>

\* markPending: the status row, then the marker file.
MarkFailed(p) ==
    /\ On(p, "markFailed") /\ Goto(p, "markFile")
    /\ status' = "failed"
    /\ UNCHANGED <<revision, catalog, queue, marker, up, manager, online, mutex, faults>>

MarkFile(p) ==
    /\ On(p, "markFile")
    /\ Goto(p, IF p = "request" \/ thread[p].item = 1 THEN "markPending" ELSE "idle")
    /\ marker' = TRUE
    /\ UNCHANGED <<revision, catalog, queue, status, up, manager, online, mutex, faults>>

\* The last write of markLocalMutationPending, of replica.synchronize and of
\* queuePublishedSnapshots: the row of a healthy pending workspace.
MarkPending(p) ==
    /\ On(p, "markPending") /\ thread' = [thread EXCEPT ![p] = Idle]
    /\ status' = "pending"
    /\ UNCHANGED <<revision, catalog, queue, marker, up, manager, online, mutex, faults>>

\* replica.synchronize queues what is published, or marks the workspace when
\* there is no manager to queue with; it shares a thread with the captures.
SynchronizeRequest ==
    /\ On("capture", "idle")
    /\ thread' = [thread EXCEPT !["capture"] =
                    IF manager THEN At("enter") ELSE [At("markFailed") EXCEPT !.item = 1]]
    /\ UNCHANGED <<durable, up, manager, online, mutex, faults>>

\* The scheduler captures once the revision is ahead of the newest snapshot,
\* then queues it: enqueueReplicaSnapshots.
Capture ==
    /\ On("capture", "idle") /\ Latest < MaxSnapshots
    /\ revision > 0 /\ LatestRevision < revision
    /\ catalog' = Append(catalog, revision)
    /\ Goto("capture", IF manager THEN "enter" ELSE "markFailed")
    /\ UNCHANGED <<revision, queue, report, up, manager, online, mutex, faults>>

-----------------------------------------------------------------------------
(* queuePublishedSnapshots, under Manager.mu                               *)

\* The snapshots without a receipt, about to be queued.
Listing == [At("queue") EXCEPT !.todo = (1..Latest) \ verified]

\* The snapshots are listed under the mutex; Synchronize checks first who the
\* replica is.
Enter(p) ==
    /\ On(p, "enter") /\ mutex = Nobody /\ mutex' = p
    /\ IF p = "worker" THEN Goto(p, "identity")
       ELSE thread' = [thread EXCEPT ![p] = Listing]
    /\ UNCHANGED <<durable, up, manager, online, faults>>

VerifyIdentity ==
    /\ On("worker", "identity") /\ online
    /\ thread' = [thread EXCEPT !["worker"] = Listing]
    /\ UNCHANGED <<durable, up, manager, online, mutex, faults>>

\* The next snapshot of the loop, and an id no pin or row has.
Unqueued(p) == CHOOSE s \in thread[p].todo : \A q \in thread[p].todo : s <= q
UsedPins == {x.id : x \in pins} \cup {pending[s] : s \in Snapshot}
FreshPin == CHOOSE i \in 1..(Cardinality(pins) + MaxSnapshots + 1) : i \notin UsedPins

PinRoots(p) ==
    /\ On(p, "queue") /\ thread[p].todo # {} /\ pending[Unqueued(p)] = NoPin
    /\ FreshPin \notin UsedPins
    /\ thread' = [thread EXCEPT ![p] = [@ EXCEPT !.pc = "row", !.item = FreshPin]]
    /\ pins' = pins \cup {[snap |-> Unqueued(p), id |-> FreshPin]}
    /\ UNCHANGED <<revision, catalog, pending, task, verified, remote, report, up,
                   manager, online, mutex, faults>>

AddPending(p) ==
    /\ On(p, "row") /\ thread' = [thread EXCEPT ![p] = [@ EXCEPT !.pc = "queue", !.item = 0]]
    /\ pending' = [pending EXCEPT ![Unqueued(p)] = thread[p].item]
    /\ UNCHANGED <<revision, catalog, pins, task, verified, remote, report, up,
                   manager, online, mutex, faults>>

\* ON CONFLICT DO NOTHING: a task that exists is left as it is.
Enqueue(p) ==
    /\ On(p, "queue") /\ thread[p].todo # {} /\ pending[Unqueued(p)] # NoPin
    /\ thread' = [thread EXCEPT ![p].todo = @ \ {Unqueued(p)}]
    /\ task' = [task EXCEPT ![Unqueued(p)] =
                  IF @.state = "none" THEN [state |-> "queued", error |-> FALSE] ELSE @]
    /\ UNCHANGED <<revision, catalog, pins, pending, verified, remote, report, up,
                   manager, online, mutex, faults>>

\* Everything is queued: a capture or a request unlocks and goes on to the
\* status row, Synchronize keeps the mutex and drains.
Queued(p) ==
    /\ On(p, "queue") /\ thread[p].todo = {}
    /\ thread' = [thread EXCEPT ![p] = At(IF p = "worker" THEN "claim" ELSE "markPending")]
    /\ mutex' = IF p = "worker" THEN mutex ELSE Nobody
    /\ UNCHANGED <<durable, up, manager, online, faults>>

\* Where a thread goes on an error, and whether its task fails with it.
Abandon(p) ==
    /\ thread' = [thread EXCEPT ![p] = IF p = "worker" THEN At("markFailed") ELSE Idle]
    /\ mutex' = IF mutex = p THEN Nobody ELSE mutex

\* A statement of the queueing loop fails.  A pin whose row could not be
\* written is released, if that succeeds.
QueueFails(p) ==
    /\ thread[p].pc \in {"queue", "row"} /\ up
    /\ Fault /\ Abandon(p)
    /\ \/ thread[p].pc = "row" /\ pins' = {x \in pins : x.id # thread[p].item}
       \/ UNCHANGED pins
    /\ UNCHANGED <<revision, catalog, pending, task, verified, remote, report,
                   up, manager, online>>

-----------------------------------------------------------------------------
(* Queue.Drain and Manager.Sync                                            *)

Claimable(s) == task[s].state = "queued"

Claim ==
    /\ On("worker", "claim")
    /\ \E s \in Snapshot :
         /\ Claimable(s)
         /\ task' = [task EXCEPT ![s].state = "inflight"]
         /\ thread' = [thread EXCEPT !["worker"] = [At("replicate") EXCEPT !.item = s]]
    /\ UNCHANGED <<revision, catalog, pins, pending, verified, remote, report,
                   up, manager, online, mutex, faults>>

NothingToClaim ==
    /\ On("worker", "claim") /\ \A s \in Snapshot : ~Claimable(s)
    /\ Goto("worker", "discover")
    /\ UNCHANGED <<durable, up, manager, online, mutex, faults>>

\* Mutant: the pin goes before the replica is known to hold the snapshot.
SyncOrderUnpinned == [replicate |-> "release", release |-> "publish", publish |-> "verify",
                      verify |-> "clear", clear |-> "complete"]
\* The order of a Sync: replicate and reopen, publish, record the receipt,
\* release the pin, forget it; the queue completes the task afterwards.
SyncOrder == [replicate |-> "publish", publish |-> "verify", verify |-> "release",
              release |-> "clear", clear |-> "complete"]
InSync == DOMAIN SyncOrder \cup {"complete"}

SyncStep(pc) == On("worker", pc) /\ Goto("worker", SyncOrder[pc])
Current == thread["worker"].item

\* ReplicateCheckpoint and ReopenAndVerifyRoots; done twice it finds the same
\* immutable bytes.
Replicate ==
    /\ SyncStep("replicate") /\ online
    /\ remote' = [remote EXCEPT !["checkpoint"] = @ \cup {Current}]
    /\ UNCHANGED <<revision, catalog, pins, pending, task, verified, report, up,
                   manager, online, mutex, faults>>

\* publishAdvisory; a publication found durable is reused.
Publish ==
    /\ SyncStep("publish") /\ online
    /\ remote' = [remote EXCEPT !["publication"] = @ \cup {Current}]
    /\ UNCHANGED <<revision, catalog, pins, pending, task, verified, report, up,
                   manager, online, mutex, faults>>

MarkVerified ==
    /\ SyncStep("verify")
    /\ verified' = verified \cup {Current}
    /\ UNCHANGED <<revision, catalog, pins, pending, task, remote, report, up,
                   manager, online, mutex, faults>>

ReleasePin ==
    /\ SyncStep("release")
    /\ pins' = {x \in pins : x.id # pending[Current]}
    /\ UNCHANGED <<revision, catalog, pending, task, verified, remote, report,
                   up, manager, online, mutex, faults>>

ClearPending ==
    /\ SyncStep("clear")
    /\ pending' = [pending EXCEPT ![Current] = NoPin]
    /\ UNCHANGED <<revision, catalog, pins, task, verified, remote, report, up,
                   manager, online, mutex, faults>>

CompleteClaim ==
    /\ On("worker", "complete") /\ thread' = [thread EXCEPT !["worker"] = At("claim")]
    /\ task' = [task EXCEPT ![Current] = [state |-> "completed", error |-> FALSE]]
    /\ UNCHANGED <<revision, catalog, pins, pending, verified, remote, report,
                   up, manager, online, mutex, faults>>

\* A failed Sync puts its task back with a backoff; the drain goes on.  The
\* replica being away fails it without a fault of its own.
SyncFails ==
    /\ thread["worker"].pc \in {"replicate", "publish", "verify", "release", "clear"}
    /\ up /\ thread' = [thread EXCEPT !["worker"] = At("claim")]
    /\ \/ ~online /\ thread["worker"].pc \in {"replicate", "publish"} /\ UNCHANGED faults
       \/ Fault
    /\ task' = [task EXCEPT ![Current] = [state |-> "waiting", error |-> TRUE]]
    /\ UNCHANGED <<revision, catalog, pins, pending, verified, remote, report,
                   up, manager, online, mutex>>

\* Mutant: a lease is never taken over.
BecomesDueWithoutLease(s) ==
    /\ task[s].state = "waiting"
    /\ task' = [task EXCEPT ![s].state = "queued"]
    /\ UNCHANGED <<revision, catalog, pins, pending, verified, remote, report,
                   up, manager, online, thread, mutex, faults>>

\* Time passes: a backoff ends, or the lease of a dead process or of an
\* abandoned completion runs out.
BecomesDue(s) ==
    /\ \/ task[s].state = "waiting"
       \/ task[s].state = "inflight"
          /\ ~(up /\ Current = s
                  /\ thread["worker"].pc \in InSync)
    /\ task' = [task EXCEPT ![s].state = "queued"]
    /\ UNCHANGED <<revision, catalog, pins, pending, verified, remote, report,
                   up, manager, online, thread, mutex, faults>>

\* discoverConflicts needs the newest snapshot on the replica.
Discover ==
    /\ On("worker", "discover") /\ online
    /\ Latest = 0 \/ Latest \in remote["publication"]
    /\ mutex' = Nobody /\ Goto("worker", "assess")
    /\ UNCHANGED <<durable, up, manager, online, faults>>

\* An error ends the pass: the replica is away, the newest snapshot is not
\* there yet, or a store fails.  A task whose completion was not recorded
\* keeps its lease.
PassFails ==
    /\ up
    /\ \/ /\ thread["worker"].pc \in {"identity", "discover", "assess"}
          /\ \/ ~online
             \/ /\ thread["worker"].pc = "discover"
                /\ Latest \notin remote["publication"]
          /\ UNCHANGED faults
       \/ thread["worker"].pc \in {"claim", "complete", "assess", "unmark"} /\ Fault
    /\ Abandon("worker")
    /\ UNCHANGED <<durable, up, manager, online>>

-----------------------------------------------------------------------------
(* synchronizeOnce around it                                               *)

\* OpenManager releases the pins that a crash left to verified snapshots.
CleanupVerifiedPins ==
    /\ pins' = {x \in pins : ~\E s \in verified : x.id = pending[s]}
    /\ pending' = [s \in Snapshot |-> IF s \in verified THEN NoPin ELSE pending[s]]

\* A pass begins: the manager is opened when it is not, pins of verified
\* snapshots left by a crash are released, and the row says syncing.
BeginPass ==
    /\ On("worker", "idle") /\ (manager \/ online)
    /\ manager' = TRUE /\ Goto("worker", "enter")
    /\ IF manager THEN UNCHANGED <<pins, pending>>
       ELSE CleanupVerifiedPins
    /\ status' = "syncing"
    /\ UNCHANGED <<revision, catalog, task, verified, remote, marker, up, online,
                   mutex, faults>>

\* The replica is away and there is no manager: markPending.
BeginPassFails ==
    /\ On("worker", "idle") /\ ~manager /\ ~online
    /\ Goto("worker", "markFailed")
    /\ UNCHANGED <<durable, up, manager, online, mutex, faults>>

\* Manager.Status: what the queue holds.
QueueState ==
    IF \E s \in Snapshot : task[s].error /\ task[s].state # "completed" THEN "failed"
    ELSE IF \E s \in Snapshot : task[s].state \notin {"none", "completed"} THEN "pending"
    ELSE "replicated"

\* SnapshotSyncState of a snapshot without a receipt: failed when its task has
\* an error, or is completed all the same.
LeftBehind(s) == task[s].error \/ task[s].state = "completed"

\* Mutant: an empty queue counts as a replicated workspace.
AssessQueueOnly ==
    /\ On("worker", "assess") /\ online
    /\ IF QueueState = "replicated"
       THEN Goto("worker", "unmark") /\ UNCHANGED status
       ELSE status' = QueueState /\ thread' = [thread EXCEPT !["worker"] = Idle]
    /\ UNCHANGED <<revision, catalog, queue, marker, up, manager, online, mutex, faults>>

\* Status, the counters and the newest snapshot are read one after the other;
\* whatever is committed or queued between the reads leads to the same answer
\* as a later read.  The marker goes when the newest snapshot covers the
\* counters, is verified and the queue is empty.
Assess ==
    /\ On("worker", "assess") /\ online
    /\ \/ /\ LatestRevision < revision
          /\ status' = "pending"
          /\ thread' = [thread EXCEPT !["worker"] = Idle]
       \/ /\ LatestRevision >= revision
          /\ Latest \notin verified \/ QueueState # "replicated"
          /\ status' = IF \/ QueueState = "failed"
                          \/ Latest \notin verified /\ LeftBehind(Latest)
                       THEN "failed" ELSE "pending"
          /\ thread' = [thread EXCEPT !["worker"] = Idle]
       \/ /\ LatestRevision >= revision
          /\ Latest \in verified /\ QueueState = "replicated"
          /\ Goto("worker", "unmark") /\ UNCHANGED status
    /\ UNCHANGED <<revision, catalog, queue, marker, up, manager, online, mutex, faults>>

ClearMarker ==
    /\ On("worker", "unmark") /\ Goto("worker", "settle")
    /\ marker' = FALSE
    /\ UNCHANGED <<revision, catalog, queue, status, up, manager, online, mutex, faults>>

SettleStatus ==
    /\ On("worker", "settle") /\ thread' = [thread EXCEPT !["worker"] = Idle]
    /\ status' = "replicated"
    /\ UNCHANGED <<revision, catalog, queue, marker, up, manager, online, mutex, faults>>

\* What replica.status answers: the marker overrules the row.
Reported == IF marker /\ status = "replicated" THEN "failed" ELSE status

\* replica.status also stores its answer.
StatusRequest ==
    /\ up /\ status # Reported /\ status' = Reported
    /\ UNCHANGED <<revision, catalog, queue, marker, up, manager, online, thread, mutex,
                   faults>>

-----------------------------------------------------------------------------
(* The process and the replica                                             *)

Crash ==
    /\ up /\ Fault
    /\ up' = FALSE /\ manager' = FALSE
    /\ thread' = [p \in Thread |-> Idle] /\ mutex' = Nobody
    /\ UNCHANGED <<durable, online>>

\* A launch opens the manager if it can, and takes the row from its queue.
Launch ==
    /\ ~up /\ up' = TRUE /\ manager' = online
    /\ IF online
       THEN /\ status' = QueueState
            /\ CleanupVerifiedPins /\ UNCHANGED marker
       ELSE status' = "failed" /\ marker' = TRUE /\ UNCHANGED <<pins, pending>>
    /\ UNCHANGED <<revision, catalog, task, verified, remote, online, thread, mutex,
                   faults>>

Disconnect ==
    /\ online /\ Fault /\ online' = FALSE
    /\ UNCHANGED <<durable, up, manager, thread, mutex>>

Reconnect ==
    /\ ~online /\ online' = TRUE
    /\ UNCHANGED <<durable, up, manager, thread, mutex, faults>>

-----------------------------------------------------------------------------
Marking(p) == MarkFailed(p) \/ MarkFile(p) \/ MarkPending(p)
Queueing(p) ==
    \/ Enter(p) \/ PinRoots(p) \/ AddPending(p) \/ Enqueue(p) \/ Queued(p) \/ QueueFails(p)
Syncing ==
    \/ Claim \/ NothingToClaim \/ Replicate \/ Publish \/ MarkVerified \/ ReleasePin
    \/ ClearPending \/ CompleteClaim \/ SyncFails \/ Discover
Pass ==
    \/ BeginPass \/ BeginPassFails \/ VerifyIdentity \/ PassFails
    \/ Assess \/ ClearMarker \/ SettleStatus

Next ==
    \/ \E p \in Thread : Marking(p) \/ Queueing(p)
    \/ Write \/ SynchronizeRequest \/ Capture \/ StatusRequest \/ Syncing \/ Pass
    \/ \E s \in Snapshot : BecomesDue(s)
    \/ Crash \/ Launch \/ Disconnect \/ Reconnect

Spec == Init /\ [][Next]_vars

\* Goroutines run on and a Go mutex is not withheld for ever, the scheduler
\* captures what is ahead, backoffs and leases end, the worker polls every 30
\* seconds, the desktop relaunches the sidecar and the directory comes back.
Fairness ==
    /\ \A p \in Thread : SF_vars(Enter(p)) /\ WF_vars(Marking(p) \/ Queueing(p))
    /\ WF_vars(Syncing) /\ WF_vars(Pass) /\ WF_vars(Capture)
    /\ \A s \in Snapshot : WF_vars(BecomesDue(s))
    /\ WF_vars(Launch) /\ WF_vars(Reconnect)

FairSpec == Spec /\ Fairness

-----------------------------------------------------------------------------
(* Properties                                                              *)

\* A receipt in replica_verified, which lets the pin go and the desktop drop
\* its local cache, is only ever written for a snapshot that the replica
\* holds and publishes: the order of Manager.Sync, through any crash.
VerifiedIsRemote == verified \subseteq remote["checkpoint"] \cap remote["publication"]

\* As long as a queued snapshot has no receipt, its objects are pinned by the
\* pin that its replica_pending row names, so that retention cannot take them
\* before they are copied; crashes between pin, row and task included.
PinHeldUntilVerified ==
    \A s \in Snapshot : (task[s].state # "none" /\ s \notin verified) =>
        [snap |-> s, id |-> pending[s]] \in pins

\* A completed task never runs again (ON CONFLICT DO NOTHING), so completion
\* must imply the receipt: otherwise SnapshotSyncState answers "failed" for
\* ever and no pass can repair it.
CompletedIsVerified ==
    \A s \in Snapshot : task[s].state = "completed" => s \in verified /\ pending[s] = NoPin

\* What a worker that is inside Manager.Sync has done to its snapshot.
Progress ==
    LET pc == thread["worker"].pc IN
    /\ pc \in InSync => Current \in 1..Latest /\ task[Current].state # "none"
    /\ pc = "publish" => Current \in remote["checkpoint"]
    /\ pc = "verify" => Current \in remote["checkpoint"] \cap remote["publication"]
    /\ pc \in {"release", "clear", "complete"} => Current \in verified
    /\ pc = "complete" => pending[Current] = NoPin

\* Pins, rows and tasks name each other: an id is that of one pin, a row names
\* a pin of its own snapshot until the receipt is there, a task has a row.
PinsAreNamed ==
    /\ \A x, y \in pins : x.id = y.id => x = y
    /\ \A s, t \in Snapshot : pending[s] = pending[t] /\ pending[s] # NoPin => s = t
    /\ \A x \in pins, s \in Snapshot : x.id = pending[s] => x.snap = s
    /\ \A s \in Snapshot \ verified :
         /\ task[s].state # "none" => pending[s] # NoPin
         /\ pending[s] # NoPin => [snap |-> s, id |-> pending[s]] \in pins

\* The loop of queuePublishedSnapshots works on snapshots without a receipt;
\* Manager.mu keeps the receipts away from it.
Critical == InSync \cup {"identity", "queue", "row", "claim", "discover"}
Alone(p) ==
    /\ thread[p].pc \in Critical => mutex = p
    /\ thread[p].pc \in {"queue", "row"} => thread[p].todo \subseteq (1..Latest) \ verified
    /\ thread[p].pc = "row" =>
         /\ thread[p].todo # {} /\ pending[Unqueued(p)] = NoPin
         /\ [snap |-> Unqueued(p), id |-> thread[p].item] \in pins
         /\ \A s \in Snapshot : pending[s] # thread[p].item
Exclusive == \A p \in Thread : Alone(p)

\* Receipts and tasks are those of captured snapshots.
QueueFollowsCatalog ==
    /\ verified \subseteq 1..Latest
    /\ \A s \in Snapshot : task[s].state # "none" => s <= Latest

\* A dead process holds nothing.
DeadIsIdle == ~up => mutex = Nobody /\ thread = [p \in Thread |-> Idle]

\* The inductive invariant: what a crash between any two statements leaves to
\* the next process.
Inductive ==
    /\ TypeOK /\ Progress /\ PinsAreNamed /\ Exclusive
    /\ VerifiedIsRemote /\ CompletedIsVerified /\ PinHeldUntilVerified
    /\ QueueFollowsCatalog /\ DeadIsIdle

\* The replica holds what the workspace contains.
Covered == \E s \in verified : catalog[s] >= revision

\* Every captured snapshot reaches the replica in the end, whatever fails a
\* bounded number of times.
EverySnapshotReplicated == \A s \in Snapshot : s <= Latest ~> s \in verified

\* replica.status may be wrong for a moment, but an uncovered workspace does
\* not go on being reported as replicated: the worker compares the mutation
\* counter with the newest snapshot, not only the queue.
HonestInTheEnd == <>[](Covered \/ revision = 0 \/ Reported # "replicated")
=============================================================================
