------------------------------ MODULE Retention ------------------------------
(***************************************************************************)
(* Retention and garbage collection of one workspace: plan, apply, sweep   *)
(* and integrity check (sidecar/internal/retention, and the handlers and   *)
(* inventory of workspacev2/retention_handlers.go) against the writers     *)
(* that share the object repository with them: snapshot capture            *)
(* (snapshot/coordinator.go), file saves (filehistory/service.go), the     *)
(* pins of readers and the user, who pins snapshots and changes the policy *)
(* (updateSnapshot and updateRetention of workspacev2/handlers.go).  The   *)
(* repository is objectrepo/kopia.go and the retirement journal of         *)
(* objectrepo/retention.go.                                                *)
(*                                                                         *)
(* Content decides the identity of an object, so a writer may name one     *)
(* that is being collected.  The repository revision is only compared for  *)
(* equality with the one of an inventory and is kept as whether it has     *)
(* moved since.  A policy is the set of snapshots it gives up once they    *)
(* are old, and age the number of snapshots that are; the newest snapshot  *)
(* is always kept.  The dispatcher lets one request run at a time, so plan *)
(* and apply, a change of the policy and a pin do not overlap each other,  *)
(* but all overlap the background sweep, the captures and the saves.  The  *)
(* day that an expiring pin outlasts a crash is left out.                  *)
(***************************************************************************)
EXTENDS Integers, Sequences, FiniteSets

CONSTANTS
    Object,         \* contents
    Published,      \* snapshots of the workspace when retention begins
    MaxSnapshots,   \* bound on snapshots in the catalogue
    Policy,         \* policies the user sets: what each gives up once old
    MaxUses,        \* bound on saves, pins and changes of the policy begun
    MaxFaults       \* bound on crashes and failed steps

ASSUME RetentionAssumption ==
    /\ Object # {} /\ IsFiniteSet(Object)
    /\ Published \in Seq(SUBSET Object) /\ Len(Published) <= MaxSnapshots
    /\ {MaxSnapshots, MaxUses, MaxFaults} \subseteq Nat
    /\ Policy # {} /\ Policy \subseteq SUBSET (1..MaxSnapshots)

VARIABLES
    mapped,     \* objects in the state of the repository (state.Objects)
    stored,     \* objects whose contents are not deleted
    journals,   \* retirement journals
    pins,       \* live root pins, by whose they are
    tomb,       \* retention_tombstones
    dead,       \* retention_snapshot_tombstones
    catalog,    \* objects of each published snapshot
    history,    \* objects of the file-history head
    pinned,     \* snapshots whose record is pinned, with a lasting root pin
    daily,      \* snapshots whose root pin ends after its day
    policy,     \* retention policy of the workspace
    aged,       \* snapshots 1..aged are old
    plan,       \* at most one stored cleanup plan
    update,     \* snapshot being pinned or unpinned, or 0
    capture,    \* the snapshot being captured
    save,       \* the file save under way
    sweep,      \* the background sweep
    integrity,  \* retention_integrity_state
    forsaken,   \* snapshots a retirement found live but given up (no state of the code)
    uses, faults

repository == <<mapped, stored, journals>>
retention == <<tomb, dead>>
naming == <<catalog, history>>
keeping == <<pinned, daily, policy, aged>>
vars == <<repository, pins, retention, naming, keeping, plan, update, capture, save, sweep,
          integrity, forsaken, uses, faults>>

Index == 1..MaxSnapshots
Stage == {"prepared", "removed", "deleted", "completed"}
View == [nodes : SUBSET Object, done : SUBSET Object, pinned : SUBSET Object,
         intact : BOOLEAN]
Binding == [view : View, history : SUBSET Object, tomb : SUBSET Object,
            live : SUBSET Index, pinned : SUBSET Index]
NoView == [nodes |-> {}, done |-> {}, pinned |-> {}, intact |-> TRUE]

RepositoryTypeOK ==
    /\ mapped \subseteq Object /\ stored \subseteq Object
    /\ journals \subseteq [ids : SUBSET Object, stage : Stage]
    /\ pins \in [{"capture", "reader", "orphan"} -> SUBSET Object]
StoresTypeOK ==
    /\ tomb \in [Object -> {"none", "grace", "due", "maintained"}]
    /\ dead \cup pinned \cup daily \cup forsaken \subseteq Index
    /\ policy \in Policy /\ aged \in 0..MaxSnapshots
    /\ catalog \in Seq(SUBSET Object) /\ Len(catalog) <= MaxSnapshots
    /\ history \subseteq Object
    /\ integrity \in [state : {"new", "healthy", "daily", "monthly"}, seen : 0..MaxSnapshots]
PlanTypeOK ==
    plan \subseteq [garbage : SUBSET Object, digest : SUBSET Binding, policy : Policy,
                    retained : SUBSET Index]
WritersTypeOK ==
    /\ capture \in [pc : {"idle", "commit", "pin", "verify", "seal", "size", "publish"},
                    objs : SUBSET Object, keep : BOOLEAN]
    /\ update \in 0..Len(catalog)
    /\ save \in [pc : {"idle", "commit", "head"}, objs : SUBSET Object]
    /\ uses \in 0..MaxUses /\ faults \in 0..MaxFaults
SweepTypeOK ==
    sweep \in [pc : {"idle", "stores", "retire", "prepared", "removed", "deleted", "verify",
                     "mark"},
               view : View, policy : Policy, due : SUBSET Object, given : SUBSET Index,
               fresh : BOOLEAN]
TypeOK == RepositoryTypeOK /\ StoresTypeOK /\ PlanTypeOK /\ WritersTypeOK /\ SweepTypeOK

Uncaptured == [pc |-> "idle", objs |-> {}, keep |-> FALSE]
Idle == [pc |-> "idle", objs |-> {}]
Resting == [pc |-> "idle", view |-> NoView, policy |-> CHOOSE p \in Policy : TRUE, due |-> {},
            given |-> {}, fresh |-> TRUE]

Init ==
    /\ catalog = Published /\ mapped = UNION {Published[i] : i \in DOMAIN Published}
    /\ stored = mapped /\ journals = {}
    /\ pins = [x \in {"capture", "reader", "orphan"} |-> {}]
    /\ tomb = [o \in Object |-> "none"] /\ dead = {}
    /\ history = {} /\ pinned \in SUBSET DOMAIN Published /\ daily = {}
    /\ policy \in Policy /\ aged = 0
    /\ plan = {} /\ update = 0 /\ forsaken = {}
    /\ capture = Uncaptured /\ save = Idle /\ sweep = Resting
    /\ integrity = [state |-> "new", seen |-> 0]
    /\ uses = 0 /\ faults = 0

Fault == faults < MaxFaults /\ faults' = faults + 1
Corrupt == integrity.state \in {"daily", "monthly"}
Use == uses < MaxUses /\ uses' = uses + 1

\* The write coordinator's gate, held by a capture and by a save.
GateFree == capture.pc = "idle" /\ save.pc = "idle"
\* The dispatcher, held by the handler of a request.
DispatcherFree == update = 0
\* filehistory.Service.mu, held from before the commit of a save to its end.
HistoryFree == save.pc = "idle"
\* Mutex and process lock of the repository, held by a retirement.
RepositoryFree == sweep.pc \notin {"prepared", "removed", "deleted", "verify"}

\* A plan is bound to one revision and digest: no inventory of a later
\* revision is the one it was made for.
Outdated == {[p EXCEPT !.digest = {}] : p \in plan}

\* The revision of the repository moves.
Moved ==
    /\ sweep' = [sweep EXCEPT !.fresh = FALSE]
    /\ plan' = Outdated

-----------------------------------------------------------------------------
(* Writers                                                                 *)

\* Repository.Commit: contents are written for objects it does not map.
Commit(objs) ==
    /\ RepositoryFree /\ Moved
    /\ mapped' = mapped \cup objs
    /\ stored' = stored \cup (objs \ mapped)

\* Verify, and StorageInventory, of some roots.
Present(objs) == objs \subseteq mapped \cap stored

BeginCapture ==
    /\ GateFree /\ Len(catalog) < MaxSnapshots
    /\ \E objs \in (SUBSET Object) \ {{}}, keep \in BOOLEAN :
         /\ capture' = [pc |-> "commit", objs |-> objs, keep |-> keep]
         /\ IF keep THEN Use ELSE UNCHANGED uses
    /\ UNCHANGED <<repository, pins, retention, naming, keeping, plan, update, save, sweep,
                   integrity, forsaken, faults>>

CommitObjects ==
    /\ capture.pc = "commit" /\ Commit(capture.objs)
    /\ capture' = [capture EXCEPT !.pc = "pin"]
    /\ UNCHANGED <<journals, pins, retention, naming, keeping, update, save, integrity,
                   forsaken, uses, faults>>

PinCapture ==
    /\ capture.pc = "pin" /\ RepositoryFree /\ capture.objs \subseteq mapped
    /\ pins' = [pins EXCEPT !["capture"] = capture.objs]
    /\ capture' = [capture EXCEPT !.pc = "verify"]
    /\ UNCHANGED <<repository, retention, naming, keeping, plan, update, save, sweep,
                   integrity, forsaken, uses, faults>>

VerifyCapture ==
    /\ capture.pc = "verify" /\ RepositoryFree /\ Present(capture.objs)
    /\ capture' = [capture EXCEPT !.pc = "seal"]
    /\ UNCHANGED <<repository, pins, retention, naming, keeping, plan, update, save, sweep,
                   integrity, forsaken, uses, faults>>

\* The seal is a commit of its own.
Seal ==
    /\ capture.pc = "seal" /\ Commit({})
    /\ capture' = [capture EXCEPT !.pc = "size"]
    /\ UNCHANGED <<journals, pins, retention, naming, keeping, update, save, integrity,
                   forsaken, uses, faults>>

\* Mutant: the sizes of objects that are gone count as zero.
MeasureLenient ==
    /\ capture.pc = "size" /\ RepositoryFree
    /\ capture' = [capture EXCEPT !.pc = "publish"]
    /\ UNCHANGED <<repository, pins, retention, naming, keeping, plan, update, save, sweep,
                   integrity, forsaken, uses, faults>>

\* StorageInventory fails on an object that is not there any more.
Measure ==
    /\ capture.pc = "size" /\ RepositoryFree /\ Present(capture.objs)
    /\ capture' = [capture EXCEPT !.pc = "publish"]
    /\ UNCHANGED <<repository, pins, retention, naming, keeping, plan, update, save, sweep,
                   integrity, forsaken, uses, faults>>

\* The catalogue is a database of its own: the revision does not move.  The
\* pin of the capture is from now on the root pin of the snapshot.
Publish ==
    /\ capture.pc = "publish"
    /\ catalog' = Append(catalog, capture.objs)
    /\ pinned' = IF capture.keep THEN pinned \cup {Len(catalog')} ELSE pinned
    /\ daily' = IF capture.keep THEN daily ELSE daily \cup {Len(catalog')}
    /\ pins' = [pins EXCEPT !["capture"] = {}] /\ capture' = Uncaptured
    /\ UNCHANGED <<repository, retention, history, policy, aged, plan, update, save, sweep,
                   integrity, forsaken, uses, faults>>

\* A step fails, because of a missing object or otherwise: the pin is released.
CaptureFails ==
    /\ capture.pc # "idle" /\ RepositoryFree
    /\ \/ /\ \/ capture.pc = "pin" /\ ~(capture.objs \subseteq mapped)
             \/ capture.pc \in {"verify", "size"} /\ ~Present(capture.objs)
          /\ UNCHANGED faults
       \/ Fault
    /\ pins' = [pins EXCEPT !["capture"] = {}] /\ capture' = Uncaptured
    /\ UNCHANGED <<repository, retention, naming, keeping, plan, update, save, sweep,
                   integrity, forsaken, uses>>

BeginSave ==
    /\ GateFree /\ Use
    /\ \E o \in Object \ history : save' = [pc |-> "commit", objs |-> {o}]
    /\ UNCHANGED <<repository, pins, retention, naming, keeping, plan, update, capture,
                   sweep, integrity, forsaken, faults>>

CommitContent ==
    /\ save.pc = "commit" /\ Commit(save.objs)
    /\ save' = [save EXCEPT !.pc = "head"]
    /\ UNCHANGED <<journals, pins, retention, naming, keeping, update, capture, integrity,
                   forsaken, uses, faults>>

\* The file is materialized from the repository, which proves the contents,
\* and the head is swapped and installed before the mutex is released.
PublishHead ==
    /\ save.pc = "head" /\ Present(save.objs) /\ save' = Idle
    /\ history' = history \cup save.objs
    /\ UNCHANGED <<repository, pins, retention, catalog, keeping, plan, update, capture,
                   sweep, integrity, forsaken, uses, faults>>

SaveFails ==
    /\ save.pc # "idle"
    /\ Fault \/ (save.pc = "head" /\ ~Present(save.objs) /\ UNCHANGED faults)
    /\ save' = Idle
    /\ UNCHANGED <<repository, pins, retention, naming, keeping, plan, update, capture,
                   sweep, integrity, forsaken, uses>>

\* A replica or an export pins a snapshot of the raw catalogue.
PinReader ==
    /\ RepositoryFree /\ pins["reader"] = {} /\ Use
    /\ \E i \in 1..Len(catalog) :
         /\ catalog[i] \subseteq mapped
         /\ pins' = [pins EXCEPT !["reader"] = catalog[i]]
    /\ UNCHANGED <<repository, retention, naming, keeping, plan, update, capture, save,
                   sweep, integrity, forsaken, faults>>

ReleaseReader ==
    /\ RepositoryFree /\ pins["reader"] # {} /\ pins' = [pins EXCEPT !["reader"] = {}]
    /\ UNCHANGED <<repository, retention, naming, keeping, plan, update, capture, save,
                   sweep, integrity, forsaken, uses, faults>>

-----------------------------------------------------------------------------
(* The user                                                                *)

Live == (1..Len(catalog)) \ dead

\* updateSnapshot, first half: a snapshot of the list is pinned or unpinned.
\* Its objects get a new root pin, which does not move the revision.
PinReplacement ==
    /\ DispatcherFree /\ RepositoryFree /\ Use
    /\ \E i \in Live : catalog[i] \subseteq mapped /\ update' = i
    /\ UNCHANGED <<repository, pins, retention, naming, keeping, plan, capture, save, sweep,
                   integrity, forsaken, faults>>

\* The pins that the end of a process leaves behind for good: it ended before
\* the record that names them, or before it could release the old one.
Orphaned(objs, snapshots) ==
    [pins EXCEPT !["capture"] = {},
                 !["orphan"] = @ \cup objs \cup UNION {catalog[i] : i \in snapshots}]

\* updateSnapshot, second half: the record is written and the old pin
\* released, if that succeeds.  Unpinned, the new pin lasts a day.
RecordPinned ==
    /\ update # 0 /\ GateFree /\ update' = 0
    /\ IF update \in pinned
       THEN /\ pinned' = pinned \ {update} /\ daily' = daily \cup {update}
            /\ \/ UNCHANGED <<pins, faults>>
               \/ Fault /\ pins' = Orphaned({}, {update})
       ELSE /\ pinned' = pinned \cup {update} /\ daily' = daily \ {update}
            /\ UNCHANGED <<pins, faults>>
    /\ UNCHANGED <<repository, retention, naming, policy, aged, plan, capture, save, sweep,
                   integrity, forsaken, uses>>

\* The write fails and the new pin is released.
UpdateFails ==
    /\ update # 0 /\ Fault /\ update' = 0
    /\ UNCHANGED <<repository, pins, retention, naming, keeping, plan, capture, save, sweep,
                   integrity, forsaken, uses>>

\* updateRetention: a stored plan keeps the policy it was made with.
UpdateRetention ==
    /\ DispatcherFree /\ GateFree /\ Use
    /\ \E p \in Policy \ {policy} : policy' = p
    /\ UNCHANGED <<repository, pins, retention, naming, pinned, daily, aged, plan, update,
                   capture, save, sweep, integrity, forsaken, faults>>

-----------------------------------------------------------------------------
(* Inventory                                                               *)

Pending == UNION {j.ids : j \in {k \in journals : k.stage # "completed"}}

\* Snapshots with a root pin that has not expired.
Rooted == {i \in 1..Len(catalog) : i \in pinned \cup daily \cup {update}}

\* What RetentionInventory uses under the lock of the repository.  An object
\* that cannot be opened is excused by a pending journal, which knows its size.
Inventory ==
    [nodes |-> mapped \cup Pending,
     done |-> UNION {j.ids : j \in {k \in journals : k.stage = "completed"}},
     pinned |-> (UNION {pins[x] : x \in DOMAIN pins})
                    \cup (UNION {catalog[i] : i \in Rooted}),
     intact |-> mapped \subseteq stored \cup Pending]

Unmaintained == {o \in Object : tomb[o] \in {"grace", "due"}}

\* retentionSnapshotSelections: pinned records, the most recent, and what the
\* policy still wants at this age.
Retained(p) == {i \in Live : i \in pinned \/ i \notin p \/ i > aged \/ \A j \in Live : j <= i}

\* A completed journal stands in for an object whose row is not marked yet.
Nodes(v) == v.nodes \cup (v.done \cap Unmaintained)
CorruptIndex(v) ==
    \/ ~v.intact \/ v.done \cap Unmaintained \cap v.nodes # {}
    \/ \E i \in Live : ~(catalog[i] \subseteq Nodes(v))

Protected(v, p) == v.pinned \cup history \cup UNION {catalog[i] : i \in Retained(p)}

\* validateInventory, and the tombstones laid over the inventory.
Safe(v) ==
    /\ ~CorruptIndex(v)
    /\ v.pinned \cup history \cup Unmaintained \subseteq Nodes(v)

Garbage(v, p) == Nodes(v) \ (Protected(v, p) \cup Unmaintained)

-----------------------------------------------------------------------------
(* Plan and apply                                                          *)

\* The revision and digest a plan is bound to.
Digest(v) ==
    [view |-> v, history |-> history, tomb |-> Unmaintained, live |-> Live,
     pinned |-> Live \cap pinned]

\* Plans that tombstone nothing are left out.  The ten minutes of a plan end
\* with the next one.
Plan ==
    /\ DispatcherFree /\ RepositoryFree /\ HistoryFree /\ ~Corrupt
    /\ Safe(Inventory) /\ Garbage(Inventory, policy) # {}
    /\ plan' = {[garbage |-> Garbage(Inventory, policy), digest |-> {Digest(Inventory)},
                 policy |-> policy, retained |-> Retained(policy)]}
    /\ UNCHANGED <<repository, pins, retention, naming, keeping, update, capture, save,
                   sweep, integrity, forsaken, uses, faults>>

\* applyPlan: object rows, rows of the snapshots that name one of them, and
\* receipts in one transaction.
Tombstone(garbage) ==
    /\ tomb' = [o \in Object |-> IF o \in garbage /\ tomb[o] = "none" THEN "grace" ELSE tomb[o]]
    /\ dead' = dead \cup {i \in Live : catalog[i] \cap garbage # {}}

\* Mutant: the plan is applied as it was made, without a second inventory.
ApplyUnchecked ==
    /\ DispatcherFree /\ GateFree /\ ~Corrupt
    /\ \E p \in plan : Tombstone(p.garbage)
    /\ plan' = {}
    /\ UNCHANGED <<repository, pins, naming, keeping, update, capture, save, sweep,
                   integrity, forsaken, uses, faults>>

\* Apply, in a coordinated write: the inventory must be the one of the plan,
\* and the plan's own policy must still select the same snapshots.  The
\* transaction fails when an object has a row of an earlier life.
Apply ==
    /\ DispatcherFree /\ GateFree /\ RepositoryFree /\ ~Corrupt /\ Safe(Inventory)
    /\ \E p \in plan :
         /\ Digest(Inventory) \in p.digest /\ Retained(p.policy) = p.retained
         /\ p.garbage \subseteq Garbage(Inventory, p.policy)
         /\ \A o \in p.garbage : tomb[o] = "none"
         /\ Tombstone(p.garbage)
    /\ plan' = {}
    /\ UNCHANGED <<repository, pins, naming, keeping, update, capture, save, sweep,
                   integrity, forsaken, uses, faults>>

-----------------------------------------------------------------------------
(* Sweep                                                                   *)

\* The sweep follows an integrity check that was not due or succeeded.  It
\* reads the policy first.
ReadRepository ==
    /\ sweep.pc = "idle" /\ integrity.state = "healthy"
    /\ \E o \in Object : tomb[o] = "due"
    /\ sweep' = [Resting EXCEPT !.pc = "stores", !.view = Inventory, !.policy = policy]
    /\ UNCHANGED <<repository, pins, retention, naming, keeping, plan, update, capture,
                   save, integrity, forsaken, uses, faults>>

Due == {o \in Object : tomb[o] = "due"}

\* Tombstones, catalogue and file history are read after the repository, so
\* they name at least what was published with it; one protected object ends
\* the whole sweep.
ReadStores ==
    /\ sweep.pc = "stores" /\ HistoryFree
    /\ sweep' = IF Safe(sweep.view) /\ Due \cap Protected(sweep.view, sweep.policy) = {}
                THEN [sweep EXCEPT !.pc = "retire", !.due = Due, !.view = NoView,
                                   !.given = {i \in Live : catalog[i] \cap Due # {}}]
                ELSE Resting
    /\ UNCHANGED <<repository, pins, retention, naming, keeping, plan, update, capture,
                   save, integrity, forsaken, uses, faults>>

Matching == {j \in journals : j.ids = sweep.due}
Blocked == Matching = {} /\ \E j \in journals : j.stage # "completed"
Resume == [prepared |-> "prepared", removed |-> "removed", deleted |-> "verify",
           completed |-> "verify"]

\* RetireAndMaintain, up to the journal: nothing may have been committed since
\* the inventory; pins are not looked at again.  A journal of exactly these
\* objects is taken up where it was left, a pending one of others is an error.
Retire ==
    /\ sweep.pc = "retire"
    /\ \/ /\ sweep.fresh /\ Matching # {} /\ UNCHANGED journals
          /\ sweep' = [sweep EXCEPT !.pc = Resume[(CHOOSE j \in Matching : TRUE).stage]]
       \/ /\ sweep.fresh /\ Matching = {} /\ ~Blocked /\ Present(sweep.due)
          /\ journals' = journals \cup {[ids |-> sweep.due, stage |-> "prepared"]}
          /\ sweep' = [sweep EXCEPT !.pc = "prepared"]
       \/ /\ ~sweep.fresh \/ Blocked \/ (Matching = {} /\ ~Present(sweep.due))
          /\ sweep' = Resting /\ UNCHANGED journals
    /\ forsaken' = IF sweep'.pc = "idle" THEN forsaken ELSE forsaken \cup sweep.given
    /\ UNCHANGED <<mapped, stored, pins, retention, naming, keeping, plan, update, capture,
                   save, integrity, uses, faults>>

Rewrite(stage) ==
    journals' = {j \in journals : j.ids # sweep.due} \cup {[ids |-> sweep.due, stage |-> stage]}

\* The mappings go with a revision of their own.
RemoveMappings ==
    /\ sweep.pc = "prepared" /\ Rewrite("removed")
    /\ mapped' = mapped \ sweep.due
    /\ sweep' = [sweep EXCEPT !.pc = "removed"]
    /\ plan' = Outdated
    /\ UNCHANGED <<stored, pins, retention, naming, keeping, update, capture, save,
                   integrity, forsaken, uses, faults>>

\* Contents shared with objects outside the journal are kept; contents of the
\* journal's own objects go, mapped again or not.
DeleteContents ==
    /\ sweep.pc = "removed"
    /\ stored' = stored \ sweep.due
    /\ sweep' = [sweep EXCEPT !.pc = "deleted"]
    /\ UNCHANGED <<mapped, journals, pins, retention, naming, keeping, plan, update,
                   capture, save, integrity, forsaken, uses, faults>>

RecordDeletion ==
    /\ sweep.pc = "deleted" /\ Rewrite("deleted")
    /\ sweep' = [sweep EXCEPT !.pc = "verify"]
    /\ UNCHANGED <<mapped, stored, pins, retention, naming, keeping, plan, update, capture,
                   save, integrity, forsaken, uses, faults>>

\* Mutant: the row is marked although the completed journal was not written.
CompleteUnwritten ==
    /\ sweep.pc = "verify"
    /\ sweep' = IF mapped \subseteq stored \ sweep.due
                THEN [sweep EXCEPT !.pc = "mark"] ELSE Resting
    /\ UNCHANGED <<mapped, stored, journals, pins, retention, naming, keeping, plan, update,
                   capture, save, integrity, forsaken, uses, faults>>

\* verifyRetentionClosure, then the completed journal and another revision.
Complete ==
    /\ sweep.pc = "verify"
    /\ IF mapped \subseteq stored \ sweep.due
       THEN /\ Rewrite("completed")
            /\ sweep' = [sweep EXCEPT !.pc = "mark"]
            /\ plan' = Outdated
       ELSE sweep' = Resting /\ UNCHANGED <<journals, plan>>
    /\ UNCHANGED <<mapped, stored, pins, retention, naming, keeping, update, capture, save,
                   integrity, forsaken, uses, faults>>

\* Mutant: only rows whose grace has not ended are marked.
MarkMaintainedInGrace ==
    /\ sweep.pc = "mark"
    /\ tomb' = [o \in Object |-> IF o \in sweep.due /\ tomb[o] = "grace"
                                THEN "maintained" ELSE tomb[o]]
    /\ sweep' = Resting
    /\ UNCHANGED <<repository, pins, dead, naming, keeping, plan, update, capture, save,
                   integrity, forsaken, uses, faults>>

MarkMaintained ==
    /\ sweep.pc = "mark"
    /\ tomb' = [o \in Object |-> IF o \in sweep.due THEN "maintained" ELSE tomb[o]]
    /\ sweep' = Resting
    /\ UNCHANGED <<repository, pins, dead, naming, keeping, plan, update, capture, save,
                   integrity, forsaken, uses, faults>>

SweepFails ==
    /\ sweep.pc # "idle" /\ Fault /\ sweep' = Resting
    /\ UNCHANGED <<repository, pins, retention, naming, keeping, plan, update, capture,
                   save, integrity, forsaken, uses>>

-----------------------------------------------------------------------------
(* Integrity check, time and crashes                                       *)

\* runIntegrityIfDue: when a month has passed since the last one that found
\* nothing, every snapshot of the catalogue and the inventory; otherwise, once
\* a day, the snapshots that are new.  integrity.state says which check failed:
\* a failed monthly check stays due.
Sound(i) == Present(catalog[i])

CheckFull ==
    /\ sweep.pc = "idle" /\ HistoryFree
    /\ integrity' =
         IF (\A i \in 1..Len(catalog) : Sound(i)) /\ ~CorruptIndex(Inventory)
         THEN [state |-> "healthy", seen |-> Len(catalog)]
         ELSE [integrity EXCEPT !.state = "monthly"]
    /\ UNCHANGED <<repository, pins, retention, naming, keeping, plan, update, capture,
                   save, sweep, forsaken, uses, faults>>

CheckIncremental ==
    /\ sweep.pc = "idle" /\ integrity.state \in {"healthy", "daily"}
    /\ integrity' =
         IF \A i \in (integrity.seen + 1)..Len(catalog) : Sound(i)
         THEN [state |-> "healthy", seen |-> Len(catalog)]
         ELSE [integrity EXCEPT !.state = "daily"]
    /\ UNCHANGED <<repository, pins, retention, naming, keeping, plan, update, capture,
                   save, sweep, forsaken, uses, faults>>

\* Time passes: a snapshot becomes old, later than the day of the pin it was
\* captured with; the day ends of the pin that an unpinned one was left with.
Age ==
    /\ aged < Len(catalog) /\ aged' = aged + 1 /\ daily' = daily \ {aged'}
    /\ UNCHANGED <<repository, pins, retention, naming, pinned, policy, plan, update,
                   capture, save, sweep, integrity, forsaken, uses, faults>>

DayEnds(i) ==
    /\ i \in daily /\ i <= aged /\ daily' = daily \ {i}
    /\ UNCHANGED <<repository, pins, retention, naming, pinned, policy, aged, plan, update,
                   capture, save, sweep, integrity, forsaken, uses, faults>>

GraceEnds(o) ==
    /\ tomb[o] = "grace" /\ tomb' = [tomb EXCEPT ![o] = "due"]
    /\ UNCHANGED <<repository, pins, dead, naming, keeping, plan, update, capture, save,
                   sweep, integrity, forsaken, uses, faults>>

\* The process ends and is launched again.
Crash ==
    /\ Fault /\ capture' = Uncaptured /\ save' = Idle /\ sweep' = Resting /\ update' = 0
    /\ pins' = Orphaned(IF capture.keep THEN pins["capture"] ELSE {},
                        {i \in {update} \ pinned : i # 0})
    /\ UNCHANGED <<repository, retention, naming, keeping, plan, integrity, forsaken, uses>>

-----------------------------------------------------------------------------
Capturing ==
    \/ CommitObjects \/ PinCapture \/ VerifyCapture \/ Seal \/ Measure \/ Publish
    \/ CaptureFails
Saving == CommitContent \/ PublishHead \/ SaveFails
Updating == RecordPinned \/ UpdateFails
Sweeping ==
    \/ ReadRepository \/ ReadStores \/ Retire \/ RemoveMappings \/ DeleteContents
    \/ RecordDeletion \/ Complete \/ MarkMaintained \/ SweepFails
Checking == CheckFull \/ CheckIncremental

Next ==
    \/ BeginCapture \/ Capturing \/ BeginSave \/ Saving \/ PinReader \/ ReleaseReader
    \/ PinReplacement \/ Updating \/ UpdateRetention
    \/ Plan \/ Apply \/ Sweeping \/ Checking
    \/ Age \/ (\E i \in Index : DayEnds(i))
    \/ (\E o \in Object : GraceEnds(o)) \/ Crash

Spec == Init /\ [][Next]_vars

\* Writers and requests finish, the hourly background run comes again and
\* again, readers release their pins, days and grace end.  Of the checks only
\* the first is needed.
Fairness ==
    /\ WF_vars(Capturing \/ Saving \/ Updating)
    /\ SF_vars(Sweeping \/ (integrity.state = "new" /\ CheckFull))
    /\ WF_vars(\/ ReleaseReader \/ (\E o \in Object : GraceEnds(o))
               \/ (\E i \in Index : DayEnds(i)))

FairSpec == Spec /\ Fairness

-----------------------------------------------------------------------------
(* Properties                                                              *)

\* What the workspace shows to its user: files, and every snapshot of the list,
\* whatever the policy says of it.  Only what a retirement's own inventory
\* found given up is left out: a snapshot captured after its object was
\* tombstoned stays on the list when it is old and the object is deleted.
Named == history \cup UNION {catalog[i] : i \in Live \ forsaken}

\* Everything that a file revision or a listed snapshot names can be read,
\* although writers name objects by content without asking retention.  Sweeps
\* are kept off by the revision (a commit between inventory and retirement),
\* by the mutex of the file history (a head not yet published), and for a
\* capture by the second look at its objects after the seal.
NamedIsReadable == Present(Named)

\* However old its plan is and whatever the user changed since, retention.apply
\* tombstones no object of a file revision or under a root pin, and takes with
\* it no snapshot but those that are not pinned and that the plan itself gave
\* up; these leave the list in the same step.  A policy that is widened after
\* the plan was made does not save them.
Relinquished(o) ==
    /\ o \notin history \cup Inventory.pinned
    /\ \A i \in {j \in Live : o \in catalog[j]} :
         i \notin pinned /\ i \in dead' /\ \E p \in plan : i \notin p.retained
OnlyRelinquishedIsTombstoned ==
    [][\A o \in Object : tomb[o] = "none" /\ tomb'[o] # "none" => Relinquished(o)]_vars

Single ==
    /\ \A j, k \in journals : j.ids = k.ids => j = k
    /\ \A j, k \in journals : "completed" \notin {j.stage, k.stage} => j = k
At(stages) == \E j \in Matching : j.stage \in stages
Stepped ==
    /\ sweep.pc = "prepared" => At({"prepared"})
    /\ sweep.pc \in {"removed", "deleted"} => At({"removed"})
    /\ sweep.pc = "verify" => At({"deleted", "completed"})
    /\ sweep.pc = "mark" => At({"completed"})
    /\ sweep.pc # "idle" => \A o \in sweep.due : tomb[o] = "due"
Finished ==
    \A o \in Object : tomb[o] = "maintained" =>
        \E j \in journals : o \in j.ids /\ j.stage = "completed"
\* The sweep and its journal agree at every step, so that whatever stage a
\* crash leaves is one a later sweep resumes from: one journal for a set of
\* objects, at most one that is pending, the stage reached no earlier than the
\* effect it stands for, and a row that says maintained only when the journal
\* of the object is complete.
JournalIsResumable == TypeOK /\ Single /\ Stepped /\ Finished

\* The stops retention has no way out of: an unsound workspace, an object
\* committed again while its retirement is under way, an object among those
\* that are due that a file, a retained snapshot or an orphaned pin protects,
\* or a journal of another set of objects.
Stopped ==
    \/ Corrupt \/ ~Safe(Inventory)
    \/ \E j \in journals : j.stage \in {"removed", "deleted"} /\ j.ids \cap mapped # {}
    \/ Due \cap (history \cup pins["orphan"] \cup UNION {catalog[i] : i \in Retained(policy)}) # {}
    \/ \E j \in journals : j.ids # Due /\ (j.stage # "completed" \/ j.ids \cap Due # {})

\* Every tombstone is worked off in the end, through crashes at any stage of
\* the journal, or retention has stopped for good.
TombstonesAreSwept == []<>(Due = {} \/ Stopped)

=============================================================================
