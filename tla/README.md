# A TLA+ model of the VibeTable workspace core

VibeTable is a desktop database: a WPF host and a web grid, a thin Python
adapter, and a Go sidecar that owns every byte of a workspace. What can go wrong
without a test noticing is in the sidecar: one workspace is spread over several
SQLite databases, directory trees and an object repository that share no
transaction, the process is started and killed by the desktop host, and a restore
replaces all of it while nothing may be lost. This project models that core and what
lives off it: retention, replication, working files, field migrations, computed cells,
attachments with their history, and the keys of the repository.

Contents: [inventory](#inventory), [modules](#modules), [runs](#runs),
[proofs](#proofs), [findings and observations](#findings-and-observations), [limits](#what-is-not-modelled),
[plan](#plan).

## Inventory

All paths are under `src/sidecar/` unless they say otherwise.

| Component | State it keeps | Operations | What makes it correct |
| --- | --- | --- | --- |
| Write coordinator (`internal/writecoordinator`) | token (session and fence epoch), mutation revision, snapshot sequence, journal of intents; a gate of capacity one | Write, ResumePreparedMutation, Capture, Drain, TransferFence, RotateSession, ResolvePreparedMutation | the revision counts exactly the committed mutations, whatever crash comes between the two databases |
| Runtime (`internal/workspacev2/runtime.go`) | handles to every store of a workspace | Open with recovery, business writes, Drain, scheduler, Close | an undecided mutation is decided from its proof before anything is served |
| Snapshot restore (`restore_pending.go`, `snapshot_restore_handlers.go`, `cmd/vibetable-pb/main.go`) | a journal with a phase, staging and rollback directories | stage, install, complete, roll back, clean up | the workspace is wholly old or wholly restored when served; a launch always gets there |
| File history (`internal/filehistory`) | head store, materialised files | ingest, compare-and-swap of the head, conflict stages, watcher | one head per revision; a conflict publication names its own mutation |
| Audit ledger (`internal/auditledger`) | hash chain, outbox rows in the business database | append batch, drain, acknowledge, anchor | every committed change appears exactly once, in source order |
| Snapshots (`internal/snapshot`) | catalogue, bundles, pins | capture, publish, schedule | a published snapshot is complete and its objects are pinned |
| Retention (`internal/retention`, `objectrepo/retention.go`) | tombstones, plans, a retirement journal, integrity state | plan, apply, sweep, check | nothing is deleted that a file names or a listed snapshot, unless retention found it given up; what is condemned goes in the end |
| Replica (`internal/replica`, `replica_conflict_handlers.go`) | queue, pins, receipts, marker and status; publications, claims, conflict sets | capture, sync, publish, discover, take over | the local copy is given up only for a verified one; one line of accepted publications; forks surface |
| Conflict resolution (`internal/conflict`) | staged candidates | prepare, publish, discard | a decision is applied once and the other side is kept |
| Working files (`filehistory/service.go`, `materializer.go`, `watcher.go`, `ingest.go`) | `files/`, the materializer's journal, pending changes | save, restore, rename, delete, rescan, decide, recover | files follow the head or the user; no edit is lost and no failed request becomes a revision |
| Field migrations (`internal/fieldchange`) | job rows, shadow columns, schema metadata | schedule, copy, verify, switch, clean up, cancel, resume | the public column holds every acknowledged write; a table is not left locked |
| Computed cells and jobs (`internal/relatedcomputation`, `jobs`, `computed`, `mutation`) | cells with a version, watermarks, job rows, a bounded pool | write, fan out, backfill, cancel, resume | a cell read as fresh is true; a stale one is pursued |
| Attachments and record history (`internal/attachments`, `internal/audit`) | files, metadata and versions, staged uploads, audit images, restore tokens | upload, remove, delete, preview, restore | what a record or an image of its history names has its bytes; a restore replaces what was previewed |
| Repository keys (`repository_rotation*.go`, `repository_onboarding.go`, `objectrepo/keys.go`) | two format blobs, vault entries, journal, intent, two manifests | create, ask for a rotation, rotate, settle, unlock | the repository can be opened again whatever process ends where |
| RPC dispatcher (`internal/protocolv2`) | operation receipts, sequence per session | dispatch, suspend | a repeated request returns its first answer |
| Object repository (`internal/objectrepo`) | contents, roots, pins | commit, pin, retire | what is pinned or named stays |
| Mutation kernel, schema, query, formula, realtime | rows in PocketBase, in-memory hubs | one transaction per request | sequential code inside one transaction |
| Host sessions (`src/desktop/.../Services/WorkspaceSessionManager.cs`) | the current session and its epoch | open, switch, close | requests of a closed session reach nothing |
| Update activation (`PendingUpdateActivationJournal.cs`, `UpdateRecoveryWatchdog.cs`) | a journal of the pending update | activate, confirm, roll back | a started version is confirmed or replaced by the old one |
| Data root migration (`DataRootMigrationService.cs`) | a journal of the move | copy, switch, clean up | one complete data root at every moment |
| User interface, web grid, Python adapter, contracts, tools | user interface state | | outside the models |

How they interact. Every mutation of a workspace, from whichever component,
enters `WorkspaceWriteCoordinator.Write` with a callback that commits in the
store of its domain: PocketBase (business rows, with a receipt row and outbox
rows in the same transaction), the file-history head, or the retention policy.
Snapshots are captured and the audit outbox is drained inside the same gate. A
restore is staged by a coordinated write, then carried out by the *next* process
before any database is opened. On start the runtime asks every store for the
receipt of the undecided revision. Retention, capture and file saves share the object
repository; the replica worker pins what retention might take; migrations and fan-out
jobs run in goroutines beside the requests and share only PocketBase with them; a key
rotation runs in a process of its own between two launches.

The hard behaviours: two databases without a common transaction; tokens read
before a queue and used after it; a journal write whose error does not mean that
nothing was written; a process that may die between any two of some forty durable
steps of a restore, and inside the rollback of one; business traffic that goes on
while a restore is being staged; content-addressed objects named by a writer while a
sweep condemns them; several devices publishing to one directory without a lock; a
watcher reading files a request is about to publish; runners that load a row, compute,
and save it over somebody else's change; six places a rotation has to bring into step
one after the other. `PROJECT.json` lists them at their lines.

## Modules

### WriteCoordinator

State. `dbToken`, `dbRevision`, `dbSequence`, `dbAnchor`, `intents` and `captures`
are the tables of `write-coordinator.db`. `proofs` stands for the receipts in the
authoritative stores: each is a record of the domain, the revision, the token and
whether an ordinary write or a conflict publication left it. `token`, `revision`,
`sequence`, `pending` are the fields of the Go struct; `gate`, `pc`, `loc` are the
goroutines. `up` is the stage that `Runtime.Open` has reached.

Actions. `Call` is what a caller does before the gate (`Current()`,
`RecoveryState()`); the token it reads is what it is later judged by. `Refuse`
is every early return after the gate. A write is `PrepareMutation`, then the
callback (`ApplyCommit` or `ApplyAbort`), then `FinishMutation` or
`AbortMutation`. The error paths are actions of their own:
`PrepareMutationLost` (the INSERT is durable, the call failed),
`ReturnExternalCommitted` (the callback's error leaves the outcome to recovery),
`FinishMutationFails`. `Capture` is split where the mutex is released and the
freeze callback runs, `Drain` where the counters are read and written back.
`TransferFence` is one step, as everything in it happens inside one gate passage
and one SQL transaction. `Crash`, `Launch`, `Recover*`, `RotateSession` and `Serve`
are the process's end and the next start.

A capture's `view` and the anchor are the sets of revisions whose effects the
authoritative stores held at that moment. That is what lets a property compare the
label of a snapshot with its contents.

### MutationLog

The abstract promise: one log, at most one append ahead of what is settled, nothing
removed, snapshots are prefixes taken when the log is settled, in sequence order.
`WriteCoordinator` implements it with `length <- LogLength`,
`settled <- dbRevision`, `snapshots <- Snapshots`; crashes, retries, tokens and the
gate are invisible.

### SnapshotRestore

State. `journal` is the phase in the journal file; `live` says for the database, the
attachment storage and the file tree whether the live place holds the old tree, the
restored one, none or a partly deleted one; `saved` and `quarantine` are the two
places in the rollback directory. `settings`, `policyMoved`, `head`, `rotated`,
`intent`, `ledger`, `published`, `receipt` are the other durable effects of a
restore, each in its own store. `acked` and `protected` count business writes and
those the protection snapshot holds. `diff` says how the snapshot compares with the
live workspace, because the code decides by comparing contents.

Actions. The request is `Protect`, `PrepareStaging`, `StageRestore`,
`FinishStaging`, `Shutdown`, with business `Write`s in between where the
coordinator admits them. A launch is one of the four `Boot*` actions, by the
journal's phase, then the installation in `InstallOrder`, `Open`, and the completion
in `CompletionOrder`. The rollback goes through its control points `rbHead` to
`rbFinish` and collects errors in `failed`, as the code does. Every durable step has
a failing variant or is covered by `Crash`; `Fault` bounds how many and says where.

The steps of a completion that leave only derived state (search index) or none
(verification) are not actions. A staging that fails verification returns before
anything is touched; it is `InstallFails` at the first control point.

### AuditLedger

State. `rows` and `drained` are the two outboxes, of the business database and of
the file-history database, and those of their rows that are acknowledged; a row has
an event id, a source epoch and a number. `ledger` is the content of `ledger.db` and
`memory` the records the process keeps of it. `snapshot` is what the newest snapshot
took along: the business outbox, the rows behind its file head and the audit prefix.
`watermark` is what the last published high-watermark covers, `restoring` and `saved`
how far a restore has come and what it put aside, `drain` where each drain is.

Actions. Six roles drain: a history read, a file command or the watcher, a capture,
`Runtime.Drain`, the launch and the shutdown. Each goes through `Fetch`,
`AppendBatch`, `Acknowledge` and `NextBatch` for one or two outboxes, and ends in the
step that belongs to it (`Finish`, `Freeze`, `PublishWatermark`, `OpenRuntime`,
`Serve`, `Stopped`). They differ in the locks they take: captures and `Runtime.Drain`
hold the gate, so no row is added meanwhile; captures, the launch and the last drain
of a shutdown do not take `auditDrainMu`. `DrainRefused` is what the ledger or the
acknowledgement rejects, `DrainFails` a failed call, whose commit may be durable all
the same. Rows come from `Publish` and `PublishConflict`; a restore is `SwapDatabase`,
`PublishHead`, `RotateAuditEpoch`, `RecordRestore` and `CompleteRestore`, or
`RollBack`.

Abstractions. One row per mutation. The hash chain, its genesis and
`ledger_sequence` are left out: the ledger is a set of records, and what the primary
key refuses is the guard `memory = ledger`. Of a restore only the steps that touch
outboxes, ledger or audit epoch are here, and a rollback is one step; its own crashes
are the subject of `SnapshotRestore`.

### ReplicaSync

One device. `catalog` holds the revision each snapshot was captured at; `pins`,
`pending`, `task`, `verified` are the tables of the queue; `remote` what the replica
holds; `marker` and `status` what the desktop is told; `thread` and `mutex` the writer,
the capture and the sync worker inside `Manager`. A sync goes through `SyncOrder`
(replicate, publish, record the receipt, release the pin, forget it), with a crash,
failed step or lost connection between any two; `BecomesDue` is the lease or the delay
of a task running out. Objects, manifests and receipts are left out: a snapshot is on
the replica or not.

### ReplicaPublication

Several devices and one directory. A publication has its claim, its snapshot, the
parent its author saw and its line of ancestors; the canonical hash is a rank, as its
only use is to order heads. `Step` is the worker (plan, append, read again, accept or
not), `Discover` records forks as conflict sets, `PrepareTakeover` and the steps after
it move the fence through claim row, repository and coordinator (`auth`). Devices
crash, disconnect and have clocks that jump.

### Retention

`mapped`, `stored` and `journals` are the repository, `tomb` and `dead` the tombstones,
`catalog` and `history` what names objects. `Plan`, `Apply` and the sweep
with its retirement journal run against `Capturing`, `Saving`, the pins of readers and
the user: `PinReplacement`, `RecordPinned` and `UpdateFails` are the two halves of
`snapshot.update`, `UpdateRetention` sets another policy. `Checking` are the integrity
checks, `Age` and `GraceEnds` the passing of time. Content decides the identity of an
object, so a writer may name one that is being collected. A policy is the set of
snapshots it gives up once they are old (hours, days and buckets are left to that set),
and the user may narrow and widen it at any time, between a plan and its application
too. A snapshot is kept from retention by its record (`pinned`) and by a root pin, which
lasts (`pinned`, `update`) or ends after a day (`daily`); pins a process leaves behind
when it ends are `pins["orphan"]`. Requests of the dispatcher do not overlap each other,
but all overlap the background sweep.

`NamedIsReadable` is about everything the workspace lists: files, and each snapshot that
has no tombstone, whether the policy retains it or not. Only `forsaken` snapshots are
exempt, a history variable: those that the inventory of a retirement found live, but
neither pinned nor retained, while an object of theirs was due. The code deletes such an
object and leaves the snapshot on the list; the observations below say so.
`OnlyRelinquishedIsTombstoned` is what `retention.apply` can be held to with a policy that
moves: what it takes, the applied plan gave up, nobody has pinned or published since, and
the snapshots that name it leave the list in the same step. It does not say that the
policy of that moment gives the snapshots up, for the code does not look at it. Kopia's
own sessions, the day that an expiring pin outlasts a crash (it protects more), and the
roots of pending restore and extraction plans are left out.

### WorkingFiles

`disk` is `files/`, `journal`, `txns` and `copies` the materializer's journal and
transaction directory, `head` and `memory` the published and the loaded documents,
`scan` the watcher's rescan, `changes` the pending changes. A request goes through
plan, staging, apply, publication and finalisation; `Failure` is a failed step with its
rollback; `Watch` reads the files one by one while requests go on; `User` edits, copies
and removes files. Every save and edit brings bytes nobody has seen, numbered by a
clock, so equal numbers are equal bytes and larger ones later acts; `put`, `settled` and
`aborted` are history variables. Branches and `ActivateLeaf`, provisional revisions and
paths that differ in case only are left out; resolving and saving a scanned file is one
step.

### FieldMigration

A collection is a set of columns and the fields whose public name has moved; a cell
holds the number of the last write it reflects. `Advance` takes a runner through shadow
column, batches, verification, switch and clean-up, every database access a step of its
own; `Fails`, `Clean`, `Flag` are its error paths, the clean-up and a cancellation;
`Request` is what holds the gate (apply, replay, cancel, write, direct change).
`mishaps` records that a runner saved a collection or a row over somebody else's change
or that a rollback undid a committed switch: the properties hold while none has
happened (`Undisturbed`), and the observations below say how they happen. Two limits are
beyond an instance and left out: `CheckTableWriteFence` reads 33 jobs of a table at most,
and a launch that finds more than 32 jobs to resume gives up.

### ComputedCells

A chain of three tables: the row of A holds an input, every row of B has its own input
and a computed field over both, the row of C collects B. A cell carries the version it
was computed under. `WriteA`, `WriteB`, `WriteC` and `ChangeFormula` (which clears its
column) are transactions of the mutation kernel; `Work` is a job of
the pool, page by page; `Cancel`, `Resume`,
`Crash` and `Launch` interrupt and continue. Rows do not come and go, pages hold one
row, and the clock functions are left out.

### RepositoryKeys

A password is a number; a key stands for its rotation, too. `blobs` are the two Kopia
format blobs, `vault` and `staged` the credential vault, `backup` the saved blobs,
`journal` and `intent` the two files, `manifest` and `replica` the modes in the two
manifests, `shown` the recovery keys the user was given, `pc` what the one process of the
workspace is doing. The runtime writes the intent (`ApplyKeyRotation`) and the dispatcher
commits the receipt of that request (`CommitRequestReceipt`), both before anything is
rotated; a process that ends between the two leaves an intent without a receipt. The one-shot
process goes through `BeginRotation` to `ConfirmRecoveryKey`; the next launch finds the
receipt or writes it (`CommitRotationReceipt`) and tidies up. A receipt therefore does not
say that the password has changed; what `RequestIsAnswered` says is that an intent is only
taken away when both are true, the password changed and the receipt there. `Ended` ends any process at any point, `NotYetChanged` also
covers a verification that fails for a passing reason, `VaultLost` is a device that
loses its credentials, which only matters to a workspace whose rotation has no journal:
between the journal and the answer the new key exists in the vault alone.
`RestoreProtectedRepository` is the user's way back. Object contents, workspaces without
encryption and Kopia's caches are left out; creation is one step, for the host throws a
half-created workspace away.

### AttachmentHistory

`rows`, `meta`, `versions`, `events`, `applied` are the tables of the database, `disk` the
storage of PocketBase beside it, `staged` the uploads in memory with their references,
`tokens` the previews of restores, `tx` the transaction of whoever holds the kernel's gate.
A request goes through `Send` (the uploads are staged before it queues), `Begin`, `Enter`
(receipt, guard, archive of what it removes), `Save`, `Commit` or `Rollback`, and
`Complete`, the hooks that take files off the disk when the outcome is known. A restore
goes through `PreviewRestore`, `ClaimToken` and `StageRestore` into the same transaction
and ends with `ReadBack`; a retryable error gives the token back, before the commit and
after it. A crash may come between any two of these, a step or a hook
fail, a file lose its bytes (`Damage`). Names are drawn from a counter. What PocketBase
does to files at a save, after a commit and after a rollback is external. The tables of
versions are never pruned, so neither are `versions` here. One table with one file field;
downloads, thumbnails, sizes and types of files, the integrity report and the expiry of
receipts are left out; the workspace's own gate is, too, because one of the two routes
to a restore does not take it.

## Runs

| Run | Checks | Bounds |
| --- | --- | --- |
| `coordinator` | no commit is lost, captures contain exactly what their label says, no commit under a stale token, the refinement of `MutationLog`, no starvation at the gate, every launch ends | 1 writer, 1 conflict publication that may resume, 1 revision, 2 sequences, 2 sessions, 2 fences |
| `restore` | wholeness with the accounts closed before serving, survival of the old state until the commit and of the restored one after it, convergence outside the named dead ends | 4 faults anywhere, 2 writes, any difference |
| `ledger` | snapshots are covered by their audit prefix, pending rows can be appended, launches serve again | batches of 1, 2 writes, 1 conflict, 2 epochs, 2 faults |
| `replica_sync` | the inductive invariant (a receipt means the replica holds the snapshot, objects stay pinned until then), every snapshot gets there, the marker ends up true | 2 writes, 2 snapshots, 1 fault |
| `replica_publication` | accepted publications are one line, the stores of a device agree on its fence, snapshots are published, forks become conflict sets | 2 devices with a snapshot each, 2 fences, 2 faults of one device |
| `retention` | what is listed can be read, only what a plan gave up and nobody holds is tombstoned, the journal can be resumed, condemned objects go | 3 snapshots of 2 contents, 1 of them published at the start; 1 save, pin, pinned capture or change of policy; 1 fault |
| `working_files` | files follow head or user, the history holds no failed request's bytes and loses no published one's, edits surface, the workspace opens | 2 documents, 2 paths, 3 contents, 4 mutations, 1 fault |
| `field_migration` | acknowledged writes stand, the row tells the outcome, the table opens again | 1 job, 2 records, batches of 1, 1 write, 1 cancel, 1 replay, 2 faults |
| `computed_cells` | fresh cells are true, stale ones are pursued, jobs end and cancelled ones stay so | 2 rows, 6 jobs, pool of 2, 2 events |
| `attachment_history` | references have their bytes, images of the history can be restored, a restore replaces what was previewed, resends are harmless | 1 record, 2 goroutines, 3 requests, 1 token, 4 events, 2 contents, 1 fault |
| `repository_keys` | never locked out and what serves agrees, a request leaves only rekeyed and with its receipt, rotations are carried out | 2 rotations, 3 faults, direct or mirrored |
| `computed_chain` | *violation*: a fresh cell two tables away is true | as `computed_cells` |

Why the bounds suffice. The coordinator allocates the next revision only after the
last one is settled, so one undecided revision above the settled ones, which two
goroutines write and resume through a crash, shows what recovery has to decide, and the
counters reach their limit, which exercises `ErrCounterExhausted`; two goroutines are
enough for every pair of holder and waiter, two values of each epoch for every stale
token. In a restore the faults matter: four reach a crash in the installation,
one in its rollback, one in the rollback of the relaunch and one more.
With the ledger, two writes give a row that is drained and taken away by a restore and
one that could take its number again, and a batch of one makes every drain several
batches long. A replica queue of two snapshots has one behind the other; the fault may
be a crash, a failed step or a lost connection at every point, and the first launch may
find the replica away. Two devices make the smallest fork, two fences one takeover. Two
contents are enough for a writer to name one that is condemned and one that is not, and
one fault interrupts a sweep, a capture or an update at every point; the captures that are
not pinned are bounded by the catalogue alone, and the one act of the user falls anywhere
between plan, application and each step of the sweep. Two paths and documents give renames,
copies and swaps of identity; four mutations a request, its rescan and one more of each.
A migration of two records in batches of one is interrupted between batches; the second
fault meets the resumption. Two events put any two of write, new formula, cancellation,
crash and failure against each other while jobs run. Three faults in a rotation
interrupt the rewriting of the blobs, the restoration of the saved ones, and the run
after that; the number of keys is derived from the bounds and never runs out. Three
requests and a restore give a file that is added, removed, restored and changed again
between preview and transaction; four events is a history of every image of those; a
fault is a crash, a failed step, a failed hook or a damaged file.
For the safety properties stated by a theorem the proofs remove these bounds; for liveness
and for the models without a proof they are what the results rest on.
Goroutines, keys and contents are interchangeable in `attachment_history`, which uses
that symmetry: it has no liveness property. No other run uses symmetry. Deadlock is
not checked where the bounds let everything come to rest (retention, working files and
the like); in the other runs it is.

Fairness. For the coordinator: startup runs on, a goroutine in the gate runs on
(callbacks run under request contexts with deadlines, so they return), and Go serves
senders blocked on a channel in the order they came, hence strong fairness of each
goroutine's steps. `Call`, `Cancel`, `Crash` and `Launch` are not fair. For the
restore: the process runs on, an accepted request reaches its end, and the host
starts the sidecar again; business writes, quitting, crashes and failures are not
fair. For the ledger: a drain that has started takes its next step, and the host
launches the sidecar again or the launch finishes the restore that is under way. For
replication: goroutines run on and enter a mutex that is free again and again, the
scheduler captures what is ahead, leases and delays end, the worker polls every 30
seconds, the host relaunches and the directory comes back. For publications: each
device's worker goes on and looks for conflicts after publishing. For retention: writers
finish, the hourly run comes again (strong fairness, for it must find the repository
free), updates finish, readers release their pins, days and grace end; that snapshots
grow old, or that the user does anything, is not assumed. For working files: a mutation under way
runs on, the watcher rescans on its ticker, a closed workspace is opened again. For
migrations and jobs: goroutines run on and the host relaunches; cancellations, repeated
requests, resumptions, crashes and failures are not fair. For keys: a process runs on,
the host opens the workspace again after a refusal, and a user who is asked for the
recovery key types it in.

Each property has a mutant in `PROJECT.json`, a plausible slip in a mapped
definition (a forgotten pending check, a recovery that asks one store only, a pin
released early, a rescan that does not compare, a format change without saved blobs)
under which TLC finds it violated.

## Proofs

`WriteCoordinatorProofs` proves for every set of goroutines and every value of the
bounds, from the named assumptions on the constants (`ClientAssumption`,
`BoundAssumption`, `DomainAssumption`):

* `InductiveInvariant`: `Spec => []Inductive`. None of the safety properties is
  inductive by itself. That no commit is lost needs to know that an undecided
  revision is the one after the settled ones (`IntentsAtTip`), that its proof carries
  the token recovery will ask with (`ProofsAtTip`), that the process's memory agrees
  with its database (`MemoryMirrorsDatabase`), that a revision with a proof is
  pending whenever the gate can be entered (`PendingIsUndecided`), and that whoever
  is inside the gate is alone there with what it read (`GateIsExclusive`,
  `HolderIsCurrent`, `CallbackMatchesProof`, `FreezeIsJournalled`). The proof has
  one lemma per action.
* from it `TypeCorrect`, `CommitsSurvive`, `RevisionsSound`, `SnapshotsExact`,
  `AnchorSound`, and the action properties `DurableMonotone` and
  `StaleTokensShutOut`;
* `OneMutationPerRevision`: with no conflict publication (`Resolver = {}`) a
  revision names one mutation (the first observation below says why the assumption
  cannot be dropped);
* `Refinement`: `Spec => ImplementsMutationLog`.

`AuditLedgerProofs` proves, for every batch size and all bounds (`LedgerAssumption`):

* `InductiveInvariant`: `Spec => []Inductive`. What is acknowledged must be recorded
  also in the memory of the process (`MemoryIsLoaded`), in every batch under way
  (`BatchesAreRecorded`) and in the databases a restore may put back
  (`CopiesAreRecorded`); a snapshot covers both outboxes because whoever holds the
  gate, or launches, finds the first one still empty when the second one is
  (`GateKeepsOutboxEmpty`, `LaunchHasDrained`, `RestoreIsOffline`); and an event of a
  restore is new because event ids and restore epochs are used once, counting the
  rows that are only in copies (`EventsAreUnique`, `RestoreEpochIsFresh`).
  `LedgerHasNoGaps` says that every number has its predecessor, so that it is
  preserved without an induction over numbers; the lemma `LedgerGrows` shows that of
  every accepted batch, whatever its size.
* from it `TypeCorrect`, `LedgerSound`, `DrainedSound`, `SnapshotsAudited` and the
  action property `WatermarkSound`;
* `OutboxesAreDrainable`, from a second invariant, `NumbersHold`, about numbers: each
  outbox keeps to its own source epochs (`EpochsAreApart`), a number is used once
  (`NumbersAreUnique`), rows have no gaps, in copies of the database neither
  (`RowsHaveNoGaps`), and the rows of the audit epoch in force are all in the database
  that the next write finds (`EpochIsAtHand`). A row that the ledger lacks then comes
  after every record of its epoch (`NewComesLast`: the least number that is missing has
  its predecessor in the ledger), so the batch it heads is accepted.

Drains that race without a common lock are inside these theorems: a collision makes
one of them fail, it never harms the ledger.

`SnapshotRestoreProofs` proves, for any number of failures and crashes at any of the
control points (`ParameterAssumption`):

* `InductiveInvariant`. `ControlAgrees` says where the process can be under each phase of
  the journal; `RestHolds` that one of the two workspaces is whole while no file is being
  moved; `InstallHolds` how far each of the three trees is at every point of an
  installation (before its move, between, after); `OldIsSaved` that until the commit each
  old tree is in its place or in the rollback directory, and the old attachment storage in
  one place only, the quarantine included; `CompletionHolds` and `RollbackHolds` what each
  point of a completion and of a rollback that has met no error has done. A rollback that
  met an error may stop anywhere: only `OldIsSaved` is left, and it is enough.
* from it `ServedIsWhole`, and `NoStateIsLost`, whose second half is an action property: no
  step leaves the committed, accounted workspace (`CommittedStays`).

`ReplicaSyncProofs` proves, for any number of writes, snapshots and faults
(`SyncAssumption`), that the `Inductive` of `ReplicaSync` is an invariant, and from it
`ReceiptsAreTrue`, `QueuedStaysPinned` and `CompletionIsFinal`. None of the three is
inductive: a receipt is true because of what the worker has done at each point of
`Manager.Sync` (`Progress`); a pin is not taken from another snapshot because ids, rows
and tasks name each other one to one (`PinsAreNamed`), which in turn needs an id that no
pin and no row has (`FreshPin`, by counting) and a snapshot that the loop takes next (a
least element); and the receipts do not change under the loop of
`queuePublishedSnapshots` because both are under `Manager.mu` (`Exclusive`). A crash
leaves `DeadIsIdle`.

`ReplicaPublicationProofs` proves, for any set of devices, any numbers of snapshots and
faults of each and any number of fence epochs (`PublicationAssumption`,
`OriginAssumption`):

* `DirectoryIsClosed`: the `Inductive` of `ReplicaPublication`. Every publication
  descends from the origin through stored publications (`LinesAreClosed`), some head
  descends from each (`HeadsCover`), a plan made from an old reading of the directory is
  closed as well (`PlansAreClosed`), and the four places of a device's fence move in one
  order (`FencesInOrder`), so that a takeover interrupted anywhere leaves `AuthoritiesAgree`
  to be restored. That a winner exists is a lemma (the order of heads by fence and rank has
  a least element), as is that two lines share a longest part, whose end is the base of a
  conflict set.
* `AcceptanceIsLinear`: a new publication is a head whose name nobody has accepted, and
  acceptance asks for a sole head; a sole head descends from everything that is stored,
  the publications accepted before included.

`RetentionProofs` proves, for any finite set of contents, any set of policies, any number
of snapshots, acts of the user and faults (`RetentionAssumption`):

* `InductiveInvariant`: `JournalIsResumable`, `NamedIsReadable`, and what makes the second
  inductive. A capture's commit is pinned until it is published and present after its second
  look (`CaptureIsKept`); a sweep that is past the reading of its inventory spares (`Spared`)
  the files, every listed snapshot that this inventory did not find given up, pinned or not,
  and what a sealed capture is about to name, and no save is about to publish its
  head (`SweepSpares`). The sweep is armed when it holds the repository's lock or no commit
  has come since its inventory: that is the case distinction of the code. Pins, days, ages
  and policies then need no invariant of their own: whatever they do after the inventory
  changes nothing the sweep spares.
* from it `JournalsAreResumable`, `NamedStaysReadable`, and the action property
  `OnlyRelinquishedObjectsAreTombstoned`, for which a plan may be of any age when it is
  applied and the policy another one: its digest binds pins, records, catalogue and history,
  and its own policy must still select what it selected then.

`RepositoryKeysProofs` proves, for any number of rotations and of processes that end
(`KeysAssumption`):

* `InductiveInvariant` over the control points of the one-shot process and the launches:
  where it can be (`ControlAgrees`), and what the two format blobs, the vault, the two
  manifests, the saved blobs and the user's recovery keys hold before a journal exists
  (`AtRest`), in each of its phases (`JournalNames`, `PhaseHolds`), between the steps of a
  phase (`PointHolds`) and after the rotation (`CompletedIsDone`). `KeysAreCounted` bounds
  the keys ever made by settled requests and faults, so that no theorem rests on the
  model running out of keys.
* from it `NobodyIsLockedOut` and the action property `RequestsAreAnswered`: an intent is
  only taken away at the end of a launch that found the rotation completed, and by then the
  receipt is there, from the dispatcher or from that launch.

`AttachmentHistoryProofs` proves, for any numbers of records, contents, requests, restores,
names and faults and any finite set of goroutines (`AttachmentAssumption`, which also says
that keys and tokens are different names and that no record has the directory of the
versions):

* `InductiveInvariant`. One goroutine has the kernel's gate and one has a token
  (`ControlAgrees`); a token holds the bytes of the image that was previewed (`TokensHold`).
  Rows and metadata name the same files (`RowsHold`), everything a table or a transaction
  under way says of a file is true and a place on the disk has one file (`FilesAreTrue`),
  an image's names are in the record or archived (`HistoryIsKept`). Two parts are there
  only to make these inductive. `TxHolds` says what a transaction has done so far: until it
  commits, the row is still the one its guard saw, all that it removes is archived, and its
  copies and new files have names no table uses; once it has committed, nothing it is going
  to take away is named any more. `NamesAreDrawn` makes fresh names fresh. `NoClutter`
  says whose files the others on the disk are, `EffectsAreCounted` ties receipts to effects,
  and `StagedIsHeld` references to holders.
* The core is `LeftoversAreUnused`: whatever the outcome, the hooks after a transaction take
  no file that a row, its metadata or a version names. A crash before them only leaves
  files nobody names.
* from it `ReferencesHaveBytes`, `HistoryStaysRestorable`, `ResendsDoNoHarm`, and the action
  property `RestoresAreExact`. For the last one, `GuardMeansPreviewed` gets the previewed
  row from the guard (an insertion has no digest to compare, but what does not exist lists
  no files), and the new files are matched with the image's bytes one by one
  (`UploadsAreDrawn`, `SameSize`).

Those invariants that no run checks (`Inductive` of `SnapshotRestoreProofs`,
`RetentionProofs`, `RepositoryKeysProofs`, `AttachmentHistoryProofs`, and `NumbersHold`)
hold on the instances of the runs, too: TLC checked each as an invariant there before it
was proved.

These theorems state properties that a run checks: `CommitsSurvive`, `SnapshotsExact`,
`StaleTokensShutOut`, `Refinement`; `SnapshotsAudited`, `OutboxesAreDrainable`;
`ServedIsWhole`, `NoStateIsLost`; the `InductiveInvariant` of `ReplicaSyncProofs`;
`DirectoryIsClosed`, `AcceptanceIsLinear`; `JournalsAreResumable`, `NamedStaysReadable`,
`OnlyRelinquishedObjectsAreTombstoned`; `NobodyIsLockedOut`, `RequestsAreAnswered`;
`ReferencesHaveBytes`, `HistoryStaysRestorable`, `ResendsDoNoHarm`, `RestoresAreExact`:
all safety properties of these eight models that the runs check. The others are stronger
than what the runs ask, or parts of it that have a meaning of their own.

One convention of the modules serves the proofs: a function of records that changes in two
fields at one index is written `![d] = [@ EXCEPT !.a = x, !.b = y]`, not as two paths
through the same index, which the translation to SMT does not represent faithfully.

Only model-checked:

* the liveness properties of all runs: fairness and `ENABLED` are outside the prover's
  reach;
* the safety properties of `WorkingFiles`, `FieldMigration` and `ComputedCells`. They hold with exceptions
  that name how the code departs from them (`mishaps`, overwritten edits, the swallowed
  event), so an inductive invariant has to describe the state after each departure; for
  them the runs are what there is.

## Findings and observations

A finding of `PROJECT.json` is shown by a run:

* `computed_chain`: recalculating a stale cell of B to the scalar it had does not move
  the watermark of what reads it (`relatedcomputation/input_revision.go:24`), so a cell
  of C computed meanwhile from fresh inputs and stale B keeps its stamp and is read as
  fresh with a value its inputs never had together.

The following were met while modelling; the models contain the behaviour, and the
properties name it as an exception where they must. Paths are under
`sidecar/internal/`.

Coordinator, restore, ledger.

* A conflict publication resumes any pending revision, also that of a business write
  whose journal entry could not be finished (`filehistory/conflict_staging.go:585`).
* A rollback of a restore that dies after reverting the head can never be finished
  (`workspacev2/restore_pending.go:911`); a crash early in the installation of a
  snapshot with unchanged attachments ends in `restore.attachment_storage_conflict` at
  every launch (`:1055`), as do crashes around the quarantine; a crash between the
  journal and the end of the staging write leads to two proofs of one revision
  (`workspacev2/runtime.go:1226`). These are the dead ends of `RestoreConverges`; the
  old trees survive in all of them (`OldStateSurvives` in `NeitherStateIsLost`).
* Writes acknowledged after the protection snapshot are discarded with the rollback
  directory (`workspacev2/snapshot_restore_handlers.go:195`). `data.db` is renamed
  without its write-ahead log.
* A conflict resolution numbers its outbox row under a source epoch of its own, which
  the ledger refuses for ever, and with it every later capture, drain and launch
  (`filehistory/conflict_staging.go:536`): `ConflictPublished` in `OutboxIsDrainable`.
* A capture does not take `auditDrainMu`: two drains may race, and the slower one fails
  at its acknowledgement. The ledger stays right, and a repetition succeeds.

Replica.

* The marker may be cleared although the last write is not covered
  (`workspacev2/replica_conflict_handlers.go:270`); it is honest again in the end.
* A crash between a pin and its row leaks the pin; a snapshot that was retired before it
  was replicated blocks the queue.
* After a takeover the host's authority file keeps the old fence, and a later
  `Runtime.Open` never succeeds (`replica_conflict_handlers.go:1222`). A publication
  with an unknown base makes every pass fail; a clock far ahead poisons the directory;
  forks are recorded, never merged.

Retention.

* The full integrity check reads the raw catalogue, retired snapshots included, so the
  first check after a sweep finds their collected objects missing and stops retention
  for good (`workspacev2/retention_handlers.go:241`; other readers subtract the
  tombstones, `handlers.go:359`).
* A plan keeps the policy it was made with: the digest that `Apply` compares does not
  bind the current one (`retention/engine.go:410`, `retention/production.go:278`), so a
  policy widened between `retention.plan` and `retention.apply` does not save what the plan
  gave up.
* A snapshot captured after an object of its was tombstoned keeps it from being retired
  while it is new or pinned. Once the policy gives it up and its pin has ended, the object
  is deleted, while the snapshot, which no plan has retired, stays on the list; nor does a
  pin the user sets between the inventory of the sweep and its retirement help, for a pin
  does not move the revision, which with the sessions is all that is compared
  (`objectrepo/kopia.go:502`, `objectrepo/retention.go:264`). The snapshot cannot be
  restored, and the index counts as corrupt, which stops retention
  (`workspacev2/retention_handlers.go:500`). These are the `forsaken` snapshots.
* A process that ends between the new root pin of `snapshot.update` and its record, or
  before the old pin is released, leaves a pin without an end that nothing names
  (`workspacev2/handlers.go:202`); a due object under it stops the sweeps.
* Replaying a journal deletes contents that were written again
  (`objectrepo/retention.go:608`). A due object that is protected again, a pending
  journal for another set of objects, and an object committed during its retirement each
  stop all sweeps: `Stopped` in `TombstonesAreSwept`.

Working files.

* A failed rollback leaves a `restore-NNNNNN` copy that makes every later recovery fail
  (`filehistory/materializer.go:480`); a crash between the creation of a transaction
  directory and its journal makes the next request fail; a failed finalisation keeps
  the journal, and file mutations are refused until a restart.
* A plan covers all paths, so any save overwrites external edits the watcher has not
  read yet (the plan document promises otherwise, section 7.4).
* Accepting a pending change as new runs the resolver again and fails for the same
  reason.

Field migrations.

* A crash after the first save of a failed job leaves a row that no launch selects, and
  the shadow column stays (`fieldchange/migration.go:459`). Collections are loaded and
  saved outside the gate, rows saved over a cancellation (`clobbered`, `revived`); an
  ambiguous switch followed by a crash and a repeated request drops the column in use
  (`undone`), and so does a rollback that fails to read the metadata
  (`fieldchange/migration.go:1483`), as in a shutdown. A failed save of the row keeps the table locked until the next launch.

Computed cells.

* Re-stamping a stale cell with the value it had starts no fan-out, and the next table
  may say "updating" for ever (`jobs/fanout.go:65`): `swallowed`. A failed fan-out is
  never retried. The outbox of events is never pruned and a launch refuses more than
  10,000 of them (`jobs/fanout.go:138`).

Attachments.

* A restore that is committed but whose result cannot be read, or whose hooks fail with
  an error that may be retried (`:612`), gives its token back, "so a
  retry can replay the stable idempotency key and complete the read"
  (`audit/service.go:585`). The retry compares the row with the digest from before the
  commit first and answers `restore_conflict` (`:470`); only if the record has been
  deleted again meanwhile does it get as far as the receipt, and then it reports a restored
  row that is not there. The restore itself stands, once (`ResendsAreHarmless`).
* A hook that fails after the commit is reported as an error of the request, and files that
  a crash or a failed hook leaves on the disk are found by the integrity report only.

Repository keys.

* Creating a repository writes the new key to the vault before it finds that one exists,
  and deletes it again in its clean-up (`workspacev2/repository_onboarding.go:47`): asked
  twice for the same protected workspace, it would take the key of the first. The host
  asks once.
* A key staged by a process that ended before it wrote its journal stays in the vault.

## What is not modelled

Query, formula, relation, schema and field engines, package formats, search and
diagnostics: sequential computations in one transaction, or I/O of third-party
libraries. The plug-in store, the dispatcher's operation receipts, the
external conflict stages and the journals of the host (sessions, update activation, data
root migration) have states of their own and could be modelled in the same way; they are
listed as such in `PROJECT.json`. User interface, Python adapter, contracts and tools: no durable
state of their own. Much of the remaining code is validation, SQL, encoding and the
surface of RPC and plug-ins, whose detail no property here tells apart.

Within the modelled parts: timestamps, hashes and identifiers; the contents of trees
(old, restored, partly deleted); SQLite's write-ahead log (a database file is moved as
one); journals of older format versions; a second restore request in the same
behaviour; damaged staging directories; what each module's section says it leaves out.

## Plan

Done: `WriteCoordinator` with `MutationLog`, `AuditLedger`, `SnapshotRestore`,
`ReplicaSync`, `ReplicaPublication`, `Retention`, `RepositoryKeys` and `AttachmentHistory`
(checked and proved); `WorkingFiles`, `FieldMigration` and `ComputedCells` (checked). Left,
in this order:

1. `WorkingFiles`: `FilesFollowHead` over the phases of the materializer's journal.
2. `ComputedCells`: `FreshIsTrue` over the stamps and watermarks of a recalculation.
3. Models of the dispatcher and the external conflict stages.
