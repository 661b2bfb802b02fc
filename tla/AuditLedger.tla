----------------------------- MODULE AuditLedger -----------------------------
(***************************************************************************)
(* The audit ledger (sidecar/internal/auditledger), the transactional      *)
(* outboxes that feed it and everybody who drains them.                    *)
(*                                                                         *)
(* A business transaction or a file-history publication leaves a row in    *)
(* the outbox of its own database.  A drain reads the oldest pending rows, *)
(* commits them to ledger.db in one transaction and then acknowledges them *)
(* one by one; rows left pending by a crash are replayed and recognised by *)
(* their event id.  Restoring a snapshot puts an older business database,  *)
(* outbox included, under a ledger that is never replaced; the audit epoch *)
(* is rotated so that row numbers are not used twice.                      *)
(*                                                                         *)
(* Abstractions: one row per mutation; the hash chain and ledger_sequence  *)
(* are left out, so that a ledger is the set of its records; payloads of   *)
(* equal event ids are equal unless epoch or number differ.  The steps of  *)
(* a restore are those of module SnapshotRestore that touch the outboxes.  *)
(***************************************************************************)
EXTENDS Integers, FiniteSets

CONSTANTS
    Limit,          \* batch size of a drain (256 in the code)
    MaxWrites,      \* bound on mutations by clients
    MaxConflicts,   \* bound on conflict publications among them
    MaxEpoch,       \* bound on audit epochs
    MaxFaults       \* bound on crashes and failed steps

ASSUME LedgerAssumption ==
    /\ Limit \in Nat \ {0} /\ MaxEpoch \in Nat \ {0}
    /\ {MaxWrites, MaxConflicts, MaxFaults} \subseteq Nat

Outbox == {"business", "file"}
Epoch == [kind : {"business", "filehistory", "conflict", "restore"}, n : 0..MaxEpoch]
Row == [event : Nat, epoch : Epoch, number : Nat]

\* Who drains: a history read, a file command or the watcher, a snapshot
\* capture, Runtime.Drain, the launch and the shutdown.
Role == {"history", "files", "freeze", "close", "launch", "stop"}

\* The outboxes a role drains, one after the other.
FirstOutbox(r) == IF r \in {"files", "stop"} THEN "file" ELSE "business"
LastOutbox(r) == IF r \in {"history", "stop"} THEN "business" ELSE "file"

VARIABLES
    rows,         \* vibetable_audit_outbox, filehistory_audit_outbox
    drained,      \* the rows of them with status 'drained'
    ledger,       \* ledger.db
    auditEpoch,   \* audit_epoch_counter in write-coordinator.db
    events,       \* mutations so far, those of restores included
    writes,       \* mutations by clients among them
    snapshot,     \* the newest snapshot: the outbox of its database, the rows
                  \* behind its file head, the ledger prefix
    watermark,    \* what the published high-watermark covers
    restoring,    \* how far a restore has come
    saved,        \* outbox of the business database in the rollback directory
    up,           \* "down", or how far the launch has come
    memory,       \* Ledger.records
    drain,        \* where each drain is
    faults

durable == <<rows, drained, ledger, auditEpoch, events, writes, snapshot,
             watermark, restoring, saved>>
vars == <<durable, up, memory, drain, faults>>

At(pc, b, batch) == [pc |-> pc, box |-> b, batch |-> batch]
Idle == At("idle", "business", {})
Reading(b) == At("fetch", b, {})
NoCopy == [taken |-> FALSE, rows |-> {}, drained |-> {}, files |-> {}, prefix |-> {}]
Copy == [taken : BOOLEAN, rows : SUBSET Row, drained : SUBSET Row, files : SUBSET Row,
         prefix : SUBSET Row]

TypeOK ==
    /\ rows \in [Outbox -> SUBSET Row] /\ drained \in [Outbox -> SUBSET Row]
    /\ ledger \in SUBSET Row /\ memory \in SUBSET Row /\ watermark \in SUBSET Row
    /\ auditEpoch \in 1..MaxEpoch
    /\ events \in Nat /\ writes \in Nat /\ faults \in Nat
    /\ snapshot \in Copy /\ saved \in Copy
    /\ restoring \in {"none", "swapped", "published", "installed"}
    /\ up \in {"down", "starting", "opening", "completing", "capturing", "serving", "stopping"}
    /\ drain \in [Role -> [pc : {"idle", "fetch", "append", "ack"},
                           box : Outbox, batch : SUBSET Row]]

Init ==
    /\ rows = [b \in Outbox |-> {}] /\ drained = [b \in Outbox |-> {}]
    /\ ledger = {} /\ memory = {} /\ watermark = {}
    /\ auditEpoch = 1 /\ events = 0 /\ writes = 0
    /\ snapshot = NoCopy /\ saved = NoCopy /\ restoring = "none"
    /\ up = "down" /\ drain = [r \in Role |-> Idle] /\ faults = 0

Fault == faults < MaxFaults /\ faults' = faults + 1

-----------------------------------------------------------------------------
(* Producers                                                               *)

\* MAX + 1, and what Ledger.appendBatch expects as sourceHigh + 1.
IsNext(n, used) ==
    /\ \A m \in used : m < n
    /\ n = 1 \/ n - 1 \in used

Numbers(records, e) == {r.number : r \in {q \in records : q.epoch = e}}

BusinessEpoch == [kind |-> "business", n |-> auditEpoch]
FileEpoch == [kind |-> "filehistory", n |-> 0]
ConflictEpoch == [kind |-> "conflict", n |-> 0]

\* The number of the next row.  File rows take the head revision, which every
\* publication of a head increments, whatever its source epoch.
NextNumber(b, e, n) ==
    IsNext(n, IF b = "business" THEN Numbers(rows[b], e)
              ELSE {r.number : r \in rows[b]})

Insert(b, e, others) ==
    /\ \E n \in 1..(events + 1) :
         /\ NextNumber(b, e, n)
         /\ rows' = [others EXCEPT ![b] = @ \cup
                       {[event |-> events + 1, epoch |-> e, number |-> n]}]
    /\ events' = events + 1

\* A capture and Runtime.Drain hold the gate of the write coordinator.
GateFree == drain["freeze"].pc = "idle" /\ drain["close"].pc = "idle"

ClientWrite ==
    /\ up = "serving" /\ GateFree
    /\ writes < MaxWrites /\ writes' = writes + 1

\* A coordinated write, with its outbox row in the same transaction.
Publish(b) ==
    /\ ClientWrite
    /\ Insert(b, IF b = "business" THEN BusinessEpoch ELSE FileEpoch, rows)
    /\ UNCHANGED <<drained, ledger, auditEpoch, snapshot, watermark,
                   restoring, saved, up, memory, drain, faults>>

\* publishConflict moves the head too, under a source epoch of its own.
PublishConflict ==
    /\ ClientWrite
    /\ Cardinality({r \in rows["file"] : r.epoch = ConflictEpoch}) < MaxConflicts
    /\ Insert("file", ConflictEpoch, rows)
    /\ UNCHANGED <<drained, ledger, auditEpoch, snapshot, watermark, restoring,
                   saved, up, memory, drain, faults>>

-----------------------------------------------------------------------------
(* A drain                                                                 *)

Pending(b) == rows[b] \ drained[b]

\* ORDER BY source_epoch, source_sequence; the file outbox by sequence only.
Before(b, p, q) ==
    \/ b = "business" /\ p.epoch.n < q.epoch.n
    \/ (b = "business" => p.epoch = q.epoch) /\ p.number < q.number

\* The oldest pending rows, at most Limit of them.
Oldest(b, batch) ==
    /\ batch \subseteq Pending(b)
    /\ \A p \in batch, q \in Pending(b) \ batch : Before(b, p, q)
    /\ Cardinality(batch) <= Limit
    /\ batch = Pending(b) \/ Cardinality(batch) = Limit

\* auditDrainMu.  Neither a snapshot capture nor the last drain of a shutdown
\* takes it.
Locking(r, b) == r \in {"history", "files", "close"} \/ (r = "stop" /\ b = "file")
MutexFree == \A r \in Role : drain[r].pc # "idle" => ~Locking(r, drain[r].box)

Start(r) ==
    /\ up = "serving" /\ drain[r].pc = "idle" /\ r # "launch"
    /\ r \in {"freeze", "close"} => GateFree
    /\ Locking(r, FirstOutbox(r)) => MutexFree
    /\ drain' = [drain EXCEPT ![r] = Reading(FirstOutbox(r))]
    /\ up' = IF r = "stop" THEN "stopping" ELSE up
    /\ UNCHANGED <<durable, memory, faults>>

Fetch(r) ==
    /\ drain[r].pc = "fetch" /\ Pending(drain[r].box) # {}
    /\ \E batch \in SUBSET Pending(drain[r].box) :
         /\ Oldest(drain[r].box, batch)
         /\ drain' = [drain EXCEPT ![r] = At("append", drain[r].box, batch)]
    /\ UNCHANGED <<durable, up, memory, faults>>

\* The rows of a batch that a ledger does not know yet.
NewTo(records, batch) == {r \in batch : \A m \in records : m.event # r.event}
New(batch) == NewTo(memory, batch)

\* Neither ErrEventConflict nor ErrSourceConflict nor ErrSourceGap.
Fits(records, batch) ==
    /\ \A r \in batch, m \in records : m.event = r.event => m = r
    /\ \A r \in NewTo(records, batch) :
         /\ IsNext(r.number,
                   Numbers(records \cup {q \in NewTo(records, batch) : q.number < r.number},
                           r.epoch))
         /\ \A q \in NewTo(records, batch) :
              q.epoch = r.epoch /\ q.number = r.number => q = r

Acceptable(batch) == Fits(memory, batch)

\* One FULL transaction, then the memory.  ledger_sequence is the primary key:
\* nothing can be inserted while the memory lags behind the database.
AppendBatch(r) ==
    /\ drain[r].pc = "append" /\ Acceptable(drain[r].batch)
    /\ New(drain[r].batch) = {} \/ memory = ledger
    /\ ledger' = ledger \cup New(drain[r].batch)
    /\ memory' = memory \cup New(drain[r].batch)
    /\ drain' = [drain EXCEPT ![r] = At("ack", drain[r].box, drain[r].batch)]
    /\ UNCHANGED <<rows, drained, auditEpoch, events, writes, snapshot, watermark,
                   restoring, saved, up, faults>>

\* The row acknowledged next: the batch was sorted by epoch and number.
Next1(r, row) ==
    /\ row \in drain[r].batch
    /\ \A q \in drain[r].batch : q.epoch = row.epoch => row.number <= q.number

\* The UPDATE must hit a pending row.
Acknowledge(r) ==
    /\ drain[r].pc = "ack"
    /\ \E row \in drain[r].batch :
         /\ Next1(r, row)
         /\ row \in Pending(drain[r].box)
         /\ drained' = [drained EXCEPT ![drain[r].box] = @ \cup {row}]
         /\ drain' = [drain EXCEPT ![r] = At("ack", drain[r].box, drain[r].batch \ {row})]
    /\ UNCHANGED <<rows, ledger, auditEpoch, events, writes, snapshot, watermark,
                   restoring, saved, up, memory, faults>>

NextBatch(r) ==
    /\ drain[r].pc = "ack" /\ drain[r].batch = {}
    /\ drain' = [drain EXCEPT ![r] = Reading(drain[r].box)]
    /\ UNCHANGED <<durable, up, memory, faults>>

Down ==
    /\ up' = "down" /\ memory' = {} /\ drain' = [r \in Role |-> Idle]

\* A drain that fails at launch ends the process, one that fails at shutdown
\* leaves the other outbox to do; Capture, Drain and the others return the error.
Fail(r) ==
    IF r = "launch" \/ (r = "stop" /\ drain[r].box = "business")
    THEN Down
    ELSE /\ drain' = [drain EXCEPT ![r] = IF r = "stop" THEN Reading("business") ELSE Idle]
         /\ UNCHANGED <<up, memory>>

\* Refused by the ledger, by its primary key or by the acknowledgement.
Refused(r) ==
    \/ drain[r].pc = "append" /\ ~Acceptable(drain[r].batch)
    \/ drain[r].pc = "append" /\ New(drain[r].batch) # {} /\ memory # ledger
    \/ drain[r].pc = "ack" /\ \E row \in drain[r].batch :
         Next1(r, row) /\ row \notin Pending(drain[r].box)

DrainRefused(r) ==
    /\ Refused(r) /\ Fail(r)
    /\ UNCHANGED <<durable, faults>>

\* A database error or the end of the request context.  The commit that
\* reports an error may have happened.
DrainFails(r) ==
    /\ drain[r].pc # "idle" /\ Fault /\ Fail(r)
    /\ \/ UNCHANGED ledger
       \/ /\ drain[r].pc = "append" /\ Acceptable(drain[r].batch) /\ memory = ledger
          /\ ledger' = ledger \cup New(drain[r].batch)
    /\ UNCHANGED <<rows, drained, auditEpoch, events, writes, snapshot, watermark,
                   restoring, saved>>

-----------------------------------------------------------------------------
(* The end of a drain                                                      *)

OutboxEmpty(r) == drain[r].pc = "fetch" /\ Pending(drain[r].box) = {}

NextOutbox(r) ==
    /\ r # "launch" /\ OutboxEmpty(r) /\ drain[r].box # LastOutbox(r)
    /\ drain' = [drain EXCEPT ![r] = Reading(LastOutbox(r))]
    /\ UNCHANGED <<durable, up, memory, faults>>

Finish(r) ==
    /\ r \in {"history", "files"} /\ OutboxEmpty(r)
    /\ drain' = [drain EXCEPT ![r] = Idle]
    /\ UNCHANGED <<durable, up, memory, faults>>

Frozen == [taken |-> TRUE, rows |-> rows["business"], drained |-> drained["business"],
           files |-> rows["file"], prefix |-> memory]

\* Mutant: the database is copied once the business outbox is empty.
FreezeEarly ==
    /\ OutboxEmpty("freeze")
    /\ snapshot' = Frozen
    /\ drain' = [drain EXCEPT !["freeze"] = Idle]
    /\ UNCHANGED <<rows, drained, ledger, auditEpoch, events, writes, watermark,
                   restoring, saved, up, memory, faults>>

\* Freeze: both outboxes are empty and the gate is held; the database is copied
\* with the ledger prefix up to the anchor.
Freeze ==
    /\ OutboxEmpty("freeze") /\ drain["freeze"].box = "file"
    /\ snapshot' = Frozen
    /\ drain' = [drain EXCEPT !["freeze"] = Idle]
    /\ UNCHANGED <<rows, drained, ledger, auditEpoch, events, writes, watermark,
                   restoring, saved, up, memory, faults>>

PublishWatermark ==
    /\ OutboxEmpty("close") /\ drain["close"].box = "file"
    /\ watermark' = memory
    /\ drain' = [drain EXCEPT !["close"] = Idle]
    /\ UNCHANGED <<rows, drained, ledger, auditEpoch, events, writes, snapshot,
                   restoring, saved, up, memory, faults>>

-----------------------------------------------------------------------------
(* Launch, crash and restore                                               *)

\* Mutant: the records are not loaded.
BeginLaunchUnloaded ==
    /\ up' = "starting" /\ memory' = {}
    /\ drain' = [drain EXCEPT !["launch"] = Reading("business")]

\* auditledger.Open loads the records, then the business outbox is drained.  load
\* refuses a ledger with a gap or a duplicate, which LedgerHasNoGaps excludes.
BeginLaunch ==
    /\ up' = "starting" /\ memory' = ledger
    /\ drain' = [drain EXCEPT !["launch"] = Reading("business")]

Launch ==
    /\ up = "down" /\ restoring = "none"
    /\ BeginLaunch
    /\ UNCHANGED <<durable, faults>>

\* Runtime.Open drains the file outbox.
OpenRuntime ==
    /\ up = "starting" /\ OutboxEmpty("launch")
    /\ up' = "opening"
    /\ drain' = [drain EXCEPT !["launch"] = Reading("file")]
    /\ UNCHANGED <<durable, memory, faults>>

\* Nothing but the completion of a restore runs before the workers are started.
Serve ==
    /\ up = "opening" /\ OutboxEmpty("launch")
    /\ up' = IF restoring = "installed" THEN "completing" ELSE "serving"
    /\ drain' = [drain EXCEPT !["launch"] = Idle]
    /\ UNCHANGED <<durable, memory, faults>>

\* The end of OnTerminate.
Stopped ==
    /\ OutboxEmpty("stop") /\ drain["stop"].box = "business"
    /\ Down
    /\ UNCHANGED <<durable, faults>>

Crash ==
    /\ up # "down" /\ Fault /\ Down
    /\ UNCHANGED durable

\* The business database of the snapshot takes the place of the live one.
SwapDatabase ==
    /\ up = "down" /\ restoring = "none" /\ snapshot.taken /\ auditEpoch < MaxEpoch
    /\ saved' = [NoCopy EXCEPT !.rows = rows["business"], !.drained = drained["business"]]
    /\ rows' = [rows EXCEPT !["business"] = snapshot.rows]
    /\ drained' = [drained EXCEPT !["business"] = snapshot.drained]
    /\ restoring' = "swapped"
    /\ UNCHANGED <<ledger, auditEpoch, events, writes, snapshot, watermark, up,
                   memory, drain, faults>>

PublishHead ==
    /\ restoring = "swapped"
    /\ Insert("file", FileEpoch, rows)
    /\ restoring' = "published"
    /\ UNCHANGED <<drained, ledger, auditEpoch, writes, snapshot, watermark, saved,
                   up, memory, drain, faults>>

\* Mutant: the restored workspace goes on under the old audit epoch.
KeepAuditEpoch ==
    /\ restoring = "published"
    /\ restoring' = "installed"
    /\ BeginLaunch
    /\ UNCHANGED <<rows, drained, ledger, auditEpoch, events, writes, snapshot,
                   watermark, saved, faults>>

\* RotatePersistentAuditEpoch; the same process then starts the services.
RotateAuditEpoch ==
    /\ restoring = "published"
    /\ auditEpoch' = auditEpoch + 1
    /\ restoring' = "installed"
    /\ BeginLaunch
    /\ UNCHANGED <<rows, drained, ledger, events, writes, snapshot, watermark, saved,
                   faults>>

\* A failed step or a crash puts the old database back, but not the old audit
\* epoch; a published head is reverted by another publication.
RollBack ==
    /\ up = "down" /\ restoring # "none"
    /\ IF restoring = "installed" THEN UNCHANGED faults ELSE Fault
    /\ drained' = [drained EXCEPT !["business"] = saved.drained]
    /\ LET back == [rows EXCEPT !["business"] = saved.rows] IN
       IF restoring = "swapped"
       THEN rows' = back /\ UNCHANGED events
       ELSE Insert("file", FileEpoch, back)
    /\ restoring' = "none" /\ saved' = NoCopy
    /\ UNCHANGED <<ledger, auditEpoch, writes, snapshot, watermark, up, memory, drain>>

\* The event of the restore, under a source epoch of its own.
RecordRestore ==
    /\ up = "completing"
    /\ LET row == [event |-> events + 1, number |-> 1,
                   epoch |-> [kind |-> "restore", n |-> auditEpoch]] IN
       ledger' = ledger \cup {row} /\ memory' = memory \cup {row}
    /\ events' = events + 1 /\ up' = "capturing"
    /\ UNCHANGED <<rows, drained, auditEpoch, writes, snapshot, watermark, restoring,
                   saved, drain, faults>>

\* The recovery snapshot, over outboxes the launch has emptied; then the journal
\* is committed and the workers are started.
CompleteRestore ==
    /\ up = "capturing"
    /\ snapshot' = Frozen
    /\ restoring' = "none" /\ saved' = NoCopy /\ up' = "serving"
    /\ UNCHANGED <<rows, drained, ledger, auditEpoch, events, writes, watermark,
                   memory, drain, faults>>

-----------------------------------------------------------------------------
DrainStep(r) ==
    \/ Fetch(r) \/ AppendBatch(r) \/ Acknowledge(r) \/ NextBatch(r)
    \/ DrainRefused(r) \/ NextOutbox(r) \/ Finish(r)

Restore == PublishHead \/ RotateAuditEpoch \/ RollBack \/ RecordRestore \/ CompleteRestore
Progress ==
    Launch \/ OpenRuntime \/ Serve \/ Freeze \/ PublishWatermark \/ Stopped \/ Restore

Next ==
    \/ \E b \in Outbox : Publish(b)
    \/ PublishConflict
    \/ \E r \in Role : Start(r) \/ DrainStep(r) \/ DrainFails(r)
    \/ Progress \/ Crash \/ SwapDatabase

Spec == Init /\ [][Next]_vars

\* Goroutines run on: a drain that has started takes its next step, and a
\* process that is down is launched again.
FairSpec == Spec /\ WF_vars(Progress) /\ \A r \in Role : WF_vars(DrainStep(r))

-----------------------------------------------------------------------------
(* Properties                                                              *)

\* Ledger.appendBatch: in every source epoch the recorded numbers are those
\* from one up (each has its predecessor), each for one event, and no event is
\* recorded twice, whatever is replayed, raced or put back by a restore.
\* Ledger.load fails otherwise.
LedgerHasNoGaps ==
    /\ \A p, q \in ledger : (p.event = q.event \/ (p.epoch = q.epoch /\ p.number = q.number))
                            => p = q
    /\ \A r \in ledger : r.number = 1 \/ \E q \in ledger :
                            q.epoch = r.epoch /\ q.number = r.number - 1

\* Drainer.Drain: "FULL commit precedes every acknowledgement": whatever an
\* outbox has marked drained is in ledger.db, in every state a crash may leave.
DrainedIsRecorded == \A b \in Outbox : drained[b] \subseteq ledger

\* Freeze drains before it copies: the database and the file head of a snapshot
\* hold no mutation that is missing from the audit prefix stored with them,
\* and that prefix stays a part of the ledger.
SnapshotIsAudited ==
    /\ snapshot.rows \cup snapshot.files \subseteq snapshot.prefix
    /\ snapshot.prefix \subseteq ledger

\* Runtime.Drain: a published high-watermark covers every row of both outboxes,
\* durably.
WatermarkCoversOutboxes ==
    [][watermark' # watermark =>
         rows'["business"] \cup rows'["file"] \subseteq watermark' /\ watermark' \subseteq ledger']_vars

\* publishConflict has left a row: its head revision is missing from the numbers
\* of the source epoch of ordinary file rows, and starts its own anywhere.
ConflictPublished == \E r \in rows["file"] : r.epoch = ConflictEpoch

\* What an outbox holds back can always be appended to the ledger as it is: no
\* crash, replay, restore or rollback makes the ledger refuse a pending row for
\* good.  After a conflict publication it may: the ledger finds a gap.
OutboxIsDrainable ==
    ~ConflictPublished => \A b \in Outbox : Fits(ledger, rows[b] \ drained[b])

\* The workspace comes back: launches do not fail on the outboxes for ever,
\* unless a conflict was published.
LaunchServes == []<>(up = "serving" \/ ConflictPublished)
-----------------------------------------------------------------------------
(* Why the safety properties hold                                          *)

\* What the business databases that a restore may put back have drained.
CopiesAreRecorded == saved.drained \cup snapshot.drained \subseteq ledger

\* Ledger.records is a part of ledger.db and knows whatever has been drained.
MemoryIsLoaded ==
    /\ memory \subseteq ledger
    /\ up = "down" => memory = {} /\ drain = [r \in Role |-> Idle]
    /\ up # "down" => \A b \in Outbox : drained[b] \subseteq memory

\* A batch comes from its outbox, and is acknowledged when it is recorded.
BatchesAreRecorded ==
    \A r \in Role :
        /\ drain[r].pc \in {"idle", "fetch"} => drain[r].batch = {}
        /\ drain[r].batch \subseteq rows[drain[r].box]
        /\ drain[r].pc = "ack" => drain[r].batch \subseteq memory

\* Who holds the gate and is done with the business outbox leaves it empty.
GateKeepsOutboxEmpty ==
    \A r \in {"freeze", "close"} :
        drain[r].pc # "idle" /\ drain[r].box = "file" => Pending("business") = {}

\* So does a launch, before anything is served.
LaunchHasDrained ==
    /\ drain["launch"].pc # "idle" <=> up \in {"starting", "opening"}
    /\ up = "starting" => drain["launch"].box = "business"
    /\ up = "opening" => drain["launch"].box = "file" /\ Pending("business") = {}
    /\ up \in {"completing", "capturing"} => \A b \in Outbox : Pending(b) = {}

\* Databases are swapped while nothing runs.
RestoreIsOffline ==
    restoring \in {"swapped", "published"} => up = "down" /\ auditEpoch < MaxEpoch

\* Every row there is, the ones a restore may bring back included.
Known == ledger \cup rows["business"] \cup rows["file"] \cup saved.rows \cup snapshot.rows

EventsAreUnique ==
    /\ \A p \in Known : p.event <= events
    /\ \A p, q \in Known : p.event = q.event => p = q

\* The source epoch of a restore's event is new when the event is recorded.
RestoreEpochIsFresh ==
    /\ \A b \in Outbox : \A p \in rows[b] : p.epoch.kind # "restore"
    /\ \A p \in saved.rows \cup snapshot.rows : p.epoch.kind # "restore"
    /\ \A p \in ledger : p.epoch.kind = "restore" => p.epoch.n <= auditEpoch
    /\ up = "completing" => restoring = "installed"
    /\ restoring = "installed" /\ up \in {"starting", "opening", "completing"} =>
         \A p \in ledger : p.epoch # [kind |-> "restore", n |-> auditEpoch]

\* The inductive invariant behind the safety properties: types, what drained
\* rows, batches and copies have in the ledger, what whoever holds the gate or
\* launches has emptied, and the uniqueness of events and restore epochs.
Inductive ==
    /\ TypeOK /\ LedgerHasNoGaps /\ DrainedIsRecorded /\ SnapshotIsAudited
    /\ CopiesAreRecorded /\ MemoryIsLoaded /\ BatchesAreRecorded
    /\ GateKeepsOutboxEmpty /\ LaunchHasDrained /\ RestoreIsOffline
    /\ EventsAreUnique /\ RestoreEpochIsFresh
=============================================================================
