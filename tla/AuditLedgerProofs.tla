-------------------------- MODULE AuditLedgerProofs --------------------------
(***************************************************************************)
(* The safety properties of AuditLedger, for every batch size and every    *)
(* bound.  One lemma per action shows that it preserves Inductive.  A      *)
(* second invariant, on the numbers of the rows, rests on the first and    *)
(* shows that what is pending can be appended.                             *)
(***************************************************************************)
EXTENDS AuditLedger, WellFoundedInduction, TLAPS

-----------------------------------------------------------------------------
(* Facts shared by the actions                                             *)

\* A step that leaves the databases and the audit epoch alone keeps what
\* Inductive says of them.
LEMMA DatabasesUntouched ==
    ASSUME Inductive, UNCHANGED durable
    PROVE  /\ LedgerHasNoGaps' /\ DrainedIsRecorded' /\ SnapshotIsAudited'
           /\ CopiesAreRecorded' /\ EventsAreUnique'
  BY DEF Inductive, durable, LedgerHasNoGaps, DrainedIsRecorded, SnapshotIsAudited,
         CopiesAreRecorded, EventsAreUnique, Known

\* The initial state.
LEMMA InitInductive == Init => Inductive
  <1> SUFFICES ASSUME Init PROVE Inductive
    OBVIOUS
  <1>1. TypeOK
    BY LedgerAssumption DEF Init, TypeOK, Outbox, Role, Idle, At, NoCopy, Copy, Row, Epoch
  <1>2. /\ LedgerHasNoGaps /\ DrainedIsRecorded /\ SnapshotIsAudited
        /\ CopiesAreRecorded /\ RestoreIsOffline /\ EventsAreUnique
    BY DEF Init, Outbox, NoCopy, LedgerHasNoGaps, DrainedIsRecorded, SnapshotIsAudited,
           CopiesAreRecorded, RestoreIsOffline, EventsAreUnique, Known
  <1>3. MemoryIsLoaded /\ BatchesAreRecorded /\ GateKeepsOutboxEmpty /\ LaunchHasDrained
    BY DEF Init, Outbox, Role, Idle, At, Pending, MemoryIsLoaded, BatchesAreRecorded,
           GateKeepsOutboxEmpty, LaunchHasDrained
  <1>4. RestoreEpochIsFresh
    BY DEF Init, Outbox, NoCopy, RestoreEpochIsFresh
  <1> QED
    BY <1>1, <1>2, <1>3, <1>4 DEF Inductive

\* A step of a drain that changes nothing but where the drain is.
LEMMA StartStep ==
    ASSUME Inductive, NEW r \in Role, Start(r)
    PROVE  Inductive'
  <1>1. TypeOK'
    BY DEF Inductive, TypeOK, Start, durable, Reading, At, FirstOutbox, Outbox
  <1>2. MemoryIsLoaded'
    BY DEF Inductive, TypeOK, Start, durable, MemoryIsLoaded
  <1>3. BatchesAreRecorded'
    BY DEF Inductive, TypeOK, Start, durable, Reading, At, FirstOutbox, Outbox, BatchesAreRecorded
  <1>4. GateKeepsOutboxEmpty'
    BY DEF Inductive, TypeOK, Start, durable, Reading, At, FirstOutbox, Role, Pending, GateKeepsOutboxEmpty
  <1>5. LaunchHasDrained'
    BY DEF Inductive, TypeOK, Start, durable, Pending, Role, LaunchHasDrained
  <1>6. RestoreIsOffline' /\ RestoreEpochIsFresh'
    BY DEF Inductive, Start, durable, RestoreIsOffline, RestoreEpochIsFresh
  <1> QED
    BY <1>1, <1>2, <1>3, <1>4, <1>5, <1>6, DatabasesUntouched DEF Inductive, Start

\* A batch is read from the outbox.
LEMMA FetchStep ==
    ASSUME Inductive, NEW r \in Role, Fetch(r)
    PROVE  Inductive'
  <1>1. TypeOK'
    BY DEF Inductive, TypeOK, Fetch, durable, At, Pending, Outbox
  <1>2. MemoryIsLoaded' /\ RestoreIsOffline' /\ RestoreEpochIsFresh'
    BY DEF Inductive, TypeOK, Fetch, durable, At, Pending, Idle, MemoryIsLoaded, RestoreIsOffline,
           RestoreEpochIsFresh
  <1>3. BatchesAreRecorded'
    BY DEF Inductive, TypeOK, Fetch, durable, At, Pending, Outbox, BatchesAreRecorded
  <1>4. GateKeepsOutboxEmpty'
    BY DEF Inductive, TypeOK, Fetch, durable, At, Pending, Role, GateKeepsOutboxEmpty
  <1>5. LaunchHasDrained'
    BY DEF Inductive, TypeOK, Fetch, durable, At, Pending, Role, LaunchHasDrained
  <1> QED
    BY <1>1, <1>2, <1>3, <1>4, <1>5, DatabasesUntouched DEF Inductive, Fetch

\* The batch is acknowledged.
LEMMA NextBatchStep ==
    ASSUME Inductive, NEW r \in Role, NextBatch(r)
    PROVE  Inductive'
  <1>1. TypeOK'
    BY DEF Inductive, TypeOK, NextBatch, durable, Reading, At, Outbox
  <1>2. MemoryIsLoaded' /\ RestoreIsOffline' /\ RestoreEpochIsFresh'
    BY DEF Inductive, TypeOK, NextBatch, durable, Reading, At, Idle, MemoryIsLoaded, RestoreIsOffline,
           RestoreEpochIsFresh
  <1>3. BatchesAreRecorded'
    BY DEF Inductive, TypeOK, NextBatch, durable, Reading, At, Outbox, BatchesAreRecorded
  <1>4. GateKeepsOutboxEmpty'
    BY DEF Inductive, TypeOK, NextBatch, durable, Reading, At, Role, Outbox, Pending, GateKeepsOutboxEmpty
  <1>5. LaunchHasDrained'
    BY DEF Inductive, TypeOK, NextBatch, durable, Reading, At, Role, Pending, LaunchHasDrained
  <1> QED
    BY <1>1, <1>2, <1>3, <1>4, <1>5, DatabasesUntouched DEF Inductive, NextBatch

\* The first outbox is empty.
LEMMA NextOutboxStep ==
    ASSUME Inductive, NEW r \in Role, NextOutbox(r)
    PROVE  Inductive'
  <1>1. TypeOK'
    BY DEF Inductive, TypeOK, NextOutbox, durable, OutboxEmpty, LastOutbox, Reading, At, Outbox
  <1>2. MemoryIsLoaded' /\ RestoreIsOffline' /\ RestoreEpochIsFresh'
    BY DEF Inductive, TypeOK, NextOutbox, durable, OutboxEmpty, LastOutbox, Reading, At, Idle, MemoryIsLoaded, RestoreIsOffline,
           RestoreEpochIsFresh
  <1>3. BatchesAreRecorded'
    BY DEF Inductive, TypeOK, NextOutbox, durable, OutboxEmpty, LastOutbox, Reading, At, Outbox, BatchesAreRecorded
  <1>4. GateKeepsOutboxEmpty'
    BY DEF Inductive, TypeOK, NextOutbox, durable, OutboxEmpty, LastOutbox, Reading, At, Role, Outbox, Pending, GateKeepsOutboxEmpty
  <1>5. LaunchHasDrained'
    BY DEF Inductive, TypeOK, NextOutbox, durable, OutboxEmpty, LastOutbox, Reading, At, Role, Pending, LaunchHasDrained
  <1> QED
    BY <1>1, <1>2, <1>3, <1>4, <1>5, DatabasesUntouched DEF Inductive, NextOutbox

\* A read or a file command is done.
LEMMA FinishStep ==
    ASSUME Inductive, NEW r \in Role, Finish(r)
    PROVE  Inductive'
  <1>1. TypeOK'
    BY DEF Inductive, TypeOK, Finish, durable, OutboxEmpty, Idle, At, Outbox
  <1>2. MemoryIsLoaded' /\ RestoreIsOffline' /\ RestoreEpochIsFresh'
    BY DEF Inductive, TypeOK, Finish, durable, OutboxEmpty, Idle, At, MemoryIsLoaded, RestoreIsOffline,
           RestoreEpochIsFresh
  <1>3. BatchesAreRecorded'
    BY DEF Inductive, TypeOK, Finish, durable, OutboxEmpty, Idle, At, Outbox, BatchesAreRecorded
  <1>4. GateKeepsOutboxEmpty'
    BY DEF Inductive, TypeOK, Finish, durable, OutboxEmpty, Idle, At, Role, Outbox, Pending, GateKeepsOutboxEmpty
  <1>5. LaunchHasDrained'
    BY DEF Inductive, TypeOK, Finish, durable, OutboxEmpty, Idle, At, Role, Pending, LaunchHasDrained
  <1> QED
    BY <1>1, <1>2, <1>3, <1>4, <1>5, DatabasesUntouched DEF Inductive, Finish

\* Recording a batch: the checks of appendBatch keep the numbers of every source
\* epoch contiguous and the events unique, and the new records are outbox rows.
LEMMA LedgerGrows ==
    ASSUME Inductive, NEW r \in Role, drain[r].pc = "append",
           Acceptable(drain[r].batch), New(drain[r].batch) = {} \/ memory = ledger,
           ledger' = ledger \cup New(drain[r].batch),
           UNCHANGED <<rows, drained, auditEpoch, events, snapshot, saved>>
    PROVE  /\ LedgerHasNoGaps' /\ DrainedIsRecorded' /\ SnapshotIsAudited'
           /\ CopiesAreRecorded' /\ EventsAreUnique'
           /\ ledger' \in SUBSET Row
           /\ \A p \in ledger' : p \in ledger \/ p.epoch.kind # "restore"
  <1> DEFINE N == New(drain[r].batch)
  <1>1. /\ N \subseteq drain[r].batch /\ drain[r].batch \subseteq rows[drain[r].box]
        /\ drain[r].box \in Outbox /\ rows[drain[r].box] \subseteq Row
    BY DEF Inductive, TypeOK, New, NewTo, BatchesAreRecorded
  <1>2. N \subseteq Known /\ ledger \subseteq Known /\ N \subseteq Row /\ ledger \subseteq Row
    BY <1>1 DEF Inductive, TypeOK, Known, Outbox
  <1>3. \A p, q \in ledger' : p.event = q.event => p = q
    BY <1>2 DEF Inductive, EventsAreUnique
  <1>4. CASE N = {}
    BY <1>4, <1>2 DEF Inductive, LedgerHasNoGaps, DrainedIsRecorded, SnapshotIsAudited,
         CopiesAreRecorded, EventsAreUnique, Known
  <1>5. CASE memory = ledger
    <2>1. \A p \in N : /\ p.number = 1 \/ \E q \in ledger \cup N :
                                           q.epoch = p.epoch /\ q.number = p.number - 1
                       /\ \A q \in ledger : q.epoch = p.epoch => q.number < p.number
                       /\ \A q \in N : q.epoch = p.epoch /\ q.number = p.number => q = p
      BY <1>5 DEF Acceptable, Fits, IsNext, Numbers, New
    <2>2. LedgerHasNoGaps'
      <3>1. \A p, q \in ledger' : p.epoch = q.epoch /\ p.number = q.number => p = q
        BY <2>1, <1>2 DEF Inductive, LedgerHasNoGaps, Row
      <3>2. \A p \in ledger' : p.number = 1 \/ \E q \in ledger' :
                                 q.epoch = p.epoch /\ q.number = p.number - 1
        BY <2>1 DEF Inductive, LedgerHasNoGaps
      <3> QED
        BY <1>3, <3>1, <3>2 DEF LedgerHasNoGaps
    <2>3. EventsAreUnique'
      <3>1. Known' = Known
        BY <1>2 DEF Known
      <3> QED
        BY <3>1 DEF Inductive, EventsAreUnique
    <2>4. DrainedIsRecorded' /\ SnapshotIsAudited' /\ CopiesAreRecorded'
      BY DEF Inductive, DrainedIsRecorded, SnapshotIsAudited, CopiesAreRecorded
    <2>5. \A p \in N : p.epoch.kind # "restore"
      BY <1>1 DEF Inductive, RestoreEpochIsFresh
    <2> QED
      BY <2>2, <2>3, <2>4, <2>5, <1>2
  <1> QED
    BY <1>4, <1>5

\* The end of the process, in whatever state the databases are, given that the
\* ledger may have grown by the rows of a batch.
LEMMA DownKeeps ==
    ASSUME Inductive, Down, faults' \in Nat,
           UNCHANGED <<rows, drained, auditEpoch, events, writes, snapshot, watermark,
                       restoring, saved>>,
           /\ LedgerHasNoGaps' /\ DrainedIsRecorded' /\ SnapshotIsAudited'
           /\ CopiesAreRecorded' /\ EventsAreUnique'
           /\ ledger' \in SUBSET Row
           /\ \A p \in ledger' : p \in ledger \/ p.epoch.kind # "restore"
    PROVE  Inductive'
  <1>1. TypeOK'
    BY DEF Inductive, TypeOK, Down, Idle, At, Outbox
  <1>2. /\ MemoryIsLoaded' /\ RestoreIsOffline' /\ BatchesAreRecorded'
        /\ GateKeepsOutboxEmpty' /\ LaunchHasDrained'
    BY DEF Inductive, Down, Idle, At, Role, MemoryIsLoaded, RestoreIsOffline,
           BatchesAreRecorded, GateKeepsOutboxEmpty, LaunchHasDrained
  <1>3. RestoreEpochIsFresh'
    BY DEF Inductive, Down, RestoreEpochIsFresh
  <1> QED
    BY <1>1, <1>2, <1>3 DEF Inductive

\* A failure that the process survives.
LEMMA FailKeeps ==
    ASSUME Inductive, NEW r \in Role, Fail(r), drain[r].pc # "idle", faults' \in Nat,
           UNCHANGED <<rows, drained, auditEpoch, events, writes, snapshot, watermark,
                       restoring, saved>>,
           ledger \subseteq ledger',
           /\ LedgerHasNoGaps' /\ DrainedIsRecorded' /\ SnapshotIsAudited'
           /\ CopiesAreRecorded' /\ EventsAreUnique'
           /\ ledger' \in SUBSET Row
           /\ \A p \in ledger' : p \in ledger \/ p.epoch.kind # "restore"
    PROVE  Inductive'
  <1>1. CASE Down
    BY <1>1, DownKeeps
  <1>2. CASE ~Down
    <2>1. /\ UNCHANGED <<up, memory>> /\ r # "launch"
          /\ \/ drain' = [drain EXCEPT ![r] = Idle]
             \/ drain' = [drain EXCEPT ![r] = Reading("business")] /\ r = "stop"
      BY <1>2 DEF Fail
    <2>2. TypeOK'
      BY <2>1 DEF Inductive, TypeOK, Idle, Reading, At, Outbox
    <2>3. MemoryIsLoaded' /\ RestoreIsOffline'
      BY <2>1 DEF Inductive, TypeOK, Idle, At, MemoryIsLoaded, RestoreIsOffline
    <2>4. BatchesAreRecorded'
      BY <2>1 DEF Inductive, TypeOK, Idle, Reading, At, Outbox, BatchesAreRecorded
    <2>5. GateKeepsOutboxEmpty' /\ LaunchHasDrained'
      BY <2>1 DEF Inductive, TypeOK, Idle, Reading, At, Role, Pending,
                  GateKeepsOutboxEmpty, LaunchHasDrained
    <2>6. RestoreEpochIsFresh'
      BY <2>1 DEF Inductive, RestoreEpochIsFresh
    <2> QED
      BY <2>2, <2>3, <2>4, <2>5, <2>6 DEF Inductive
  <1> QED
    BY <1>1, <1>2

\* A refused batch or acknowledgement.
LEMMA DrainRefusedStep ==
    ASSUME Inductive, NEW r \in Role, DrainRefused(r)
    PROVE  Inductive'
  <1>1. /\ drain[r].pc # "idle" /\ faults' \in Nat /\ UNCHANGED durable
        /\ ledger' \in SUBSET Row /\ ledger' = ledger /\ Fail(r)
    BY DEF Inductive, TypeOK, DrainRefused, Refused, durable
  <1> QED
    BY <1>1, DatabasesUntouched, FailKeeps DEF durable

\* A failed step, a commit with an error included.
LEMMA DrainFailsStep ==
    ASSUME Inductive, NEW r \in Role, DrainFails(r)
    PROVE  Inductive'
  <1>1. drain[r].pc # "idle" /\ faults' \in Nat /\ Fail(r)
    BY DEF Inductive, TypeOK, DrainFails, Fault
  <1>2. CASE ledger' = ledger
    <2>1. UNCHANGED durable /\ ledger' \in SUBSET Row
      BY <1>2 DEF Inductive, TypeOK, DrainFails, durable
    <2> QED
      BY <1>1, <2>1, DatabasesUntouched, FailKeeps DEF durable
  <1>3. CASE /\ drain[r].pc = "append" /\ Acceptable(drain[r].batch) /\ memory = ledger
             /\ ledger' = ledger \cup New(drain[r].batch)
    BY <1>1, <1>3, LedgerGrows, FailKeeps DEF DrainFails
  <1> QED
    BY <1>2, <1>3 DEF DrainFails

\* The end of an orderly shutdown, and a crash.
LEMMA EndStep ==
    ASSUME Inductive, Stopped \/ Crash
    PROVE  Inductive'
  <1>1. /\ Down /\ faults' \in Nat /\ UNCHANGED durable /\ ledger' \in SUBSET Row
    BY DEF Inductive, TypeOK, Stopped, Crash, Fault, durable
  <1> QED
    BY <1>1, DatabasesUntouched, DownKeeps DEF durable

\* The commit of a batch: afterwards the memory has every row of it.
LEMMA AppendBatchStep ==
    ASSUME Inductive, NEW r \in Role, AppendBatch(r)
    PROVE  Inductive'
  <1>1. /\ LedgerHasNoGaps' /\ DrainedIsRecorded' /\ SnapshotIsAudited'
        /\ CopiesAreRecorded' /\ EventsAreUnique'
        /\ ledger' \in SUBSET Row
        /\ \A p \in ledger' : p \in ledger \/ p.epoch.kind # "restore"
    BY LedgerGrows DEF AppendBatch
  <1>2. drain[r].batch \subseteq memory'
    BY DEF AppendBatch, Acceptable, Fits, New, NewTo
  <1>3. /\ memory \subseteq memory' /\ memory' \subseteq ledger' /\ memory' \in SUBSET Row
        /\ up # "down"
    BY <1>1 DEF Inductive, TypeOK, AppendBatch, MemoryIsLoaded, Idle, At
  <1>4. TypeOK'
    BY <1>1, <1>3 DEF Inductive, TypeOK, AppendBatch, At
  <1>5. MemoryIsLoaded' /\ RestoreIsOffline'
    BY <1>3 DEF Inductive, AppendBatch, MemoryIsLoaded, RestoreIsOffline
  <1>6. BatchesAreRecorded'
    BY <1>2, <1>3 DEF Inductive, TypeOK, AppendBatch, At, BatchesAreRecorded
  <1>7. GateKeepsOutboxEmpty' /\ LaunchHasDrained'
    BY DEF Inductive, TypeOK, AppendBatch, At, Role, Pending, GateKeepsOutboxEmpty,
           LaunchHasDrained
  <1>8. RestoreEpochIsFresh'
    BY <1>1 DEF Inductive, AppendBatch, RestoreEpochIsFresh
  <1> QED
    BY <1>1, <1>4, <1>5, <1>6, <1>7, <1>8 DEF Inductive

\* An acknowledged row is in the memory, hence in the ledger.
LEMMA AcknowledgeStep ==
    ASSUME Inductive, NEW r \in Role, Acknowledge(r)
    PROVE  Inductive'
  <1>1. PICK row \in drain[r].batch :
          /\ drained' = [drained EXCEPT ![drain[r].box] = @ \cup {row}]
          /\ drain' = [drain EXCEPT ![r] = At("ack", drain[r].box, drain[r].batch \ {row})]
    BY DEF Acknowledge
  <1>2. /\ row \in memory /\ row \in ledger /\ row \in Row /\ up # "down"
        /\ drain[r].box \in Outbox
    BY DEF Inductive, TypeOK, Acknowledge, BatchesAreRecorded, MemoryIsLoaded, Idle, At
  <1>3. TypeOK'
    BY <1>1, <1>2 DEF Inductive, TypeOK, Acknowledge, At
  <1>4. /\ LedgerHasNoGaps' /\ SnapshotIsAudited' /\ CopiesAreRecorded' /\ EventsAreUnique'
        /\ RestoreIsOffline' /\ RestoreEpochIsFresh'
    BY DEF Inductive, Acknowledge, LedgerHasNoGaps, SnapshotIsAudited, CopiesAreRecorded,
           EventsAreUnique, Known, RestoreIsOffline, RestoreEpochIsFresh
  <1>5. DrainedIsRecorded' /\ MemoryIsLoaded'
    BY <1>1, <1>2 DEF Inductive, TypeOK, Acknowledge, DrainedIsRecorded, MemoryIsLoaded
  <1>6. BatchesAreRecorded'
    BY <1>1 DEF Inductive, TypeOK, Acknowledge, At, BatchesAreRecorded
  <1>7. GateKeepsOutboxEmpty' /\ LaunchHasDrained'
    <2>1. \A b \in Outbox : Pending(b) = {} => Pending(b)' = {}
      BY <1>1, <1>2 DEF Inductive, TypeOK, Acknowledge, Pending
    <2> QED
      BY <1>1, <2>1 DEF Inductive, TypeOK, Acknowledge, At, Role, Outbox,
                        GateKeepsOutboxEmpty, LaunchHasDrained
  <1> QED
    BY <1>3, <1>4, <1>5, <1>6, <1>7 DEF Inductive

\* A new row has a new event and no epoch of a restore.
LEMMA InsertKeeps ==
    ASSUME Inductive, NEW b \in Outbox, NEW e \in Epoch, e.kind # "restore",
           NEW others \in [Outbox -> SUBSET Row], Insert(b, e, others),
           \A c \in Outbox : others[c] \subseteq Known,
           \A c \in Outbox : \A p \in others[c] : p.epoch.kind # "restore",
           saved'.rows \subseteq Known, UNCHANGED <<ledger, snapshot>>
    PROVE  /\ rows' \in [Outbox -> SUBSET Row] /\ events' \in Nat
           /\ EventsAreUnique'
           /\ \A c \in Outbox : \A p \in rows'[c] : p.epoch.kind # "restore"
           /\ \A c \in Outbox : others[c] \subseteq rows'[c] /\ (c # b => rows'[c] = others[c])
  <1>1. PICK n \in 1..(events + 1) :
          rows' = [others EXCEPT ![b] = @ \cup
                    {[event |-> events + 1, epoch |-> e, number |-> n]}]
    BY DEF Insert
  <1> DEFINE row == [event |-> events + 1, epoch |-> e, number |-> n]
  <1>2. row \in Row /\ events' = events + 1 /\ events \in Nat
    BY DEF Insert, Inductive, TypeOK, Row
  <1>3. rows' \in [Outbox -> SUBSET Row]
    BY <1>1, <1>2
  <1>4. \A c \in Outbox : rows'[c] = IF c = b THEN others[c] \cup {row} ELSE others[c]
    BY <1>1
  <1>5. Known' \subseteq Known \cup {row}
    BY <1>4 DEF Known, Outbox
  <1>6. Known \subseteq Row
    BY DEF Inductive, TypeOK, Known, Copy, Outbox
  <1>7. EventsAreUnique'
    BY <1>2, <1>5, <1>6 DEF Inductive, EventsAreUnique, Row
  <1> QED
    BY <1>2, <1>3, <1>4, <1>7

\* The mutations of clients happen while nobody holds the gate.
LEMMA PublishStep ==
    ASSUME Inductive, (\E b \in Outbox : Publish(b)) \/ PublishConflict
    PROVE  Inductive'
  <1>1. PICK b \in Outbox, e \in Epoch : Insert(b, e, rows) /\ e.kind # "restore"
    BY LedgerAssumption DEF Inductive, TypeOK, Publish, PublishConflict, BusinessEpoch, FileEpoch,
           ConflictEpoch, Epoch, Outbox
  <1>2. /\ up = "serving" /\ GateFree /\ writes' = writes + 1
        /\ UNCHANGED <<drained, ledger, auditEpoch, snapshot, watermark, restoring, saved,
                       up, memory, drain, faults>>
    BY DEF Publish, PublishConflict, ClientWrite
  <1>3. /\ rows' \in [Outbox -> SUBSET Row] /\ events' \in Nat
        /\ EventsAreUnique'
        /\ \A c \in Outbox : \A p \in rows'[c] : p.epoch.kind # "restore"
        /\ \A c \in Outbox : rows[c] \subseteq rows'[c]
    <2>1. /\ rows \in [Outbox -> SUBSET Row] /\ saved'.rows \subseteq Known
          /\ \A c \in Outbox : rows[c] \subseteq Known
          /\ \A c \in Outbox : \A p \in rows[c] : p.epoch.kind # "restore"
      BY <1>2 DEF Inductive, TypeOK, Known, Outbox, RestoreEpochIsFresh
    <2> QED
      BY <1>1, <1>2, <2>1, InsertKeeps
  <1>4. TypeOK'
    BY <1>2, <1>3 DEF Inductive, TypeOK
  <1>5. /\ LedgerHasNoGaps' /\ DrainedIsRecorded' /\ SnapshotIsAudited'
        /\ CopiesAreRecorded' /\ MemoryIsLoaded' /\ RestoreIsOffline'
    BY <1>2 DEF Inductive, LedgerHasNoGaps, DrainedIsRecorded, SnapshotIsAudited,
                CopiesAreRecorded, MemoryIsLoaded, RestoreIsOffline
  <1>6. BatchesAreRecorded'
    BY <1>2, <1>3 DEF Inductive, TypeOK, BatchesAreRecorded
  <1>7. GateKeepsOutboxEmpty' /\ LaunchHasDrained'
    BY <1>2 DEF Inductive, GateFree, GateKeepsOutboxEmpty, LaunchHasDrained
  <1>8. RestoreEpochIsFresh'
    BY <1>2, <1>3 DEF Inductive, RestoreEpochIsFresh
  <1> QED
    BY <1>3, <1>4, <1>5, <1>6, <1>7, <1>8 DEF Inductive

-----------------------------------------------------------------------------
(* What a drain is for                                                     *)

\* Both outboxes are empty, and what they have drained is in the memory.
LEMMA EmptyOutboxesAreRecorded ==
    ASSUME Inductive, up # "down", \A b \in Outbox : Pending(b) = {}
    PROVE  rows["business"] \cup rows["file"] \subseteq memory
  BY DEF Inductive, TypeOK, MemoryIsLoaded, Pending, Outbox

\* A holder of the gate at the end of its drain has emptied both outboxes.
LEMMA GateHolderIsDone ==
    ASSUME Inductive, NEW r \in {"freeze", "close"}, OutboxEmpty(r), drain[r].box = "file"
    PROVE  rows["business"] \cup rows["file"] \subseteq memory /\ up # "down"
  <1>1. up # "down"
    BY DEF Inductive, OutboxEmpty, MemoryIsLoaded, Idle, At, Role
  <1>2. \A b \in Outbox : Pending(b) = {}
    BY DEF Inductive, OutboxEmpty, GateKeepsOutboxEmpty, Outbox
  <1> QED
    BY <1>1, <1>2, EmptyOutboxesAreRecorded

\* The snapshot is taken.
LEMMA FreezeStep ==
    ASSUME Inductive, Freeze
    PROVE  Inductive'
  <1>1. rows["business"] \cup rows["file"] \subseteq memory /\ up # "down"
    BY GateHolderIsDone DEF Freeze
  <1>2. TypeOK'
    BY DEF Inductive, TypeOK, Freeze, Frozen, Copy, Idle, At, Outbox
  <1>3. SnapshotIsAudited' /\ CopiesAreRecorded'
    BY <1>1 DEF Inductive, Freeze, Frozen, SnapshotIsAudited, CopiesAreRecorded,
                DrainedIsRecorded, MemoryIsLoaded, Outbox
  <1>4. LedgerHasNoGaps' /\ DrainedIsRecorded' /\ RestoreIsOffline' /\ MemoryIsLoaded'
    BY <1>1 DEF Inductive, Freeze, LedgerHasNoGaps, DrainedIsRecorded, RestoreIsOffline,
                MemoryIsLoaded
  <1>5. BatchesAreRecorded' /\ GateKeepsOutboxEmpty' /\ LaunchHasDrained'
    BY DEF Inductive, TypeOK, Freeze, Idle, At, Role, Outbox, Pending, BatchesAreRecorded,
           GateKeepsOutboxEmpty, LaunchHasDrained
  <1>6. EventsAreUnique'
    <2>1. Known' \subseteq Known
      BY DEF Freeze, Frozen, Known
    <2> QED
      BY <2>1 DEF Inductive, Freeze, EventsAreUnique
  <1>7. RestoreEpochIsFresh'
    BY DEF Inductive, Freeze, Frozen, Outbox, RestoreEpochIsFresh
  <1> QED
    BY <1>2, <1>3, <1>4, <1>5, <1>6, <1>7 DEF Inductive

\* The high-watermark is published.
LEMMA PublishWatermarkStep ==
    ASSUME Inductive, PublishWatermark
    PROVE  Inductive'
  <1>1. up # "down"
    BY GateHolderIsDone DEF PublishWatermark
  <1>2. TypeOK'
    BY DEF Inductive, TypeOK, PublishWatermark, Idle, At, Outbox
  <1>3. /\ LedgerHasNoGaps' /\ DrainedIsRecorded' /\ SnapshotIsAudited' /\ CopiesAreRecorded'
        /\ EventsAreUnique' /\ RestoreIsOffline' /\ RestoreEpochIsFresh' /\ MemoryIsLoaded'
    BY <1>1 DEF Inductive, PublishWatermark, LedgerHasNoGaps, DrainedIsRecorded,
                SnapshotIsAudited, CopiesAreRecorded, EventsAreUnique, Known,
                RestoreIsOffline, RestoreEpochIsFresh, MemoryIsLoaded
  <1>4. BatchesAreRecorded' /\ GateKeepsOutboxEmpty' /\ LaunchHasDrained'
    BY DEF Inductive, TypeOK, PublishWatermark, Idle, At, Role, Outbox, Pending,
           BatchesAreRecorded, GateKeepsOutboxEmpty, LaunchHasDrained
  <1> QED
    BY <1>2, <1>3, <1>4 DEF Inductive

-----------------------------------------------------------------------------
(* Launch and restore                                                      *)

\* What the launch of a process establishes.
LEMMA BeginLaunchKeeps ==
    ASSUME Inductive, up = "down", BeginLaunch, UNCHANGED <<rows, drained, ledger>>
    PROVE  /\ drain' \in [Role -> [pc : {"idle", "fetch", "append", "ack"},
                                   box : Outbox, batch : SUBSET Row]]
           /\ memory' \in SUBSET Row
           /\ MemoryIsLoaded' /\ BatchesAreRecorded' /\ GateKeepsOutboxEmpty'
           /\ LaunchHasDrained'
  <1>1. drain = [r \in Role |-> Idle]
    BY DEF Inductive, MemoryIsLoaded
  <1>2. drain' = [r \in Role |-> IF r = "launch" THEN Reading("business") ELSE Idle]
    BY <1>1 DEF BeginLaunch
  <1>3. /\ drain' \in [Role -> [pc : {"idle", "fetch", "append", "ack"},
                                box : Outbox, batch : SUBSET Row]]
        /\ memory' \in SUBSET Row
    <2>1. {Idle, Reading("business")} \subseteq
            [pc : {"idle", "fetch", "append", "ack"}, box : Outbox, batch : SUBSET Row]
      BY DEF Reading, Idle, At, Outbox
    <2>2. memory' \in SUBSET Row
      BY DEF Inductive, TypeOK, BeginLaunch
    <2> QED
      BY <1>2, <2>1, <2>2
  <1>4. MemoryIsLoaded'
    BY DEF Inductive, BeginLaunch, MemoryIsLoaded, DrainedIsRecorded
  <1>5. BatchesAreRecorded'
    BY <1>2 DEF BatchesAreRecorded, Reading, Idle, At
  <1>6. GateKeepsOutboxEmpty' /\ LaunchHasDrained'
    BY <1>2 DEF BeginLaunch, GateKeepsOutboxEmpty, LaunchHasDrained, Role, Reading, Idle, At
  <1> QED
    BY <1>3, <1>4, <1>5, <1>6

\* A launch without a restore.
LEMMA LaunchStep ==
    ASSUME Inductive, Launch
    PROVE  Inductive'
  <1>1. /\ up = "down" /\ restoring = "none" /\ BeginLaunch /\ UNCHANGED durable
        /\ UNCHANGED <<rows, drained, ledger>>
    BY DEF Launch, durable
  <1>2. TypeOK'
    BY <1>1, BeginLaunchKeeps DEF Inductive, TypeOK, Launch, BeginLaunch, durable
  <1>3. RestoreIsOffline' /\ RestoreEpochIsFresh'
    BY <1>1 DEF Inductive, BeginLaunch, durable, RestoreIsOffline, RestoreEpochIsFresh
  <1> QED
    BY <1>1, <1>2, <1>3, BeginLaunchKeeps, DatabasesUntouched DEF Inductive

\* The business outbox is drained at launch.
LEMMA OpenRuntimeStep ==
    ASSUME Inductive, OpenRuntime
    PROVE  Inductive'
  <1>1. TypeOK'
    BY DEF Inductive, TypeOK, OpenRuntime, durable, Reading, At, Outbox
  <1>2. MemoryIsLoaded' /\ RestoreIsOffline' /\ RestoreEpochIsFresh'
    BY DEF Inductive, OpenRuntime, durable, MemoryIsLoaded, RestoreIsOffline,
           RestoreEpochIsFresh
  <1>3. BatchesAreRecorded' /\ GateKeepsOutboxEmpty'
    BY DEF Inductive, TypeOK, OpenRuntime, durable, Reading, At, Role, Outbox, Pending,
           BatchesAreRecorded, GateKeepsOutboxEmpty
  <1>4. LaunchHasDrained'
    <2>1. Pending("business") = {}
      BY DEF Inductive, OpenRuntime, OutboxEmpty, LaunchHasDrained
    <2> QED
      BY <2>1 DEF Inductive, TypeOK, OpenRuntime, durable, Reading, At, Role, Pending,
                  LaunchHasDrained
  <1> QED
    BY <1>1, <1>2, <1>3, <1>4, DatabasesUntouched DEF Inductive, OpenRuntime

\* The file outbox is drained too.
LEMMA ServeStep ==
    ASSUME Inductive, Serve
    PROVE  Inductive'
  <1>1. TypeOK'
    BY DEF Inductive, TypeOK, Serve, durable, Idle, At, Outbox
  <1>2. MemoryIsLoaded' /\ RestoreIsOffline' /\ RestoreEpochIsFresh'
    BY DEF Inductive, Serve, durable, MemoryIsLoaded, RestoreIsOffline, RestoreEpochIsFresh
  <1>3. BatchesAreRecorded' /\ GateKeepsOutboxEmpty'
    BY DEF Inductive, TypeOK, Serve, durable, Idle, At, Role, Outbox, Pending,
           BatchesAreRecorded, GateKeepsOutboxEmpty
  <1>4. LaunchHasDrained'
    <2>1. \A b \in Outbox : Pending(b) = {}
      BY DEF Inductive, Serve, OutboxEmpty, LaunchHasDrained, Outbox
    <2> QED
      BY <2>1 DEF Inductive, TypeOK, Serve, durable, Idle, At, Role, Pending,
                  LaunchHasDrained
  <1> QED
    BY <1>1, <1>2, <1>3, <1>4, DatabasesUntouched DEF Inductive, Serve

\* The steps of a restore that find the process down leave it so.
LEMMA OfflineKeeps ==
    ASSUME Inductive, up = "down", UNCHANGED <<up, memory, drain>>, memory \subseteq ledger'
    PROVE  MemoryIsLoaded' /\ BatchesAreRecorded' /\ GateKeepsOutboxEmpty' /\ LaunchHasDrained'
  BY DEF Inductive, MemoryIsLoaded, BatchesAreRecorded, GateKeepsOutboxEmpty,
         LaunchHasDrained, Role, Idle, At

\* The database of the snapshot is installed.
LEMMA SwapDatabaseStep ==
    ASSUME Inductive, SwapDatabase
    PROVE  Inductive'
  <1>1. TypeOK'
    BY DEF Inductive, TypeOK, SwapDatabase, NoCopy, Copy, Outbox
  <1>2. LedgerHasNoGaps' /\ SnapshotIsAudited' /\ RestoreIsOffline'
    BY DEF Inductive, SwapDatabase, LedgerHasNoGaps, SnapshotIsAudited, RestoreIsOffline
  <1>3. DrainedIsRecorded' /\ CopiesAreRecorded'
    BY DEF Inductive, TypeOK, SwapDatabase, DrainedIsRecorded, CopiesAreRecorded, NoCopy, Outbox
  <1>4. MemoryIsLoaded' /\ BatchesAreRecorded' /\ GateKeepsOutboxEmpty' /\ LaunchHasDrained'
    BY OfflineKeeps DEF Inductive, SwapDatabase, MemoryIsLoaded
  <1>5. EventsAreUnique'
    <2>1. Known' \subseteq Known
      BY DEF Inductive, TypeOK, SwapDatabase, Known, NoCopy, Outbox
    <2> QED
      BY <2>1 DEF Inductive, SwapDatabase, EventsAreUnique
  <1>6. RestoreEpochIsFresh'
    BY DEF Inductive, TypeOK, SwapDatabase, RestoreEpochIsFresh, NoCopy, Outbox
  <1> QED
    BY <1>1, <1>2, <1>3, <1>4, <1>5, <1>6 DEF Inductive

\* The restored file head is published.
LEMMA PublishHeadStep ==
    ASSUME Inductive, PublishHead
    PROVE  Inductive'
  <1>1. up = "down" /\ restoring = "swapped" /\ FileEpoch \in Epoch /\ FileEpoch.kind # "restore"
    BY LedgerAssumption DEF Inductive, PublishHead, RestoreIsOffline, FileEpoch, Epoch
  <1>2. /\ rows' \in [Outbox -> SUBSET Row] /\ events' \in Nat
        /\ EventsAreUnique'
        /\ \A c \in Outbox : \A p \in rows'[c] : p.epoch.kind # "restore"
    <2>1. /\ rows \in [Outbox -> SUBSET Row] /\ saved'.rows \subseteq Known
          /\ \A c \in Outbox : rows[c] \subseteq Known
          /\ \A c \in Outbox : \A p \in rows[c] : p.epoch.kind # "restore"
          /\ "file" \in Outbox /\ Insert("file", FileEpoch, rows)
          /\ UNCHANGED <<ledger, snapshot>>
      BY DEF Inductive, TypeOK, PublishHead, Known, Outbox, RestoreEpochIsFresh
    <2> QED
      BY <1>1, <2>1, InsertKeeps
  <1>3. TypeOK'
    BY <1>2 DEF Inductive, TypeOK, PublishHead
  <1>4. /\ LedgerHasNoGaps' /\ DrainedIsRecorded' /\ SnapshotIsAudited' /\ CopiesAreRecorded'
        /\ RestoreIsOffline'
    BY DEF Inductive, PublishHead, LedgerHasNoGaps, DrainedIsRecorded, SnapshotIsAudited,
           CopiesAreRecorded, RestoreIsOffline
  <1>5. MemoryIsLoaded' /\ BatchesAreRecorded' /\ GateKeepsOutboxEmpty' /\ LaunchHasDrained'
    BY <1>1, OfflineKeeps DEF Inductive, PublishHead, MemoryIsLoaded
  <1>6. RestoreEpochIsFresh'
    BY <1>1, <1>2 DEF Inductive, PublishHead, RestoreEpochIsFresh
  <1> QED
    BY <1>2, <1>3, <1>4, <1>5, <1>6 DEF Inductive

\* The audit epoch is rotated: no event has the new one yet.
LEMMA RotateAuditEpochStep ==
    ASSUME Inductive, RotateAuditEpoch
    PROVE  Inductive'
  <1>1. /\ up = "down" /\ auditEpoch < MaxEpoch /\ BeginLaunch
        /\ UNCHANGED <<rows, drained, ledger>>
    BY DEF Inductive, RotateAuditEpoch, RestoreIsOffline
  <1>2. TypeOK'
    BY <1>1, BeginLaunchKeeps, LedgerAssumption DEF Inductive, TypeOK, RotateAuditEpoch, BeginLaunch
  <1>3. /\ LedgerHasNoGaps' /\ DrainedIsRecorded' /\ SnapshotIsAudited' /\ CopiesAreRecorded'
        /\ EventsAreUnique' /\ RestoreIsOffline'
    BY DEF Inductive, RotateAuditEpoch, LedgerHasNoGaps, DrainedIsRecorded, SnapshotIsAudited,
           CopiesAreRecorded, EventsAreUnique, Known, RestoreIsOffline
  <1>4. RestoreEpochIsFresh'
    <2>1. /\ auditEpoch' = auditEpoch + 1 /\ auditEpoch \in Nat
          /\ \A p \in ledger : p.epoch.n \in Nat
      BY LedgerAssumption DEF Inductive, TypeOK, RotateAuditEpoch, Row, Epoch
    <2> QED
      BY <2>1 DEF Inductive, RotateAuditEpoch, BeginLaunch, RestoreEpochIsFresh
  <1> QED
    BY <1>1, <1>2, <1>3, <1>4, BeginLaunchKeeps DEF Inductive

\* The saved database is put back.
LEMMA RollBackStep ==
    ASSUME Inductive, RollBack
    PROVE  Inductive'
  <1> DEFINE back == [rows EXCEPT !["business"] = saved.rows]
  <1>1. /\ up = "down" /\ FileEpoch \in Epoch /\ FileEpoch.kind # "restore"
        /\ faults' \in Nat
    BY LedgerAssumption DEF Inductive, TypeOK, RollBack, Fault, FileEpoch, Epoch
  <1>2. /\ back \in [Outbox -> SUBSET Row] /\ saved'.rows \subseteq Known
        /\ \A c \in Outbox : back[c] \subseteq Known
        /\ \A c \in Outbox : \A p \in back[c] : p.epoch.kind # "restore"
    BY DEF Inductive, TypeOK, RollBack, Known, Copy, NoCopy, Outbox, RestoreEpochIsFresh
  <1>3. /\ rows' \in [Outbox -> SUBSET Row] /\ events' \in Nat
        /\ EventsAreUnique'
        /\ \A c \in Outbox : \A p \in rows'[c] : p.epoch.kind # "restore"
    <2>1. CASE restoring = "swapped"
      <3>1. rows' = back /\ UNCHANGED events
        BY <2>1 DEF RollBack
      <3>2. Known' \subseteq Known
        BY <3>1, <1>2 DEF RollBack, Known, Outbox
      <3> QED
        BY <3>1, <3>2, <1>2 DEF Inductive, TypeOK, EventsAreUnique
    <2>2. CASE restoring # "swapped"
      <3>1. Insert("file", FileEpoch, back) /\ "file" \in Outbox /\ UNCHANGED <<ledger, snapshot>>
        BY <2>2 DEF RollBack, Outbox
      <3> HIDE DEF back
      <3> QED
        BY <1>1, <1>2, <3>1, InsertKeeps
    <2> QED
      BY <2>1, <2>2
  <1>4. TypeOK'
    BY <1>1, <1>3 DEF Inductive, TypeOK, RollBack, NoCopy, Copy, Outbox
  <1>5. LedgerHasNoGaps' /\ SnapshotIsAudited' /\ RestoreIsOffline'
    BY DEF Inductive, RollBack, LedgerHasNoGaps, SnapshotIsAudited, RestoreIsOffline
  <1>6. DrainedIsRecorded' /\ CopiesAreRecorded'
    BY DEF Inductive, TypeOK, RollBack, DrainedIsRecorded, CopiesAreRecorded, NoCopy, Outbox
  <1>7. MemoryIsLoaded' /\ BatchesAreRecorded' /\ GateKeepsOutboxEmpty' /\ LaunchHasDrained'
    BY <1>1, OfflineKeeps DEF Inductive, RollBack, MemoryIsLoaded
  <1>8. RestoreEpochIsFresh'
    BY <1>1, <1>3 DEF Inductive, RollBack, RestoreEpochIsFresh, NoCopy
  <1> QED
    BY <1>3, <1>4, <1>5, <1>6, <1>7, <1>8 DEF Inductive

\* The event of the restore is recorded: no record has its id or its epoch.
LEMMA RecordRestoreStep ==
    ASSUME Inductive, RecordRestore
    PROVE  Inductive'
  <1> DEFINE row == [event |-> events + 1, number |-> 1,
                     epoch |-> [kind |-> "restore", n |-> auditEpoch]]
  <1>1. /\ ledger' = ledger \cup {row} /\ memory' = memory \cup {row}
        /\ up = "completing" /\ up' = "capturing" /\ restoring = "installed"
    BY DEF Inductive, RecordRestore, RestoreEpochIsFresh
  <1>2. row \in Row /\ events \in Nat /\ events' = events + 1 /\ events' \in Nat
    BY LedgerAssumption DEF Inductive, TypeOK, RecordRestore, Row, Epoch
  <1>3. /\ row.number = 1 /\ row.event = events + 1
        /\ row.epoch = [kind |-> "restore", n |-> auditEpoch]
        /\ row.epoch.kind = "restore" /\ row.epoch.n = auditEpoch
    OBVIOUS
  <1>4. /\ \A p \in Known : p.event \in Nat /\ p.event <= events
        /\ \A p \in ledger : p \in Known /\ p.epoch # row.epoch
    BY <1>1, <1>3 DEF Inductive, TypeOK, EventsAreUnique, RestoreEpochIsFresh, Known, Row,
                      Outbox, Copy
  <1>5. auditEpoch \in Nat
    BY LedgerAssumption DEF Inductive, TypeOK
  <1> HIDE DEF row
  <1>6. TypeOK'
    BY <1>1, <1>2 DEF Inductive, TypeOK, RecordRestore
  <1>7. LedgerHasNoGaps'
    <2>1. \A p \in ledger : p.event # row.event /\ p.epoch # row.epoch
      BY <1>2, <1>3, <1>4
    <2> QED
      BY <1>1, <1>3, <2>1 DEF Inductive, LedgerHasNoGaps
  <1>8. DrainedIsRecorded' /\ SnapshotIsAudited' /\ CopiesAreRecorded' /\ RestoreIsOffline'
    BY <1>1 DEF Inductive, RecordRestore, DrainedIsRecorded, SnapshotIsAudited,
                CopiesAreRecorded, RestoreIsOffline
  <1>9. MemoryIsLoaded' /\ BatchesAreRecorded' /\ GateKeepsOutboxEmpty' /\ LaunchHasDrained'
    <2>1. MemoryIsLoaded'
      BY <1>1 DEF Inductive, RecordRestore, MemoryIsLoaded
    <2>2. BatchesAreRecorded'
      BY <1>1 DEF Inductive, RecordRestore, BatchesAreRecorded
    <2>3. GateKeepsOutboxEmpty' /\ LaunchHasDrained'
      BY <1>1 DEF Inductive, RecordRestore, GateKeepsOutboxEmpty, LaunchHasDrained, Pending
    <2> QED
      BY <2>1, <2>2, <2>3
  <1>10. EventsAreUnique'
    <2>1. Known' = Known \cup {row}
      BY <1>1 DEF RecordRestore, Known
    <2>2. \A p \in Known : p.event # row.event /\ p.event <= events'
      BY <1>2, <1>3, <1>4
    <2>3. \A p, q \in Known : p.event = q.event => p = q
      BY DEF Inductive, EventsAreUnique
    <2> QED
      BY <1>2, <1>3, <2>1, <2>2, <2>3 DEF EventsAreUnique
  <1>11. RestoreEpochIsFresh'
    BY <1>1, <1>3, <1>5 DEF Inductive, RecordRestore, RestoreEpochIsFresh
  <1> QED
    BY <1>6, <1>7, <1>8, <1>9, <1>10, <1>11 DEF Inductive

\* The recovery snapshot is taken over outboxes that the launch has emptied.
LEMMA CompleteRestoreStep ==
    ASSUME Inductive, CompleteRestore
    PROVE  Inductive'
  <1>1. rows["business"] \cup rows["file"] \subseteq memory
    BY EmptyOutboxesAreRecorded DEF Inductive, CompleteRestore, LaunchHasDrained
  <1>2. TypeOK'
    BY DEF Inductive, TypeOK, CompleteRestore, Frozen, NoCopy, Copy, Outbox
  <1>3. SnapshotIsAudited' /\ CopiesAreRecorded'
    BY <1>1 DEF Inductive, CompleteRestore, Frozen, NoCopy, SnapshotIsAudited,
                CopiesAreRecorded, DrainedIsRecorded, MemoryIsLoaded, Outbox
  <1>4. LedgerHasNoGaps' /\ DrainedIsRecorded' /\ RestoreIsOffline' /\ MemoryIsLoaded'
    BY DEF Inductive, CompleteRestore, LedgerHasNoGaps, DrainedIsRecorded,
           RestoreIsOffline, MemoryIsLoaded
  <1>5. BatchesAreRecorded' /\ GateKeepsOutboxEmpty' /\ LaunchHasDrained'
    BY DEF Inductive, CompleteRestore, Pending, BatchesAreRecorded, GateKeepsOutboxEmpty,
           LaunchHasDrained
  <1>6. EventsAreUnique'
    <2>1. Known' \subseteq Known
      BY DEF CompleteRestore, Frozen, NoCopy, Known
    <2> QED
      BY <2>1 DEF Inductive, CompleteRestore, EventsAreUnique
  <1>7. RestoreEpochIsFresh'
    BY DEF Inductive, CompleteRestore, Frozen, NoCopy, Outbox, RestoreEpochIsFresh
  <1> QED
    BY <1>2, <1>3, <1>4, <1>5, <1>6, <1>7 DEF Inductive

\* A step that changes nothing.
LEMMA StutterStep ==
    ASSUME Inductive, UNCHANGED vars
    PROVE  Inductive'
  <1>1. UNCHANGED durable /\ UNCHANGED <<up, memory, drain, faults>>
    BY DEF vars
  <1>2. TypeOK' /\ RestoreIsOffline' /\ RestoreEpochIsFresh'
    BY <1>1 DEF Inductive, durable, TypeOK, RestoreIsOffline, RestoreEpochIsFresh
  <1>3. MemoryIsLoaded' /\ BatchesAreRecorded' /\ GateKeepsOutboxEmpty' /\ LaunchHasDrained'
    BY <1>1 DEF Inductive, durable, MemoryIsLoaded, BatchesAreRecorded, GateKeepsOutboxEmpty,
                LaunchHasDrained, Pending
  <1> QED
    BY <1>1, <1>2, <1>3, DatabasesUntouched DEF Inductive

-----------------------------------------------------------------------------
(* The theorems                                                            *)

\* Every step of a drain preserves the invariant.
LEMMA DrainStepStep ==
    ASSUME Inductive, NEW r \in Role, Start(r) \/ DrainStep(r) \/ DrainFails(r)
    PROVE  Inductive'
  BY StartStep, FetchStep, AppendBatchStep, AcknowledgeStep, NextBatchStep, DrainRefusedStep,
     NextOutboxStep, FinishStep, DrainFailsStep DEF DrainStep

\* Every step of the whole system does.
LEMMA NextKeepsInductive == Inductive /\ [Next]_vars => Inductive'
  <1> SUFFICES ASSUME Inductive, [Next]_vars PROVE Inductive'
    OBVIOUS
  <1>1. CASE (\E b \in Outbox : Publish(b)) \/ PublishConflict
    BY <1>1, PublishStep
  <1>2. CASE \E r \in Role : Start(r) \/ DrainStep(r) \/ DrainFails(r)
    BY <1>2, DrainStepStep
  <1>3. CASE Launch \/ OpenRuntime \/ Serve
    BY <1>3, LaunchStep, OpenRuntimeStep, ServeStep
  <1>4. CASE Freeze \/ PublishWatermark
    BY <1>4, FreezeStep, PublishWatermarkStep
  <1>5. CASE Stopped \/ Crash
    BY <1>5, EndStep
  <1>6. CASE SwapDatabase \/ Restore
    BY <1>6, SwapDatabaseStep, PublishHeadStep, RotateAuditEpochStep, RollBackStep,
       RecordRestoreStep, CompleteRestoreStep DEF Restore
  <1>7. CASE UNCHANGED vars
    BY <1>7, StutterStep
  <1> QED
    BY <1>1, <1>2, <1>3, <1>4, <1>5, <1>6, <1>7 DEF Next, Progress

\* The invariant holds of every behaviour of the outboxes and the ledger.
THEOREM InductiveInvariant == Spec => []Inductive
  BY InitInductive, NextKeepsInductive, PTL DEF Spec

\* Types: every variable keeps its type.
THEOREM TypeCorrect == Spec => []TypeOK
  <1>1. Inductive => TypeOK
    BY DEF Inductive
  <1> QED
    BY <1>1, InductiveInvariant, PTL

\* Ledger.appendBatch: however rows are replayed, raced or restored, the ledger
\* has no gap, no number with two events and no event twice.
THEOREM LedgerSound == Spec => []LedgerHasNoGaps
  <1>1. Inductive => LedgerHasNoGaps
    BY DEF Inductive
  <1> QED
    BY <1>1, InductiveInvariant, PTL

\* Drainer.Drain: a row marked drained is in ledger.db, crashes and restores included.
THEOREM DrainedSound == Spec => []DrainedIsRecorded
  <1>1. Inductive => DrainedIsRecorded
    BY DEF Inductive
  <1> QED
    BY <1>1, InductiveInvariant, PTL

\* Freeze and Complete: a snapshot holds no mutation that its audit prefix lacks.
THEOREM SnapshotsAudited == Spec => []SnapshotIsAudited
  <1>1. Inductive => SnapshotIsAudited
    BY DEF Inductive
  <1> QED
    BY <1>1, InductiveInvariant, PTL

\* Runtime.Drain: a high-watermark covers both outboxes when it is published.
THEOREM WatermarkSound == Spec => WatermarkCoversOutboxes
  <1> DEFINE Covers == watermark' # watermark =>
                         /\ rows'["business"] \cup rows'["file"] \subseteq watermark'
                         /\ watermark' \subseteq ledger'
  <1>1. Inductive /\ [Next]_vars => [Covers]_vars
    <2> SUFFICES ASSUME Inductive, Next PROVE Covers
      OBVIOUS
    <2>1. CASE PublishWatermark
      BY <2>1, GateHolderIsDone DEF PublishWatermark, Inductive, MemoryIsLoaded
    <2>2. CASE UNCHANGED watermark
      BY <2>2
    <2>3. PublishWatermark \/ UNCHANGED watermark
      <3>1. CASE \E r \in Role : Start(r) \/ DrainStep(r) \/ DrainFails(r)
        BY <3>1 DEF DrainStep, Start, Fetch, AppendBatch, Acknowledge, NextBatch, DrainRefused,
                    NextOutbox, Finish, DrainFails, durable
      <3>2. CASE (\E b \in Outbox : Publish(b)) \/ PublishConflict
        BY <3>2 DEF Publish, PublishConflict
      <3>3. CASE Progress \/ Crash \/ SwapDatabase
        BY <3>3 DEF Progress, Launch, OpenRuntime, Serve, Freeze, Stopped, Restore, PublishHead,
                    RotateAuditEpoch, RollBack, RecordRestore, CompleteRestore, Crash,
                    SwapDatabase, durable
      <3> QED
        BY <3>1, <3>2, <3>3 DEF Next
    <2> QED
      BY <2>1, <2>2, <2>3
  <1> QED
    BY <1>1, InductiveInvariant, PTL DEF Spec, WatermarkCoversOutboxes
-----------------------------------------------------------------------------
(* Why what is pending can be appended: the numbers of the rows            *)

\* Rows of the business databases, the ones a restore may bring back included.
Business == rows["business"] \cup saved.rows \cup snapshot.rows

\* Which source epochs an outbox uses.  File rows are never taken back.
EpochsAreApart ==
    /\ \A p \in Business : p.epoch.kind = "business" /\ p.epoch.n <= auditEpoch
    /\ \A p \in rows["file"] : p.epoch \in {FileEpoch, ConflictEpoch}
    /\ \A p \in ledger : \/ p.epoch.kind = "restore"
                         \/ p.epoch.kind = "business" /\ p.epoch.n <= auditEpoch
                         \/ p \in rows["file"]

\* A number is used once, in a source epoch of the business and in the file
\* outbox.
NumbersAreUnique ==
    /\ \A p, q \in Known : p.epoch.kind = "business" /\ p.epoch = q.epoch /\ p.number = q.number
                           => p = q
    /\ \A p, q \in rows["file"] : p.number = q.number => p = q

Numbered(set) ==
    \A p \in set : p.number = 1 \/ \E q \in set : q.epoch = p.epoch /\ q.number = p.number - 1
RowsHaveNoGaps ==
    /\ Numbered(rows["business"]) /\ Numbered(saved.rows) /\ Numbered(snapshot.rows)
    /\ \A p \in rows["file"] : p.number = 1 \/ \E q \in rows["file"] : q.number = p.number - 1

\* Rows of the audit epoch in force are all in the database that the next write
\* finds, so that none of their numbers is used again.
EpochIsAtHand ==
    /\ up \in {"serving", "stopping"} => restoring = "none"
    /\ up = "capturing" => restoring = "installed"
    /\ \A p \in Known : p.epoch = BusinessEpoch =>
         /\ restoring # "installed"
         /\ p \in IF restoring = "none" THEN rows["business"] ELSE saved.rows

NumbersHold == EpochsAreApart /\ NumbersAreUnique /\ RowsHaveNoGaps /\ EpochIsAtHand

\* A set of naturals that is not empty has a least element.
LEMMA LeastElement ==
    ASSUME NEW S \in SUBSET Nat, S # {}
    PROVE  \E x \in S : \A y \in S : x <= y
  <1> DEFINE R == OpToRel(<, Nat)
  <1>1. IsWellFoundedOn(R, Nat)
    BY NatLessThanWellFounded
  <1>2. PICK z : z \in S
    OBVIOUS
  <1> HIDE DEF R
  <1>3. PICK x \in S : \A y \in S : ~(<<y, x>> \in R)
    BY <1>1, <1>2, WFMin
  <1>4. \A y \in S : y < x => <<y, x>> \in R
    BY DEF R, OpToRel
  <1>5. \A y \in S : x <= y
    <2> TAKE y \in S
    <2>1. x \in Nat /\ y \in Nat
      OBVIOUS
    <2>2. ~(y < x)
      BY <1>3, <1>4
    <2> QED
      BY <2>1, <2>2
  <1> QED
    BY <1>5


\* A step that leaves the outboxes and their copies alone and records nothing
\* but rows of the outboxes and events of restores.
LEMMA NumbersUntouched ==
    ASSUME Inductive, NumbersHold, UNCHANGED <<rows, auditEpoch, snapshot, saved, restoring>>,
           \A p \in ledger' : \/ p \in ledger \cup rows["business"] \cup rows["file"]
                              \/ p.epoch.kind = "restore",
           \/ up' \in {"down", "starting", "opening", "completing"} \/ UNCHANGED up
           \/ up' \in {"serving", "stopping"} /\ restoring = "none"
           \/ up' = "capturing" /\ restoring = "installed"
    PROVE  NumbersHold'
  <1>1. \A p \in Known' : p \in Known \/ p.epoch.kind = "restore"
    BY DEF Known
  <1>2. EpochsAreApart'
    BY DEF NumbersHold, EpochsAreApart, Business, FileEpoch, ConflictEpoch
  <1>3. NumbersAreUnique'
    BY <1>1 DEF NumbersHold, NumbersAreUnique
  <1>4. RowsHaveNoGaps'
    BY DEF NumbersHold, RowsHaveNoGaps, Numbered
  <1>5. EpochIsAtHand'
    BY <1>1 DEF NumbersHold, EpochIsAtHand, BusinessEpoch
  <1> QED
    BY <1>2, <1>3, <1>4, <1>5 DEF NumbersHold

\* A drain appends rows of its outbox.
LEMMA DrainKeepsNumbers ==
    ASSUME Inductive, NumbersHold, NEW r \in Role, Start(r) \/ DrainStep(r) \/ DrainFails(r)
    PROVE  NumbersHold'
  <1>1. UNCHANGED <<rows, auditEpoch, snapshot, saved, restoring>>
    BY DEF DrainStep, Start, Fetch, AppendBatch, Acknowledge, NextBatch, DrainRefused,
           NextOutbox, Finish, DrainFails, durable
  <1>2. up' = "down" \/ UNCHANGED up \/ (up' = "stopping" /\ up = "serving")
    BY DEF DrainStep, Start, Fetch, AppendBatch, Acknowledge, NextBatch, DrainRefused,
           NextOutbox, Finish, DrainFails, Fail, Down
  <1>3. drain[r].batch \subseteq rows["business"] \cup rows["file"]
    BY DEF Inductive, TypeOK, BatchesAreRecorded, Outbox
  <1>4. ledger' \subseteq ledger \cup drain[r].batch
    BY DEF DrainStep, Start, Fetch, AppendBatch, Acknowledge, NextBatch, DrainRefused,
           NextOutbox, Finish, DrainFails, durable, New, NewTo
  <1> QED
    BY <1>1, <1>2, <1>3, <1>4, NumbersUntouched DEF NumbersHold, EpochIsAtHand

\* So do the steps that only start, end or watch over drains.
LEMMA ControlKeepsNumbers ==
    ASSUME Inductive, NumbersHold,
           Launch \/ OpenRuntime \/ Serve \/ PublishWatermark \/ Stopped \/ Crash
           \/ RecordRestore \/ UNCHANGED vars
    PROVE  NumbersHold'
  <1>1. UNCHANGED <<rows, auditEpoch, snapshot, saved, restoring>>
    BY DEF Launch, OpenRuntime, Serve, PublishWatermark, Stopped, Crash, RecordRestore,
           durable, vars
  <1>2. \A p \in ledger' : p \in ledger \/ p.epoch.kind = "restore"
    BY DEF Launch, OpenRuntime, Serve, PublishWatermark, Stopped, Crash, RecordRestore,
           durable, vars
  <1>3. \/ up' \in {"down", "starting", "opening", "completing"} \/ UNCHANGED up
        \/ up' = "serving" /\ restoring = "none"
        \/ up' = "capturing" /\ restoring = "installed"
    BY DEF Launch, BeginLaunch, OpenRuntime, Serve, PublishWatermark, Stopped, Crash, Down,
           RecordRestore, vars, Inductive, TypeOK, RestoreIsOffline, RestoreEpochIsFresh
  <1> QED
    BY <1>1, <1>2, <1>3, NumbersUntouched

\* A business write takes the next number of the audit epoch in force.
LEMMA BusinessKeepsNumbers ==
    ASSUME Inductive, NumbersHold, Publish("business")
    PROVE  NumbersHold'
  <1>1. PICK n \in 1..(events + 1) :
          /\ NextNumber("business", BusinessEpoch, n)
          /\ rows' = [rows EXCEPT !["business"] = @ \cup
                        {[event |-> events + 1, epoch |-> BusinessEpoch, number |-> n]}]
    BY DEF Publish, Insert
  <1> DEFINE row == [event |-> events + 1, epoch |-> BusinessEpoch, number |-> n]
  <1>2. /\ up = "serving" /\ restoring = "none"
        /\ UNCHANGED <<ledger, auditEpoch, snapshot, saved, restoring, up>>
    BY DEF Publish, ClientWrite, NumbersHold, EpochIsAtHand
  <1>3. /\ row.epoch = BusinessEpoch /\ row.number = n
        /\ BusinessEpoch.kind = "business" /\ BusinessEpoch.n = auditEpoch
        /\ BusinessEpoch' = BusinessEpoch
    BY <1>2 DEF BusinessEpoch
  <1>4. rows'["business"] = rows["business"] \cup {row} /\ rows'["file"] = rows["file"]
    BY <1>1 DEF Inductive, TypeOK, Outbox
  <1>5. /\ n \in Nat /\ events \in Nat /\ auditEpoch \in Nat
        /\ \A p \in rows["business"] : p.number \in Nat
    BY LedgerAssumption DEF Inductive, TypeOK, Outbox, Row
  <1>6. \A p \in rows["business"] : p.epoch = BusinessEpoch => p.number < n
    BY <1>1 DEF NextNumber, IsNext, Numbers
  <1>7. n = 1 \/ \E p \in rows["business"] : p.epoch = BusinessEpoch /\ p.number = n - 1
    BY <1>1 DEF NextNumber, IsNext, Numbers
  <1> HIDE DEF row
  <1>8. Known' = Known \cup {row} /\ Business' = Business \cup {row}
    BY <1>2, <1>4 DEF Known, Business
  <1>9. EpochsAreApart'
    BY <1>2, <1>3, <1>4, <1>5, <1>8 DEF NumbersHold, EpochsAreApart, FileEpoch, ConflictEpoch
  <1>10. \A p \in Known : p.epoch = BusinessEpoch => p.number # n
    BY <1>2, <1>5, <1>6 DEF NumbersHold, EpochIsAtHand
  <1>11. NumbersAreUnique'
    BY <1>3, <1>4, <1>8, <1>10 DEF NumbersHold, NumbersAreUnique
  <1>12. RowsHaveNoGaps'
    BY <1>2, <1>3, <1>4, <1>7 DEF NumbersHold, RowsHaveNoGaps, Numbered
  <1>13. EpochIsAtHand'
    BY <1>2, <1>3, <1>4, <1>8 DEF NumbersHold, EpochIsAtHand
  <1> QED
    BY <1>9, <1>11, <1>12, <1>13 DEF NumbersHold

\* Another file row, on top of a business database that has its numbers: the
\* revision of the head is the next number whatever the source epoch.
LEMMA FileInsertKeepsNumbers ==
    ASSUME Inductive, NumbersHold, NEW e \in {FileEpoch, ConflictEpoch},
           NEW others \in [Outbox -> SUBSET Row], Insert("file", e, others),
           others["file"] = rows["file"],
           others["business"] \in {rows["business"], saved.rows},
           saved'.rows \subseteq saved.rows, Numbered(saved'.rows),
           UNCHANGED <<ledger, auditEpoch, snapshot>>
    PROVE  /\ EpochsAreApart' /\ NumbersAreUnique' /\ RowsHaveNoGaps'
           /\ \A p \in Known' : p \in Known \/ p.epoch = e
           /\ rows'["business"] = others["business"]
  <1>1. PICK n \in 1..(events + 1) :
          /\ NextNumber("file", e, n)
          /\ rows' = [others EXCEPT !["file"] = @ \cup
                        {[event |-> events + 1, epoch |-> e, number |-> n]}]
    BY DEF Insert
  <1> DEFINE row == [event |-> events + 1, epoch |-> e, number |-> n]
  <1>2. row.epoch = e /\ row.number = n /\ e.kind # "business"
    BY DEF FileEpoch, ConflictEpoch
  <1>3. rows'["business"] = others["business"] /\ rows'["file"] = rows["file"] \cup {row}
    BY <1>1 DEF Outbox
  <1>4. n \in Nat /\ \A p \in rows["file"] : p.number \in Nat
    BY DEF Inductive, TypeOK, Outbox, Row
  <1>5. \A p \in rows["file"] : p.number < n
    BY <1>1 DEF NextNumber, IsNext
  <1>6. n = 1 \/ \E p \in rows["file"] : p.number = n - 1
    BY <1>1 DEF NextNumber, IsNext
  <1> HIDE DEF row
  <1>7. Known' \subseteq Known \cup {row} /\ Business' \subseteq Business
    BY <1>3 DEF Known, Business
  <1>8. EpochsAreApart'
    BY <1>2, <1>3, <1>7 DEF NumbersHold, EpochsAreApart, FileEpoch, ConflictEpoch
  <1>9. \A p, q \in rows'["file"] : p.number = q.number => p = q
    BY <1>2, <1>3, <1>4, <1>5 DEF NumbersHold, NumbersAreUnique
  <1>10. NumbersAreUnique'
    BY <1>2, <1>7, <1>9 DEF NumbersHold, NumbersAreUnique
  <1>11. RowsHaveNoGaps'
    BY <1>2, <1>3, <1>6 DEF NumbersHold, RowsHaveNoGaps, Numbered
  <1> QED
    BY <1>2, <1>3, <1>7, <1>8, <1>10, <1>11

\* File commands, conflicts and the head of a restore.
LEMMA FilesKeepNumbers ==
    ASSUME Inductive, NumbersHold, Publish("file") \/ PublishConflict \/ PublishHead
    PROVE  NumbersHold'
  <1>1. PICK e \in {FileEpoch, ConflictEpoch} : Insert("file", e, rows)
    BY DEF Publish, PublishConflict, PublishHead
  <1>2. /\ UNCHANGED <<ledger, auditEpoch, snapshot, saved, up>>
        /\ UNCHANGED restoring \/ (up = "down" /\ restoring = "swapped" /\ restoring' = "published")
    BY DEF Publish, PublishConflict, PublishHead, Inductive, RestoreIsOffline
  <1>3. rows \in [Outbox -> SUBSET Row] /\ Numbered(saved'.rows)
    BY <1>2 DEF Inductive, TypeOK, NumbersHold, RowsHaveNoGaps, Numbered
  <1>4. /\ EpochsAreApart' /\ NumbersAreUnique' /\ RowsHaveNoGaps'
        /\ \A p \in Known' : p \in Known \/ p.epoch = e
        /\ rows'["business"] = rows["business"]
    BY <1>1, <1>2, <1>3, FileInsertKeepsNumbers
  <1>5. EpochIsAtHand'
    BY <1>2, <1>4 DEF NumbersHold, EpochIsAtHand, BusinessEpoch, FileEpoch, ConflictEpoch
  <1> QED
    BY <1>4, <1>5 DEF NumbersHold

\* A copy of the business outbox in a snapshot.
LEMMA CopyKeepsNumbers ==
    ASSUME Inductive, NumbersHold, Freeze \/ CompleteRestore
    PROVE  NumbersHold'
  <1>1. /\ snapshot'.rows = rows["business"] /\ UNCHANGED <<rows, ledger, auditEpoch>>
        /\ \/ UNCHANGED <<saved, restoring, up>>
           \/ /\ saved'.rows = {} /\ restoring' = "none" /\ up' = "serving"
              /\ restoring = "installed"
    BY DEF Freeze, CompleteRestore, Frozen, NoCopy, NumbersHold, EpochIsAtHand
  <1>2. Known' \subseteq Known /\ Business' \subseteq Business /\ BusinessEpoch' = BusinessEpoch
    BY <1>1 DEF Known, Business, BusinessEpoch
  <1>3. EpochsAreApart'
    BY <1>1, <1>2 DEF NumbersHold, EpochsAreApart, FileEpoch, ConflictEpoch
  <1>4. NumbersAreUnique' /\ RowsHaveNoGaps'
    BY <1>1, <1>2 DEF NumbersHold, NumbersAreUnique, RowsHaveNoGaps, Numbered
  <1>5. EpochIsAtHand'
    BY <1>1, <1>2 DEF NumbersHold, EpochIsAtHand
  <1> QED
    BY <1>3, <1>4, <1>5 DEF NumbersHold

\* The live database is put aside before the snapshot's takes its place.
LEMMA SwapKeepsNumbers ==
    ASSUME Inductive, NumbersHold, SwapDatabase
    PROVE  NumbersHold'
  <1>1. /\ saved'.rows = rows["business"] /\ rows'["business"] = snapshot.rows
        /\ rows'["file"] = rows["file"] /\ UNCHANGED <<ledger, auditEpoch, snapshot, up>>
        /\ restoring = "none" /\ restoring' = "swapped" /\ up = "down"
    BY DEF SwapDatabase, NoCopy, Inductive, TypeOK, Outbox
  <1>2. Known' \subseteq Known /\ Business' \subseteq Business /\ BusinessEpoch' = BusinessEpoch
    BY <1>1 DEF Known, Business, BusinessEpoch
  <1>3. EpochsAreApart'
    BY <1>1, <1>2 DEF NumbersHold, EpochsAreApart, FileEpoch, ConflictEpoch
  <1>4. NumbersAreUnique' /\ RowsHaveNoGaps'
    BY <1>1, <1>2 DEF NumbersHold, NumbersAreUnique, RowsHaveNoGaps, Numbered
  <1>5. EpochIsAtHand'
    BY <1>1, <1>2 DEF NumbersHold, EpochIsAtHand
  <1> QED
    BY <1>3, <1>4, <1>5 DEF NumbersHold

\* No row has the new audit epoch.
LEMMA RotationKeepsNumbers ==
    ASSUME Inductive, NumbersHold, RotateAuditEpoch
    PROVE  NumbersHold'
  <1>1. /\ UNCHANGED <<rows, ledger, snapshot, saved>> /\ auditEpoch' = auditEpoch + 1
        /\ restoring' = "installed" /\ up' = "starting"
    BY DEF RotateAuditEpoch, BeginLaunch
  <1>2. /\ Known' = Known /\ Business' = Business /\ auditEpoch \in Nat
        /\ BusinessEpoch' = [kind |-> "business", n |-> auditEpoch + 1]
        /\ Known = ledger \cup Business \cup rows["file"]
    BY <1>1, LedgerAssumption DEF Known, Business, BusinessEpoch, Inductive, TypeOK
  <1>3. \A p \in Known : p.epoch.n \in Nat
    BY DEF Inductive, TypeOK, Known, Copy, Outbox, Row, Epoch
  <1>4. EpochsAreApart'
    BY <1>1, <1>2, <1>3 DEF NumbersHold, EpochsAreApart, FileEpoch, ConflictEpoch
  <1>5. NumbersAreUnique' /\ RowsHaveNoGaps'
    BY <1>1, <1>2 DEF NumbersHold, NumbersAreUnique, RowsHaveNoGaps, Numbered
  <1>6. \A p \in Known : p.epoch.kind = "business" => p.epoch.n <= auditEpoch
    BY <1>2 DEF NumbersHold, EpochsAreApart, FileEpoch, ConflictEpoch
  <1>7. EpochIsAtHand'
    BY <1>1, <1>2, <1>3, <1>6 DEF EpochIsAtHand
  <1> QED
    BY <1>4, <1>5, <1>7 DEF NumbersHold

\* The database put aside comes back with every row of the audit epoch.
LEMMA RollBackKeepsNumbers ==
    ASSUME Inductive, NumbersHold, RollBack
    PROVE  NumbersHold'
  <1> DEFINE back == [rows EXCEPT !["business"] = saved.rows]
  <1>1. /\ UNCHANGED <<ledger, auditEpoch, snapshot, up>> /\ up = "down"
        /\ saved'.rows = {} /\ restoring # "none" /\ restoring' = "none"
        /\ BusinessEpoch' = BusinessEpoch
    BY DEF RollBack, NoCopy, BusinessEpoch
  <1>2. /\ back \in [Outbox -> SUBSET Row] /\ back["file"] = rows["file"]
        /\ back["business"] = saved.rows
    BY DEF Inductive, TypeOK, Copy, Outbox
  <1>3. /\ EpochsAreApart' /\ NumbersAreUnique' /\ RowsHaveNoGaps'
        /\ \A p \in Known' : p \in Known \/ p.epoch = FileEpoch
        /\ rows'["business"] = saved.rows
    <2>1. CASE restoring = "swapped"
      <3>1. rows' = back
        BY <2>1 DEF RollBack
      <3>2. Known' \subseteq Known /\ Business' \subseteq Business
        BY <1>1, <1>2, <3>1 DEF Known, Business
      <3>3. EpochsAreApart'
        BY <1>1, <1>2, <3>1, <3>2 DEF NumbersHold, EpochsAreApart, FileEpoch, ConflictEpoch
      <3>4. NumbersAreUnique' /\ RowsHaveNoGaps'
        BY <1>1, <1>2, <3>1, <3>2 DEF NumbersHold, NumbersAreUnique, RowsHaveNoGaps, Numbered
      <3> QED
        BY <1>2, <3>1, <3>2, <3>3, <3>4
    <2>2. CASE restoring # "swapped"
      <3>1. Insert("file", FileEpoch, back)
        BY <2>2 DEF RollBack
      <3>2. Numbered(saved'.rows)
        BY <1>1 DEF Numbered
      <3> HIDE DEF back
      <3> QED
        BY <1>1, <1>2, <3>1, <3>2, FileInsertKeepsNumbers
    <2> QED
      BY <2>1, <2>2
  <1>4. EpochIsAtHand'
    BY <1>1, <1>3 DEF NumbersHold, EpochIsAtHand, BusinessEpoch, FileEpoch
  <1> QED
    BY <1>3, <1>4 DEF NumbersHold

LEMMA NextKeepsNumbers == Inductive /\ NumbersHold /\ [Next]_vars => NumbersHold'
  <1> SUFFICES ASSUME Inductive, NumbersHold, [Next]_vars PROVE NumbersHold'
    OBVIOUS
  <1>1. CASE (\E b \in Outbox : Publish(b)) \/ PublishConflict \/ PublishHead
    BY <1>1, BusinessKeepsNumbers, FilesKeepNumbers DEF Outbox
  <1>2. CASE \E r \in Role : Start(r) \/ DrainStep(r) \/ DrainFails(r)
    BY <1>2, DrainKeepsNumbers
  <1>3. CASE Launch \/ OpenRuntime \/ Serve \/ PublishWatermark \/ Stopped \/ Crash
             \/ RecordRestore \/ UNCHANGED vars
    BY <1>3, ControlKeepsNumbers
  <1>4. CASE Freeze \/ CompleteRestore \/ SwapDatabase \/ RotateAuditEpoch \/ RollBack
    BY <1>4, CopyKeepsNumbers, SwapKeepsNumbers, RotationKeepsNumbers, RollBackKeepsNumbers
  <1> QED
    BY <1>1, <1>2, <1>3, <1>4 DEF Next, Progress, Restore

\* A row that is not in the ledger yet comes after every record of its epoch:
\* the ledger has no gaps, and the row's number is nobody else's.
LEMMA NewComesLast ==
    ASSUME Inductive, NEW p \in Row \ ledger, p.number # 0, NEW l \in ledger,
           l.epoch = p.epoch,
           \A q \in ledger : q.epoch = p.epoch /\ q.number = p.number => q = p
    PROVE  l.number < p.number
  <1> DEFINE S == {q.number : q \in {x \in ledger : x.epoch = p.epoch /\ p.number <= x.number}}
  <1>1. ledger \subseteq Row /\ p.number \in Nat /\ \A q \in ledger : q.number \in Nat
    BY DEF Inductive, TypeOK, Row
  <1>2. S \in SUBSET Nat
    BY <1>1
  <1>3. S = {}
    <2> SUFFICES ASSUME S # {} PROVE FALSE
      OBVIOUS
    <2>1. PICK m \in S : \A y \in S : m <= y
      <3> HIDE DEF S
      <3> QED
        BY <1>2, LeastElement
    <2>2. PICK x \in ledger : x.epoch = p.epoch /\ p.number <= x.number /\ x.number = m
      BY <2>1
    <2>3. x.number # p.number
      BY <2>2
    <2>4. PICK y \in ledger : y.epoch = x.epoch /\ y.number = x.number - 1
      <3>1. x.number # 1
        BY <1>1, <2>2, <2>3
      <3> QED
        BY <3>1 DEF Inductive, LedgerHasNoGaps
    <2>5. y.number \in S
      BY <1>1, <2>2, <2>3, <2>4
    <2> QED
      BY <1>1, <2>1, <2>2, <2>4, <2>5
  <1> QED
    BY <1>1, <1>3

\* The pending rows of an outbox whose rows are numbered without gaps fit.
LEMMA NumberedFits ==
    ASSUME Inductive, NEW b \in Outbox, Numbered(rows[b]),
           \A p \in rows[b], q \in ledger \cup rows[b] :
             q.epoch = p.epoch /\ q.number = p.number => q = p
    PROVE  Fits(ledger, rows[b] \ drained[b])
  <1> DEFINE P == rows[b] \ drained[b]
             N == NewTo(ledger, P)
  <1>1. rows[b] \subseteq Row /\ \A p \in rows[b] : p.number \in Nat
    BY DEF Inductive, TypeOK, Row
  <1>2. rows[b] \subseteq Known /\ ledger \subseteq Known
    BY DEF Known, Outbox
  <1>3. \A r \in P, m \in ledger : m.event = r.event => m = r
    BY <1>2 DEF Inductive, EventsAreUnique
  <1>4. N = rows[b] \ ledger
    BY <1>3 DEF NewTo, Inductive, DrainedIsRecorded
  <1> HIDE DEF N
  <1>5. ASSUME NEW r \in N
        PROVE  /\ IsNext(r.number, Numbers(ledger \cup {q \in N : q.number < r.number}, r.epoch))
               /\ \A q \in N : q.epoch = r.epoch /\ q.number = r.number => q = r
    <2>1. r \in rows[b] /\ r \in Row \ ledger /\ r.number \in Nat
      BY <1>1, <1>4
    <2>2. r.number # 0
      <3> SUFFICES ASSUME r.number = 0 PROVE FALSE
        OBVIOUS
      <3>1. PICK q \in rows[b] : q.number = -1
        BY <2>1 DEF Numbered
      <3> QED
        BY <1>1, <3>1
    <2>3. \A l \in ledger : l.epoch = r.epoch => l.number < r.number
      BY <2>1, <2>2, NewComesLast
    <2>4. r.number = 1 \/ \E q \in ledger \cup {x \in N : x.number < r.number} :
                            q.epoch = r.epoch /\ q.number = r.number - 1
      <3> SUFFICES ASSUME r.number # 1
                   PROVE  \E q \in ledger \cup {x \in N : x.number < r.number} :
                            q.epoch = r.epoch /\ q.number = r.number - 1
        OBVIOUS
      <3>1. PICK q \in rows[b] : q.epoch = r.epoch /\ q.number = r.number - 1
        BY <2>1 DEF Numbered
      <3>2. q.number < r.number
        BY <2>1, <3>1
      <3>3. q \in ledger \cup {x \in N : x.number < r.number}
        BY <1>4, <3>2
      <3> QED
        BY <3>1, <3>3
    <2>5. IsNext(r.number, Numbers(ledger \cup {q \in N : q.number < r.number}, r.epoch))
      BY <2>3, <2>4 DEF IsNext, Numbers
    <2> QED
      BY <1>4, <2>1, <2>5
  <1> QED
    BY <1>3, <1>5 DEF Fits, N

\* Whatever an outbox holds back the ledger accepts, as long as no conflict was
\* published: no crash, replay, restore or rollback leaves a row that
\* Ledger.appendBatch refuses for good.
THEOREM OutboxesAreDrainable == Spec => []OutboxIsDrainable
  <1>1. Init => NumbersHold
    BY DEF Init, NumbersHold, EpochsAreApart, NumbersAreUnique, RowsHaveNoGaps, EpochIsAtHand,
           Numbered, Known, Business, NoCopy, Outbox
  <1>2. Inductive /\ NumbersHold => OutboxIsDrainable
    <2> SUFFICES ASSUME Inductive, NumbersHold, ~ConflictPublished, NEW b \in Outbox
                 PROVE  Fits(ledger, rows[b] \ drained[b])
      BY DEF OutboxIsDrainable
    <2>1. CASE b = "business"
      <3>1. rows[b] \cup ledger \subseteq Known /\ \A p \in rows[b] : p.epoch.kind = "business"
        BY <2>1 DEF Known, NumbersHold, EpochsAreApart, Business
      <3>2. Numbered(rows[b])
        BY <2>1 DEF NumbersHold, RowsHaveNoGaps
      <3>3. \A p \in rows[b], q \in ledger \cup rows[b] :
              q.epoch = p.epoch /\ q.number = p.number => q = p
        BY <3>1 DEF NumbersHold, NumbersAreUnique
      <3> QED
        BY <3>2, <3>3, NumberedFits
    <2>2. CASE b = "file"
      <3>1. \A p \in rows[b] : p.epoch = FileEpoch
        BY <2>2 DEF ConflictPublished, NumbersHold, EpochsAreApart
      <3>2. Numbered(rows[b])
        BY <2>2, <3>1 DEF NumbersHold, RowsHaveNoGaps, Numbered
      <3>3. \A q \in ledger : q.epoch = FileEpoch => q \in rows[b]
        BY <2>2 DEF NumbersHold, EpochsAreApart, FileEpoch
      <3>4. \A p \in rows[b], q \in ledger \cup rows[b] :
              q.epoch = p.epoch /\ q.number = p.number => q = p
        BY <2>2, <3>1, <3>3 DEF NumbersHold, NumbersAreUnique
      <3> QED
        BY <3>2, <3>4, NumberedFits
    <2> QED
      BY <2>1, <2>2 DEF Outbox
  <1> QED
    BY <1>1, <1>2, NextKeepsNumbers, InductiveInvariant, PTL DEF Spec
=============================================================================
