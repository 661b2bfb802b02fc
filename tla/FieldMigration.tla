---------------------------- MODULE FieldMigration ----------------------------
(***************************************************************************)
(* Shadow migrations of the fields of one table: the job row, the runner   *)
(* and the cancellation of sidecar/internal/fieldchange/migration.go, the  *)
(* part of Executor.apply that schedules a job or changes the schema       *)
(* directly, and the write fence the mutation kernel asks.                 *)
(*                                                                         *)
(* Job j converts field j from the provider column Before(j) to After(j).  *)
(* The PocketBase collection is a set of columns and the fields whose      *)
(* public name has moved to the new column; a cell holds the number of the *)
(* last write it reflects, 0 when it is empty.  Every read and write of    *)
(* the database is a step of its own; requests hold the gate of the write  *)
(* coordinator for as long as they last, runners do not.                   *)
(***************************************************************************)
EXTENDS Integers

CONSTANTS
    Jobs,        \* number of planned migrations of the table
    Rows,        \* number of records
    BatchSize,   \* migrationBatchSize
    MaxWrites,   \* bound on record writes
    MaxCancels,  \* bound on cancel requests
    MaxReplays,  \* bound on repeated apply requests
    MaxFaults    \* bound on crashes and failed steps

ASSUME MigrationAssumption ==
    /\ {MaxWrites, MaxCancels, MaxReplays, MaxFaults} \subseteq Nat
    /\ {Jobs, Rows, BatchSize} \subseteq Nat \ {0}

Job == 1..Jobs
Row == 1..Rows
Caller == 0
Actor == Job \cup {Caller}

Before(j) == <<j, "before">>
After(j) == <<j, "after">>
Extra == <<Caller, "extra">>
Column == {Before(j) : j \in Job} \cup {After(j) : j \in Job} \cup {Extra}

VARIABLES
    revision,    \* schema_revision of the table
    collection,  \* the stored collection: its columns and moved public names
    cells,       \* the value of every column in every record
    authority,   \* the column the metadata of a field names
    added,       \* the metadata names the column of a field added meanwhile
    row,         \* vibetable_jobs
    audit,       \* outcome in vibetable_schema_audit
    up,          \* the sidecar runs
    proc,        \* the runners, and the cancel request under way
    cancel,      \* MigrationService.cancel
    refreshes,   \* whether Save refreshes the original values of a record
    written,     \* last accepted write of each field and record
    mishaps,     \* what has happened that the properties make an exception of
    used         \* requests and faults so far

schema == <<revision, collection, cells, authority, added>>
books == <<row, audit>>
vars == <<schema, books, up, proc, cancel, refreshes, written, mishaps, used>>

State == {"queued", "running", "cancelling", "failed", "complete", "cancelled"}
Phase == {"planned", "validating", "copying", "verifying", "switching", "cleaning",
          "completed", "cancelled", "rolled_back"}
Cleanup == {"pending", "retry", "rollback_retry", "cancel_retry", "complete"}
JobRow == [state : State, phase : Phase, cleanup : Cleanup, locked : BOOLEAN,
           cursor : 0..Rows]
NoRow == [state |-> "none"]
Terminal == {"completed", "cancelled", "rolled_back"}
TooLate == {"switching", "cleaning", "completed"}
Collections == [columns : SUBSET Column, moved : SUBSET Job]
Point == {"load", "validating", "revision", "collection", "progress", "early", "shadow",
          "copying", "read", "copy", "cursor", "copied", "afterCopy", "verifying",
          "verify", "switching", "switch", "retire", "retireSave", "finish", "fail",
          "failCheck", "rollback", "rollbackSave", "rolledBack", "cancelLoad",
          "cancelSave", "cancelled", "flag"}

\* A process works on a job with the row it has loaded and the values that row
\* had in the database, a collection it has loaded and a batch of records.
NoBatch == [r \in {} |-> 0]
Busy == [pc : Point, job : Job, record : JobRow, original : JobRow,
         loaded : Collections, cursor : 0..Rows,
         batch : UNION {[S -> 0..MaxWrites + 1] : S \in SUBSET Row}]
Idle == [pc |-> "idle"]

Mishap == {"clobbered", "revived", "ambiguous", "undone", "stranded"}

TypeOK ==
    /\ revision \in Nat /\ collection \in Collections
    /\ cells \in [Column -> [Row -> 0..MaxWrites + 1]]
    /\ authority \in [Job -> Column] /\ added \in BOOLEAN
    /\ row \in [Job -> JobRow \cup {NoRow}]
    /\ audit \in [Job -> {"none", "queued", "applied", "failed"}]
    /\ up \in BOOLEAN /\ proc \in [Actor -> Busy \cup {Idle}]
    /\ cancel \in SUBSET Job /\ refreshes \in BOOLEAN
    /\ written \in [Job -> [Row -> 1..MaxWrites + 1]] /\ mishaps \in SUBSET Mishap
    /\ used \in [writes : 0..MaxWrites, cancels : 0..MaxCancels,
                 replays : 0..MaxReplays, faults : 0..MaxFaults]

Init ==
    /\ revision = 0
    /\ collection = [columns |-> {Before(j) : j \in Job}, moved |-> {}]
    /\ cells = [c \in Column |-> [r \in Row |-> IF c \in {Before(j) : j \in Job}
                                                THEN 1 ELSE 0]]
    /\ authority = [j \in Job |-> Before(j)] /\ added = FALSE
    /\ row = [j \in Job |-> NoRow] /\ audit = [j \in Job |-> "none"]
    /\ up = TRUE /\ proc = [a \in Actor |-> Idle] /\ cancel = {}
    /\ refreshes \in BOOLEAN
    /\ written = [j \in Job |-> [r \in Row |-> 1]] /\ mishaps = {}
    /\ used = [writes |-> 0, cancels |-> 0, replays |-> 0, faults |-> 0]

Fault == used.faults < MaxFaults /\ used' = [used EXCEPT !.faults = @ + 1]
At(a, pc) == up /\ proc[a].pc = pc
GateFree == up /\ proc[Caller] = Idle
Existing == {j \in Job : row[j] # NoRow}

-----------------------------------------------------------------------------
(* Records of the job table, and collections                               *)

\* Record.Save (PocketBase): the values that differ from the original ones
\* are written.  Whether the original values are those of the load or those
\* of the last save is left open.
Merged(a, record) ==
    [f \in DOMAIN record |->
        IF record[f] # proc[a].original[f] THEN record[f] ELSE row[proc[a].job][f]]

\* Process a saves its row and goes on at pc, or ends.
Save(a, record, pc) ==
    LET j == proc[a].job
        saved == Merged(a, record) IN
    /\ row' = [row EXCEPT ![j] = saved]
    /\ proc' = [proc EXCEPT ![a] =
                  IF pc = "idle" THEN Idle
                  ELSE [@ EXCEPT !.pc = pc, !.record = record,
                                 !.original = IF refreshes THEN record ELSE @]]
    /\ mishaps' = IF row[j].state = "cancelling" /\ saved.state = "running"
                  THEN mishaps \cup {"revived"} ELSE mishaps

\* Save(collection): the columns become those of the saved collection.  One
\* that is dropped loses its cells, one that is added starts empty.
Install(c) ==
    /\ collection' = c
    /\ cells' = [x \in Column |-> IF x \in c.columns \cap collection.columns
                                  THEN cells[x] ELSE [r \in Row |-> 0]]

\* The load and the save of a collection are two steps: the save puts back
\* whatever has changed in between.
SaveCollection(a, c) ==
    /\ Install(c)
    /\ mishaps' = IF proc[a].loaded = collection THEN mishaps
                  ELSE mishaps \cup {"clobbered"}

Without(c, x) == [c EXCEPT !.columns = @ \ {x}]

\* cancelRequested: the set of this process, then the row.
CancelRequested(j) == j \in cancel \/ row[j].state = "cancelling"

Process(pc, j, record) ==
    [pc |-> pc, job |-> j, record |-> record, original |-> record,
     loaded |-> collection, cursor |-> record.cursor, batch |-> NoBatch]
Goto(a, pc) == proc' = [proc EXCEPT ![a].pc = pc]

-----------------------------------------------------------------------------
(* Requests                                                                *)

\* Mutant: the fence of a job ends when its runner starts.
FencedQueued == \E j \in Existing : row[j].locked /\ row[j].state = "queued"

\* CheckTableWriteFence: cancelling and failed jobs do not count.  It reads no
\* more than 33 jobs, which an instance does not have.
Fenced == \E j \in Existing : row[j].locked /\ row[j].state \in {"queued", "running"}

\* Values are read and written under the public name of the field.
Public(j) == IF j \in collection.moved THEN After(j) ELSE Before(j)

\* A record write of the mutation kernel, fence and write in one transaction.
Write(j, r) ==
    /\ GateFree /\ ~Fenced /\ used.writes < MaxWrites
    /\ Public(j) \in collection.columns
    /\ written' = [written EXCEPT ![j][r] = @ + 1]
    /\ cells' = [cells EXCEPT ![Public(j)][r] = written'[j][r]]
    /\ used' = [used EXCEPT !.writes = @ + 1]
    /\ UNCHANGED <<revision, collection, authority, added, books, up, proc, cancel,
                   refreshes, mishaps>>

Queued == [state |-> "queued", phase |-> "planned", cleanup |-> "pending",
           locked |-> TRUE, cursor |-> 0]

\* Executor.apply of a plan that creates a migration: the plan was made at
\* revision 0.  Start follows the commit; the schema revision stays.
Enqueue(j) ==
    /\ GateFree /\ row[j] = NoRow /\ revision = 0
    /\ row' = [row EXCEPT ![j] = Queued]
    /\ audit' = [audit EXCEPT ![j] = "queued"]
    /\ proc' = [proc EXCEPT ![j] = Process("load", j, Queued)]
    /\ UNCHANGED <<schema, up, cancel, refreshes, written, mishaps, used>>

\* The same apply request again: loadReplay finds the receipt, and Start runs
\* the job unless it is active.
Replay(j) ==
    /\ GateFree /\ j \in Existing /\ proc[j] = Idle /\ used.replays < MaxReplays
    /\ proc' = [proc EXCEPT ![j] = Process("load", j, row[j])]
    /\ used' = [used EXCEPT !.replays = @ + 1]
    /\ UNCHANGED <<schema, books, up, cancel, refreshes, written, mishaps>>

\* Executor.apply of a direct change of the same table, here a new field: it
\* asks for its schema revision, not for the fence.
ChangeSchema ==
    /\ GateFree /\ ~added
    /\ added' = TRUE /\ revision' = revision + 1
    /\ Install([collection EXCEPT !.columns = @ \cup {Extra}])
    /\ UNCHANGED <<authority, books, up, proc, cancel, refreshes, written, mishaps, used>>

\* Mutant: a job can be cancelled in every phase.
CancelAnyPhase(j) ==
    /\ GateFree /\ j \in Existing
    /\ used.cancels < MaxCancels /\ used' = [used EXCEPT !.cancels = @ + 1]
    /\ row' = [row EXCEPT ![j].state = "cancelling"]
    /\ proc' = [proc EXCEPT ![Caller] = Process("flag", j, row[j])]
    /\ UNCHANGED <<schema, audit, up, cancel, refreshes, written, mishaps>>

\* Cancel, up to its transaction.
Cancel(j) ==
    /\ GateFree /\ j \in Existing /\ row[j].phase \notin TooLate
    /\ used.cancels < MaxCancels /\ used' = [used EXCEPT !.cancels = @ + 1]
    /\ row' = [row EXCEPT ![j].state = "cancelling"]
    /\ proc' = [proc EXCEPT ![Caller] = Process("flag", j, row[j])]
    /\ UNCHANGED <<schema, audit, up, cancel, refreshes, written, mishaps>>

\* The runner is told, or, when there is none, the request cleans up itself.
Flag ==
    /\ At(Caller, "flag")
    /\ cancel' = cancel \cup {proc[Caller].job}
    /\ IF proc[proc[Caller].job] # Idle THEN proc' = [proc EXCEPT ![Caller] = Idle]
       ELSE Goto(Caller, "cancelLoad")
    /\ UNCHANGED <<schema, books, up, refreshes, written, mishaps, used>>

-----------------------------------------------------------------------------
(* Run                                                                     *)

\* load, and where the row says the job stands.  A crash between the two
\* saves of failAndClean leaves rollback_retry on a job that has switched.
Resumed(r) ==
    IF r.phase \in Terminal THEN "idle"
    ELSE IF r.state = "cancelling" THEN "cancelLoad"
    ELSE IF r.phase # "cleaning" THEN "validating"
    ELSE CASE r.cleanup = "rollback_retry" -> "rollback"
           [] r.cleanup = "cancel_retry" -> "cancelLoad"
           [] OTHER -> "retire"

Load(j) ==
    /\ At(j, "load")
    /\ proc' = [proc EXCEPT ![j] = IF Resumed(row[j]) = "idle" THEN Idle
                                   ELSE Process(Resumed(row[j]), j, row[j])]
    /\ mishaps' = IF Resumed(row[j]) = "rollback" /\ authority[j] = After(j)
                  THEN mishaps \cup {"undone"} ELSE mishaps
    /\ UNCHANGED <<schema, books, up, cancel, refreshes, written, used>>

\* setPhase.
NextPoint == [validating |-> "revision", copying |-> "read", verifying |-> "verify"]

SetPhase(j) ==
    \E phase \in DOMAIN NextPoint :
        /\ At(j, phase)
        /\ Save(j, [proc[j].record EXCEPT !.state = "running", !.phase = phase],
                NextPoint[phase])
        /\ UNCHANGED <<schema, audit, up, cancel, refreshes, written, used>>

\* A save of the row whose error ends Run: the row stays as it was.
SaveFails(j) ==
    /\ up /\ Fault
    /\ proc[j].pc \in DOMAIN NextPoint \cup {"fail", "failCheck", "rolledBack",
                                            "cancelled", "finish"}
    /\ proc' = [proc EXCEPT ![j] = Idle]
    /\ mishaps' = mishaps \cup {"stranded"}
    /\ UNCHANGED <<schema, books, up, cancel, refreshes, written>>

\* A step whose error leads to failAndClean: reading the table, saving the
\* progress, the shadow or a record, a value that does not convert or
\* verify, the context of a shutdown.
StepFails(j) ==
    /\ up /\ proc[j].pc \in {"revision", "progress", "shadow", "copy", "copied", "verify"}
    /\ Fault /\ Goto(j, "fail")
    /\ UNCHANGED <<schema, books, up, cancel, refreshes, written, mishaps>>

CheckRevision(j) ==
    /\ At(j, "revision") /\ Goto(j, IF revision = 0 THEN "collection" ELSE "fail")
    /\ UNCHANGED <<schema, books, up, cancel, refreshes, written, mishaps, used>>

\* migrationCollection: the collection ensureShadow will extend and save.
LoadCollection(j) ==
    /\ At(j, "collection")
    /\ proc' = [proc EXCEPT ![j].pc = "progress", ![j].loaded = collection]
    /\ UNCHANGED <<schema, books, up, cancel, refreshes, written, mishaps, used>>

\* updateProgress, before the copy, after a batch and after the copy.
AfterProgress == [progress |-> "early", cursor |-> "read", copied |-> "afterCopy"]

UpdateProgress(j) ==
    \E pc \in DOMAIN AfterProgress :
        /\ At(j, pc)
        /\ Save(j, [proc[j].record EXCEPT !.cursor = proc[j].cursor], AfterProgress[pc])
        /\ UNCHANGED <<schema, audit, up, cancel, refreshes, written, used>>

\* cancelBeforeSwitch.
CancelledRow(record) ==
    [record EXCEPT !.state = "cancelled", !.phase = "cancelled", !.locked = FALSE]

\* A cancellation found here ends the job without looking for a shadow.
CancelEarly(j) ==
    /\ At(j, "early") /\ CancelRequested(j)
    /\ Save(j, CancelledRow(proc[j].record), "idle")
    /\ UNCHANGED <<schema, audit, up, cancel, refreshes, written, used>>

\* ensureShadow: the row, then the collection as it was loaded.
RecordShadow(j) ==
    /\ At(j, "early") /\ ~CancelRequested(j)
    /\ IF After(j) \in proc[j].loaded.columns
       THEN Goto(j, "copying") /\ UNCHANGED <<row, mishaps>>
       ELSE Save(j, proc[j].record, "shadow")
    /\ UNCHANGED <<schema, audit, up, cancel, refreshes, written, used>>

AddShadow(j) ==
    /\ At(j, "shadow") /\ Goto(j, "copying")
    /\ SaveCollection(j, [proc[j].loaded EXCEPT !.columns = @ \cup {After(j)}])
    /\ UNCHANGED <<revision, authority, added, books, up, cancel, refreshes, written, used>>

\* copyRows: the records behind the cursor, a batch at a time.
Batch(j) == {r \in Row : r > proc[j].cursor /\ r <= proc[j].cursor + BatchSize}

ReadBatch(j) ==
    /\ At(j, "read")
    /\ proc' = [proc EXCEPT ![j].pc = IF Batch(j) = {} THEN "copied" ELSE "copy",
                            ![j].batch = [r \in Batch(j) |-> cells[Public(j)][r]]]
    /\ UNCHANGED <<schema, books, up, cancel, refreshes, written, mishaps, used>>

\* One record: converted from the value the batch was read with.
CopyRow(j) ==
    LET r == proc[j].cursor + 1 IN
    /\ At(j, "copy") /\ ~CancelRequested(j)
    /\ IF After(j) \in collection.columns
       THEN /\ cells' = [cells EXCEPT ![After(j)][r] = proc[j].batch[r]]
            /\ proc' = [proc EXCEPT ![j].cursor = r,
                                    ![j].pc = IF r + 1 \in DOMAIN proc[j].batch
                                              THEN "copy" ELSE "cursor"]
       ELSE Goto(j, "fail") /\ UNCHANGED cells
    /\ UNCHANGED <<revision, collection, authority, added, books, up, cancel, refreshes,
                   written, mishaps, used>>

StopCopy(j) ==
    /\ At(j, "copy") /\ CancelRequested(j) /\ Goto(j, "copied")
    /\ UNCHANGED <<schema, books, up, cancel, refreshes, written, mishaps, used>>

CheckCopied(j) ==
    /\ At(j, "afterCopy")
    /\ Goto(j, IF CancelRequested(j) THEN "cancelLoad" ELSE "verifying")
    /\ UNCHANGED <<schema, books, up, cancel, refreshes, written, mishaps, used>>

\* verifyRows and the cancellation check behind it.
Verify(j) ==
    /\ At(j, "verify")
    /\ Goto(j, IF CancelRequested(j) THEN "cancelLoad" ELSE "switching")
    /\ UNCHANGED <<schema, books, up, cancel, refreshes, written, mishaps, used>>

\* beginSwitch: a transaction that reads the row again.
BeginSwitch(j) ==
    /\ At(j, "switching")
    /\ IF row[j].state = "cancelling" THEN Goto(j, "cancelLoad") /\ UNCHANGED row
       ELSE /\ row' = [row EXCEPT ![j].state = "running", ![j].phase = "switching"]
            /\ proc' = [proc EXCEPT ![j].pc = "switch", ![j].record.state = "running",
                                    ![j].record.phase = "switching"]
    /\ UNCHANGED <<schema, audit, up, cancel, refreshes, written, mishaps, used>>

\* switchAuthority: names, metadata, revision, audit and row in one
\* transaction.  The error of a transaction that has committed leads to
\* failAndClean like any other.
Switchable(j) == revision = 0 /\ {Before(j), After(j)} \subseteq collection.columns

SwitchAuthority(j) ==
    /\ At(j, "switch") /\ Switchable(j)
    /\ collection' = [collection EXCEPT !.moved = @ \cup {j}]
    /\ authority' = [authority EXCEPT ![j] = After(j)]
    /\ revision' = revision + 1
    /\ audit' = [audit EXCEPT ![j] = "applied"]
    /\ row' = [row EXCEPT ![j].state = "running", ![j].phase = "cleaning",
                          ![j].cleanup = "pending"]
    /\ \/ proc' = [proc EXCEPT ![j].pc = "retire", ![j].record.phase = "cleaning"]
          /\ UNCHANGED <<mishaps, used>>
       \/ Fault /\ Goto(j, "fail") /\ mishaps' = mishaps \cup {"ambiguous"}
    /\ UNCHANGED <<cells, added, up, cancel, refreshes, written>>

SwitchFails(j) ==
    /\ At(j, "switch") /\ Goto(j, "fail")
    /\ IF Switchable(j) THEN Fault ELSE UNCHANGED used
    /\ UNCHANGED <<schema, books, up, cancel, refreshes, written, mishaps>>

\* cleanupRetired: a fresh collection, without the old column.
LoadRetired(j) ==
    /\ At(j, "retire")
    /\ proc' = [proc EXCEPT ![j].pc = "retireSave", ![j].loaded = collection]
    /\ UNCHANGED <<schema, books, up, cancel, refreshes, written, mishaps, used>>

DropRetired(j) ==
    /\ At(j, "retireSave") /\ Goto(j, "finish")
    /\ SaveCollection(j, Without(proc[j].loaded, Before(j)))
    /\ UNCHANGED <<revision, authority, added, books, up, cancel, refreshes, written, used>>

DropRetiredFails(j) ==
    /\ At(j, "retireSave") /\ Fault
    /\ Save(j, [proc[j].record EXCEPT !.state = "failed", !.cleanup = "retry"], "idle")
    /\ UNCHANGED <<schema, audit, up, cancel, refreshes, written>>

Finish(j) ==
    /\ At(j, "finish")
    /\ Save(j, [proc[j].record EXCEPT !.state = "complete", !.phase = "completed",
                                      !.cleanup = "complete", !.locked = FALSE], "idle")
    /\ UNCHANGED <<schema, audit, up, cancel, refreshes, written, used>>

-----------------------------------------------------------------------------
(* failAndClean, resumeRollbackCleanup and cancelAndClean                  *)

MarkFailed(j) ==
    /\ At(j, "fail")
    /\ Save(j, [proc[j].record EXCEPT !.state = "failed", !.phase = "cleaning",
                                      !.cleanup = "rollback_retry"], "failCheck")
    /\ UNCHANGED <<schema, audit, up, cancel, refreshes, written, used>>

\* The audit row, then the metadata: a switch that has committed stands.
CheckAuthority(j) ==
    /\ At(j, "failCheck")
    /\ audit' = [audit EXCEPT ![j] = "failed"]
    /\ IF authority[j] = After(j)
       THEN Save(j, [proc[j].record EXCEPT !.cleanup = "retry"], "idle")
       ELSE Goto(j, "rollback") /\ UNCHANGED <<row, mishaps>>
    /\ UNCHANGED <<schema, up, cancel, refreshes, written, used>>

\* The metadata cannot be read, in a shutdown for one: the switch counts as not
\* committed.
CheckAuthorityFails(j) ==
    /\ At(j, "failCheck") /\ Fault /\ Goto(j, "rollback")
    /\ audit' = [audit EXCEPT ![j] = "failed"]
    /\ mishaps' = IF authority[j] = After(j) THEN mishaps \cup {"undone"} ELSE mishaps
    /\ UNCHANGED <<schema, row, up, cancel, refreshes, written>>

\* Both clean-ups load the collection and save it without the shadow.
AfterLoad == [rollback |-> "rollbackSave", cancelLoad |-> "cancelSave"]
AfterDrop == [rollbackSave |-> "rolledBack", cancelSave |-> "cancelled"]
RetryState == [rollbackSave |-> "rollback_retry", cancelSave |-> "cancel_retry"]

LoadShadowed(a) ==
    \E pc \in DOMAIN AfterLoad :
        /\ At(a, pc)
        /\ proc' = [proc EXCEPT ![a].pc = AfterLoad[pc], ![a].loaded = collection]
        /\ UNCHANGED <<schema, books, up, cancel, refreshes, written, mishaps, used>>

DropShadow(a) ==
    \E pc \in DOMAIN AfterDrop :
        /\ At(a, pc) /\ Goto(a, AfterDrop[pc])
        /\ SaveCollection(a, Without(proc[a].loaded, After(proc[a].job)))
        /\ UNCHANGED <<revision, authority, added, books, up, cancel, refreshes, written,
                       used>>

\* markCleanupRetry.
DropShadowFails(a) ==
    /\ up /\ proc[a].pc \in DOMAIN RetryState /\ Fault
    /\ Save(a, [proc[a].record EXCEPT !.state = "failed", !.phase = "cleaning",
                                      !.cleanup = RetryState[proc[a].pc]], "idle")
    /\ UNCHANGED <<schema, audit, up, cancel, refreshes, written>>

RolledBack(j) ==
    /\ At(j, "rolledBack")
    /\ Save(j, [proc[j].record EXCEPT !.state = "failed", !.phase = "rolled_back",
                                      !.cleanup = "complete", !.locked = FALSE], "idle")
    /\ UNCHANGED <<schema, audit, up, cancel, refreshes, written, used>>

Cancelled(a) ==
    /\ At(a, "cancelled")
    /\ Save(a, [CancelledRow(proc[a].record) EXCEPT !.cleanup = "complete"], "idle")
    /\ UNCHANGED <<schema, audit, up, cancel, refreshes, written, used>>

-----------------------------------------------------------------------------
(* Crashes, and ResumePending                                              *)

Crash ==
    /\ up /\ up' = FALSE /\ Fault
    /\ proc' = [a \in Actor |-> Idle] /\ cancel' = {}
    /\ UNCHANGED <<schema, books, refreshes, written, mishaps>>

\* Mutant: a job that was running is not resumed.
PendingQueued(r) ==
    \/ r.state \in {"queued", "cancelling"}
    \/ r.state = "failed" /\ r.cleanup = "retry"

\* The jobs ResumePending selects; it gives up when they are more than 32, which
\* an instance does not have.
Pending(r) ==
    \/ r.state \in {"queued", "running", "cancelling"}
    \/ r.state = "failed" /\ r.cleanup = "retry"

Requeued(r) == IF r.state = "running" THEN [r EXCEPT !.state = "queued"] ELSE r

Launch ==
    /\ ~up /\ up' = TRUE
    /\ row' = [j \in Job |-> IF j \in Existing THEN Requeued(row[j]) ELSE NoRow]
    /\ proc' = [a \in Actor |-> IF a \in Existing /\ Pending(row[a])
                                THEN Process("load", a, row'[a]) ELSE Idle]
    /\ mishaps' = mishaps \ {"stranded"}
    /\ UNCHANGED <<schema, audit, cancel, refreshes, written, used>>

-----------------------------------------------------------------------------
Request ==
    \/ \E j \in Job : \E r \in Row : Write(j, r)
    \/ \E j \in Job : Enqueue(j) \/ Replay(j) \/ Cancel(j)
    \/ ChangeSchema

\* The steps of a process that nothing but a crash keeps from happening.
Advance(j) ==
    \/ Load(j) \/ SetPhase(j) \/ CheckRevision(j) \/ LoadCollection(j)
    \/ UpdateProgress(j) \/ CancelEarly(j) \/ RecordShadow(j) \/ AddShadow(j)
    \/ ReadBatch(j) \/ CopyRow(j) \/ StopCopy(j) \/ CheckCopied(j) \/ Verify(j)
    \/ BeginSwitch(j) \/ SwitchAuthority(j)
    \/ LoadRetired(j) \/ DropRetired(j) \/ Finish(j)
    \/ MarkFailed(j) \/ CheckAuthority(j) \/ RolledBack(j)

Clean(a) == LoadShadowed(a) \/ DropShadow(a) \/ Cancelled(a)

Fails(j) ==
    \/ SaveFails(j) \/ StepFails(j) \/ SwitchFails(j) \/ DropRetiredFails(j)
    \/ CheckAuthorityFails(j)

Next ==
    \/ Request \/ Flag
    \/ \E j \in Job : Advance(j) \/ Fails(j)
    \/ \E a \in Actor : Clean(a) \/ DropShadowFails(a)
    \/ Crash \/ Launch

Spec == Init /\ [][Next]_vars

\* A goroutine goes on: it takes its next step or fails in it.  Requests,
\* crashes and the repetition of an apply request may never come.
FairSpec ==
    /\ Spec
    /\ WF_vars(Launch) /\ WF_vars(Flag)
    /\ \A j \in Job : WF_vars(Advance(j) \/ Fails(j))
    /\ \A a \in Actor : WF_vars(Clean(a))

-----------------------------------------------------------------------------
(* Properties                                                              *)

\* No process has saved a collection or a row over somebody else's change,
\* and no rollback been begun or resumed for a job whose switch had committed.
Undisturbed == mishaps \cap {"clobbered", "revived", "undone"} = {}

\* The metadata of every field names a column that exists and carries the
\* public name, at every step of a migration and after every crash.
AuthorityStands ==
    /\ TypeOK
    /\ Undisturbed =>
         /\ \A j \in Job : authority[j] \in collection.columns /\ authority[j] = Public(j)
         /\ added => Extra \in collection.columns

\* Whatever is read of a field is its last accepted write, converted or not:
\* the fence, the cursor and the switch lose none, and the authority stands.
WritesStand ==
    /\ AuthorityStands
    /\ Undisturbed =>
        \A j \in Job, r \in Row : cells[Public(j)][r] = written[j][r]

\* The outcome the job row and the audit report is the one that happened.
OutcomeIsTrue ==
    Undisturbed => \A j \in Existing :
        /\ row[j].phase \in {"cancelled", "rolled_back"} => authority[j] = Before(j)
        /\ row[j].phase = "rolled_back" => audit[j] # "applied"
        /\ row[j].phase = "completed" =>
             /\ authority[j] = After(j)
             /\ Before(j) \notin collection.columns
             /\ "ambiguous" \in mishaps \/ audit[j] = "applied"

\* The table is writable again in the end: jobs complete, fail or are
\* cancelled, and the next process resumes what a crash has interrupted.  A
\* failed save of the row itself leaves the fence up until that next process.
TableReopens == Fenced ~> ~Fenced \/ "stranded" \in mishaps
=============================================================================
