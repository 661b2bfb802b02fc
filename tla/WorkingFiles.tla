---------------------------- MODULE WorkingFiles ----------------------------
(***************************************************************************)
(* The working files of one workspace: the document mutations of           *)
(* filehistory/service.go, the materializer journal that makes the         *)
(* effective leaf of every active document visible under files/            *)
(* (materializer.go), the watcher that turns external edits of files/ into *)
(* revisions (watcher.go, ingest.go), the pending changes a user confirms  *)
(* (workspacev2/filehistory_handlers.go) and recovery at launch.           *)
(*                                                                         *)
(* Every save and every edit brings bytes nobody has seen before, numbered *)
(* by a clock, except where a file is copied or a revision restored: equal *)
(* numbers are equal bytes, and a larger number is a later act of a user.  *)
(* The revisions of a document are kept as a line whose last element is    *)
(* effective; branches are left out.  Paths are numbered in the order in   *)
(* which the code sorts them.                                              *)
(***************************************************************************)
EXTENDS Integers, Sequences, SequencesExt

CONSTANTS
    Document, Path,
    MaxContents,    \* bound on the contents users bring
    MaxMutations,   \* bound on coordinated writes
    MaxFaults       \* bound on crashes and failed steps

ASSUME FilesAssumption ==
    /\ 1 \in Document /\ 1 \in Path
    /\ Document \subseteq Nat /\ Path \subseteq Nat
    /\ {MaxContents, MaxMutations, MaxFaults} \subseteq Nat

VARIABLES
    disk,       \* files/: the bytes at each path
    head,       \* current head store: documents and the mutation that published them
    memory,     \* documents of the running service
    journal,    \* journal.json of the materializer, at most one
    txns,       \* transaction directories, by mutation revision
    copies,     \* restore-NNNNNN files of the journal's transaction
    mutation,   \* mutation revision of the coordinator
    pending,    \* prepared, unresolved mutation revision, or 0
    phase,      \* life of the process
    op,         \* the mutation under way; the coordinator admits one at a time
    scan,       \* the rescan of the watcher
    changes,    \* pending_file_changes, one row per path
    clock,      \* number of the next content
    put,        \* history: what users put at each path, outside the program
    settled,    \* history: content of the last published request of a document, and when
    aborted,    \* history: contents of requests that failed
    faults

files == <<disk, journal, txns, copies>>
ledger == <<head, memory, mutation, pending>>
past == <<put, settled, aborted>>
vars == <<files, ledger, phase, op, scan, changes, clock, past, faults>>

NoFile == 0
Content == 1..MaxContents
Bytes == Content \cup {NoFile}

(* Document records; a document without revisions does not exist yet.      *)
Record == [active : BOOLEAN, path : Path, revs : Seq(Content)]
Unknown == [active |-> FALSE, path |-> 1, revs |-> <<>>]
Exists(docs, d) == docs[d].revs # <<>>
Effective(docs, d) == Last(docs[d].revs)
ActiveAt(docs, p) == {d \in Document : docs[d].active /\ docs[d].path = p}

(* What files/ should hold at a path (activeLeaves).                       *)
Leaf(docs, p) ==
    IF ActiveAt(docs, p) = {} THEN NoFile
    ELSE Effective(docs, CHOOSE d \in ActiveAt(docs, p) : TRUE)

(* Operations of a transaction, in the order the materializer runs them:   *)
(* removals first.  A path whose bytes already match needs none.           *)
Sorted(S) == SetToSortSeq(S, <)
Plan(now, next) ==
    LET Gone == {p \in Path : Leaf(now, p) # NoFile /\ Leaf(next, p) = NoFile}
        Wanted == {p \in Path : Leaf(next, p) \notin {NoFile, disk[p]}}
        Step(p) == [path |-> p, want |-> Leaf(next, p), backup |-> NoFile]
    IN [i \in 1..Len(Sorted(Gone) \o Sorted(Wanted)) |->
            Step((Sorted(Gone) \o Sorted(Wanted))[i])]

Idle == [step |-> "idle", by |-> "none", doc |-> 0, row |-> 0, at |-> 0, next |-> <<>>,
         ops |-> <<>>, i |-> 0]
NoScan == [step |-> "idle", basis |-> <<>>, todo |-> <<>>, found |-> <<>>, missing |-> {}]
NoChange == [kind |-> "none", seen |-> NoFile, docs |-> {}]

(* The history lock is free: a mutation holds it from the start of its      *)
(* callback until it returns.                                               *)
Unlocked == op.step = "idle"
Running == phase \in {"scanning", "serving"}
Fault == faults < MaxFaults /\ faults' = faults + 1

TypeOK ==
    /\ disk \in [Path -> Bytes]
    /\ head.docs \in [Document -> Record] /\ memory.docs \in [Document -> Record]
    /\ head.mutation \in 0..MaxMutations /\ memory.mutation \in 0..MaxMutations
    /\ mutation \in 0..MaxMutations /\ pending \in 0..MaxMutations
    /\ txns \subseteq 1..MaxMutations
    /\ phase \in {"down", "opening", "scanning", "serving"}
    /\ op.step \in {"idle", "prepare", "stage", "apply", "publish", "finish", "finalize",
                    "rollback", "moveback", "abort"}
    /\ scan.step \in {"idle", "read", "ingest"}
    /\ changes \in [Path -> [kind : {"none", "present", "missing"}, seen : Bytes,
                             docs : SUBSET Document]]
    /\ clock \in 1..(MaxContents + 1)

Init ==
    LET docs == [d \in Document |->
                   IF d = 1 THEN [active |-> TRUE, path |-> 1, revs |-> <<1, 2>>] ELSE Unknown]
    IN /\ disk = [p \in Path |-> IF p = 1 THEN 2 ELSE NoFile]
       /\ head = [docs |-> docs, mutation |-> 2] /\ memory = head
       /\ journal = {} /\ txns = {} /\ copies = {}
       /\ mutation = 2 /\ pending = 0
       /\ phase = "serving" /\ op = Idle /\ scan = NoScan
       /\ changes = [p \in Path |-> NoChange]
       /\ clock = 3
       /\ put = [p \in Path |-> {}]
       /\ settled = [d \in Document |-> [content |-> 2, at |-> 2]]
       /\ aborted = {}
       /\ faults = 0

(***************************************************************************)
(* Requests.  The coordinator makes the number of the mutation durable,    *)
(* then the callback takes the history lock and computes the next set of   *)
(* documents.  A request whose conditions fail changes nothing.            *)
(***************************************************************************)
Admits == Unlocked /\ pending = 0 /\ mutation < MaxMutations

(* row: the path whose pending change is deleted once the mutation succeeds. *)
Begin(by, d, docs, row) ==
    /\ Admits
    /\ pending' = mutation + 1
    /\ op' = [Idle EXCEPT !.step = "prepare", !.by = by, !.doc = d, !.next = docs,
                          !.row = row, !.at = clock]

Saved(docs, d, c) == [docs EXCEPT ![d].revs = Append(@, c)]
Created(docs, d, p, c) ==
    [docs EXCEPT ![d] = [active |-> TRUE, path |-> p, revs |-> <<c>>]]

Request(d, docs) ==
    /\ phase = "serving"
    /\ Begin("request", d, docs, 0)
    /\ UNCHANGED <<files, head, memory, mutation, phase, scan, changes, past, faults>>

(* A user acts: the bytes brought, if any, are numbered by the clock.      *)
Tick == clock \in Content /\ clock' = clock + 1

Save(d) ==
    /\ memory.docs[d].active
    /\ Tick
    /\ Request(d, Saved(memory.docs, d, clock))

Create(d, p) ==
    /\ ~Exists(memory.docs, d) /\ ActiveAt(memory.docs, p) = {}
    /\ Tick
    /\ Request(d, Created(memory.docs, d, p, clock))

Restore(d, i) ==
    /\ memory.docs[d].active /\ i \in 1..(Len(memory.docs[d].revs) - 1)
    /\ Request(d, Saved(memory.docs, d, memory.docs[d].revs[i]))
    /\ UNCHANGED clock

Rename(d, p) ==
    /\ memory.docs[d].active /\ ActiveAt(memory.docs, p) = {}
    /\ Request(d, [memory.docs EXCEPT ![d].path = p])
    /\ UNCHANGED clock

Delete(d) ==
    /\ memory.docs[d].active
    /\ Request(d, [memory.docs EXCEPT ![d].active = FALSE])
    /\ UNCHANGED clock

(* A write of another domain takes the next mutation revision.             *)
OtherWrite ==
    /\ phase = "serving" /\ Admits
    /\ mutation' = mutation + 1
    /\ UNCHANGED <<files, head, memory, pending, phase, op, scan, changes, clock, past, faults>>

(***************************************************************************)
(* Service.commit and Materializer.PrepareAndApply.                        *)
(***************************************************************************)
Go(step) == op' = [op EXCEPT !.step = step]
Other == UNCHANGED <<phase, scan, changes, clock, put>>

(* Contents in the history, and those only the request under way has.      *)
Kept(state) == UNION {Range(state.docs[d].revs) : d \in Document}
Brought == IF op.by # "request" THEN {} ELSE Kept([docs |-> op.next]) \ Kept(memory)

(* The operation failed: the coordinator drops the prepared number, which  *)
(* the next mutation takes again.                                          *)
Abandon ==
    /\ pending' = 0 /\ op' = Idle
    /\ aborted' = aborted \cup Brought

Planned == Plan(memory.docs, op.next)

PrepareNothing ==
    /\ op.step = "prepare" /\ journal = {} /\ Planned = <<>>
    /\ Go("publish")
    /\ UNCHANGED <<files, ledger, settled, aborted, faults>> /\ Other

MakeTransaction ==
    /\ op.step = "prepare" /\ journal = {} /\ Planned # <<>> /\ pending \notin txns
    /\ txns' = txns \cup {pending}
    /\ op' = [op EXCEPT !.step = "stage", !.ops = Planned]
    /\ UNCHANGED <<disk, journal, copies, ledger, settled, aborted, faults>> /\ Other

(* The journal of an earlier mutation is still there, or its directory.    *)
PrepareRefused ==
    /\ op.step = "prepare"
    /\ journal # {} \/ (Planned # <<>> /\ pending \in txns)
    /\ Abandon
    /\ UNCHANGED <<files, head, memory, mutation, settled, faults>> /\ Other

(* Backups and staged contents, then the journal in state prepared.        *)
Stage ==
    /\ op.step = "stage"
    /\ LET ops == [i \in DOMAIN op.ops |->
                     [op.ops[i] EXCEPT !.backup = disk[op.ops[i].path]]]
       IN /\ journal' = {[mutation |-> pending, applied |-> FALSE, ops |-> ops]}
          /\ op' = [op EXCEPT !.step = "apply", !.ops = ops, !.i = 1]
    /\ UNCHANGED <<disk, txns, copies, ledger, settled, aborted, faults>> /\ Other

StageFails ==
    /\ op.step = "stage" /\ Fault
    /\ txns' = txns \ {pending}
    /\ Abandon
    /\ UNCHANGED <<disk, journal, copies, head, memory, mutation, settled>> /\ Other

Apply ==
    /\ op.step = "apply" /\ op.i <= Len(op.ops)
    /\ disk' = [disk EXCEPT ![op.ops[op.i].path] = op.ops[op.i].want]
    /\ op' = [op EXCEPT !.i = @ + 1]
    /\ UNCHANGED <<journal, txns, copies, ledger, settled, aborted, faults>> /\ Other

MarkApplied ==
    /\ op.step = "apply" /\ op.i > Len(op.ops)
    /\ journal' = {[j EXCEPT !.applied = TRUE] : j \in journal}
    /\ Go("publish")
    /\ UNCHANGED <<disk, txns, copies, ledger, settled, aborted, faults>> /\ Other

(* A target cannot be replaced, or the journal cannot be written.          *)
ApplyFails ==
    /\ op.step = "apply" /\ Fault
    /\ op' = [op EXCEPT !.step = "rollback", !.i = Len(op.ops)]
    /\ UNCHANGED <<files, ledger, settled, aborted>> /\ Other

(* The compare-and-swap of the head, with its audit record and receipt.    *)
Publish ==
    /\ op.step = "publish"
    /\ head = memory
    /\ head' = [docs |-> op.next, mutation |-> pending]
    /\ settled' = IF op.by = "request" /\ op.next[op.doc].revs # memory.docs[op.doc].revs
                  THEN [settled EXCEPT ![op.doc] =
                           [content |-> Effective(op.next, op.doc), at |-> op.at]]
                  ELSE settled
    /\ Go("finish")
    /\ UNCHANGED <<files, memory, mutation, pending, aborted, faults>> /\ Other

PublishFails ==
    /\ op.step = "publish" /\ Fault
    /\ op' = [op EXCEPT !.step = IF journal = {} THEN "abort" ELSE "rollback",
                        !.i = Len(op.ops)]
    /\ UNCHANGED <<files, ledger, settled, aborted>> /\ Other

(* The coordinator records the mutation; only then does the service        *)
(* install the documents, and drop the journal.                            *)
Finish ==
    /\ op.step = "finish"
    /\ mutation' = pending /\ pending' = 0 /\ memory' = head
    /\ Go("finalize")
    /\ UNCHANGED <<files, head, settled, aborted, faults>> /\ Other

FinishFails ==
    /\ op.step = "finish" /\ Fault
    /\ op' = Idle
    /\ UNCHANGED <<files, ledger, settled, aborted>> /\ Other

(***************************************************************************)
(* removeJournalAndTransaction: after a commit (errors ignored), after a   *)
(* rollback, or at launch.  An error of the first removal does not stop    *)
(* the second.                                                             *)
(***************************************************************************)
Owner == IF journal = {} THEN 0 ELSE (CHOOSE j \in journal : TRUE).mutation

(* The mutation returns: a launch goes on or fails, a failed mutation is   *)
(* abandoned, a committed one succeeds whatever happened to its journal.   *)
Returns(ok) ==
    /\ op' = Idle
    /\ phase' = IF op.by # "launch" THEN phase ELSE IF ok THEN "scanning" ELSE "down"
    /\ pending' = 0
    /\ aborted' = IF pending = 0 THEN aborted ELSE aborted \cup Brought
    /\ changes' = [p \in Path |-> IF pending = 0 /\ p = op.row THEN NoChange ELSE changes[p]]
    /\ UNCHANGED <<head, memory, mutation, scan, clock, put, settled>>

Finalize ==
    /\ op.step = "finalize"
    /\ journal' = {} /\ txns' = txns \ {Owner} /\ copies' = {}
    /\ Returns(TRUE)
    /\ UNCHANGED <<disk, faults>>

(* One of the two removals fails.                                          *)
FinalizeFails ==
    /\ op.step = "finalize" /\ journal # {} /\ Fault
    /\ \/ txns' = txns \ {Owner} /\ copies' = {} /\ UNCHANGED journal
       \/ journal' = {} /\ UNCHANGED <<txns, copies>>
    /\ Returns(FALSE)
    /\ UNCHANGED disk

(***************************************************************************)
(* Materializer.rollback, last operation first.  A backup is copied beside *)
(* itself, exclusively, and the copy moved over the target.                *)
(***************************************************************************)
HadFile(k) == k > 0 /\ op.ops[k].backup # NoFile
CanCopy == op.i \notin copies /\ Owner \in txns

CopyBack ==
    /\ op.step = "rollback" /\ HadFile(op.i) /\ CanCopy
    /\ copies' = copies \cup {op.i}
    /\ Go("moveback")
    /\ UNCHANGED <<disk, journal, txns, ledger, settled, aborted, faults>> /\ Other

MoveBack ==
    /\ op.step = "moveback"
    /\ disk' = [disk EXCEPT ![op.ops[op.i].path] = op.ops[op.i].backup]
    /\ copies' = copies \ {op.i}
    /\ op' = [op EXCEPT !.step = "rollback", !.i = @ - 1]
    /\ UNCHANGED <<journal, txns, ledger, settled, aborted, faults>> /\ Other

RemoveBack ==
    /\ op.step = "rollback" /\ op.i > 0 /\ ~HadFile(op.i)
    /\ disk' = [disk EXCEPT ![op.ops[op.i].path] = NoFile]
    /\ op' = [op EXCEPT !.i = @ - 1]
    /\ UNCHANGED <<journal, txns, copies, ledger, settled, aborted, faults>> /\ Other

RolledBack ==
    /\ op.step = "rollback" /\ op.i = 0
    /\ Go("finalize")
    /\ UNCHANGED <<files, ledger, settled, aborted, faults>> /\ Other

(* The target cannot be replaced, like the one that made the mutation fail *)
(* when it is the same file in use: the copy stays behind.                 *)
RollbackFails ==
    /\ op.step = "moveback"
    /\ Returns(FALSE)
    /\ UNCHANGED <<files, faults>>

(* A leftover copy, or a transaction directory that is gone.               *)
RollbackBlocked ==
    /\ op.step = "rollback" /\ HadFile(op.i) /\ ~CanCopy
    /\ Returns(FALSE)
    /\ UNCHANGED <<files, faults>>

(* No journal: nothing to roll back.                                       *)
Abort ==
    /\ op.step = "abort"
    /\ Abandon
    /\ UNCHANGED <<files, head, memory, mutation, settled, faults>> /\ Other

(* Mutant: only the initial reconciliation.                                 *)
StartScanOnce ==
    /\ phase = "scanning" /\ Unlocked /\ scan.step = "idle"
    /\ scan' = [NoScan EXCEPT !.step = "read", !.basis = memory.docs, !.todo = Sorted(Path)]
    /\ UNCHANGED <<files, ledger, phase, op, changes, clock, past, faults>>

(***************************************************************************)
(* The watcher.  A rescan lists the documents, reads every file under the  *)
(* history lock, then ingests what differs from the listed revision.       *)
(***************************************************************************)
StartScan ==
    /\ Running /\ Unlocked /\ scan.step = "idle"
    /\ scan' = [NoScan EXCEPT !.step = "read", !.basis = memory.docs, !.todo = Sorted(Path)]
    /\ UNCHANGED <<files, ledger, phase, op, changes, clock, past, faults>>

(* The rescan after reading bytes at the next path.  What equals the listed *)
(* revision is done with; what differs carries the listed document and      *)
(* revision; a listed document without bytes is missing.                    *)
After(bytes) ==
    LET p == Head(scan.todo)
        Listed == ActiveAt(scan.basis, p)
        Change(d) == [path |-> p, bytes |-> bytes, doc |-> d,
                      rev |-> IF d = 0 THEN 0 ELSE Len(scan.basis[d].revs)]
        More == IF bytes \in {NoFile, Leaf(scan.basis, p)} THEN <<>>
                ELSE <<Change(IF Listed = {} THEN 0 ELSE CHOOSE d \in Listed : TRUE)>>
        Ended == Len(scan.todo) = 1
    IN [step |-> IF Ended THEN "ingest" ELSE "read",
        basis |-> IF Ended THEN <<>> ELSE scan.basis,
        todo |-> Tail(scan.todo),
        found |-> scan.found \o More,
        missing |-> scan.missing \cup
                      IF bytes = NoFile THEN {[path |-> p, doc |-> d] : d \in Listed} ELSE {}]

(* Mutant: the bytes are read without the history lock.                     *)
ReadFileUnlocked ==
    /\ scan.step = "read"
    /\ scan' = After(disk[Head(scan.todo)])
    /\ UNCHANGED <<files, ledger, phase, op, changes, clock, past, faults>>

ReadFile ==
    /\ scan.step = "read" /\ Unlocked
    /\ scan' = After(disk[Head(scan.todo)])
    /\ UNCHANGED <<files, ledger, phase, op, changes, clock, past, faults>>

(* The file kept changing while it was read.                               *)
ReadUnstable ==
    /\ scan.step = "read" /\ Unlocked /\ disk[Head(scan.todo)] # NoFile /\ Fault
    /\ scan' = After(NoFile)
    /\ UNCHANGED <<files, ledger, phase, op, changes, clock, past>>

(* ConservativeIdentityResolver.Resolve for bytes at an untracked path:     *)
(* the documents for which a user has to confirm, none for a new document. *)
Candidates(p, c) ==
    LET Named == {d \in Document : Exists(memory.docs, d) /\ memory.docs[d].path = p}
        Same == {d \in Document : memory.docs[d].active /\ Effective(memory.docs, d) = c}
    IN IF Named # {} THEN Named ELSE Same

Confirm(p, bytes, docs) ==
    changes' = [changes EXCEPT ![p] = [kind |-> "present", seen |-> bytes, docs |-> docs]]

Ingests(f) ==
    /\ scan.step = "ingest" /\ Unlocked /\ scan.found # <<>> /\ f = Head(scan.found)
    /\ scan' = [scan EXCEPT !.found = Tail(@)]
    /\ UNCHANGED <<files, head, memory, mutation, phase, clock, past, faults>>

(* Mutant: the expected revision is not passed on.                          *)
CurrentPath(f) == memory.docs[f.doc].path = f.path

(* A tracked path: save on the condition that the listed revision is still *)
(* effective and the document still at that path; otherwise an error.      *)
Current(f) ==
    /\ memory.docs[f.doc].path = f.path
    /\ Len(memory.docs[f.doc].revs) = f.rev

IngestTracked(f) ==
    /\ f.doc # 0 /\ Ingests(f)
    /\ \/ /\ memory.docs[f.doc].active /\ Current(f)
          /\ Begin("watcher", f.doc, Saved(memory.docs, f.doc, f.bytes), f.path)
          /\ UNCHANGED changes
       \/ /\ memory.docs[f.doc].active /\ ~(Current(f) /\ Admits)
          /\ UNCHANGED <<op, pending, changes>>
       \/ /\ ~memory.docs[f.doc].active
          /\ Confirm(f.path, f.bytes, {f.doc})
          /\ UNCHANGED <<op, pending>>

IngestUntracked(f) ==
    /\ f.doc = 0 /\ Ingests(f)
    /\ \/ /\ Candidates(f.path, f.bytes) # {}
          /\ Confirm(f.path, f.bytes, Candidates(f.path, f.bytes))
          /\ UNCHANGED <<op, pending>>
       \/ /\ Candidates(f.path, f.bytes) = {}
          /\ \E d \in Document :
               /\ ~Exists(memory.docs, d)
               /\ Begin("watcher", d, Created(memory.docs, d, f.path, f.bytes), f.path)
          /\ UNCHANGED changes
       \/ /\ Candidates(f.path, f.bytes) = {}
          /\ ~Admits \/ \A d \in Document : Exists(memory.docs, d)
          /\ UNCHANGED <<op, pending, changes>>

(* Missing files are presented last.  The first rescan ends before the     *)
(* workspace serves requests.                                              *)
EndScan ==
    /\ scan.step = "ingest" /\ Unlocked /\ scan.found = <<>>
    /\ changes' = [p \in Path |->
         LET docs == {m.doc : m \in {x \in scan.missing : x.path = p}}
         IN IF docs = {} THEN changes[p]
            ELSE [kind |-> "missing", seen |-> NoFile, docs |-> docs]]
    /\ scan' = NoScan
    /\ phase' = "serving"
    /\ UNCHANGED <<files, ledger, op, clock, past, faults>>

(***************************************************************************)
(* applyPendingFileChange: what a user decides about a pending change.     *)
(***************************************************************************)
Decide(p, kind) ==
    /\ phase = "serving" /\ Unlocked
    /\ changes[p].kind = kind /\ disk[p] = changes[p].seen
    /\ UNCHANGED <<files, head, memory, mutation, phase, scan, changes, clock, past, faults>>

Matches(d, p) ==
    d \in changes[p].docs /\ memory.docs[d].active /\ Effective(memory.docs, d) = changes[p].seen

DecideMove(p, d) ==
    /\ Decide(p, "present") /\ Matches(d, p) /\ ActiveAt(memory.docs, p) = {}
    /\ Begin("request", d, [memory.docs EXCEPT ![d].path = p], p)

DecideCopy(p, d, e) ==
    /\ Decide(p, "present") /\ Matches(d, p) /\ ActiveAt(memory.docs, p) = {}
    /\ ~Exists(memory.docs, e)
    /\ Begin("request", e, Created(memory.docs, e, p, changes[p].seen), p)

DecideNew(p, e) ==
    /\ Decide(p, "present") /\ Candidates(p, changes[p].seen) = {}
    /\ ~Exists(memory.docs, e)
    /\ Begin("request", e, Created(memory.docs, e, p, changes[p].seen), p)

DecideDelete(p, d) ==
    /\ Decide(p, "missing") /\ d \in changes[p].docs
    /\ memory.docs[d].active /\ memory.docs[d].path = p
    /\ Begin("request", d, [memory.docs EXCEPT ![d].active = FALSE], p)

Dismiss(p) ==
    /\ phase = "serving" /\ changes[p] # NoChange
    /\ changes' = [changes EXCEPT ![p] = NoChange]
    /\ UNCHANGED <<files, ledger, phase, op, scan, clock, past, faults>>

(***************************************************************************)
(* Users at work in files/, whether the program runs or not.               *)
(***************************************************************************)
Puts(p, c) ==
    /\ Tick
    /\ disk[p] # c
    /\ disk' = [disk EXCEPT ![p] = c]
    /\ put' = [put EXCEPT ![p] = @ \cup {[at |-> clock, bytes |-> c]}]
    /\ UNCHANGED <<journal, txns, copies, ledger, phase, op, scan, changes, settled, aborted,
                   faults>>

EditFile(p) == Puts(p, clock)
RemoveFile(p) == Puts(p, NoFile)
CopyFile(p, q) == disk[q] # NoFile /\ Puts(p, disk[q])

(***************************************************************************)
(* The process.                                                            *)
(***************************************************************************)
Crash ==
    /\ phase # "down" /\ Fault
    /\ phase' = "down" /\ op' = Idle /\ scan' = NoScan /\ memory' = head
    /\ aborted' = aborted \cup (Brought \ Kept(head))
    /\ UNCHANGED <<files, head, mutation, pending, changes, clock, put, settled>>

(* recoverPreparedMutation: the head proves the prepared mutation, or it    *)
(* is dropped and its number used again.                                    *)
Launch ==
    /\ phase = "down"
    /\ phase' = "opening"
    /\ mutation' = IF pending # 0 /\ head.mutation = pending THEN pending ELSE mutation
    /\ pending' = 0
    /\ UNCHANGED <<files, head, memory, op, scan, changes, clock, past, faults>>

(* Materializer.Recover: the head decides whether the journal's mutation    *)
(* committed.                                                               *)
Committed(j) == head.mutation = j.mutation

(* Mutants: the journal of an unproven mutation is dropped, its files kept; *)
(* a committed mutation is refused.                                         *)
RecoverForward ==
    /\ phase = "opening" /\ Unlocked
    /\ \/ /\ journal = {}
          /\ phase' = "scanning" /\ UNCHANGED op
       \/ /\ journal # {}
          /\ op' = [Idle EXCEPT !.step = "finalize", !.by = "launch"]
          /\ UNCHANGED phase
    /\ UNCHANGED <<files, ledger, scan, changes, clock, past, faults>>

RecoverRefusing ==
    /\ phase = "opening" /\ Unlocked
    /\ phase' = IF journal = {} THEN "scanning" ELSE "down"
    /\ UNCHANGED <<files, ledger, op, scan, changes, clock, past, faults>>

Recover ==
    /\ phase = "opening" /\ Unlocked
    /\ \/ /\ journal = {}
          /\ phase' = "scanning" /\ UNCHANGED op
       \/ \E j \in journal :
            \/ /\ Committed(j)
               /\ op' = IF j.applied THEN [Idle EXCEPT !.step = "finalize", !.by = "launch"]
                        ELSE Idle
               /\ phase' = IF j.applied THEN phase ELSE "down"
            \/ /\ ~Committed(j)
               /\ op' = [Idle EXCEPT !.step = "rollback", !.by = "launch", !.ops = j.ops,
                                     !.i = Len(j.ops)]
               /\ UNCHANGED phase
    /\ UNCHANGED <<files, ledger, scan, changes, clock, past, faults>>

Mutation ==
    \/ PrepareNothing \/ MakeTransaction \/ PrepareRefused \/ Stage \/ Apply \/ MarkApplied
    \/ Publish \/ Finish \/ Finalize
    \/ CopyBack \/ MoveBack \/ RemoveBack \/ RolledBack \/ RollbackBlocked \/ Abort

Failure ==
    \/ StageFails \/ ApplyFails \/ PublishFails \/ FinishFails
    \/ FinalizeFails \/ RollbackFails

Watch ==
    \/ StartScan \/ ReadFile \/ EndScan
    \/ \E f \in Range(scan.found) : IngestTracked(f) \/ IngestUntracked(f)

User ==
    \/ \E d \in Document :
         \/ Save(d) \/ Delete(d)
         \/ \E i \in 1..MaxMutations : Restore(d, i)
         \/ \E p \in Path : Create(d, p) \/ Rename(d, p) \/ DecideMove(p, d)
                            \/ DecideNew(p, d) \/ DecideDelete(p, d)
                            \/ \E e \in Document : DecideCopy(p, d, e)
    \/ \E p \in Path :
         \/ Dismiss(p) \/ EditFile(p) \/ RemoveFile(p)
         \/ \E q \in Path : CopyFile(p, q)

Next == User \/ Mutation \/ Failure \/ Watch \/ ReadUnstable \/ OtherWrite
        \/ Crash \/ Launch \/ Recover

Spec == Init /\ [][Next]_vars

(* A mutation under way is a running goroutine, the watcher rescans on a    *)
(* ticker, and a closed workspace is opened again.                          *)
Fairness ==
    /\ WF_vars(Mutation) /\ WF_vars(Watch)
    /\ WF_vars(Launch) /\ WF_vars(Recover)

FairSpec == Spec /\ Fairness

(***************************************************************************)
(* Properties.                                                             *)
(***************************************************************************)

(* A journal whose mutation the head shows as committed is in state        *)
(* applied, so recovery never meets the combination it calls corrupt; one  *)
(* that is not committed is newer than the head, so rolling it back never  *)
(* undoes the files of a later publication (materializer.go, Recover).     *)
JournalDecides ==
    /\ TypeOK
    /\ \A j \in journal :
         /\ Committed(j) => j.applied
         /\ ~Committed(j) => head.mutation < j.mutation

(* Bytes a user put at p since t.                                          *)
PutSince(p, t) == {e.bytes : e \in {x \in put[p] : x.at >= t}}
Quiet == Running /\ Unlocked /\ pending = 0 /\ journal = {}
(* With no mutation under way, none unresolved and no journal left, every  *)
(* file holds the effective leaf of the head or bytes that a user put at   *)
(* that path: crash, failed step, rollback and recovery never leave bytes  *)
(* of their own behind.  While there is a journal, the head decides it.    *)
FilesFollowHead ==
    /\ JournalDecides
    /\ Quiet => \A p \in Path : disk[p] = Leaf(head.docs, p) \/ disk[p] \in PutSince(p, 1)

(* The bytes of a request that failed never become a revision, although    *)
(* they were in files/ for a while: the watcher reads under the history    *)
(* lock (watcher.go, stableRead).                                          *)
FailedRequestsLeaveNoRevision ==
    (aborted \ UNION {PutSince(p, 1) : p \in Path}) \cap Kept(head) = {}

(* What a published save or restore made effective stays effective until a *)
(* user acts again: bytes the watcher read before it are not bound to a    *)
(* newer revision (watcher.go, rescan: the CAS basis).                     *)
PublishedRequestsStand ==
    \A d \in Document :
      Exists(head.docs, d) =>
        \/ Effective(head.docs, d) = settled[d].content
        \/ \E p \in Path : Effective(head.docs, d) \in PutSince(p, settled[d].at)

(* Whatever is interleaved with rescans and user edits, the history holds   *)
(* exactly the bytes it was given for good: no failed request's, and none  *)
(* that a later revision has replaced (service.go, watcher.go).              *)
HistoryIsTrue == FailedRequestsLeaveNoRevision /\ PublishedRequestsStand

(* A file the history has, or of which a pending change tells.             *)
Shown(p) ==
    \/ disk[p] = Leaf(head.docs, p)
    \/ changes[p].kind # "none" /\ changes[p].seen = disk[p]
(* The workspace takes no file mutations now: an unresolved mutation, a    *)
(* journal or a transaction directory in the way, or a bound of the model. *)
Hindered ==
    \/ pending # 0 \/ journal # {} \/ mutation + 1 \in txns
    \/ mutation = MaxMutations \/ \A d \in Document : Exists(head.docs, d)
(* Whatever differs in files/ is in the end a revision or a pending change *)
(* shown to the user, however often an event is lost: the watcher rescans. *)
EditsSurface == []<>(Hindered \/ \A p \in Path : Shown(p))

(* A rollback that cannot be resumed: a copy that a failed or interrupted  *)
(* rollback left, or a journal whose transaction directory is gone.        *)
Wedged == copies # {} \/ \E j \in journal : j.mutation \notin txns
(* materializer.go: "startup can prove which side of the commit boundary   *)
(* won", so a closed workspace opens again, unless it is wedged.           *)
WorkspaceOpens == []<>(phase = "serving" \/ Wedged)
=============================================================================
