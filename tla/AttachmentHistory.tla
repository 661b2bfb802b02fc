------------------------- MODULE AttachmentHistory -------------------------
(***************************************************************************)
(* Files attached to records, their archived versions, and the restore of  *)
(* a record from its history: attachments/manager.go, audit/service.go and *)
(* the part of mutation/apply.go they run in.                              *)
(*                                                                         *)
(* The database and the storage of the files are two stores.  A            *)
(* transaction of the kernel writes new files and copies of the files it   *)
(* removes while it runs; the removed files themselves go only after it    *)
(* has committed, the new ones only after it has rolled back.  Uploads     *)
(* wait in memory under a handle that concurrent sends of one request      *)
(* share.  A preview of a restore leaves a token; applying it reads again  *)
(* what the preview saw.                                                   *)
(*                                                                         *)
(* One table with one file field.  A stored name is drawn at random by the *)
(* code and is never drawn twice here.                                     *)
(***************************************************************************)
EXTENDS Integers, Sequences, FiniteSets

CONSTANTS
    Record, Content,
    Client,        \* goroutines that serve requests
    Wish,          \* what users ask for, of the requests there are
    Key, Token,    \* idempotency keys of users, tokens of previews
    MaxNames,      \* bound: names ever drawn
    MaxFiles,      \* policy.MaxFiles of the field
    MaxEvents,     \* bound: audit events
    MaxStaged,     \* maxStagedFiles
    MaxFaults,     \* bound: crashes, failed steps and damaged objects
    None

Name == 1..MaxNames
Request == Key \cup Token
Slot == 0..MaxNames
Handle == Request \X Slot

\* setAttachments with the names to remove and the bytes to upload, or
\* the deletion of the record.
UserRequest ==
    [op : {"set"}, record : Record, remove : SUBSET Name, upload : [{0} -> Content]]
    \cup [op : {"set"}, record : Record, remove : (SUBSET Name) \ {{}}, upload : [{} -> Content]]
    \cup [op : {"delete"}, record : Record, remove : {{}}, upload : [{} -> Content]]

ASSUME AttachmentAssumption ==
    /\ MaxNames \in Nat /\ MaxFiles \in Nat /\ MaxEvents \in Nat
    /\ MaxStaged \in Nat \ {0} /\ MaxFaults \in Nat
    /\ IsFiniteSet(Client) /\ "versions" \notin Record
    /\ Key \cap Token = {} /\ None \notin Record \cup Content \cup Client \cup Key \cup Token \cup Wish
    /\ Wish \subseteq UserRequest

VARIABLES
    rows,      \* the table: is the record there, which names does it list
    meta,      \* vibetable_attachment_meta
    versions,  \* vibetable_attachment_versions
    events,    \* vibetable_audit_events
    applied,   \* vibetable_idempotency_keys
    disk,      \* objects of the storage of PocketBase
    staged,    \* manager.staged: references of a handle
    tokens,    \* service.tokens and service.claims
    client,    \* what each goroutine does
    tx,        \* the transaction of the holder of the kernel's gate
    asked,     \* what the user asked for under each key
    next,      \* first name not drawn yet
    faults,
    truth,     \* history: the bytes the user gave under a name
    damaged,   \* history: objects that were damaged on the disk
    commits    \* history: how often a request took effect

durable == <<rows, meta, versions, events, applied>>
volatile == <<staged, tokens, client, tx>>
history == <<truth, damaged, commits>>
vars == <<durable, disk, volatile, asked, next, faults, history>>

Directory == Record \cup {"versions"}
NoRow == [exists |-> FALSE, files |-> {}]
Bad == "bad"
Row == [exists : BOOLEAN, files : SUBSET Name]
Idle == [pc |-> "idle", request |-> None, held |-> {}, answer |-> "none"]
NoTx == [owner |-> None, record |-> None, files |-> {}, uploads |-> {},
         archive |-> {}, gone |-> FALSE, committed |-> FALSE]

Files == [name : Name, hash : Content]
Version == [record : Record, name : Name, hash : Content, blob : Name]
Event == [record : Record, op : {"set", "insert", "delete"}, before : Row, after : Row]
Point == {"idle", "claimed", "staged", "queued", "archived", "saved", "complete", "readback",
          "answer"}
Outcome == {"none", "full", "conflict", "refused", "pending", "replayed", "committed",
            "failed"}
Serving == [pc : Point, request : Request \cup {None}, held : SUBSET Handle,
            answer : Outcome]
Items == UNION {[names -> Content] : names \in SUBSET Name}
Preview == [state : {"issued", "taken"}, event : Nat \ {0}, record : Record, insert : BOOLEAN,
            current : SUBSET Name, live : SUBSET Name, items : Items]

TablesTypeOK ==
    /\ rows \in [Record -> Row]
    /\ meta \subseteq [record : Record, name : Name, hash : Content]
    /\ versions \subseteq Version /\ events \in Seq(Event) /\ applied \subseteq Request
StorageTypeOK ==
    /\ disk \subseteq [dir : Directory, name : Name, bytes : Content \cup {Bad}]
    /\ next \in 1..(MaxNames + 1) /\ faults \in 0..MaxFaults
MemoryTypeOK ==
    /\ staged \in [Handle -> 0..Cardinality(Client)]
    /\ tokens \in [Token -> [state : {"none", "lost"}] \cup Preview]
    /\ client \in [Client -> Serving]
    /\ asked \in [Key -> Wish \cup {None}]
TxTypeOK ==
    tx \in [owner : Client \cup {None}, record : Record \cup {None}, files : SUBSET Name,
            uploads : SUBSET Files, archive : SUBSET Version, gone : BOOLEAN, committed : BOOLEAN]
HistoryTypeOK ==
    /\ truth \in [Name -> Content \cup {None}] /\ damaged \subseteq Name
    /\ commits \in [Request -> Nat]
TypeOK == TablesTypeOK /\ StorageTypeOK /\ MemoryTypeOK /\ TxTypeOK /\ HistoryTypeOK

-----------------------------------------------------------------------------
(* What a request wants done.                                              *)

\* The restore plan of a token: its items keep the place of the target's
\* names, and everything the record lists now is removed.
Plan(t) ==
    [op |-> IF tokens[t].insert THEN "insert" ELSE "set", record |-> tokens[t].record,
     remove |-> tokens[t].current, upload |-> tokens[t].items]

Wanted(q) == IF q \in Key THEN asked[q] ELSE Plan(q)
HandlesOf(q) == {<<q, s>> : s \in DOMAIN Wanted(q).upload}

-----------------------------------------------------------------------------
(* Objects.                                                                *)

Object(d, n, b) == [dir |-> d, name |-> n, bytes |-> b]
MetaOf(r) == {m \in meta : m.record = r}
VersionsOf(r, n) == {v \in versions : v.record = r /\ v.name = n}

\* verifyObject and copyVerifiedObject: the object is there and its bytes
\* have the size and hash that the metadata promises.
Verified(d, n, hash) == Object(d, n, hash) \in disk

LiveVerified(r, n) == \E m \in MetaOf(r) : m.name = n /\ Verified(r, n, m.hash)
VersionVerified(r, n) == \E v \in VersionsOf(r, n) : Verified("versions", v.blob, v.hash)

\* Mutant: a name is archived if there is a file under it.
ArchivableByMetadata(r, names) ==
    \A n \in names : VersionsOf(r, n) # {} \/ \E o \in disk : o.dir = r /\ o.name = n

\* archiveMetadata: a name archived before is verified and kept, any other
\* is read from the record's directory and verified.
Archivable(r, names) ==
    \A n \in names :
        IF VersionsOf(r, n) # {} THEN VersionVerified(r, n) ELSE LiveVerified(r, n)

\* Names are drawn in order: how many of a set come before x.
Rank(S, x) == Cardinality({y \in S : y < x})

\* The version rows the loop adds: fresh blobs, in the order of the names.
Archive(r, names) ==
    LET new == {n \in names : VersionsOf(r, n) = {}} IN
    {[record |-> r, name |-> n,
      hash |-> (CHOOSE m \in meta : m.record = r /\ m.name = n).hash,
      blob |-> next + Rank(new, n)] : n \in new}

-----------------------------------------------------------------------------
Init ==
    /\ rows = [r \in Record |-> [exists |-> TRUE, files |-> {}]]
    /\ meta = {} /\ versions = {} /\ events = <<>> /\ applied = {}
    /\ disk = {}
    /\ staged = [h \in Handle |-> 0]
    /\ tokens = [t \in Token |-> [state |-> "none"]]
    /\ client = [c \in Client |-> Idle]
    /\ tx = NoTx
    /\ asked = [k \in Key |-> None]
    /\ next = 1 /\ faults = 0
    /\ truth = [n \in Name |-> None] /\ damaged = {}
    /\ commits = [q \in Request |-> 0]

At(c, pc) == client[c].pc = pc
Goto(c, pc) == client' = [client EXCEPT ![c].pc = pc]
Answer(c, a) == client' = [client EXCEPT ![c] = [@ EXCEPT !.pc = "answer", !.answer = a]]
Fault == faults < MaxFaults /\ faults' = faults + 1

StagedHandles == {h \in Handle : staged[h] > 0}

\* stage: a handle that is there gains a reference, a new one needs room.
CanStage(hs) == Cardinality(StagedHandles \cup hs) <= MaxStaged
Stage(hs) == staged' = [h \in Handle |-> staged[h] + (IF h \in hs THEN 1 ELSE 0)]

\* Mutant: the first request that ends takes the bytes along.
DropAll(hs) == staged' = [h \in Handle |-> IF h \in hs THEN 0 ELSE staged[h]]

\* Drop: the last reference takes the bytes along.
Drop(hs) ==
    staged' = [h \in Handle |-> IF h \in hs /\ staged[h] > 0 THEN staged[h] - 1 ELSE staged[h]]

-----------------------------------------------------------------------------
(* A user's request: /mutations/apply with its uploads.                    *)

\* A user asks for something, or sends what he asked for once more.
Asks(k, w) ==
    \/ /\ asked[k] = None
       /\ rows[w.record].exists /\ w.remove \subseteq rows[w.record].files
       /\ asked' = [asked EXCEPT ![k] = w]
    \/ asked[k] = w /\ UNCHANGED asked

\* decodeMultipartMutation: the uploads are staged before the request
\* queues for anything.
Send(c, k, w) ==
    LET hs == {<<k, s>> : s \in DOMAIN w.upload} IN
    /\ At(c, "idle")
    /\ Asks(k, w)
    /\ \/ /\ CanStage(hs) /\ Stage(hs)
          /\ client' = [client EXCEPT ![c] = [pc |-> "staged", request |-> k, held |-> hs, answer |-> "none"]]
       \/ /\ ~CanStage(hs) /\ UNCHANGED staged
          /\ client' = [client EXCEPT ![c] = [pc |-> "answer", request |-> k, held |-> {}, answer |-> "full"]]
    /\ UNCHANGED <<durable, disk, tokens, tx, next, faults, history>>

-----------------------------------------------------------------------------
(* Preview and start of a restore from history.                            *)

Image(e) == IF e.op = "delete" THEN e.before ELSE e.after

\* Manager.PreviewRestore: every current file and every file of the target
\* must be there with the bytes its metadata names.
Restorable(r, target) ==
    /\ Cardinality(target) <= MaxFiles
    /\ \A n \in rows[r].files : LiveVerified(r, n)
    /\ \A n \in target \ rows[r].files : VersionVerified(r, n)

\* The hash an item of the plan is bound to.
ItemHash(r, n) ==
    IF n \in rows[r].files
    THEN (CHOOSE m \in meta : m.record = r /\ m.name = n).hash
    ELSE (CHOOSE v \in versions : v.record = r /\ v.name = n).hash

\* Service.PreviewRestore.  Its reads are one step: what they saw is checked
\* again when the token is applied, as the row's digest.
PreviewRestore(t, i) ==
    LET e == events[i]
        r == e.record
        target == Image(e).files
        now == rows[r]
    IN
    /\ tokens[t].state = "none"
    /\ \/ target # now.files /\ Restorable(r, target)
       \/ target = now.files /\ ~now.exists /\ e.op = "delete"
    /\ tokens' = [tokens EXCEPT ![t] =
           [state |-> "issued", event |-> i, record |-> r, insert |-> ~now.exists,
            current |-> now.files, live |-> target \cap now.files,
            items |-> [n \in target |-> ItemHash(r, n)]]]
    /\ UNCHANGED <<durable, disk, staged, client, tx, asked, next, faults, history>>

\* The row is the one that was previewed, by existence and digest.
AsPreviewed(t) ==
    rows[tokens[t].record] = [exists |-> ~tokens[t].insert, files |-> tokens[t].current]

\* applyRestore up to StageRestore: the token is taken by one caller.
ClaimToken(c, t) ==
    /\ At(c, "idle") /\ tokens[t].state = "issued"
    /\ tokens' = [tokens EXCEPT ![t].state = "taken"]
    /\ client' = [client EXCEPT ![c] =
           [pc |-> IF AsPreviewed(t) THEN "claimed" ELSE "answer", request |-> t, held |-> {},
            answer |-> IF AsPreviewed(t) THEN "none" ELSE "conflict"]]
    /\ UNCHANGED <<durable, disk, staged, tx, asked, next, faults, history>>

\* StageRestore reads an item where it is now: a live file that has been
\* removed since the preview is read from its version.
ItemReadable(t, n) ==
    LET r == tokens[t].record
        hash == tokens[t].items[n]
        archived == \E v \in VersionsOf(r, n) : Verified("versions", v.blob, hash)
    IN IF n \in tokens[t].live
       THEN rows[r].exists /\ IF n \in rows[r].files THEN Verified(r, n, hash) ELSE archived
       ELSE archived

StageRestore(c) ==
    LET t == client[c].request
        hs == HandlesOf(t)
    IN
    /\ At(c, "claimed")
    /\ \/ /\ \A n \in DOMAIN tokens[t].items : ItemReadable(t, n)
          /\ CanStage(hs) /\ Stage(hs)
          /\ client' = [client EXCEPT ![c] = [@ EXCEPT !.pc = "staged", !.held = hs]]
       \/ /\ \/ \E n \in DOMAIN tokens[t].items : ~ItemReadable(t, n)
             \/ ~CanStage(hs)
          /\ Answer(c, "refused") /\ UNCHANGED staged
    /\ UNCHANGED <<durable, disk, tokens, tx, asked, next, faults, history>>

\* restoreTTL: a token that is waiting is forgotten.
Expire(t) ==
    /\ tokens[t].state = "issued"
    /\ tokens' = [tokens EXCEPT ![t] = [state |-> "lost"]]
    /\ UNCHANGED <<durable, disk, staged, client, tx, asked, next, faults, history>>

-----------------------------------------------------------------------------
(* Kernel.Apply.                                                           *)

InKernel(c) == client[c].pc \in {"queued", "archived", "saved", "complete"}

\* mutationCoordinator.begin: a second caller of a request under way is told
\* so and does not wait.
Begin(c) ==
    /\ At(c, "staged")
    /\ IF \E d \in Client : InKernel(d) /\ client[d].request = client[c].request
       THEN Answer(c, "pending")
       ELSE Goto(c, "queued")
    /\ UNCHANGED <<durable, disk, staged, tokens, tx, asked, next, faults, history>>

\* Mutant: the row's digest is checked when the token is claimed only.
GuardedByExistence(q) == rows[Wanted(q).record].exists = (Wanted(q).op # "insert")

\* validateGlobalGuard for the restore of a row that exists,
\* resolveOperationRecord for any operation.
Guarded(q) ==
    LET w == Wanted(q) IN
    CASE q \in Token /\ w.op = "set"    -> AsPreviewed(q)
      [] q \in Token /\ w.op = "insert" -> ~rows[w.record].exists
      [] OTHER -> rows[w.record].exists

\* The checks of Prepare and DeleteRecord before they archive.
Prepared(q) ==
    LET w == Wanted(q)
        files == rows[w.record].files
    IN IF w.op = "delete"
       THEN {m.name : m \in MetaOf(w.record)} = files
       ELSE /\ \A h \in HandlesOf(q) : staged[h] > 0
            /\ w.remove \subseteq files
            /\ Cardinality(files \ w.remove) + Cardinality(DOMAIN w.upload) <= MaxFiles

\* replayOrReject: the key has its receipt.
Replayed(q) == q \in applied

\* restoreMutationError: what may succeed a second time gets its token back.
GiveBack(q) == tokens' = IF q \in Token THEN [tokens EXCEPT ![q].state = "issued"] ELSE tokens

\* What a restore returns is read after the commit.
Succeed(c, answer) == IF client[c].request \in Token THEN Goto(c, "readback") ELSE Answer(c, answer)

Removed(w) == IF w.op = "delete" THEN rows[w.record].files ELSE w.remove

\* The transaction begins: a request that took effect is answered from its
\* receipt, a guard or a file that is not whole ends it, and the files it
\* removes are copied to the versions.
Enter(c) ==
    LET q == client[c].request
        w == Wanted(q)
        copies == Archive(w.record, Removed(w))
    IN
    /\ At(c, "queued") /\ tx.owner = None
    /\ Len(events) + (IF w.op = "insert" THEN 2 ELSE 1) <= MaxEvents
    /\ next + Cardinality(Removed(w)) + Cardinality(DOMAIN w.upload) <= MaxNames + 1
    /\ \/ /\ Replayed(q)
          /\ Succeed(c, "replayed") /\ UNCHANGED <<tx, disk, next, tokens>>
       \/ /\ ~Replayed(q) /\ ~Guarded(q)
          /\ Answer(c, "conflict") /\ UNCHANGED <<tx, disk, next, tokens>>
       \/ /\ ~Replayed(q) /\ Guarded(q)
          /\ ~(Prepared(q) /\ Archivable(w.record, Removed(w)))
          /\ Answer(c, "refused") /\ (GiveBack(q) \/ UNCHANGED tokens)
          /\ UNCHANGED <<tx, disk, next>>
       \/ /\ ~Replayed(q) /\ Guarded(q)
          /\ Prepared(q) /\ Archivable(w.record, Removed(w))
          /\ Goto(c, "archived")
          /\ tx' = [NoTx EXCEPT !.owner = c, !.record = w.record, !.archive = copies,
                                !.gone = (w.op = "delete"), !.files = Removed(w)]
          /\ disk' = disk \cup
                 {Object("versions", v.blob,
                         (CHOOSE o \in disk : o.dir = w.record /\ o.name = v.name).bytes) : v \in copies}
          /\ next' = next + Cardinality(copies)
          /\ UNCHANGED tokens
    /\ UNCHANGED <<durable, staged, asked, faults, history>>

\* The record is saved: its new files are written under fresh names.
Save(c) ==
    LET w == Wanted(client[c].request)
        slots == DOMAIN w.upload
        new == {[name |-> next + Rank(slots, s), hash |-> w.upload[s]] : s \in slots}
    IN
    /\ At(c, "archived")
    /\ Goto(c, "saved")
    /\ tx' = [tx EXCEPT !.uploads = new]
    /\ disk' = disk \cup {Object(w.record, u.name, u.hash) : u \in new}
    /\ next' = next + Cardinality(slots)
    /\ truth' = [n \in Name |->
           IF \E u \in new : u.name = n THEN (CHOOSE u \in new : u.name = n).hash ELSE truth[n]]
    /\ UNCHANGED <<durable, staged, tokens, asked, faults, damaged, commits>>

\* The audit events of the operations: a restored record is inserted and
\* then given its files.
Audited(w, before, after) ==
    LET event(op, x, y) == [record |-> w.record, op |-> op, before |-> x, after |-> y]
        empty == [exists |-> TRUE, files |-> {}]
    IN CASE w.op = "insert" ->
              <<event("insert", before, empty)>> \o
              (IF after = empty THEN <<>> ELSE <<event("set", empty, after)>>)
         [] OTHER -> <<event(w.op, before, after)>>

\* updateMetadata, saveAudit and saveIdempotency commit with the row.
Commit(c) ==
    LET q == client[c].request
        w == Wanted(q)
        r == w.record
        after == IF tx.gone THEN NoRow
                 ELSE [exists |-> TRUE,
                       files |-> (rows[r].files \ tx.files) \cup {u.name : u \in tx.uploads}]
    IN
    /\ At(c, "saved")
    /\ Goto(c, "complete")
    /\ tx' = [tx EXCEPT !.committed = TRUE]
    /\ rows' = [rows EXCEPT ![r] = after]
    /\ meta' = {m \in meta : m.record # r \/ m.name \notin tx.files}
               \cup {[record |-> r, name |-> u.name, hash |-> u.hash] : u \in tx.uploads}
    /\ versions' = versions \cup tx.archive
    /\ events' = events \o Audited(w, rows[r], after)
    /\ applied' = applied \cup {q}
    /\ commits' = [commits EXCEPT ![q] = @ + 1]
    /\ UNCHANGED <<disk, staged, tokens, asked, next, faults, truth, damaged>>

\* Any step of the transaction fails, or the caller has gone.
Rollback(c) ==
    /\ client[c].pc \in {"archived", "saved"} /\ Fault
    /\ Goto(c, "complete")
    /\ UNCHANGED <<durable, disk, staged, tokens, tx, asked, next, history>>

\* Mutant: the removed files go whatever the outcome.
LeftoversOnRollback ==
    {o \in disk : o.dir = tx.record /\ o.name \in tx.files}
    \cup {o \in disk : ~tx.committed /\ \/ o.dir = "versions" /\ \E v \in tx.archive : v.blob = o.name
                                        \/ o.dir = tx.record /\ \E u \in tx.uploads : u.name = o.name}

\* What the end of the transaction takes off the disk: the files a commit
\* removed, or everything under the record when it is gone; the new files
\* and copies of a rollback.
Leftovers ==
    CASE tx.committed /\ tx.gone -> {o \in disk : o.dir = tx.record}
      [] tx.committed /\ ~tx.gone -> {o \in disk : o.dir = tx.record /\ o.name \in tx.files}
      [] OTHER -> {o \in disk : \/ o.dir = "versions" /\ \E v \in tx.archive : v.blob = o.name
                                \/ o.dir = tx.record /\ \E u \in tx.uploads : u.name = o.name}

\* The hooks that run after the transaction, under the kernel's gate: one that
\* fails is reported to the caller even when everything is committed, and may
\* then give the token of a restore back as any retryable error does.
Complete(c) ==
    LET q == client[c].request IN
    /\ At(c, "complete")
    /\ tx' = NoTx
    /\ \/ /\ disk' = disk \ Leftovers /\ UNCHANGED faults
          /\ IF tx.committed THEN Succeed(c, "committed") /\ UNCHANGED tokens
             ELSE Answer(c, "failed") /\ (GiveBack(q) \/ UNCHANGED tokens)
       \/ /\ Leftovers # {} /\ Fault /\ UNCHANGED disk
          /\ Answer(c, "failed")
          /\ GiveBack(q) \/ UNCHANGED tokens
    /\ UNCHANGED <<durable, staged, asked, next, history>>

\* applyRestore after the commit: the new revision and the row are read; when
\* that fails the token is given back.
ReadBack(c) ==
    LET t == client[c].request IN
    /\ At(c, "readback")
    /\ \/ Answer(c, "committed") /\ UNCHANGED <<tokens, faults>>
       \/ /\ Fault /\ Answer(c, "failed")
          /\ tokens' = [tokens EXCEPT ![t].state = "issued"]
    /\ UNCHANGED <<durable, disk, staged, tx, asked, next, history>>

\* The answer is on its way and what was staged for the request is dropped.
Finish(c) ==
    /\ At(c, "answer")
    /\ Drop(client[c].held)
    /\ client' = [client EXCEPT ![c] = Idle]
    /\ UNCHANGED <<durable, disk, tokens, tx, asked, next, faults, history>>

-----------------------------------------------------------------------------
(* The world.                                                              *)

\* The process ends: what is only in memory, and what was not committed.
Crash ==
    /\ Fault
    /\ staged' = [h \in Handle |-> 0]
    /\ tokens' = [t \in Token |-> IF tokens[t].state = "none" THEN tokens[t] ELSE [state |-> "lost"]]
    /\ client' = [c \in Client |-> Idle]
    /\ tx' = NoTx
    /\ UNCHANGED <<durable, disk, asked, next, history>>

\* A file of the storage loses its bytes.
Damage(o) ==
    /\ Fault /\ o.bytes # Bad
    /\ disk' = (disk \ {o}) \cup {[o EXCEPT !.bytes = Bad]}
    /\ damaged' = damaged \cup {o.name}
    /\ UNCHANGED <<durable, volatile, asked, next, truth, commits>>

Next ==
    \/ \E c \in Client :
         \/ \E k \in Key, w \in Wish : Send(c, k, w)
         \/ \E t \in Token : ClaimToken(c, t)
         \/ StageRestore(c) \/ Begin(c) \/ Enter(c) \/ Save(c) \/ Commit(c)
         \/ Rollback(c) \/ Complete(c) \/ ReadBack(c) \/ Finish(c)
    \/ \E t \in Token : Expire(t) \/ \E i \in 1..Len(events) : PreviewRestore(t, i)
    \/ Crash
    \/ \E o \in disk : Damage(o)

Spec == Init /\ [][Next]_vars

-----------------------------------------------------------------------------
(* Properties.                                                             *)

\* A file is what the user gave under its name, unless the disk damaged it.
Intact(d, n, hash, original) ==
    hash = truth[original] /\ (Object(d, n, hash) \in disk \/ n \in damaged)

LiveIntact(r, n) == \E m \in MetaOf(r) : m.name = n /\ Intact(r, n, m.hash, n)
ArchivedIntact(r, n) == \E v \in VersionsOf(r, n) : Intact("versions", v.blob, v.hash, n)

\* Whatever transaction is under way, failed, or died: a name a record lists
\* has its metadata and its bytes, and metadata has a name; without that a
\* record can be neither read nor deleted (Manager.Prepare, DeleteRecord).
\* Files nothing names are left only by a fault.
ReferencesAreWhole ==
    /\ TypeOK
    /\ \A r \in Record :
         /\ {m.name : m \in MetaOf(r)} = rows[r].files
         /\ \A n \in rows[r].files : LiveIntact(r, n)
    /\ faults = 0 /\ tx.owner = None =>
         \A o \in disk : \/ o.dir # "versions" /\ o.name \in rows[o.dir].files
                        \/ \E v \in versions : o.dir = "versions" /\ v.blob = o.name

\* Every file that an image of the audit history names can still be had,
\* from the record or from its versions, after any number of removals,
\* deletions and restores (Manager.archiveMetadata).
HistoryIsRestorable ==
    \A i \in 1..Len(events) :
        LET e == events[i] IN
        \A n \in e.before.files \cup e.after.files :
            \/ n \in rows[e.record].files /\ LiveIntact(e.record, n)
            \/ ArchivedIntact(e.record, n)

Count(hashes, S, b) == Cardinality({n \in S : hashes[n] = b})

RestoredAsPreviewed(t) ==
    LET r == tokens[t].record
        target == Image(events[tokens[t].event]).files
    IN /\ AsPreviewed(t)
       /\ rows'[r].exists
       /\ \A b \in Content :
            Count(truth, target, b) = Cardinality({m \in meta' : m.record = r /\ m.hash = b})

\* A restore takes effect on the row that was previewed, and leaves it with
\* the bytes of the image that was chosen, whatever happened to the row and
\* to the files between preview and commit (Service.applyRestore).
RestoreIsExact ==
    [][\A t \in Token : t \in applied' \ applied => RestoredAsPreviewed(t)]_vars

\* A handle lives exactly as long as the requests that hold it.
StagedIsHeld ==
    \A h \in Handle : staged[h] = Cardinality({c \in Client : h \in client[c].held})

\* Sent twice at once, again after a lost answer, or after a crash: a request
\* takes effect once, and a copy of it that ends earlier neither robs another
\* of its uploads nor leaves them in memory (Manager.stage, Manager.Drop,
\* Kernel.replayOrReject, Service.claimToken).
ResendsAreHarmless == StagedIsHeld /\ \A q \in Request : commits[q] <= 1
=============================================================================
