--------------------------- MODULE SnapshotRestore ---------------------------
(***************************************************************************)
(* Restoring a workspace to a snapshot                                     *)
(* (sidecar/internal/workspacev2/restore_pending.go, its request handler   *)
(* in snapshot_restore_handlers.go and the launch sequence of              *)
(* cmd/vibetable-pb/main.go).                                              *)
(*                                                                         *)
(* The running sidecar takes a protection snapshot, stages the restore in  *)
(* a journal and exits.  The next launch installs the staged files under   *)
(* the journal before any database is opened, starts the services and      *)
(* commits the journal.  A launch that fails rolls back before it exits; a *)
(* launch that finds a half-installed journal rolls back and boots the old *)
(* workspace.  Every rename, database transaction and journal write is one *)
(* step, and the process can die between any two; where the only answer to *)
(* an error is to end the process (journal cleanup), Crash stands for it.  *)
(*                                                                         *)
(* Abstractions: one restore request; a file tree is "old" or "new" as a   *)
(* whole; staged content is intact (verifyRestoreStaging succeeds); only   *)
(* journals of the format version 3 that this build writes; the search     *)
(* index, rebuilt during completion, is derived state and left out.        *)
(***************************************************************************)
EXTENDS Integers, FiniteSets

CONSTANTS
    Diffs,         \* how the snapshot may compare with the live workspace
    FaultPoints,   \* control points at which a step may fail or the process die
    MaxFaults,     \* bound on failures and crashes
    MaxWrites      \* bound on business writes to the old workspace

\* settings: the retention settings differ.  storage: the attachments differ.
Diff == [settings : BOOLEAN, storage : BOOLEAN]

Item == {"db", "storage", "files"}

\* installRestoreFiles and the rest of ApplyPendingSnapshotRestore, in order.
InstallOrder ==
    [dbOut |-> "dbIn", dbIn |-> "storageOut", storageOut |-> "storageIn",
     storageIn |-> "filesOut", filesOut |-> "filesIn", filesIn |-> "settings",
     settings |-> "head", head |-> "epoch", epoch |-> "installed",
     installed |-> "open"]
\* Mutant: the recovery snapshot is left to the scheduler.
CompletionOrderUnpublished ==
    [event |-> "receipt", publish |-> "receipt", receipt |-> "commit",
     commit |-> "close"]
\* The steps of CompletePendingSnapshotRestore that leave something durable.
CompletionOrder ==
    [event |-> "publish", publish |-> "receipt", receipt |-> "commit",
     commit |-> "close"]

ServingPoints == {"serving", "protected", "staging", "staged", "stopping"}
InstallPoints == DOMAIN InstallOrder
RollbackPoints == {"rbHead", "rbDb", "rbFiles", "rbStorage", "rbProbe", "rbVerify",
                   "rbDrop", "rbReinstate", "rbSettings", "rbFinish"}
CompletionPoints == DOMAIN CompletionOrder
Points == ServingPoints \cup InstallPoints \cup RollbackPoints
          \cup CompletionPoints \cup {"down", "open", "close", "discard"}

ASSUME ParameterAssumption ==
    /\ Diffs \subseteq Diff
    /\ FaultPoints \subseteq Points
    /\ MaxFaults \in Nat /\ MaxWrites \in Nat

VARIABLES
    \* durable
    journal,      \* phase in restore-journal.json, "none" when absent
    hadStorage,   \* journal.PreviousStorage
    live,         \* what data.db, storage/ and files/ hold
    saved,        \* what the operation's rollback directory holds
    quarantine,   \* storage-quarantine in the rollback directory
    settings,     \* retention settings in force
    policyMoved,  \* the retention policy row carries the restore's revision
    head,         \* file-history head
    rotated,      \* the audit epoch was rotated
    intent,       \* mutation_intents row of the staging write
    ledger,       \* workspace.snapshotRestored is in the audit ledger
    published,    \* the recovery snapshot is in the catalogue
    receipt,      \* the operation receipt is in the state store
    acked,        \* business writes acknowledged on the old workspace
    protected,    \* how many of them the protection snapshot holds
    oldStorage,   \* the old workspace has a storage directory
    diff,         \* how the snapshot compares with it
    \* the process
    pc,
    restored,     \* ApplyPendingSnapshotRestore returned true
    phase,        \* journal.Phase in memory
    failed,       \* rollbackErrors is not empty
    thenBoot,     \* the rollback in progress is followed by a boot, not an exit
    asked,        \* the restore request was made
    faults

durable == <<journal, hadStorage, live, saved, quarantine, settings, policyMoved,
             head, rotated, intent, ledger, published, receipt, acked, protected,
             oldStorage, diff>>
vars == <<durable, pc, restored, phase, failed, thenBoot, asked, faults>>

Phase == {"none", "requested", "installing", "installed", "committed"}

FilesTypeOK ==
    /\ live \in [Item -> {"old", "new", "absent", "partial"}]
    /\ saved \in [Item -> {"old", "absent"}]
    /\ quarantine \in {"old", "new", "absent", "partial"}
StateTypeOK ==
    /\ journal \in Phase /\ hadStorage \in BOOLEAN
    /\ settings \in {"old", "new"} /\ policyMoved \in BOOLEAN
    /\ head \in {"previous", "next", "reverted"}
    /\ intent \in {"none", "prepared", "committed", "failed"}
AccountTypeOK ==
    /\ rotated \in BOOLEAN /\ ledger \in BOOLEAN /\ published \in BOOLEAN
    /\ receipt \in BOOLEAN
    /\ acked \in 0..MaxWrites /\ protected \in 0..MaxWrites
    /\ oldStorage \in BOOLEAN /\ diff \in Diff
ProcessTypeOK ==
    /\ pc \in Points /\ phase \in Phase
    /\ restored \in BOOLEAN /\ failed \in BOOLEAN /\ thenBoot \in BOOLEAN
    /\ asked \in BOOLEAN /\ faults \in 0..MaxFaults
TypeOK == FilesTypeOK /\ StateTypeOK /\ AccountTypeOK /\ ProcessTypeOK

Init ==
    /\ journal = "none" /\ hadStorage = FALSE
    /\ oldStorage \in BOOLEAN /\ diff \in Diffs
    /\ live = [x \in Item |-> IF x = "storage" /\ ~oldStorage THEN "absent" ELSE "old"]
    /\ saved = [x \in Item |-> "absent"] /\ quarantine = "absent"
    /\ settings = "old" /\ policyMoved = FALSE
    /\ head = "previous" /\ rotated = FALSE /\ intent = "none"
    /\ ledger = FALSE /\ published = FALSE /\ receipt = FALSE
    /\ acked = 0 /\ protected = 0
    /\ pc = "serving" /\ restored = FALSE /\ phase = "none"
    /\ failed = FALSE /\ thenBoot = FALSE /\ asked = FALSE /\ faults = 0

files == <<live, saved, quarantine>>
account == <<rotated, ledger, published, receipt>>
business == <<acked, protected, oldStorage, diff>>
process == <<restored, phase, failed, thenBoot>>

\* A step fails or the process dies, where and as often as the bounds allow.
Fault ==
    /\ pc \in FaultPoints /\ faults < MaxFaults
    /\ faults' = faults + 1

-----------------------------------------------------------------------------
(* The running sidecar: business writes and the restore request            *)

\* Business writes pass the write coordinator, which refuses them while an
\* intent is pending; they do not pass the RPC dispatcher that the request
\* suspends.  A write may add the first attachment.
Write ==
    /\ pc \in {"serving", "protected", "stopping"} /\ intent # "prepared"
    /\ live["db"] = "old" /\ acked < MaxWrites
    /\ acked' = acked + 1
    /\ \E attach \in BOOLEAN :
         /\ oldStorage' = (oldStorage \/ attach)
         /\ live' = IF attach THEN [live EXCEPT !["storage"] = "old"] ELSE live
    /\ UNCHANGED <<journal, hadStorage, saved, quarantine, settings, policyMoved,
                   head, intent, account, protected, diff, pc, process, asked, faults>>

\* protectionSnapshotForOperation.
Protect ==
    /\ pc = "serving" /\ ~asked /\ intent # "prepared"
    /\ protected' = acked /\ asked' = TRUE /\ pc' = "protected"
    /\ UNCHANGED <<journal, hadStorage, files, settings, policyMoved, head, intent,
                   account, acked, oldStorage, diff, process, faults>>

\* coordinator.Write enters its callback, which stages files and topology.
PrepareStaging ==
    /\ pc = "protected"
    /\ intent' = "prepared" /\ pc' = "staging"
    /\ UNCHANGED <<journal, hadStorage, files, settings, policyMoved, head, account,
                   business, process, asked, faults>>

StageRestore ==
    /\ pc = "staging" /\ journal = "none"
    /\ journal' = "requested" /\ pc' = "staged"
    /\ UNCHANGED <<hadStorage, files, settings, policyMoved, head, intent, account,
                   business, process, asked, faults>>

StageRestoreFails ==
    /\ pc = "staging" /\ Fault
    /\ intent' = "failed" /\ pc' = "serving"
    /\ UNCHANGED <<journal, hadStorage, files, settings, policyMoved, head, account,
                   business, process, asked>>

\* finishMutation; the handler then suspends the dispatcher and asks the
\* process to stop, after 50 ms and a graceful server shutdown.
FinishStaging ==
    /\ pc = "staged"
    /\ intent' = "committed" /\ pc' = "stopping"
    /\ UNCHANGED <<journal, hadStorage, files, settings, policyMoved, head, account,
                   business, process, asked, faults>>

\* The handler returns the error and the process goes on with the intent
\* pending and the journal requested.
FinishStagingFails ==
    /\ pc = "staged" /\ Fault
    /\ pc' = "serving"
    /\ UNCHANGED <<durable, process, asked>>

Exit ==
    /\ pc' = "down"
    /\ restored' = FALSE /\ phase' = "none" /\ failed' = FALSE /\ thenBoot' = FALSE

Shutdown ==
    /\ pc = "stopping"
    /\ Exit
    /\ UNCHANGED <<durable, asked, faults>>

\* The user closes the workspace.
Quit ==
    /\ pc = "serving"
    /\ Exit
    /\ UNCHANGED <<durable, asked, faults>>

Crash ==
    /\ pc # "down" /\ Fault
    /\ Exit
    /\ UNCHANGED <<durable, asked>>

-----------------------------------------------------------------------------
(* Launch: ApplyPendingSnapshotRestore                                     *)

BootClean ==
    /\ pc = "down" /\ journal = "none"
    /\ pc' = "open"
    /\ UNCHANGED <<durable, process, asked, faults>>

\* Mutants: a committed journal treated as a half-installed one; a
\* half-installed restore started again instead of rolled back.
BootCommittedRollsBack ==
    /\ pc = "down" /\ journal = "committed"
    /\ pc' = "rbHead" /\ phase' = journal /\ thenBoot' = TRUE
    /\ UNCHANGED <<durable, restored, failed, asked, faults>>
BootHalfInstalledAgain ==
    /\ pc = "down" /\ journal \in {"installing", "installed"}
    /\ pc' = "dbOut" /\ phase' = "installing"
    /\ UNCHANGED <<durable, restored, failed, thenBoot, asked, faults>>

BootCommitted ==
    /\ pc = "down" /\ journal = "committed"
    /\ pc' = "close" /\ phase' = journal /\ thenBoot' = TRUE
    /\ UNCHANGED <<durable, restored, failed, asked, faults>>

\* Rolling back starts with the phase the caller's journal record carries.
StartRollback(p, boot) ==
    /\ pc' = "rbHead" /\ phase' = p
    /\ restored' = FALSE /\ failed' = FALSE /\ thenBoot' = boot

BootHalfInstalled ==
    /\ pc = "down" /\ journal \in {"installing", "installed"}
    /\ StartRollback(journal, TRUE)
    /\ UNCHANGED <<durable, asked, faults>>

\* The rollback directory is made afresh and the live settings are copied to
\* it; then the journal says installing.
BootRequested ==
    /\ pc = "down" /\ journal = "requested"
    /\ saved' = [x \in Item |-> "absent"] /\ quarantine' = "absent"
    /\ hadStorage' = (live["storage"] # "absent")
    /\ journal' = "installing" /\ phase' = "installing"
    /\ pc' = "dbOut"
    /\ UNCHANGED <<live, settings, policyMoved, head, intent, account, business,
                   restored, failed, thenBoot, asked, faults>>

Out == [dbOut |-> "db", storageOut |-> "storage", filesOut |-> "files"]
In == [dbIn |-> "db", storageIn |-> "storage", filesIn |-> "files"]

\* A live tree is renamed into the rollback directory; a workspace without
\* attachments has no storage to move.
MoveOut ==
    /\ pc \in DOMAIN Out
    /\ LET x == Out[pc] IN
         IF x = "storage" /\ ~hadStorage
         THEN live[x] = "absent" /\ UNCHANGED files
         ELSE /\ live[x] # "absent"
              /\ saved' = [saved EXCEPT ![x] = live[x]]
              /\ live' = [live EXCEPT ![x] = "absent"]
              /\ UNCHANGED quarantine
    /\ pc' = InstallOrder[pc]
    /\ UNCHANGED <<journal, hadStorage, settings, policyMoved, head, intent, account,
                   business, process, asked, faults>>

MoveIn ==
    /\ pc \in DOMAIN In
    /\ live' = [live EXCEPT ![In[pc]] = "new"]
    /\ pc' = InstallOrder[pc]
    /\ UNCHANGED <<journal, hadStorage, saved, quarantine, settings, policyMoved,
                   head, intent, account, business, process, asked, faults>>

\* replaceWorkspaceSettings does nothing when the settings are equal; otherwise
\* the policy row takes the larger of the given and its own revision.
InstallSettings ==
    /\ pc = "settings"
    /\ settings' = "new" /\ policyMoved' = (policyMoved \/ diff.settings)
    /\ pc' = InstallOrder[pc]
    /\ UNCHANGED <<journal, hadStorage, files, head, intent, account, business,
                   process, asked, faults>>

PublishHead ==
    /\ pc = "head" /\ head = "previous"
    /\ head' = "next"
    /\ pc' = InstallOrder[pc]
    /\ UNCHANGED <<journal, hadStorage, files, settings, policyMoved, intent, account,
                   business, process, asked, faults>>

RotateAuditEpoch ==
    /\ pc = "epoch"
    /\ rotated' = TRUE
    /\ pc' = InstallOrder[pc]
    /\ UNCHANGED <<journal, hadStorage, files, settings, policyMoved, head, intent,
                   ledger, published, receipt, business, process, asked, faults>>

MarkInstalled ==
    /\ pc = "installed"
    /\ journal' = "installed" /\ phase' = "installed" /\ restored' = TRUE
    /\ pc' = InstallOrder[pc]
    /\ UNCHANGED <<hadStorage, files, settings, policyMoved, head, intent, account,
                   business, failed, thenBoot, asked, faults>>

\* Any error of the installation, a refused head swap included.
InstallFails ==
    /\ pc \in InstallPoints
    /\ IF pc = "head" /\ head # "previous" THEN UNCHANGED faults ELSE Fault
    /\ StartRollback(IF pc = "installed" THEN "installed" ELSE phase, FALSE)
    /\ UNCHANGED <<durable, asked>>

-----------------------------------------------------------------------------
(* Runtime.Open and CompletePendingSnapshotRestore                         *)

\* The stores in which recoverPreparedMutation finds the staging revision.
Observed == {store \in {"head", "policy"} :
               IF store = "head" THEN head # "previous" ELSE policyMoved}

Open ==
    /\ pc = "open"
    /\ IF intent = "prepared"
       THEN /\ Cardinality(Observed) <= 1
            /\ intent' = IF Observed = {} THEN "failed" ELSE "committed"
       ELSE UNCHANGED intent
    /\ pc' = IF restored THEN "event" ELSE "serving"
    /\ UNCHANGED <<journal, hadStorage, files, settings, policyMoved, head, account,
                   business, process, asked, faults>>

\* main: a launch that had installed the restore rolls it back and exits.
OpenFails ==
    /\ pc = "open"
    /\ IF intent = "prepared" /\ Cardinality(Observed) > 1
       THEN UNCHANGED faults
       ELSE Fault
    /\ IF restored THEN StartRollback(journal, FALSE) ELSE Exit
    /\ UNCHANGED <<durable, asked>>

\* The ledger event, the recovery snapshot with the operation receipt in its
\* catalogue, the receipt in the state store, and last the journal.
Complete ==
    /\ pc \in CompletionPoints /\ restored
    /\ ledger' = (ledger \/ pc = "event")
    /\ published' = (published \/ pc = "publish")
    /\ receipt' = (receipt \/ pc = "receipt")
    /\ journal' = IF pc = "commit" THEN "committed" ELSE journal
    /\ phase' = IF pc = "commit" THEN "committed" ELSE phase
    /\ pc' = CompletionOrder[pc]
    /\ UNCHANGED <<hadStorage, files, settings, policyMoved, head, intent, rotated,
                   business, restored, failed, thenBoot, asked, faults>>

CompleteFails ==
    /\ pc \in CompletionPoints /\ Fault
    /\ StartRollback(journal, FALSE)
    /\ UNCHANGED <<durable, asked>>

\* cleanupCommittedRestore: the journal first, then the directories.
CloseJournal ==
    /\ pc = "close"
    /\ journal' = "none" /\ pc' = "discard"
    /\ UNCHANGED <<hadStorage, files, settings, policyMoved, head, intent, account,
                   business, process, asked, faults>>

DiscardDirectories ==
    /\ pc = "discard"
    /\ saved' = [x \in Item |-> "absent"] /\ quarantine' = "absent"
    /\ pc' = IF restored THEN "serving" ELSE IF thenBoot THEN "open" ELSE "down"
    /\ restored' = FALSE /\ phase' = "none" /\ failed' = FALSE /\ thenBoot' = FALSE
    /\ UNCHANGED <<journal, hadStorage, live, settings, policyMoved, head, intent,
                   account, business, asked, faults>>

-----------------------------------------------------------------------------
(* rollbackPendingSnapshotRestore: errors are collected, no step is skipped *)

\* Mutant: a head that the restore had not moved yet is taken for a conflict.
RollbackHeadStrict ==
    /\ pc = "rbHead" /\ pc' = "rbDb"
    /\ IF head = "next"
       THEN head' = "reverted" /\ UNCHANGED <<failed, faults>>
       ELSE failed' = TRUE /\ UNCHANGED <<head, faults>>
    /\ UNCHANGED <<journal, hadStorage, files, settings, policyMoved, intent, account,
                   business, restored, phase, thenBoot, asked>>

\* The head goes forward to a revision with the previous root.
RollbackHead ==
    /\ pc = "rbHead" /\ pc' = "rbDb"
    /\ \/ head = "next" /\ head' = "reverted" /\ UNCHANGED <<failed, faults>>
       \/ head = "previous" /\ UNCHANGED <<head, failed, faults>>
       \/ head = "reverted" /\ failed' = TRUE /\ UNCHANGED <<head, faults>>
       \/ Fault /\ failed' = TRUE /\ UNCHANGED head
    /\ UNCHANGED <<journal, hadStorage, files, settings, policyMoved, intent, account,
                   business, restored, phase, thenBoot, asked>>

\* The live tree is removed and the saved one renamed back.  The rename can
\* fail, or the process die, after the removal.
Reinstate(x) ==
    IF saved[x] = "absent"
    THEN UNCHANGED <<live, saved, failed, faults>>
    ELSE \/ /\ live' = [live EXCEPT ![x] = saved[x]]
            /\ saved' = [saved EXCEPT ![x] = "absent"]
            /\ UNCHANGED <<failed, faults>>
         \/ /\ Fault /\ failed' = TRUE
            /\ live' = [live EXCEPT ![x] = "absent"]
            /\ UNCHANGED saved

RollbackTree ==
    /\ \/ pc = "rbDb" /\ Reinstate("db") /\ pc' = "rbFiles"
       \/ pc = "rbFiles" /\ Reinstate("files") /\ pc' = "rbStorage"
    /\ UNCHANGED <<journal, hadStorage, quarantine, settings, policyMoved, head, intent,
                   account, business, restored, phase, thenBoot, asked>>

\* snapshotRestoreStorageMatches: does a tree hold the snapshot's attachments?
Matches(tree) == tree = "new" \/ (tree = "old" /\ ~diff.storage)

NeverMoved == hadStorage /\ saved["storage"] = "absent"

\* What rollbackSnapshotRestoreStorage does first.
RollbackStorage ==
    /\ pc = "rbStorage"
    /\ CASE NeverMoved /\ (quarantine # "absent" \/ phase # "installing"
                           \/ live["storage"] = "absent") ->
              failed' = TRUE /\ pc' = "rbSettings" /\ UNCHANGED files
         [] ~NeverMoved /\ quarantine = "absent" /\ live["storage"] = "absent" ->
              pc' = "rbReinstate" /\ UNCHANGED <<files, failed>>
         [] ~NeverMoved /\ quarantine # "absent" ->
              pc' = "rbVerify" /\ UNCHANGED <<files, failed>>
         [] OTHER ->
              /\ quarantine' = live["storage"]
              /\ live' = [live EXCEPT !["storage"] = "absent"]
              /\ pc' = IF NeverMoved THEN "rbProbe" ELSE "rbVerify"
              /\ UNCHANGED <<saved, failed>>
    /\ UNCHANGED <<journal, hadStorage, settings, policyMoved, head, intent, account,
                   business, restored, phase, thenBoot, asked, faults>>

\* A storage that was never moved out goes back from quarantine; if it looks
\* like the snapshot's it is taken for a conflict.
ProbeStorage ==
    /\ pc = "rbProbe" /\ pc' = "rbSettings"
    /\ live' = [live EXCEPT !["storage"] = quarantine]
    /\ quarantine' = "absent"
    /\ failed' = (failed \/ Matches(quarantine))
    /\ UNCHANGED <<journal, hadStorage, saved, settings, policyMoved, head, intent,
                   account, business, restored, phase, thenBoot, asked, faults>>

\* Only a tree that is the snapshot's is deleted.
VerifyQuarantine ==
    /\ pc = "rbVerify"
    /\ IF Matches(quarantine) /\ live["storage"] = "absent"
       THEN pc' = "rbDrop" /\ UNCHANGED <<files, failed>>
       ELSE /\ failed' = TRUE /\ pc' = "rbSettings" /\ UNCHANGED saved
            /\ IF live["storage"] = "absent"
               THEN /\ live' = [live EXCEPT !["storage"] = quarantine]
                    /\ quarantine' = "absent"
               ELSE UNCHANGED <<live, quarantine>>
    /\ UNCHANGED <<journal, hadStorage, settings, policyMoved, head, intent, account,
                   business, restored, phase, thenBoot, asked, faults>>

\* RemoveAll deletes file by file.
DropQuarantine ==
    /\ pc = "rbDrop"
    /\ \/ quarantine # "partial" /\ quarantine' = "partial" /\ UNCHANGED pc
       \/ quarantine = "partial" /\ quarantine' = "absent" /\ pc' = "rbReinstate"
    /\ UNCHANGED <<journal, hadStorage, live, saved, settings, policyMoved, head, intent,
                   account, business, process, asked, faults>>

ReinstateStorage ==
    /\ pc = "rbReinstate" /\ pc' = "rbSettings"
    /\ Reinstate("storage")
    /\ UNCHANGED <<journal, hadStorage, quarantine, settings, policyMoved, head, intent,
                   account, business, restored, phase, thenBoot, asked>>

\* Reading, renaming or removing a storage tree fails: the rest of the storage
\* rollback is given up and the error collected.
StorageRollbackFails ==
    /\ pc \in {"rbStorage", "rbProbe", "rbVerify", "rbDrop"} /\ Fault
    /\ failed' = TRUE /\ pc' = "rbSettings"
    /\ UNCHANGED <<durable, restored, phase, thenBoot, asked>>

RollbackSettings ==
    /\ pc = "rbSettings" /\ pc' = "rbFinish"
    /\ \/ settings' = "old" /\ UNCHANGED <<failed, faults>>
       \/ Fault /\ failed' = TRUE /\ UNCHANGED settings
    /\ UNCHANGED <<journal, hadStorage, files, policyMoved, head, intent, account,
                   business, restored, phase, thenBoot, asked>>

\* Mutant: collected errors are ignored.
FinishRollbackRegardless ==
    /\ pc = "rbFinish"
    /\ journal' = "none" /\ pc' = "discard"
    /\ UNCHANGED <<hadStorage, files, settings, policyMoved, head, intent, account,
                   business, process, asked, faults>>

\* With any error the journal stays and the process exits.
FinishRollback ==
    /\ pc = "rbFinish"
    /\ IF failed
       THEN Exit /\ UNCHANGED journal
       ELSE journal' = "none" /\ pc' = "discard" /\ UNCHANGED process
    /\ UNCHANGED <<hadStorage, files, settings, policyMoved, head, intent, account,
                   business, asked, faults>>

-----------------------------------------------------------------------------
Serving == PrepareStaging \/ StageRestore \/ FinishStaging \/ Shutdown
Failing == StageRestoreFails \/ FinishStagingFails \/ CompleteFails
Boot == BootClean \/ BootCommitted \/ BootHalfInstalled \/ BootRequested
Install == MoveOut \/ MoveIn \/ InstallSettings \/ PublishHead \/ RotateAuditEpoch
           \/ MarkInstalled \/ InstallFails
Rollback == RollbackHead \/ RollbackTree \/ RollbackStorage \/ ProbeStorage
            \/ VerifyQuarantine \/ DropQuarantine \/ ReinstateStorage
            \/ StorageRollbackFails \/ RollbackSettings \/ FinishRollback
Finish == Open \/ OpenFails \/ Complete \/ CloseJournal \/ DiscardDirectories

Next == Write \/ Protect \/ Quit \/ Serving \/ Failing \/ Crash \/ Boot \/ Install
        \/ Rollback \/ Finish

Spec == Init /\ [][Next]_vars

\* The process runs on, an accepted request ends, and the desktop host starts
\* the sidecar again whenever it is down.
Fairness == WF_vars(Serving \/ Boot \/ Install \/ Rollback \/ Finish)

FairSpec == Spec /\ Fairness

-----------------------------------------------------------------------------
(* Properties                                                              *)

OldTree(x) == IF x = "storage" /\ ~oldStorage THEN "absent" ELSE "old"
WholeOld == /\ \A x \in Item : live[x] = OldTree(x)
            /\ settings = "old" /\ head # "next"
WholeNew == /\ \A x \in Item : live[x] = "new"
            /\ settings = "new" /\ head = "next"

\* Business writes are open only when no journal is half way, and a workspace
\* served in its restored state has a fresh audit epoch, its restore event, its
\* recovery snapshot, its operation receipt, and the revision the restore was
\* staged under is settled.
RestoreIsAccounted ==
    pc \in ServingPoints =>
        /\ journal \in {"none", "requested"}
        /\ live["db"] = "new" =>
             rotated /\ ledger /\ published /\ receipt /\ intent = "committed"

\* Whatever failed or died during installation and rollback, the services only
\* ever run on the whole old or the whole restored workspace: database,
\* attachments, files, settings and file-history head never mix, and the
\* restored one is accounted for.
WorkspaceIsWhole ==
    /\ TypeOK
    /\ pc \in ServingPoints => WholeOld \/ WholeNew
    /\ RestoreIsAccounted

\* No tree of the old workspace is gone, from its place and from the rollback
\* directory, before the restore is committed and wholly in place.
OldStateSurvives ==
    (\E x \in Item : OldTree(x) = "old" /\ live[x] # "old" /\ saved[x] # "old"
                     /\ ~(x = "storage" /\ quarantine = "old"))
    => WholeNew /\ journal \in {"committed", "none"}

\* A committed restore is never undone by a later crash, launch or cleanup.
CommittedIsFinal == [](journal = "committed" => []WholeNew)

\* Whatever is interrupted, one of the two workspaces is there: the old one
\* until the restore is committed, the restored one ever after.
NeitherStateIsLost == []OldStateSurvives /\ CommittedIsFinal

HalfInstalled == pc = "down" /\ journal \in {"installing", "installed"}

\* Where no launch gets to serving any more.  The journal stays half way: a
\* rollback that reverted the head and then failed or died finds neither the
\* previous nor the restore's head; a storage that was not moved out is taken
\* for a conflict when it looks like the snapshot's, or is in quarantine, or is
\* gone; a half-deleted quarantine is nobody's storage.  Or the staging intent
\* waits for recovery with two proofs.
DeadEnd ==
    \/ HalfInstalled /\ head = "reverted"
    \/ HalfInstalled /\ NeverMoved
         /\ (Matches(live["storage"]) \/ live["storage"] = "absent" \/ quarantine # "absent")
    \/ HalfInstalled /\ "partial" \in {quarantine, live["storage"]}
    \/ pc = "down" /\ intent = "prepared" /\ Cardinality(Observed) > 1

\* Launches get to serving again and again, once failures stop: a half-installed
\* restore is rolled back and the old workspace boots, except from the dead ends
\* named above.
RestoreConverges == []<>(pc \in ServingPoints \/ DeadEnd)
=============================================================================
