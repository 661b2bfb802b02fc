------------------------ MODULE SnapshotRestoreProofs ------------------------
(***************************************************************************)
(* A workspace is never served half restored and neither of its two states *)
(* is lost, for any number of failures and crashes at any control points.  *)
(***************************************************************************)
EXTENDS SnapshotRestore, FiniteSetTheorems, TLAPS

-----------------------------------------------------------------------------
(* The inductive invariant                                                 *)

\* The restored workspace with everything that has to be said about it.
Accounted ==
    /\ WholeNew /\ asked /\ rotated /\ ledger /\ published /\ receipt
    /\ intent = "committed"

\* Where the process can be, by the phase of the journal.
ControlAgrees ==
    /\ journal = "none" =>
         pc \in {"serving", "protected", "staging", "down", "open", "discard"}
    /\ journal = "requested" => pc \in {"staged", "serving", "stopping", "down"}
    /\ journal = "installing" => pc \in InstallPoints \cup RollbackPoints \cup {"down"}
    /\ journal = "installed" => pc \in {"open", "down"} \cup CompletionPoints \cup RollbackPoints
    /\ journal = "committed" => pc \in {"close", "down"}
    /\ restored => pc \in {"open", "close", "discard"} \cup CompletionPoints
    /\ pc \in CompletionPoints \/ (pc = "open" /\ journal = "installed") => restored
    /\ pc = "open" /\ restored => journal = "installed"

\* One of the two workspaces is in place while no file is being moved.
RestHolds ==
    /\ journal = "none" => (WholeOld /\ ~(pc = "discard" /\ restored)) \/ Accounted
    /\ journal = "requested" =>
         WholeOld /\ head = "previous" /\ asked /\ intent \in {"prepared", "committed"}
    /\ journal = "committed" => Accounted
    /\ ~asked => WholeOld /\ head = "previous" /\ pc \in {"serving", "down", "open"}
    /\ pc \in {"protected", "staging"} => WholeOld /\ head = "previous" /\ asked
    /\ pc \in {"staging", "staged"} => intent = "prepared"

\* How far the installation is with a tree: before its move, between, after.
Moved(x, before, between) ==
    /\ live[x] = IF pc \in before THEN OldTree(x) ELSE IF pc = between THEN "absent" ELSE "new"
    /\ saved[x] = IF pc \in before THEN "absent" ELSE OldTree(x)
InstallHolds ==
    pc \in InstallPoints =>
        /\ journal = "installing" /\ quarantine = "absent"
        /\ Moved("db", {"dbOut"}, "dbIn")
        /\ Moved("storage", {"dbOut", "dbIn", "storageOut"}, "storageIn")
        /\ Moved("files", {"dbOut", "dbIn", "storageOut", "storageIn", "filesOut"}, "filesIn")
        /\ settings = IF pc \in {"head", "epoch", "installed"} THEN "new" ELSE "old"
        /\ head = IF pc \in {"epoch", "installed"} THEN "next" ELSE "previous"
        /\ pc = "installed" => rotated

\* As long as the restore is not committed, every tree of the old workspace is
\* in its place or in the rollback directory; its storage is in one place only.
HalfWay == journal \in {"installing", "installed"}
OldIsSaved ==
    HalfWay =>
        /\ asked /\ intent \in {"prepared", "committed"} /\ hadStorage = oldStorage
        /\ \A x \in {"db", "files"} : saved[x] = "old" \/ live[x] = "old"
        /\ NeverMoved => \/ live["storage"] = "old" /\ quarantine = "absent"
                         \/ live["storage"] = "absent" /\ quarantine = "old"
        /\ ~NeverMoved => live["storage"] # "old" /\ quarantine # "old"
        /\ ~hadStorage => saved["storage"] = "absent"

\* What completion has done.
CompletionHolds ==
    restored /\ journal = "installed" =>
        /\ WholeNew /\ rotated
        /\ pc \in CompletionPoints => intent = "committed"
        /\ pc \in {"publish", "receipt", "commit"} => ledger
        /\ pc \in {"receipt", "commit"} => published
        /\ pc = "commit" => receipt

\* What a rollback without an error has put back.
AfterDb == {"rbFiles", "rbStorage", "rbProbe", "rbVerify", "rbDrop", "rbReinstate",
            "rbSettings", "rbFinish"}
RollbackHolds ==
    /\ ~failed =>
         /\ pc \in {"rbDb"} \cup AfterDb => head # "next"
         /\ pc \in AfterDb => live["db"] = "old"
         /\ pc \in AfterDb \ {"rbFiles"} => live["files"] = "old"
         /\ pc \in {"rbSettings", "rbFinish"} => live["storage"] = OldTree("storage")
         /\ pc = "rbFinish" => settings = "old"
    /\ pc = "rbProbe" => NeverMoved /\ quarantine = "old" /\ live["storage"] = "absent"
    /\ pc \in {"rbVerify", "rbDrop", "rbReinstate"} => ~NeverMoved
    /\ pc \in {"rbDrop", "rbReinstate"} => live["storage"] = "absent"
    /\ pc = "rbReinstate" => quarantine = "absent"

Inductive ==
    /\ TypeOK /\ ControlAgrees /\ RestHolds /\ InstallHolds /\ OldIsSaved /\ CompletionHolds
    /\ RollbackHolds

-----------------------------------------------------------------------------
(* One lemma per action.  What steps have in common is visible in all of them. *)

USE ParameterAssumption DEF durable, files, account, business, process, Exit, Fault,
    StartRollback, TypeOK, Item, Phase, OldTree, WholeOld, WholeNew, NeverMoved, HalfWay,
    InstallOrder, InstallPoints, CompletionOrder, CompletionPoints, RollbackPoints, AfterDb,
    Moved, Accounted

\* A failure is counted within its bound.
LEMMA FaultsAreCounted ==
    ASSUME ProcessTypeOK, Fault \/ UNCHANGED faults
    PROVE  faults' \in 0..MaxFaults
  BY DEF ProcessTypeOK

LEMMA WriteKeeps ==
    ASSUME Inductive, Write
    PROVE  Inductive'
<1>1. FilesTypeOK'
  BY DEF Inductive, Write, FilesTypeOK
<1>2. StateTypeOK'
  BY DEF Inductive, Write, StateTypeOK
<1>3. AccountTypeOK'
  BY DEF Inductive, Write, AccountTypeOK, Diff
<1>4. ProcessTypeOK'
  BY DEF Inductive, Write, ProcessTypeOK, Points, ServingPoints
<1>5. ControlAgrees'
  BY DEF Inductive, Write, ControlAgrees
<1>6. RestHolds'
  BY DEF Inductive, Write, RestHolds, FilesTypeOK, StateTypeOK, ProcessTypeOK,
      ControlAgrees, Points, ServingPoints
<1>7. InstallHolds'
  BY DEF Inductive, Write, InstallHolds
<1>8. OldIsSaved'
  BY DEF Inductive, Write, OldIsSaved, FilesTypeOK, StateTypeOK, ProcessTypeOK,
      ControlAgrees, Points, ServingPoints
<1>9. CompletionHolds'
  BY DEF Inductive, Write, CompletionHolds
<1>10. RollbackHolds'
  BY DEF Inductive, Write, RollbackHolds
<1> QED
  BY <1>1, <1>2, <1>3, <1>4, <1>5, <1>6, <1>7, <1>8, <1>9, <1>10 DEF Inductive

LEMMA ProtectKeeps ==
    ASSUME Inductive, Protect
    PROVE  Inductive'
<1>1. FilesTypeOK'
  BY DEF Inductive, Protect, FilesTypeOK
<1>2. StateTypeOK'
  BY DEF Inductive, Protect, StateTypeOK
<1>3. AccountTypeOK'
  BY DEF Inductive, Protect, AccountTypeOK, Diff
<1>4. ProcessTypeOK'
  BY DEF Inductive, Protect, ProcessTypeOK, Points, ServingPoints
<1>5. ControlAgrees'
  BY DEF Inductive, Protect, ControlAgrees, FilesTypeOK, StateTypeOK, ProcessTypeOK,
      RestHolds, InstallHolds, OldIsSaved, CompletionHolds, RollbackHolds,
      AccountTypeOK, Points, Diff, ServingPoints
<1>6. RestHolds'
  BY DEF Inductive, Protect, RestHolds
<1>7. InstallHolds'
  BY DEF Inductive, Protect, InstallHolds
<1>8. OldIsSaved'
  BY DEF Inductive, Protect, OldIsSaved
<1>9. CompletionHolds'
  BY DEF Inductive, Protect, CompletionHolds
<1>10. RollbackHolds'
  BY DEF Inductive, Protect, RollbackHolds
<1> QED
  BY <1>1, <1>2, <1>3, <1>4, <1>5, <1>6, <1>7, <1>8, <1>9, <1>10 DEF Inductive

LEMMA QuitKeeps ==
    ASSUME Inductive, Quit
    PROVE  Inductive'
<1>1. FilesTypeOK'
  BY DEF Inductive, Quit, FilesTypeOK
<1>2. StateTypeOK'
  BY DEF Inductive, Quit, StateTypeOK
<1>3. AccountTypeOK'
  BY DEF Inductive, Quit, AccountTypeOK, Diff
<1>4. ProcessTypeOK'
  BY DEF Inductive, Quit, ProcessTypeOK, Points, ServingPoints
<1>5. ControlAgrees'
  BY DEF Inductive, Quit, ControlAgrees
<1>6. RestHolds'
  BY DEF Inductive, Quit, RestHolds
<1>7. InstallHolds'
  BY DEF Inductive, Quit, InstallHolds
<1>8. OldIsSaved'
  BY DEF Inductive, Quit, OldIsSaved
<1>9. CompletionHolds'
  BY DEF Inductive, Quit, CompletionHolds
<1>10. RollbackHolds'
  BY DEF Inductive, Quit, RollbackHolds
<1> QED
  BY <1>1, <1>2, <1>3, <1>4, <1>5, <1>6, <1>7, <1>8, <1>9, <1>10 DEF Inductive

LEMMA PrepareStagingKeeps ==
    ASSUME Inductive, PrepareStaging
    PROVE  Inductive'
<1>1. FilesTypeOK'
  BY DEF Inductive, PrepareStaging, FilesTypeOK
<1>2. StateTypeOK'
  BY DEF Inductive, PrepareStaging, StateTypeOK
<1>3. AccountTypeOK'
  BY DEF Inductive, PrepareStaging, AccountTypeOK, Diff
<1>4. ProcessTypeOK'
  BY DEF Inductive, PrepareStaging, ProcessTypeOK, Points, ServingPoints
<1>5. ControlAgrees'
  BY DEF Inductive, PrepareStaging, ControlAgrees
<1>6. RestHolds'
  BY DEF Inductive, PrepareStaging, RestHolds
<1>7. InstallHolds'
  BY DEF Inductive, PrepareStaging, InstallHolds
<1>8. OldIsSaved'
  BY DEF Inductive, PrepareStaging, OldIsSaved
<1>9. CompletionHolds'
  BY DEF Inductive, PrepareStaging, CompletionHolds
<1>10. RollbackHolds'
  BY DEF Inductive, PrepareStaging, RollbackHolds
<1> QED
  BY <1>1, <1>2, <1>3, <1>4, <1>5, <1>6, <1>7, <1>8, <1>9, <1>10 DEF Inductive

LEMMA StageRestoreKeeps ==
    ASSUME Inductive, StageRestore
    PROVE  Inductive'
<1>1. FilesTypeOK'
  BY DEF Inductive, StageRestore, FilesTypeOK
<1>2. StateTypeOK'
  BY DEF Inductive, StageRestore, StateTypeOK
<1>3. AccountTypeOK'
  BY DEF Inductive, StageRestore, AccountTypeOK, Diff
<1>4. ProcessTypeOK'
  BY DEF Inductive, StageRestore, ProcessTypeOK, Points, ServingPoints
<1>5. ControlAgrees'
  BY DEF Inductive, StageRestore, ControlAgrees
<1>6. RestHolds'
  BY DEF Inductive, StageRestore, RestHolds
<1>7. InstallHolds'
  BY DEF Inductive, StageRestore, InstallHolds
<1>8. OldIsSaved'
  BY DEF Inductive, StageRestore, OldIsSaved
<1>9. CompletionHolds'
  BY DEF Inductive, StageRestore, CompletionHolds
<1>10. RollbackHolds'
  BY DEF Inductive, StageRestore, RollbackHolds
<1> QED
  BY <1>1, <1>2, <1>3, <1>4, <1>5, <1>6, <1>7, <1>8, <1>9, <1>10 DEF Inductive

LEMMA FinishStagingKeeps ==
    ASSUME Inductive, FinishStaging
    PROVE  Inductive'
<1>1. FilesTypeOK'
  BY DEF Inductive, FinishStaging, FilesTypeOK
<1>2. StateTypeOK'
  BY DEF Inductive, FinishStaging, StateTypeOK
<1>3. AccountTypeOK'
  BY DEF Inductive, FinishStaging, AccountTypeOK, Diff
<1>4. ProcessTypeOK'
  BY DEF Inductive, FinishStaging, ProcessTypeOK, Points, ServingPoints
<1>5. ControlAgrees'
  BY DEF Inductive, FinishStaging, ControlAgrees
<1>6. RestHolds'
  BY DEF Inductive, FinishStaging, RestHolds
<1>7. InstallHolds'
  BY DEF Inductive, FinishStaging, InstallHolds
<1>8. OldIsSaved'
  BY DEF Inductive, FinishStaging, OldIsSaved
<1>9. CompletionHolds'
  BY DEF Inductive, FinishStaging, CompletionHolds
<1>10. RollbackHolds'
  BY DEF Inductive, FinishStaging, RollbackHolds
<1> QED
  BY <1>1, <1>2, <1>3, <1>4, <1>5, <1>6, <1>7, <1>8, <1>9, <1>10 DEF Inductive

LEMMA ShutdownKeeps ==
    ASSUME Inductive, Shutdown
    PROVE  Inductive'
<1>1. FilesTypeOK'
  BY DEF Inductive, Shutdown, FilesTypeOK
<1>2. StateTypeOK'
  BY DEF Inductive, Shutdown, StateTypeOK
<1>3. AccountTypeOK'
  BY DEF Inductive, Shutdown, AccountTypeOK, Diff
<1>4. ProcessTypeOK'
  BY DEF Inductive, Shutdown, ProcessTypeOK, Points, ServingPoints
<1>5. ControlAgrees'
  BY DEF Inductive, Shutdown, ControlAgrees
<1>6. RestHolds'
  BY DEF Inductive, Shutdown, RestHolds
<1>7. InstallHolds'
  BY DEF Inductive, Shutdown, InstallHolds
<1>8. OldIsSaved'
  BY DEF Inductive, Shutdown, OldIsSaved
<1>9. CompletionHolds'
  BY DEF Inductive, Shutdown, CompletionHolds
<1>10. RollbackHolds'
  BY DEF Inductive, Shutdown, RollbackHolds
<1> QED
  BY <1>1, <1>2, <1>3, <1>4, <1>5, <1>6, <1>7, <1>8, <1>9, <1>10 DEF Inductive

LEMMA StageRestoreFailsKeeps ==
    ASSUME Inductive, StageRestoreFails
    PROVE  Inductive'
<1>1. FilesTypeOK'
  BY DEF Inductive, StageRestoreFails, FilesTypeOK
<1>2. StateTypeOK'
  BY DEF Inductive, StageRestoreFails, StateTypeOK
<1>3. AccountTypeOK'
  BY DEF Inductive, StageRestoreFails, AccountTypeOK, Diff
<1>4. ProcessTypeOK'
  BY DEF Inductive, StageRestoreFails, ProcessTypeOK, Points, ServingPoints
<1>5. ControlAgrees'
  BY DEF Inductive, StageRestoreFails, ControlAgrees
<1>6. RestHolds'
  BY DEF Inductive, StageRestoreFails, RestHolds, FilesTypeOK, StateTypeOK,
      ProcessTypeOK, ControlAgrees, Points, ServingPoints
<1>7. InstallHolds'
  BY DEF Inductive, StageRestoreFails, InstallHolds
<1>8. OldIsSaved'
  BY DEF Inductive, StageRestoreFails, OldIsSaved, FilesTypeOK, StateTypeOK,
      ProcessTypeOK, ControlAgrees, Points, ServingPoints
<1>9. CompletionHolds'
  BY DEF Inductive, StageRestoreFails, CompletionHolds
<1>10. RollbackHolds'
  BY DEF Inductive, StageRestoreFails, RollbackHolds
<1> QED
  BY <1>1, <1>2, <1>3, <1>4, <1>5, <1>6, <1>7, <1>8, <1>9, <1>10 DEF Inductive

LEMMA FinishStagingFailsKeeps ==
    ASSUME Inductive, FinishStagingFails
    PROVE  Inductive'
<1>1. FilesTypeOK'
  BY DEF Inductive, FinishStagingFails, FilesTypeOK
<1>2. StateTypeOK'
  BY DEF Inductive, FinishStagingFails, StateTypeOK
<1>3. AccountTypeOK'
  BY DEF Inductive, FinishStagingFails, AccountTypeOK, Diff
<1>4. ProcessTypeOK'
  BY DEF Inductive, FinishStagingFails, ProcessTypeOK, Points, ServingPoints
<1>5. ControlAgrees'
  BY DEF Inductive, FinishStagingFails, ControlAgrees
<1>6. RestHolds'
  BY DEF Inductive, FinishStagingFails, RestHolds
<1>7. InstallHolds'
  BY DEF Inductive, FinishStagingFails, InstallHolds
<1>8. OldIsSaved'
  BY DEF Inductive, FinishStagingFails, OldIsSaved
<1>9. CompletionHolds'
  BY DEF Inductive, FinishStagingFails, CompletionHolds
<1>10. RollbackHolds'
  BY DEF Inductive, FinishStagingFails, RollbackHolds
<1> QED
  BY <1>1, <1>2, <1>3, <1>4, <1>5, <1>6, <1>7, <1>8, <1>9, <1>10 DEF Inductive

LEMMA CompleteFailsKeeps ==
    ASSUME Inductive, CompleteFails
    PROVE  Inductive'
<1>1. FilesTypeOK'
  BY DEF Inductive, CompleteFails, FilesTypeOK
<1>2. StateTypeOK'
  BY DEF Inductive, CompleteFails, StateTypeOK
<1>3. AccountTypeOK'
  BY DEF Inductive, CompleteFails, AccountTypeOK, Diff
<1>4. ProcessTypeOK'
  <2>1. faults' \in 0..MaxFaults
    BY FaultsAreCounted DEF Inductive, CompleteFails
  <2>2. pc' \in Points /\ phase' \in Phase
    BY DEF Inductive, ProcessTypeOK, StateTypeOK, Points, CompleteFails
  <2>3. restored' \in BOOLEAN /\ failed' \in BOOLEAN /\ thenBoot' \in BOOLEAN /\ asked' \in BOOLEAN
    BY DEF Inductive, ProcessTypeOK, CompleteFails
  <2> QED
    BY <2>1, <2>2, <2>3 DEF ProcessTypeOK
<1>5. ControlAgrees'
  BY DEF Inductive, CompleteFails, ControlAgrees
<1>6. RestHolds'
  BY DEF Inductive, CompleteFails, RestHolds
<1>7. InstallHolds'
  BY DEF Inductive, CompleteFails, InstallHolds
<1>8. OldIsSaved'
  BY DEF Inductive, CompleteFails, OldIsSaved
<1>9. CompletionHolds'
  BY DEF Inductive, CompleteFails, CompletionHolds
<1>10. RollbackHolds'
  BY DEF Inductive, CompleteFails, RollbackHolds
<1> QED
  BY <1>1, <1>2, <1>3, <1>4, <1>5, <1>6, <1>7, <1>8, <1>9, <1>10 DEF Inductive

LEMMA CrashKeeps ==
    ASSUME Inductive, Crash
    PROVE  Inductive'
<1>1. FilesTypeOK'
  BY DEF Inductive, Crash, FilesTypeOK
<1>2. StateTypeOK'
  BY DEF Inductive, Crash, StateTypeOK
<1>3. AccountTypeOK'
  BY DEF Inductive, Crash, AccountTypeOK, Diff
<1>4. ProcessTypeOK'
  <2>1. faults' \in 0..MaxFaults
    BY FaultsAreCounted DEF Inductive, Crash
  <2>2. pc' \in Points /\ phase' \in Phase
    BY DEF Inductive, ProcessTypeOK, StateTypeOK, Points, Crash
  <2>3. restored' \in BOOLEAN /\ failed' \in BOOLEAN /\ thenBoot' \in BOOLEAN /\ asked' \in BOOLEAN
    BY DEF Inductive, ProcessTypeOK, Crash
  <2> QED
    BY <2>1, <2>2, <2>3 DEF ProcessTypeOK
<1>5. ControlAgrees'
  BY DEF Inductive, Crash, ControlAgrees
<1>6. RestHolds'
  BY DEF Inductive, Crash, RestHolds
<1>7. InstallHolds'
  BY DEF Inductive, Crash, InstallHolds
<1>8. OldIsSaved'
  BY DEF Inductive, Crash, OldIsSaved
<1>9. CompletionHolds'
  BY DEF Inductive, Crash, CompletionHolds
<1>10. RollbackHolds'
  BY DEF Inductive, Crash, RollbackHolds
<1> QED
  BY <1>1, <1>2, <1>3, <1>4, <1>5, <1>6, <1>7, <1>8, <1>9, <1>10 DEF Inductive

LEMMA BootCleanKeeps ==
    ASSUME Inductive, BootClean
    PROVE  Inductive'
<1>1. FilesTypeOK'
  BY DEF Inductive, BootClean, FilesTypeOK
<1>2. StateTypeOK'
  BY DEF Inductive, BootClean, StateTypeOK
<1>3. AccountTypeOK'
  BY DEF Inductive, BootClean, AccountTypeOK, Diff
<1>4. ProcessTypeOK'
  BY DEF Inductive, BootClean, ProcessTypeOK, Points, ServingPoints
<1>5. ControlAgrees'
  BY DEF Inductive, BootClean, ControlAgrees
<1>6. RestHolds'
  BY DEF Inductive, BootClean, RestHolds
<1>7. InstallHolds'
  BY DEF Inductive, BootClean, InstallHolds
<1>8. OldIsSaved'
  BY DEF Inductive, BootClean, OldIsSaved
<1>9. CompletionHolds'
  BY DEF Inductive, BootClean, CompletionHolds
<1>10. RollbackHolds'
  BY DEF Inductive, BootClean, RollbackHolds
<1> QED
  BY <1>1, <1>2, <1>3, <1>4, <1>5, <1>6, <1>7, <1>8, <1>9, <1>10 DEF Inductive

LEMMA BootCommittedKeeps ==
    ASSUME Inductive, BootCommitted
    PROVE  Inductive'
<1>1. FilesTypeOK'
  BY DEF Inductive, BootCommitted, FilesTypeOK
<1>2. StateTypeOK'
  BY DEF Inductive, BootCommitted, StateTypeOK
<1>3. AccountTypeOK'
  BY DEF Inductive, BootCommitted, AccountTypeOK, Diff
<1>4. ProcessTypeOK'
  BY DEF Inductive, BootCommitted, ProcessTypeOK, Points, ServingPoints
<1>5. ControlAgrees'
  BY DEF Inductive, BootCommitted, ControlAgrees
<1>6. RestHolds'
  BY DEF Inductive, BootCommitted, RestHolds
<1>7. InstallHolds'
  BY DEF Inductive, BootCommitted, InstallHolds
<1>8. OldIsSaved'
  BY DEF Inductive, BootCommitted, OldIsSaved
<1>9. CompletionHolds'
  BY DEF Inductive, BootCommitted, CompletionHolds
<1>10. RollbackHolds'
  BY DEF Inductive, BootCommitted, RollbackHolds
<1> QED
  BY <1>1, <1>2, <1>3, <1>4, <1>5, <1>6, <1>7, <1>8, <1>9, <1>10 DEF Inductive

LEMMA BootHalfInstalledKeeps ==
    ASSUME Inductive, BootHalfInstalled
    PROVE  Inductive'
<1>1. FilesTypeOK'
  BY DEF Inductive, BootHalfInstalled, FilesTypeOK
<1>2. StateTypeOK'
  BY DEF Inductive, BootHalfInstalled, StateTypeOK
<1>3. AccountTypeOK'
  BY DEF Inductive, BootHalfInstalled, AccountTypeOK, Diff
<1>4. ProcessTypeOK'
  BY DEF Inductive, BootHalfInstalled, ProcessTypeOK, Points, ServingPoints
<1>5. ControlAgrees'
  BY DEF Inductive, BootHalfInstalled, ControlAgrees
<1>6. RestHolds'
  BY DEF Inductive, BootHalfInstalled, RestHolds, FilesTypeOK, StateTypeOK,
      ProcessTypeOK, ControlAgrees, InstallHolds, OldIsSaved, CompletionHolds,
      RollbackHolds, AccountTypeOK, Points, Diff, ServingPoints
<1>7. InstallHolds'
  BY DEF Inductive, BootHalfInstalled, InstallHolds
<1>8. OldIsSaved'
  BY DEF Inductive, BootHalfInstalled, OldIsSaved
<1>9. CompletionHolds'
  BY DEF Inductive, BootHalfInstalled, CompletionHolds
<1>10. RollbackHolds'
  BY DEF Inductive, BootHalfInstalled, RollbackHolds
<1> QED
  BY <1>1, <1>2, <1>3, <1>4, <1>5, <1>6, <1>7, <1>8, <1>9, <1>10 DEF Inductive

LEMMA BootRequestedKeeps ==
    ASSUME Inductive, BootRequested
    PROVE  Inductive'
<1>1. FilesTypeOK'
  BY DEF Inductive, BootRequested, FilesTypeOK
<1>2. StateTypeOK'
  BY DEF Inductive, BootRequested, StateTypeOK
<1>3. AccountTypeOK'
  BY DEF Inductive, BootRequested, AccountTypeOK, Diff
<1>4. ProcessTypeOK'
  BY DEF Inductive, BootRequested, ProcessTypeOK, Points, ServingPoints
<1>5. ControlAgrees'
  BY DEF Inductive, BootRequested, ControlAgrees
<1>6. RestHolds'
  BY DEF Inductive, BootRequested, RestHolds
<1>7. InstallHolds'
  BY DEF Inductive, BootRequested, InstallHolds, FilesTypeOK, StateTypeOK,
      ProcessTypeOK, ControlAgrees, RestHolds, OldIsSaved, CompletionHolds,
      RollbackHolds, AccountTypeOK, Points, Diff, ServingPoints
<1>8. OldIsSaved'
  BY DEF Inductive, BootRequested, OldIsSaved, FilesTypeOK, StateTypeOK, ProcessTypeOK,
      ControlAgrees, RestHolds, InstallHolds, CompletionHolds, RollbackHolds,
      AccountTypeOK, Points, Diff, ServingPoints
<1>9. CompletionHolds'
  BY DEF Inductive, BootRequested, CompletionHolds
<1>10. RollbackHolds'
  BY DEF Inductive, BootRequested, RollbackHolds
<1> QED
  BY <1>1, <1>2, <1>3, <1>4, <1>5, <1>6, <1>7, <1>8, <1>9, <1>10 DEF Inductive

LEMMA MoveOutKeeps ==
    ASSUME Inductive, MoveOut
    PROVE  Inductive'
<1>1. FilesTypeOK'
  BY DEF Inductive, MoveOut, FilesTypeOK, StateTypeOK, ProcessTypeOK, ControlAgrees,
      RestHolds, InstallHolds, OldIsSaved, CompletionHolds, RollbackHolds,
      AccountTypeOK, Out, Points, Diff, ServingPoints
<1>2. StateTypeOK'
  BY DEF Inductive, MoveOut, StateTypeOK, Out
<1>3. AccountTypeOK'
  BY DEF Inductive, MoveOut, AccountTypeOK, Out, Diff
<1>4. ProcessTypeOK'
  BY DEF Inductive, MoveOut, ProcessTypeOK, Out, Points, ServingPoints
<1>5. ControlAgrees'
  BY DEF Inductive, MoveOut, ControlAgrees, Out
<1>6. RestHolds'
  BY DEF Inductive, MoveOut, RestHolds, FilesTypeOK, StateTypeOK, ProcessTypeOK,
      ControlAgrees, Out, Points, ServingPoints
<1>7. InstallHolds'
  BY DEF Inductive, MoveOut, InstallHolds, FilesTypeOK, StateTypeOK, ProcessTypeOK,
      ControlAgrees, Out, Points, ServingPoints
<1>8. OldIsSaved'
  BY DEF Inductive, MoveOut, OldIsSaved, FilesTypeOK, StateTypeOK, ProcessTypeOK,
      ControlAgrees, RestHolds, InstallHolds, CompletionHolds, RollbackHolds,
      AccountTypeOK, Out, Points, Diff, ServingPoints
<1>9. CompletionHolds'
  BY DEF Inductive, MoveOut, CompletionHolds, FilesTypeOK, StateTypeOK, ProcessTypeOK,
      ControlAgrees, Out, Points, ServingPoints
<1>10. RollbackHolds'
  BY DEF Inductive, MoveOut, RollbackHolds, Out
<1> QED
  BY <1>1, <1>2, <1>3, <1>4, <1>5, <1>6, <1>7, <1>8, <1>9, <1>10 DEF Inductive

LEMMA MoveInKeeps ==
    ASSUME Inductive, MoveIn
    PROVE  Inductive'
<1>1. FilesTypeOK'
  BY DEF Inductive, MoveIn, FilesTypeOK, In
<1>2. StateTypeOK'
  BY DEF Inductive, MoveIn, StateTypeOK, In
<1>3. AccountTypeOK'
  BY DEF Inductive, MoveIn, AccountTypeOK, In, Diff
<1>4. ProcessTypeOK'
  BY DEF Inductive, MoveIn, ProcessTypeOK, In, Points, ServingPoints
<1>5. ControlAgrees'
  BY DEF Inductive, MoveIn, ControlAgrees, In
<1>6. RestHolds'
  BY DEF Inductive, MoveIn, RestHolds, FilesTypeOK, StateTypeOK, ProcessTypeOK,
      ControlAgrees, In, Points, ServingPoints
<1>7. InstallHolds'
  BY DEF Inductive, MoveIn, InstallHolds, FilesTypeOK, StateTypeOK, ProcessTypeOK,
      ControlAgrees, In, Points, ServingPoints
<1>8. OldIsSaved'
  BY DEF Inductive, MoveIn, OldIsSaved, FilesTypeOK, StateTypeOK, ProcessTypeOK,
      ControlAgrees, RestHolds, InstallHolds, CompletionHolds, RollbackHolds,
      AccountTypeOK, In, Points, Diff, ServingPoints
<1>9. CompletionHolds'
  BY DEF Inductive, MoveIn, CompletionHolds, In
<1>10. RollbackHolds'
  BY DEF Inductive, MoveIn, RollbackHolds, In
<1> QED
  BY <1>1, <1>2, <1>3, <1>4, <1>5, <1>6, <1>7, <1>8, <1>9, <1>10 DEF Inductive

LEMMA InstallSettingsKeeps ==
    ASSUME Inductive, InstallSettings
    PROVE  Inductive'
<1>1. FilesTypeOK'
  BY DEF Inductive, InstallSettings, FilesTypeOK
<1>2. StateTypeOK'
  BY DEF Inductive, InstallSettings, StateTypeOK
<1>3. AccountTypeOK'
  BY DEF Inductive, InstallSettings, AccountTypeOK, Diff
<1>4. ProcessTypeOK'
  BY DEF Inductive, InstallSettings, ProcessTypeOK, Points, ServingPoints
<1>5. ControlAgrees'
  BY DEF Inductive, InstallSettings, ControlAgrees
<1>6. RestHolds'
  BY DEF Inductive, InstallSettings, RestHolds, FilesTypeOK, StateTypeOK, ProcessTypeOK,
      ControlAgrees, Points, ServingPoints
<1>7. InstallHolds'
  BY DEF Inductive, InstallSettings, InstallHolds
<1>8. OldIsSaved'
  BY DEF Inductive, InstallSettings, OldIsSaved
<1>9. CompletionHolds'
  BY DEF Inductive, InstallSettings, CompletionHolds
<1>10. RollbackHolds'
  BY DEF Inductive, InstallSettings, RollbackHolds
<1> QED
  BY <1>1, <1>2, <1>3, <1>4, <1>5, <1>6, <1>7, <1>8, <1>9, <1>10 DEF Inductive

LEMMA PublishHeadKeeps ==
    ASSUME Inductive, PublishHead
    PROVE  Inductive'
<1>1. FilesTypeOK'
  BY DEF Inductive, PublishHead, FilesTypeOK
<1>2. StateTypeOK'
  BY DEF Inductive, PublishHead, StateTypeOK
<1>3. AccountTypeOK'
  BY DEF Inductive, PublishHead, AccountTypeOK, Diff
<1>4. ProcessTypeOK'
  BY DEF Inductive, PublishHead, ProcessTypeOK, Points, ServingPoints
<1>5. ControlAgrees'
  BY DEF Inductive, PublishHead, ControlAgrees
<1>6. RestHolds'
  BY DEF Inductive, PublishHead, RestHolds, FilesTypeOK, StateTypeOK, ProcessTypeOK,
      ControlAgrees, Points, ServingPoints
<1>7. InstallHolds'
  BY DEF Inductive, PublishHead, InstallHolds
<1>8. OldIsSaved'
  BY DEF Inductive, PublishHead, OldIsSaved
<1>9. CompletionHolds'
  BY DEF Inductive, PublishHead, CompletionHolds
<1>10. RollbackHolds'
  BY DEF Inductive, PublishHead, RollbackHolds
<1> QED
  BY <1>1, <1>2, <1>3, <1>4, <1>5, <1>6, <1>7, <1>8, <1>9, <1>10 DEF Inductive

LEMMA RotateAuditEpochKeeps ==
    ASSUME Inductive, RotateAuditEpoch
    PROVE  Inductive'
<1>1. FilesTypeOK'
  BY DEF Inductive, RotateAuditEpoch, FilesTypeOK
<1>2. StateTypeOK'
  BY DEF Inductive, RotateAuditEpoch, StateTypeOK
<1>3. AccountTypeOK'
  BY DEF Inductive, RotateAuditEpoch, AccountTypeOK, Diff
<1>4. ProcessTypeOK'
  BY DEF Inductive, RotateAuditEpoch, ProcessTypeOK, Points, ServingPoints
<1>5. ControlAgrees'
  BY DEF Inductive, RotateAuditEpoch, ControlAgrees
<1>6. RestHolds'
  BY DEF Inductive, RotateAuditEpoch, RestHolds
<1>7. InstallHolds'
  BY DEF Inductive, RotateAuditEpoch, InstallHolds
<1>8. OldIsSaved'
  BY DEF Inductive, RotateAuditEpoch, OldIsSaved
<1>9. CompletionHolds'
  BY DEF Inductive, RotateAuditEpoch, CompletionHolds
<1>10. RollbackHolds'
  BY DEF Inductive, RotateAuditEpoch, RollbackHolds
<1> QED
  BY <1>1, <1>2, <1>3, <1>4, <1>5, <1>6, <1>7, <1>8, <1>9, <1>10 DEF Inductive

LEMMA MarkInstalledKeeps ==
    ASSUME Inductive, MarkInstalled
    PROVE  Inductive'
<1>1. FilesTypeOK'
  BY DEF Inductive, MarkInstalled, FilesTypeOK
<1>2. StateTypeOK'
  BY DEF Inductive, MarkInstalled, StateTypeOK
<1>3. AccountTypeOK'
  BY DEF Inductive, MarkInstalled, AccountTypeOK, Diff
<1>4. ProcessTypeOK'
  BY DEF Inductive, MarkInstalled, ProcessTypeOK, Points, ServingPoints
<1>5. ControlAgrees'
  BY DEF Inductive, MarkInstalled, ControlAgrees
<1>6. RestHolds'
  BY DEF Inductive, MarkInstalled, RestHolds
<1>7. InstallHolds'
  BY DEF Inductive, MarkInstalled, InstallHolds
<1>8. OldIsSaved'
  BY DEF Inductive, MarkInstalled, OldIsSaved, FilesTypeOK, StateTypeOK, ProcessTypeOK,
      ControlAgrees, Points, ServingPoints
<1>9. CompletionHolds'
  BY DEF Inductive, MarkInstalled, CompletionHolds, FilesTypeOK, StateTypeOK,
      ProcessTypeOK, ControlAgrees, RestHolds, InstallHolds, OldIsSaved, RollbackHolds,
      AccountTypeOK, Points, Diff, ServingPoints
<1>10. RollbackHolds'
  BY DEF Inductive, MarkInstalled, RollbackHolds
<1> QED
  BY <1>1, <1>2, <1>3, <1>4, <1>5, <1>6, <1>7, <1>8, <1>9, <1>10 DEF Inductive

LEMMA InstallFailsKeeps ==
    ASSUME Inductive, InstallFails
    PROVE  Inductive'
<1>1. FilesTypeOK'
  BY DEF Inductive, InstallFails, FilesTypeOK
<1>2. StateTypeOK'
  BY DEF Inductive, InstallFails, StateTypeOK
<1>3. AccountTypeOK'
  BY DEF Inductive, InstallFails, AccountTypeOK, Diff
<1>4. ProcessTypeOK'
  <2>1. faults' \in 0..MaxFaults
    BY FaultsAreCounted DEF Inductive, InstallFails
  <2>2. pc' \in Points /\ phase' \in Phase
    BY DEF Inductive, ProcessTypeOK, StateTypeOK, Points, InstallFails
  <2>3. restored' \in BOOLEAN /\ failed' \in BOOLEAN /\ thenBoot' \in BOOLEAN /\ asked' \in BOOLEAN
    BY DEF Inductive, ProcessTypeOK, InstallFails
  <2> QED
    BY <2>1, <2>2, <2>3 DEF ProcessTypeOK
<1>5. ControlAgrees'
  BY DEF Inductive, InstallFails, ControlAgrees
<1>6. RestHolds'
  BY DEF Inductive, InstallFails, RestHolds
<1>7. InstallHolds'
  BY DEF Inductive, InstallFails, InstallHolds
<1>8. OldIsSaved'
  BY DEF Inductive, InstallFails, OldIsSaved
<1>9. CompletionHolds'
  BY DEF Inductive, InstallFails, CompletionHolds
<1>10. RollbackHolds'
  BY DEF Inductive, InstallFails, RollbackHolds
<1> QED
  BY <1>1, <1>2, <1>3, <1>4, <1>5, <1>6, <1>7, <1>8, <1>9, <1>10 DEF Inductive

LEMMA RollbackHeadKeeps ==
    ASSUME Inductive, RollbackHead
    PROVE  Inductive'
<1>1. FilesTypeOK'
  BY DEF Inductive, RollbackHead, FilesTypeOK
<1>2. StateTypeOK'
  BY DEF Inductive, RollbackHead, StateTypeOK
<1>3. AccountTypeOK'
  BY DEF Inductive, RollbackHead, AccountTypeOK, Diff
<1>4. ProcessTypeOK'
  <2>1. faults' \in 0..MaxFaults
    BY FaultsAreCounted DEF Inductive, RollbackHead
  <2>2. pc' \in Points /\ phase' \in Phase
    BY DEF Inductive, ProcessTypeOK, StateTypeOK, Points, RollbackHead
  <2>3. restored' \in BOOLEAN /\ failed' \in BOOLEAN /\ thenBoot' \in BOOLEAN /\ asked' \in BOOLEAN
    BY DEF Inductive, ProcessTypeOK, RollbackHead
  <2> QED
    BY <2>1, <2>2, <2>3 DEF ProcessTypeOK
<1>5. ControlAgrees'
  BY DEF Inductive, RollbackHead, ControlAgrees
<1>6. RestHolds'
  BY DEF Inductive, RollbackHead, RestHolds, FilesTypeOK, StateTypeOK, ProcessTypeOK,
      ControlAgrees, Points, ServingPoints
<1>7. InstallHolds'
  BY DEF Inductive, RollbackHead, InstallHolds
<1>8. OldIsSaved'
  BY DEF Inductive, RollbackHead, OldIsSaved
<1>9. CompletionHolds'
  BY DEF Inductive, RollbackHead, CompletionHolds, FilesTypeOK, StateTypeOK,
      ProcessTypeOK, ControlAgrees, Points, ServingPoints
<1>10. RollbackHolds'
  BY DEF Inductive, RollbackHead, RollbackHolds
<1> QED
  BY <1>1, <1>2, <1>3, <1>4, <1>5, <1>6, <1>7, <1>8, <1>9, <1>10 DEF Inductive

LEMMA RollbackTreeKeeps ==
    ASSUME Inductive, RollbackTree
    PROVE  Inductive'
<1>1. FilesTypeOK'
  BY DEF Inductive, RollbackTree, FilesTypeOK, Reinstate
<1>2. StateTypeOK'
  BY DEF Inductive, RollbackTree, StateTypeOK, Reinstate
<1>3. AccountTypeOK'
  BY DEF Inductive, RollbackTree, AccountTypeOK, Reinstate, Diff
<1>4. ProcessTypeOK'
  <2>1. faults' \in 0..MaxFaults
    BY FaultsAreCounted DEF Inductive, RollbackTree, Reinstate
  <2>2. pc' \in Points /\ phase' \in Phase
    BY DEF Inductive, ProcessTypeOK, StateTypeOK, Points, RollbackTree, Reinstate
  <2>3. restored' \in BOOLEAN /\ failed' \in BOOLEAN /\ thenBoot' \in BOOLEAN /\ asked' \in BOOLEAN
    BY DEF Inductive, ProcessTypeOK, RollbackTree, Reinstate
  <2> QED
    BY <2>1, <2>2, <2>3 DEF ProcessTypeOK
<1>5. ControlAgrees'
  BY DEF Inductive, RollbackTree, ControlAgrees, Reinstate
<1>6. RestHolds'
  BY DEF Inductive, RollbackTree, RestHolds, FilesTypeOK, StateTypeOK, ProcessTypeOK,
      ControlAgrees, Reinstate, Points, ServingPoints
<1>7. InstallHolds'
  BY DEF Inductive, RollbackTree, InstallHolds, Reinstate
<1>8. OldIsSaved'
  BY DEF Inductive, RollbackTree, OldIsSaved, FilesTypeOK, StateTypeOK, ProcessTypeOK,
      ControlAgrees, Reinstate, Points, ServingPoints
<1>9. CompletionHolds'
  BY DEF Inductive, RollbackTree, CompletionHolds, FilesTypeOK, StateTypeOK,
      ProcessTypeOK, ControlAgrees, Reinstate, Points, ServingPoints
<1>10. RollbackHolds'
  BY DEF Inductive, RollbackTree, RollbackHolds, FilesTypeOK, StateTypeOK,
      ProcessTypeOK, ControlAgrees, RestHolds, InstallHolds, OldIsSaved,
      CompletionHolds, AccountTypeOK, Reinstate, Points, Diff, ServingPoints
<1> QED
  BY <1>1, <1>2, <1>3, <1>4, <1>5, <1>6, <1>7, <1>8, <1>9, <1>10 DEF Inductive

LEMMA RollbackStorageKeeps ==
    ASSUME Inductive, RollbackStorage
    PROVE  Inductive'
<1>1. FilesTypeOK'
  BY DEF Inductive, RollbackStorage, FilesTypeOK
<1>2. StateTypeOK'
  BY DEF Inductive, RollbackStorage, StateTypeOK
<1>3. AccountTypeOK'
  BY DEF Inductive, RollbackStorage, AccountTypeOK, Diff
<1>4. ProcessTypeOK'
  BY DEF Inductive, RollbackStorage, ProcessTypeOK, Points, ServingPoints
<1>5. ControlAgrees'
  BY DEF Inductive, RollbackStorage, ControlAgrees
<1>6. RestHolds'
  BY DEF Inductive, RollbackStorage, RestHolds, FilesTypeOK, StateTypeOK, ProcessTypeOK,
      ControlAgrees, Points, ServingPoints
<1>7. InstallHolds'
  BY DEF Inductive, RollbackStorage, InstallHolds
<1>8. OldIsSaved'
  BY DEF Inductive, RollbackStorage, OldIsSaved, FilesTypeOK, StateTypeOK,
      ProcessTypeOK, ControlAgrees, Points, ServingPoints
<1>9. CompletionHolds'
  BY DEF Inductive, RollbackStorage, CompletionHolds, FilesTypeOK, StateTypeOK,
      ProcessTypeOK, ControlAgrees, Points, ServingPoints
<1>10. RollbackHolds'
  BY DEF Inductive, RollbackStorage, RollbackHolds, FilesTypeOK, StateTypeOK,
      ProcessTypeOK, ControlAgrees, RestHolds, InstallHolds, OldIsSaved,
      CompletionHolds, AccountTypeOK, Points, Diff, ServingPoints
<1> QED
  BY <1>1, <1>2, <1>3, <1>4, <1>5, <1>6, <1>7, <1>8, <1>9, <1>10 DEF Inductive

LEMMA ProbeStorageKeeps ==
    ASSUME Inductive, ProbeStorage
    PROVE  Inductive'
<1>1. FilesTypeOK'
  BY DEF Inductive, ProbeStorage, FilesTypeOK, Matches
<1>2. StateTypeOK'
  BY DEF Inductive, ProbeStorage, StateTypeOK, Matches
<1>3. AccountTypeOK'
  BY DEF Inductive, ProbeStorage, AccountTypeOK, Matches, Diff
<1>4. ProcessTypeOK'
  BY DEF Inductive, ProbeStorage, ProcessTypeOK, Matches, Points, ServingPoints
<1>5. ControlAgrees'
  BY DEF Inductive, ProbeStorage, ControlAgrees, Matches
<1>6. RestHolds'
  BY DEF Inductive, ProbeStorage, RestHolds, FilesTypeOK, StateTypeOK, ProcessTypeOK,
      ControlAgrees, Matches, Points, ServingPoints
<1>7. InstallHolds'
  BY DEF Inductive, ProbeStorage, InstallHolds, Matches
<1>8. OldIsSaved'
  BY DEF Inductive, ProbeStorage, OldIsSaved, FilesTypeOK, StateTypeOK, ProcessTypeOK,
      ControlAgrees, RestHolds, InstallHolds, CompletionHolds, RollbackHolds,
      AccountTypeOK, Matches, Points, Diff, ServingPoints
<1>9. CompletionHolds'
  BY DEF Inductive, ProbeStorage, CompletionHolds, FilesTypeOK, StateTypeOK,
      ProcessTypeOK, ControlAgrees, Matches, Points, ServingPoints
<1>10. RollbackHolds'
  BY DEF Inductive, ProbeStorage, RollbackHolds, FilesTypeOK, StateTypeOK,
      ProcessTypeOK, ControlAgrees, RestHolds, InstallHolds, OldIsSaved,
      CompletionHolds, AccountTypeOK, Matches, Points, Diff, ServingPoints
<1> QED
  BY <1>1, <1>2, <1>3, <1>4, <1>5, <1>6, <1>7, <1>8, <1>9, <1>10 DEF Inductive

LEMMA VerifyQuarantineKeeps ==
    ASSUME Inductive, VerifyQuarantine
    PROVE  Inductive'
<1>1. FilesTypeOK'
  BY DEF Inductive, VerifyQuarantine, FilesTypeOK, Matches
<1>2. StateTypeOK'
  BY DEF Inductive, VerifyQuarantine, StateTypeOK, Matches
<1>3. AccountTypeOK'
  BY DEF Inductive, VerifyQuarantine, AccountTypeOK, Matches, Diff
<1>4. ProcessTypeOK'
  BY DEF Inductive, VerifyQuarantine, ProcessTypeOK, Matches, Points, ServingPoints
<1>5. ControlAgrees'
  BY DEF Inductive, VerifyQuarantine, ControlAgrees, Matches
<1>6. RestHolds'
  BY DEF Inductive, VerifyQuarantine, RestHolds, FilesTypeOK, StateTypeOK,
      ProcessTypeOK, ControlAgrees, Matches, Points, ServingPoints
<1>7. InstallHolds'
  BY DEF Inductive, VerifyQuarantine, InstallHolds, Matches
<1>8. OldIsSaved'
  BY DEF Inductive, VerifyQuarantine, OldIsSaved, FilesTypeOK, StateTypeOK,
      ProcessTypeOK, ControlAgrees, Matches, Points, ServingPoints
<1>9. CompletionHolds'
  BY DEF Inductive, VerifyQuarantine, CompletionHolds, Matches
<1>10. RollbackHolds'
  BY DEF Inductive, VerifyQuarantine, RollbackHolds, Matches
<1> QED
  BY <1>1, <1>2, <1>3, <1>4, <1>5, <1>6, <1>7, <1>8, <1>9, <1>10 DEF Inductive

LEMMA DropQuarantineKeeps ==
    ASSUME Inductive, DropQuarantine
    PROVE  Inductive'
<1>1. FilesTypeOK'
  BY DEF Inductive, DropQuarantine, FilesTypeOK
<1>2. StateTypeOK'
  BY DEF Inductive, DropQuarantine, StateTypeOK
<1>3. AccountTypeOK'
  BY DEF Inductive, DropQuarantine, AccountTypeOK, Diff
<1>4. ProcessTypeOK'
  BY DEF Inductive, DropQuarantine, ProcessTypeOK, Points, ServingPoints
<1>5. ControlAgrees'
  BY DEF Inductive, DropQuarantine, ControlAgrees
<1>6. RestHolds'
  BY DEF Inductive, DropQuarantine, RestHolds
<1>7. InstallHolds'
  BY DEF Inductive, DropQuarantine, InstallHolds
<1>8. OldIsSaved'
  BY DEF Inductive, DropQuarantine, OldIsSaved, FilesTypeOK, StateTypeOK, ProcessTypeOK,
      ControlAgrees, RestHolds, InstallHolds, CompletionHolds, RollbackHolds,
      AccountTypeOK, Points, Diff, ServingPoints
<1>9. CompletionHolds'
  BY DEF Inductive, DropQuarantine, CompletionHolds
<1>10. RollbackHolds'
  BY DEF Inductive, DropQuarantine, RollbackHolds
<1> QED
  BY <1>1, <1>2, <1>3, <1>4, <1>5, <1>6, <1>7, <1>8, <1>9, <1>10 DEF Inductive

LEMMA ReinstateStorageKeeps ==
    ASSUME Inductive, ReinstateStorage
    PROVE  Inductive'
<1>1. FilesTypeOK'
  BY DEF Inductive, ReinstateStorage, FilesTypeOK, Reinstate
<1>2. StateTypeOK'
  BY DEF Inductive, ReinstateStorage, StateTypeOK, Reinstate
<1>3. AccountTypeOK'
  BY DEF Inductive, ReinstateStorage, AccountTypeOK, Reinstate, Diff
<1>4. ProcessTypeOK'
  <2>1. faults' \in 0..MaxFaults
    BY FaultsAreCounted DEF Inductive, ReinstateStorage, Reinstate
  <2>2. pc' \in Points /\ phase' \in Phase
    BY DEF Inductive, ProcessTypeOK, StateTypeOK, Points, ReinstateStorage, Reinstate
  <2>3. restored' \in BOOLEAN /\ failed' \in BOOLEAN /\ thenBoot' \in BOOLEAN /\ asked' \in BOOLEAN
    BY DEF Inductive, ProcessTypeOK, ReinstateStorage, Reinstate
  <2> QED
    BY <2>1, <2>2, <2>3 DEF ProcessTypeOK
<1>5. ControlAgrees'
  BY DEF Inductive, ReinstateStorage, ControlAgrees, Reinstate
<1>6. RestHolds'
  BY DEF Inductive, ReinstateStorage, RestHolds, FilesTypeOK, StateTypeOK,
      ProcessTypeOK, ControlAgrees, Reinstate, Points, ServingPoints
<1>7. InstallHolds'
  BY DEF Inductive, ReinstateStorage, InstallHolds, Reinstate
<1>8. OldIsSaved'
  BY DEF Inductive, ReinstateStorage, OldIsSaved, FilesTypeOK, StateTypeOK,
      ProcessTypeOK, ControlAgrees, RestHolds, InstallHolds, CompletionHolds,
      RollbackHolds, AccountTypeOK, Reinstate, Points, Diff, ServingPoints
<1>9. CompletionHolds'
  BY DEF Inductive, ReinstateStorage, CompletionHolds, FilesTypeOK, StateTypeOK,
      ProcessTypeOK, ControlAgrees, Reinstate, Points, ServingPoints
<1>10. RollbackHolds'
  BY DEF Inductive, ReinstateStorage, RollbackHolds, FilesTypeOK, StateTypeOK,
      ProcessTypeOK, ControlAgrees, RestHolds, InstallHolds, OldIsSaved,
      CompletionHolds, AccountTypeOK, Reinstate, Points, Diff, ServingPoints
<1> QED
  BY <1>1, <1>2, <1>3, <1>4, <1>5, <1>6, <1>7, <1>8, <1>9, <1>10 DEF Inductive

LEMMA StorageRollbackFailsKeeps ==
    ASSUME Inductive, StorageRollbackFails
    PROVE  Inductive'
<1>1. FilesTypeOK'
  BY DEF Inductive, StorageRollbackFails, FilesTypeOK
<1>2. StateTypeOK'
  BY DEF Inductive, StorageRollbackFails, StateTypeOK
<1>3. AccountTypeOK'
  BY DEF Inductive, StorageRollbackFails, AccountTypeOK, Diff
<1>4. ProcessTypeOK'
  BY DEF Inductive, StorageRollbackFails, ProcessTypeOK, Points, ServingPoints
<1>5. ControlAgrees'
  BY DEF Inductive, StorageRollbackFails, ControlAgrees
<1>6. RestHolds'
  BY DEF Inductive, StorageRollbackFails, RestHolds
<1>7. InstallHolds'
  BY DEF Inductive, StorageRollbackFails, InstallHolds
<1>8. OldIsSaved'
  BY DEF Inductive, StorageRollbackFails, OldIsSaved
<1>9. CompletionHolds'
  BY DEF Inductive, StorageRollbackFails, CompletionHolds
<1>10. RollbackHolds'
  BY DEF Inductive, StorageRollbackFails, RollbackHolds
<1> QED
  BY <1>1, <1>2, <1>3, <1>4, <1>5, <1>6, <1>7, <1>8, <1>9, <1>10 DEF Inductive

LEMMA RollbackSettingsKeeps ==
    ASSUME Inductive, RollbackSettings
    PROVE  Inductive'
<1>1. FilesTypeOK'
  BY DEF Inductive, RollbackSettings, FilesTypeOK
<1>2. StateTypeOK'
  BY DEF Inductive, RollbackSettings, StateTypeOK
<1>3. AccountTypeOK'
  BY DEF Inductive, RollbackSettings, AccountTypeOK, Diff
<1>4. ProcessTypeOK'
  <2>1. faults' \in 0..MaxFaults
    BY FaultsAreCounted DEF Inductive, RollbackSettings
  <2>2. pc' \in Points /\ phase' \in Phase
    BY DEF Inductive, ProcessTypeOK, StateTypeOK, Points, RollbackSettings
  <2>3. restored' \in BOOLEAN /\ failed' \in BOOLEAN /\ thenBoot' \in BOOLEAN /\ asked' \in BOOLEAN
    BY DEF Inductive, ProcessTypeOK, RollbackSettings
  <2> QED
    BY <2>1, <2>2, <2>3 DEF ProcessTypeOK
<1>5. ControlAgrees'
  BY DEF Inductive, RollbackSettings, ControlAgrees
<1>6. RestHolds'
  BY DEF Inductive, RollbackSettings, RestHolds, FilesTypeOK, StateTypeOK,
      ProcessTypeOK, ControlAgrees, Points, ServingPoints
<1>7. InstallHolds'
  BY DEF Inductive, RollbackSettings, InstallHolds
<1>8. OldIsSaved'
  BY DEF Inductive, RollbackSettings, OldIsSaved
<1>9. CompletionHolds'
  BY DEF Inductive, RollbackSettings, CompletionHolds, FilesTypeOK, StateTypeOK,
      ProcessTypeOK, ControlAgrees, Points, ServingPoints
<1>10. RollbackHolds'
  BY DEF Inductive, RollbackSettings, RollbackHolds
<1> QED
  BY <1>1, <1>2, <1>3, <1>4, <1>5, <1>6, <1>7, <1>8, <1>9, <1>10 DEF Inductive

LEMMA FinishRollbackKeeps ==
    ASSUME Inductive, FinishRollback
    PROVE  Inductive'
<1>1. FilesTypeOK'
  BY DEF Inductive, FinishRollback, FilesTypeOK
<1>2. StateTypeOK'
  BY DEF Inductive, FinishRollback, StateTypeOK
<1>3. AccountTypeOK'
  BY DEF Inductive, FinishRollback, AccountTypeOK, Diff
<1>4. ProcessTypeOK'
  BY DEF Inductive, FinishRollback, ProcessTypeOK, Points, ServingPoints
<1>5. ControlAgrees'
  BY DEF Inductive, FinishRollback, ControlAgrees
<1>6. RestHolds'
  BY DEF Inductive, FinishRollback, RestHolds, FilesTypeOK, StateTypeOK, ProcessTypeOK,
      ControlAgrees, InstallHolds, OldIsSaved, CompletionHolds, RollbackHolds,
      AccountTypeOK, Points, Diff, ServingPoints
<1>7. InstallHolds'
  BY DEF Inductive, FinishRollback, InstallHolds
<1>8. OldIsSaved'
  BY DEF Inductive, FinishRollback, OldIsSaved
<1>9. CompletionHolds'
  BY DEF Inductive, FinishRollback, CompletionHolds
<1>10. RollbackHolds'
  BY DEF Inductive, FinishRollback, RollbackHolds
<1> QED
  BY <1>1, <1>2, <1>3, <1>4, <1>5, <1>6, <1>7, <1>8, <1>9, <1>10 DEF Inductive

LEMMA OpenKeeps ==
    ASSUME Inductive, Open
    PROVE  Inductive'
<1>1. FilesTypeOK'
  BY DEF Inductive, Open, FilesTypeOK, Observed
<1>2. StateTypeOK'
  BY DEF Inductive, Open, StateTypeOK, Observed
<1>3. AccountTypeOK'
  BY DEF Inductive, Open, AccountTypeOK, Observed, Diff
<1>4. ProcessTypeOK'
  BY DEF Inductive, Open, ProcessTypeOK, Observed, Points, ServingPoints
<1>5. ControlAgrees'
  BY DEF Inductive, Open, ControlAgrees, Observed
<1>6. RestHolds'
  BY DEF Inductive, Open, RestHolds, FilesTypeOK, StateTypeOK, ProcessTypeOK,
      ControlAgrees, InstallHolds, OldIsSaved, CompletionHolds, RollbackHolds,
      AccountTypeOK, Observed, Points, Diff, ServingPoints
<1>7. InstallHolds'
  BY DEF Inductive, Open, InstallHolds, Observed
<1>8. OldIsSaved'
  BY DEF Inductive, Open, OldIsSaved, FilesTypeOK, StateTypeOK, ProcessTypeOK,
      ControlAgrees, RestHolds, InstallHolds, CompletionHolds, RollbackHolds,
      AccountTypeOK, Observed, Points, Diff, ServingPoints
<1>9. CompletionHolds'
  BY DEF Inductive, Open, CompletionHolds, FilesTypeOK, StateTypeOK, ProcessTypeOK,
      ControlAgrees, RestHolds, InstallHolds, OldIsSaved, RollbackHolds, AccountTypeOK,
      Observed, Points, Diff, ServingPoints
<1>10. RollbackHolds'
  BY DEF Inductive, Open, RollbackHolds, Observed
<1> QED
  BY <1>1, <1>2, <1>3, <1>4, <1>5, <1>6, <1>7, <1>8, <1>9, <1>10 DEF Inductive

LEMMA OpenFailsKeeps ==
    ASSUME Inductive, OpenFails
    PROVE  Inductive'
<1>1. FilesTypeOK'
  BY DEF Inductive, OpenFails, FilesTypeOK, Observed
<1>2. StateTypeOK'
  BY DEF Inductive, OpenFails, StateTypeOK, Observed
<1>3. AccountTypeOK'
  BY DEF Inductive, OpenFails, AccountTypeOK, Observed, Diff
<1>4. ProcessTypeOK'
  <2>1. faults' \in 0..MaxFaults
    BY FaultsAreCounted DEF Inductive, OpenFails
  <2>2. pc' \in Points /\ phase' \in Phase
    BY DEF Inductive, ProcessTypeOK, StateTypeOK, Points, OpenFails
  <2>3. restored' \in BOOLEAN /\ failed' \in BOOLEAN /\ thenBoot' \in BOOLEAN /\ asked' \in BOOLEAN
    BY DEF Inductive, ProcessTypeOK, OpenFails
  <2> QED
    BY <2>1, <2>2, <2>3 DEF ProcessTypeOK
<1>5. ControlAgrees'
  BY DEF Inductive, OpenFails, ControlAgrees, Observed
<1>6. RestHolds'
  BY DEF Inductive, OpenFails, RestHolds, FilesTypeOK, StateTypeOK, ProcessTypeOK,
      ControlAgrees, InstallHolds, OldIsSaved, CompletionHolds, RollbackHolds,
      AccountTypeOK, Observed, Points, Diff, ServingPoints
<1>7. InstallHolds'
  BY DEF Inductive, OpenFails, InstallHolds, Observed
<1>8. OldIsSaved'
  BY DEF Inductive, OpenFails, OldIsSaved, Observed
<1>9. CompletionHolds'
  BY DEF Inductive, OpenFails, CompletionHolds, Observed
<1>10. RollbackHolds'
  BY DEF Inductive, OpenFails, RollbackHolds, Observed
<1> QED
  BY <1>1, <1>2, <1>3, <1>4, <1>5, <1>6, <1>7, <1>8, <1>9, <1>10 DEF Inductive

LEMMA CompleteKeeps ==
    ASSUME Inductive, Complete
    PROVE  Inductive'
<1>1. FilesTypeOK'
  BY DEF Inductive, Complete, FilesTypeOK
<1>2. StateTypeOK'
  BY DEF Inductive, Complete, StateTypeOK
<1>3. AccountTypeOK'
  BY DEF Inductive, Complete, AccountTypeOK, Diff
<1>4. ProcessTypeOK'
  BY DEF Inductive, Complete, ProcessTypeOK, Points, ServingPoints
<1>5. ControlAgrees'
  BY DEF Inductive, Complete, ControlAgrees
<1>6. RestHolds'
  BY DEF Inductive, Complete, RestHolds, FilesTypeOK, StateTypeOK, ProcessTypeOK,
      ControlAgrees, InstallHolds, OldIsSaved, CompletionHolds, RollbackHolds,
      AccountTypeOK, Points, Diff, ServingPoints
<1>7. InstallHolds'
  BY DEF Inductive, Complete, InstallHolds
<1>8. OldIsSaved'
  BY DEF Inductive, Complete, OldIsSaved
<1>9. CompletionHolds'
  BY DEF Inductive, Complete, CompletionHolds, FilesTypeOK, StateTypeOK, ProcessTypeOK,
      ControlAgrees, RestHolds, InstallHolds, OldIsSaved, RollbackHolds, AccountTypeOK,
      Points, Diff, ServingPoints
<1>10. RollbackHolds'
  BY DEF Inductive, Complete, RollbackHolds
<1> QED
  BY <1>1, <1>2, <1>3, <1>4, <1>5, <1>6, <1>7, <1>8, <1>9, <1>10 DEF Inductive

LEMMA CloseJournalKeeps ==
    ASSUME Inductive, CloseJournal
    PROVE  Inductive'
<1>1. FilesTypeOK'
  BY DEF Inductive, CloseJournal, FilesTypeOK
<1>2. StateTypeOK'
  BY DEF Inductive, CloseJournal, StateTypeOK
<1>3. AccountTypeOK'
  BY DEF Inductive, CloseJournal, AccountTypeOK, Diff
<1>4. ProcessTypeOK'
  BY DEF Inductive, CloseJournal, ProcessTypeOK, Points, ServingPoints
<1>5. ControlAgrees'
  BY DEF Inductive, CloseJournal, ControlAgrees
<1>6. RestHolds'
  BY DEF Inductive, CloseJournal, RestHolds, FilesTypeOK, StateTypeOK, ProcessTypeOK,
      ControlAgrees, Points, ServingPoints
<1>7. InstallHolds'
  BY DEF Inductive, CloseJournal, InstallHolds
<1>8. OldIsSaved'
  BY DEF Inductive, CloseJournal, OldIsSaved
<1>9. CompletionHolds'
  BY DEF Inductive, CloseJournal, CompletionHolds
<1>10. RollbackHolds'
  BY DEF Inductive, CloseJournal, RollbackHolds
<1> QED
  BY <1>1, <1>2, <1>3, <1>4, <1>5, <1>6, <1>7, <1>8, <1>9, <1>10 DEF Inductive

LEMMA DiscardDirectoriesKeeps ==
    ASSUME Inductive, DiscardDirectories
    PROVE  Inductive'
<1>1. FilesTypeOK'
  BY DEF Inductive, DiscardDirectories, FilesTypeOK
<1>2. StateTypeOK'
  BY DEF Inductive, DiscardDirectories, StateTypeOK
<1>3. AccountTypeOK'
  BY DEF Inductive, DiscardDirectories, AccountTypeOK, Diff
<1>4. ProcessTypeOK'
  BY DEF Inductive, DiscardDirectories, ProcessTypeOK, Points, ServingPoints
<1>5. ControlAgrees'
  BY DEF Inductive, DiscardDirectories, ControlAgrees
<1>6. RestHolds'
  BY DEF Inductive, DiscardDirectories, RestHolds
<1>7. InstallHolds'
  BY DEF Inductive, DiscardDirectories, InstallHolds
<1>8. OldIsSaved'
  BY DEF Inductive, DiscardDirectories, OldIsSaved, FilesTypeOK, StateTypeOK,
      ProcessTypeOK, ControlAgrees, Points, ServingPoints
<1>9. CompletionHolds'
  BY DEF Inductive, DiscardDirectories, CompletionHolds
<1>10. RollbackHolds'
  BY DEF Inductive, DiscardDirectories, RollbackHolds
<1> QED
  BY <1>1, <1>2, <1>3, <1>4, <1>5, <1>6, <1>7, <1>8, <1>9, <1>10 DEF Inductive

-----------------------------------------------------------------------------
(* The theorems                                                            *)

LEMMA InitHolds == Init => Inductive
<1> SUFFICES ASSUME Init PROVE Inductive
  OBVIOUS
<1>1. FilesTypeOK /\ StateTypeOK
  BY DEF Init, FilesTypeOK, StateTypeOK
<1>2. AccountTypeOK
  <2>1. acked \in 0..MaxWrites /\ protected \in 0..MaxWrites
    BY DEF Init
  <2>2. diff \in Diff
    BY DEF Init
  <2> QED
    BY <2>1, <2>2 DEF Init, AccountTypeOK
<1>3. ProcessTypeOK
  <2>1. faults \in 0..MaxFaults
    BY DEF Init
  <2> QED
    BY <2>1 DEF Init, ProcessTypeOK, Points, ServingPoints
<1>4. ControlAgrees /\ RestHolds
  BY DEF Init, ControlAgrees, RestHolds
<1>5. InstallHolds /\ OldIsSaved /\ CompletionHolds /\ RollbackHolds
  BY DEF Init, InstallHolds, OldIsSaved, CompletionHolds, RollbackHolds
<1> QED
  BY <1>1, <1>2, <1>3, <1>4, <1>5 DEF Inductive

LEMMA StutterHolds ==
    ASSUME Inductive, UNCHANGED vars
    PROVE  Inductive'
<1>1. TypeOK'
  BY DEF Inductive, vars, FilesTypeOK, StateTypeOK, AccountTypeOK, ProcessTypeOK
<1>2. ControlAgrees' /\ RestHolds'
  BY DEF Inductive, vars, ControlAgrees, RestHolds
<1>3. InstallHolds' /\ OldIsSaved' /\ CompletionHolds' /\ RollbackHolds'
  BY DEF Inductive, vars, InstallHolds, OldIsSaved, CompletionHolds, RollbackHolds
<1> QED
  BY <1>1, <1>2, <1>3 DEF Inductive

LEMMA NextHolds ==
    ASSUME Inductive, [Next]_vars
    PROVE  Inductive'
<1>1. CASE Write \/ Protect \/ Quit \/ Serving
  BY <1>1, WriteKeeps, ProtectKeeps, QuitKeeps, PrepareStagingKeeps, StageRestoreKeeps,
     FinishStagingKeeps, ShutdownKeeps
     DEF Serving
<1>2. CASE Failing \/ Crash
  BY <1>2, StageRestoreFailsKeeps, FinishStagingFailsKeeps, CompleteFailsKeeps, CrashKeeps
     DEF Failing
<1>3. CASE Boot
  BY <1>3, BootCleanKeeps, BootCommittedKeeps, BootHalfInstalledKeeps, BootRequestedKeeps
     DEF Boot
<1>4. CASE Install
  BY <1>4, MoveOutKeeps, MoveInKeeps, InstallSettingsKeeps, PublishHeadKeeps,
     RotateAuditEpochKeeps, MarkInstalledKeeps, InstallFailsKeeps
     DEF Install
<1>5. CASE Rollback
  BY <1>5, RollbackHeadKeeps, RollbackTreeKeeps, RollbackStorageKeeps, ProbeStorageKeeps,
     VerifyQuarantineKeeps, DropQuarantineKeeps, ReinstateStorageKeeps,
     StorageRollbackFailsKeeps, RollbackSettingsKeeps, FinishRollbackKeeps
     DEF Rollback
<1>6. CASE Finish
  BY <1>6, OpenKeeps, OpenFailsKeeps, CompleteKeeps, CloseJournalKeeps,
     DiscardDirectoriesKeeps
     DEF Finish
<1>7. CASE UNCHANGED vars
  BY <1>7, StutterHolds
<1> QED
  BY <1>1, <1>2, <1>3, <1>4, <1>5, <1>6, <1>7 DEF Next

\* The whole argument: journal, control point, trees, head and settings agree.
THEOREM InductiveInvariant == Spec => []Inductive
<1>1. Inductive /\ [Next]_vars => Inductive'
  BY NextHolds
<1> QED
  BY InitHolds, <1>1, PTL DEF Spec

\* Whatever fails or dies while a snapshot is staged, installed, completed or
\* rolled back, the sidecar serves the whole old workspace or the whole
\* restored and accounted one (ApplyPendingSnapshotRestore and
\* rollbackPendingSnapshotRestore).
THEOREM ServedIsWhole == Spec => []WorkspaceIsWhole
<1>1. Inductive => WorkspaceIsWhole
  <2> SUFFICES ASSUME Inductive PROVE WorkspaceIsWhole
    OBVIOUS
  <2>1. TypeOK
    BY DEF Inductive
  <2>2. ASSUME pc \in ServingPoints PROVE journal \in {"none", "requested"}
    BY <2>2 DEF Inductive, ControlAgrees, ServingPoints, StateTypeOK
  <2>3. ASSUME pc \in ServingPoints PROVE WholeOld \/ Accounted
    BY <2>2, <2>3 DEF Inductive, RestHolds
  <2>4. WholeOld => live["db"] = "old"
    OBVIOUS
  <2> QED
    BY <2>1, <2>2, <2>3, <2>4 DEF WorkspaceIsWhole, RestoreIsAccounted
<1> QED
  BY InductiveInvariant, <1>1, PTL

\* A committed restore is past every rollback: only its journal is closed.
LEMMA CommittedStays ==
    ASSUME Inductive, Accounted, journal \in {"committed", "none"}, [Next]_vars
    PROVE  Accounted' /\ journal' \in {"committed", "none"}
<1>1. CASE Write \/ Protect \/ Quit \/ Serving \/ Failing \/ Crash \/ Boot
  BY <1>1 DEF Inductive, ControlAgrees, RestHolds, Serving, Failing, Boot, Write, Protect, Quit,
     PrepareStaging, StageRestore, FinishStaging, Shutdown, StageRestoreFails,
     FinishStagingFails, CompleteFails, Crash, BootClean, BootCommitted, BootHalfInstalled,
     BootRequested
<1>2. CASE Install \/ Rollback
  BY <1>2 DEF Inductive, ControlAgrees, Install, Rollback, MoveOut, MoveIn, InstallSettings,
     PublishHead, RotateAuditEpoch, MarkInstalled, InstallFails, RollbackHead, RollbackTree,
     RollbackStorage, ProbeStorage, VerifyQuarantine, DropQuarantine, ReinstateStorage,
     StorageRollbackFails, RollbackSettings, FinishRollback, Out, In
<1>3. CASE Finish
  BY <1>3 DEF Inductive, ControlAgrees, Finish, Open, OpenFails, Complete, CloseJournal,
     DiscardDirectories
<1>4. CASE UNCHANGED vars
  BY <1>4 DEF vars
<1> QED
  BY <1>1, <1>2, <1>3, <1>4 DEF Next

\* Until the restore is committed every tree of the old workspace is in its
\* place or in the rollback directory, and a committed restore is never undone,
\* whatever is interrupted (rollbackPendingSnapshotRestore,
\* cleanupCommittedRestore).
THEOREM NoStateIsLost == Spec => NeitherStateIsLost
<1> DEFINE Kept == Accounted /\ journal \in {"committed", "none"}
<1>1. Inductive => OldStateSurvives
  <2> SUFFICES ASSUME Inductive PROVE OldStateSurvives
    OBVIOUS
  <2>1. CASE HalfWay
    BY <2>1 DEF Inductive, OldIsSaved, OldStateSurvives, FilesTypeOK, StateTypeOK
  <2>2. CASE ~HalfWay
    BY <2>2 DEF Inductive, RestHolds, OldStateSurvives, StateTypeOK
  <2> QED
    BY <2>1, <2>2
<1>2. Inductive /\ journal = "committed" => Kept
  BY DEF Inductive, RestHolds
<1>3. Inductive /\ Kept /\ [Next]_vars => Kept'
  BY CommittedStays
<1>4. Kept => WholeNew
  OBVIOUS
<1> HIDE DEF Kept
<1>5. Spec => []OldStateSurvives
  BY InductiveInvariant, <1>1, PTL
<1>6. Spec => CommittedIsFinal
  BY InductiveInvariant, <1>2, <1>3, <1>4, PTL DEF Spec, CommittedIsFinal
<1> QED
  BY <1>5, <1>6 DEF NeitherStateIsLost
=============================================================================
