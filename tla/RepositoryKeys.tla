--------------------------- MODULE RepositoryKeys ---------------------------
(***************************************************************************)
(* The password of a workspace's object repository, and its rotation       *)
(* (sidecar/internal/workspacev2/repository_rotation*.go and               *)
(* repository_onboarding.go over objectrepo/keys.go, kopia_rotation.go and *)
(* workspace_repository.go).  A rotation is asked for by the serving       *)
(* runtime, carried out by a one-shot process that owns the workspace, and *)
(* settled by the next launch.  Six things on disk and in the credential   *)
(* vault must end up in step: two format blobs, the vault entry, two       *)
(* manifests and the journal; the process may end between any two of them. *)
(*                                                                         *)
(* A password is a number: Convenient is the fixed public one, every other *)
(* is a key made for one rotation and stands for that rotation's identity  *)
(* too.  The host launches one process at a time, as its session lock      *)
(* enforces.  Object contents are left out: a repository opens under the   *)
(* password both its format blobs are encrypted with.                      *)
(***************************************************************************)
EXTENDS Integers, FiniteSets

CONSTANTS
    MaxRequests,    \* bound on rotations asked for
    MaxFaults       \* bound on ended processes, failed steps and lost vaults

ASSUME KeysAssumption == {MaxRequests, MaxFaults} \subseteq Nat

Absent == -1
Convenient == 0
\* One key for the new workspace, one per request and one per attempt that
\* ended before its journal was written.
Key == 1..(1 + MaxRequests + MaxFaults)
Mode == {"convenient", "protected"}
Blob == {"repository", "blobcfg"}
Phase == {"prepared", "formatChanged", "verified", "vaultSwapped"}

VARIABLES
    blobs,      \* password each Kopia format blob is encrypted with
    vault,      \* the workspace's entry of the credential vault
    staged,     \* entries of the vault staged for a rotation
    backup,     \* format blobs saved under a rotation's directory, or none
    journal,    \* key-rotation-journal.json, or NoJournal
    intent,     \* key-rotation-intent.json, or NoIntent
    manifest,   \* encryption mode in the workspace's manifest
    replica,    \* encryption mode in the replica's manifest, "none" if direct
    receipts,   \* requests whose operation receipt is committed
    shown,      \* recovery keys the user was given
    used,       \* keys made so far
    plan,       \* the rotation plan of the session: none, fresh or stale
    pc,         \* what the one process of the workspace is doing
    next,       \* password the one-shot process rotates to
    faults

files == <<blobs, backup, journal, intent, manifest, replica, receipts>>
secrets == <<vault, staged, shown, used>>
process == <<plan, pc, next>>
vars == <<files, secrets, process, faults>>

NoBackup == [b \in Blob |-> Absent]
NoJournal == [phase |-> "none", rotation |-> 0, source |-> "none", target |-> "none"]
NoIntent == [state |-> "none", request |-> 0, target |-> "none", from |-> Absent]
JournalRecord == [phase : Phase, rotation : Key, source : Mode, target : Mode]
\* from is the password at the time of the request; it is not in the file.
IntentRecord == [state : {"requested", "completed"}, request : 1..MaxRequests,
                 target : Mode, from : Key \cup {Convenient}]

Point == {"new", "down", "serving", "begin", "backup", "stage", "journal", "resume",
          "run", "old", "restoreCfg", "restoreRepository", "recheck", "change",
          "committed", "verify", "publishReplica", "publishLocal", "retire", "discard",
          "complete", "cleanup", "unjournal", "answer", "opening", "tidyBackup",
          "tidyJournal", "tidyIntent", "open", "reply"}

FilesTypeOK ==
    /\ blobs \in [Blob -> Key \cup {Absent, Convenient}]
    /\ backup \in [Key -> [Blob -> Key \cup {Absent, Convenient}]]
    /\ journal \in JournalRecord \cup {NoJournal}
    /\ intent \in IntentRecord \cup {NoIntent}
    /\ manifest \in Mode
    /\ replica \in Mode \cup {"none"}
    /\ receipts \subseteq 1..MaxRequests
SecretsTypeOK ==
    /\ vault \in Key \cup {Absent}
    /\ staged \subseteq Key
    /\ shown \subseteq Key
    /\ used \in 0..(1 + MaxRequests + MaxFaults)
ProcessTypeOK ==
    /\ plan \in {"none", "fresh", "stale"}
    /\ pc \in Point
    /\ next \in Key \cup {Absent, Convenient}
    /\ faults \in 0..MaxFaults
TypeOK == FilesTypeOK /\ SecretsTypeOK /\ ProcessTypeOK

\* KeyProvider.Open: what a mode's password is found to be.
Credential(mode) == IF mode = "convenient" THEN Convenient ELSE vault

\* rotation.VerifyPassword and the runtime's own open.
Opens(password) == password # Absent /\ \A b \in Blob : blobs[b] = password

\* rotationReplicaManifest: a mirrored workspace's replica is in one of modes.
ReplicaIn(modes) == replica = "none" \/ replica \in modes

-----------------------------------------------------------------------------
(* Onboarding, the vault and the recovery key. *)

Init ==
    /\ blobs = NoBackup
    /\ vault = Absent
    /\ staged = {}
    /\ backup = [k \in Key |-> NoBackup]
    /\ journal = NoJournal
    /\ intent = NoIntent
    /\ manifest \in Mode
    /\ replica \in {"none", manifest}
    /\ receipts = {}
    /\ shown = {}
    /\ used = 0
    /\ plan = "none"
    /\ pc = "new"
    /\ next = Absent
    /\ faults = 0

Goto(point) == pc' = point /\ UNCHANGED <<plan, next>>

\* The one-shot onboarding process makes the repository of a new workspace
\* and the host has the user confirm the recovery key.
InitializeRepository ==
    /\ pc = "new"
    /\ used' = IF manifest = "protected" THEN 1 ELSE 0
    /\ vault' = IF manifest = "protected" THEN 1 ELSE Absent
    /\ shown' = {1} \cap {vault'}
    /\ blobs' = [b \in Blob |-> IF manifest = "protected" THEN 1 ELSE Convenient]
    /\ Goto("down")
    /\ UNCHANGED <<staged, backup, journal, intent, manifest, replica, receipts, faults>>

\* The user's device loses its credentials.  Not once a journal is written:
\* the new key exists nowhere else until the host has shown it.
VaultLost ==
    /\ faults < MaxFaults
    /\ pc = "down"
    /\ journal = NoJournal
    /\ intent.state # "completed"
    /\ vault # Absent
    /\ vault' = Absent
    /\ staged' = {}
    /\ faults' = faults + 1
    /\ UNCHANGED <<files, shown, used, process>>

\* The user types in a recovery key; it is kept only if it opens the repository.
RestoreProtectedRepository ==
    /\ pc = "down"
    /\ manifest = "protected"
    /\ vault = Absent
    /\ \E k \in shown : Opens(k) /\ vault' = k
    /\ UNCHANGED <<files, staged, shown, used, process, faults>>

-----------------------------------------------------------------------------
(* The serving runtime. *)

PreviewKeyRotation ==
    /\ pc = "serving"
    /\ plan' = "fresh"
    /\ UNCHANGED <<files, secrets, pc, next, faults>>

\* A write or a snapshot moves what the plan was made for.
Write ==
    /\ pc = "serving"
    /\ plan = "fresh"
    /\ plan' = "stale"
    /\ UNCHANGED <<files, secrets, pc, next, faults>>

\* repository.applyKeyRotation: the protection snapshot is pinned, the intent
\* written, the workspace suspended and the process asked to end.  Requests
\* are numbered by those before them, which all have their receipts.
ApplyKeyRotation(target) ==
    /\ pc = "serving"
    /\ plan = "fresh"
    /\ ReplicaIn({manifest})
    /\ Cardinality(receipts) < MaxRequests
    /\ intent' = [state |-> "requested", request |-> Cardinality(receipts) + 1,
                  target |-> target, from |-> Credential(manifest)]
    /\ plan' = "none"
    /\ pc' = "reply"
    /\ UNCHANGED <<blobs, backup, journal, manifest, replica, receipts, secrets, next, faults>>

\* The dispatcher commits the receipt of the request its handler accepted,
\* before anything is rotated, unless the process ends first.
CommitRequestReceipt ==
    /\ pc = "reply"
    /\ receipts' = receipts \cup {intent.request}
    /\ Goto("down")
    /\ UNCHANGED <<blobs, backup, journal, intent, manifest, replica, secrets, faults>>

-----------------------------------------------------------------------------
(* The one-shot process --rotate-workspace-repository. *)

\* The host's pre-open hook finds an intent.  A completed one only has its
\* key read back, for the answer a previous run did not deliver.
RotateProtectedRepository ==
    /\ pc = "down"
    /\ intent # NoIntent
    /\ IF intent.state = "requested"
       THEN pc' = "begin" /\ next' = Absent
       ELSE IF manifest = intent.target /\ ReplicaIn({intent.target})
                                         /\ Credential(intent.target) # Absent
       THEN pc' = "answer" /\ next' = Credential(intent.target)
       ELSE UNCHANGED <<pc, next>>
    /\ UNCHANGED <<files, secrets, plan, faults>>

\* Mutant: the intent is marked completed before the work instead of after.
BeginRotationCompleted ==
    /\ pc = "begin"
    /\ intent' = [intent EXCEPT !.state = "completed"]
    /\ IF journal # NoJournal
       THEN Goto("resume") /\ UNCHANGED used
       ELSE /\ ReplicaIn({manifest})
            /\ Credential(manifest) # Absent
            /\ used' = used + 1
            /\ Goto("backup")
    /\ UNCHANGED <<blobs, backup, journal, manifest, replica, receipts, vault, staged,
                   shown, faults>>

\* rotateRepositoryMode finds a journal, or previews a new rotation.
BeginRotation ==
    /\ pc = "begin"
    /\ IF journal # NoJournal
       THEN Goto("resume") /\ UNCHANGED used
       ELSE /\ ReplicaIn({manifest})
            /\ Credential(manifest) # Absent
            /\ used' = used + 1
            /\ Goto("backup")
    /\ UNCHANGED <<files, vault, staged, shown, faults>>

\* A process that cannot read the current password, or finds the manifests
\* at odds with its journal, ends.
BeginRefused ==
    /\ pc = "begin"
    /\ journal = NoJournal
    /\ Credential(manifest) = Absent \/ ~ReplicaIn({manifest})
    /\ Goto("down")
    /\ UNCHANGED <<files, secrets, faults>>

\* Mutant: the format blobs are not saved before they are rewritten.
BackupForgotten ==
    /\ pc = "backup"
    /\ Goto(IF intent.target = "protected" THEN "stage" ELSE "journal")
    /\ UNCHANGED <<files, secrets, faults>>

Backup ==
    /\ pc = "backup"
    /\ backup' = [backup EXCEPT ![used] = blobs]
    /\ Goto(IF intent.target = "protected" THEN "stage" ELSE "journal")
    /\ UNCHANGED <<blobs, journal, intent, manifest, replica, receipts, secrets, faults>>

StageProtectedRotation ==
    /\ pc = "stage"
    /\ staged' = staged \cup {used}
    /\ Goto("journal")
    /\ UNCHANGED <<files, vault, shown, used, faults>>

WriteJournal(record) == journal' = record

JournalPrepared ==
    /\ pc = "journal"
    /\ WriteJournal([phase |-> "prepared", rotation |-> used,
                     source |-> manifest, target |-> intent.target])
    /\ Goto("resume")
    /\ UNCHANGED <<blobs, backup, intent, manifest, replica, receipts, secrets, faults>>

\* The journal cannot be written: its staged key is discarded.
JournalPreparedFails ==
    /\ faults < MaxFaults
    /\ pc = "journal"
    /\ staged' = staged \ {used}
    /\ faults' = faults + 1
    /\ Goto("down")
    /\ UNCHANGED <<files, vault, shown, used>>

Swapped == journal.phase = "vaultSwapped"

\* Target, manifests and journal must belong together.
JournalFits ==
    /\ journal.target = intent.target
    /\ manifest = journal.source \/ (Swapped /\ manifest = journal.target)
    /\ ReplicaIn({journal.source} \cup (IF Swapped THEN {journal.target} ELSE {}))

\* Mutant: no fallback for a staged key that was already discarded.
NextPasswordStagedOnly ==
    IF journal.target = "convenient" THEN Convenient
    ELSE IF journal.rotation \in staged THEN journal.rotation
    ELSE Absent

\* OpenStagedProtectedRotation, or the vault once it holds the same key.
NextPassword ==
    IF journal.target = "convenient" THEN Convenient
    ELSE IF journal.rotation \in staged THEN journal.rotation
    ELSE IF Swapped THEN vault
    ELSE Absent

ResumeRotation ==
    /\ pc = "resume"
    /\ IF JournalFits /\ NextPassword # Absent
       THEN next' = NextPassword /\ pc' = IF Swapped THEN "verify" ELSE "run"
       ELSE next' = Absent /\ pc' = "down"
    /\ UNCHANGED <<files, secrets, plan, faults>>

JournalPhase(phase) == WriteJournal([journal EXCEPT !.phase = phase])

\* The new password already opens the repository: a run before this one
\* changed the format and ended before it could say so.
AlreadyChanged ==
    /\ pc = "run"
    /\ journal.phase = "prepared"
    /\ Opens(next)
    /\ JournalPhase("formatChanged")
    /\ Goto("run")
    /\ UNCHANGED <<blobs, backup, intent, manifest, replica, receipts, secrets, faults>>

\* It does not, or the verification of all objects failed for another reason.
NotYetChanged ==
    /\ pc = "run"
    /\ journal.phase = "prepared"
    /\ IF Opens(next) THEN faults < MaxFaults /\ faults' = faults + 1 ELSE UNCHANGED faults
    /\ Goto(IF Credential(journal.source) = Absent THEN "down" ELSE "old")
    /\ UNCHANGED <<files, secrets>>

\* The current password must open the repository, if need be after the
\* format blobs of the backup were put back.
VerifyOld ==
    /\ pc = "old"
    /\ Goto(IF Opens(Credential(journal.source)) THEN "change" ELSE "restoreCfg")
    /\ UNCHANGED <<files, secrets, faults>>

RestoreBlob(b) == blobs' = [blobs EXCEPT ![b] = backup[journal.rotation][b]]

RestoreBlobConfig ==
    /\ pc = "restoreCfg"
    /\ IF backup[journal.rotation] = NoBackup
       THEN Goto("down") /\ UNCHANGED blobs
       ELSE RestoreBlob("blobcfg") /\ Goto("restoreRepository")
    /\ UNCHANGED <<backup, journal, intent, manifest, replica, receipts, secrets, faults>>

RestoreRepositoryBlob ==
    /\ pc = "restoreRepository"
    /\ RestoreBlob("repository")
    /\ Goto("recheck")
    /\ UNCHANGED <<backup, journal, intent, manifest, replica, receipts, secrets, faults>>

RecheckOld ==
    /\ pc = "recheck"
    /\ Goto(IF Opens(Credential(journal.source)) THEN "change" ELSE "down")
    /\ UNCHANGED <<files, secrets, faults>>

\* Kopia rewrites its two format blobs one after the other.
ChangePassword ==
    /\ pc = "change"
    /\ \E b \in Blob : blobs[b] # next /\ blobs' = [blobs EXCEPT ![b] = next]
    /\ UNCHANGED <<backup, journal, intent, manifest, replica, receipts, secrets, process, faults>>

PasswordChanged ==
    /\ pc = "change"
    /\ Opens(next)
    /\ JournalPhase("formatChanged")
    /\ Goto("run")
    /\ UNCHANGED <<blobs, backup, intent, manifest, replica, receipts, secrets, faults>>

VerifyChanged ==
    /\ pc = "run"
    /\ journal.phase = "formatChanged"
    /\ IF Opens(next) THEN JournalPhase("verified") /\ Goto("run")
       ELSE UNCHANGED journal /\ Goto("down")
    /\ UNCHANGED <<blobs, backup, intent, manifest, replica, receipts, secrets, faults>>

\* The vault is given the staged key; a convenient target leaves it alone.
CommitStagedProtectedRotation ==
    /\ pc = "run"
    /\ journal.phase = "verified"
    /\ vault' = IF journal.target = "protected" THEN journal.rotation ELSE vault
    /\ Goto("committed")
    /\ UNCHANGED <<files, staged, shown, used, faults>>

JournalSwapped ==
    /\ pc = "committed"
    /\ JournalPhase("vaultSwapped")
    /\ Goto("verify")
    /\ UNCHANGED <<blobs, backup, intent, manifest, replica, receipts, secrets, faults>>

VerifySwapped ==
    /\ pc = "verify"
    /\ Goto(IF Opens(next) /\ ReplicaIn({journal.source, journal.target})
            THEN "publishReplica" ELSE "down")
    /\ UNCHANGED <<files, secrets, faults>>

\* Mutant: the replica's manifest keeps the old mode.
PublishReplicaManifestForgotten ==
    /\ pc = "publishReplica"
    /\ Goto("publishLocal")
    /\ UNCHANGED <<files, secrets, faults>>

PublishReplicaManifest ==
    /\ pc = "publishReplica"
    /\ replica' = IF replica = "none" THEN "none" ELSE journal.target
    /\ Goto("publishLocal")
    /\ UNCHANGED <<blobs, backup, journal, intent, manifest, receipts, secrets, faults>>

PublishManifest ==
    /\ pc = "publishLocal"
    /\ manifest' = journal.target
    /\ Goto("retire")
    /\ UNCHANGED <<blobs, backup, journal, intent, replica, receipts, secrets, faults>>

\* The key of a workspace that is protected no more is deleted.
DeleteProtected ==
    /\ pc = "retire"
    /\ vault' = IF journal.target = "convenient" /\ journal.source = "protected"
                THEN Absent ELSE vault
    /\ Goto("discard")
    /\ UNCHANGED <<files, staged, shown, used, faults>>

DiscardStagedProtectedRotation ==
    /\ pc = "discard"
    /\ staged' = IF journal.target = "protected" THEN staged \ {journal.rotation} ELSE staged
    /\ Goto("complete")
    /\ UNCHANGED <<files, vault, shown, used, faults>>

CompleteKeyRotationIntent ==
    /\ pc = "complete"
    /\ intent' = [intent EXCEPT !.state = "completed"]
    /\ Goto("cleanup")
    /\ UNCHANGED <<blobs, backup, journal, manifest, replica, receipts, secrets, faults>>

\* cleanupKeyRotation, here and in the next launch: the saved blobs go before
\* the journal that names them.
RemoveBackup == backup' = [backup EXCEPT ![journal.rotation] = NoBackup]

CleanupBackup ==
    /\ pc = "cleanup"
    /\ RemoveBackup
    /\ Goto("unjournal")
    /\ UNCHANGED <<blobs, journal, intent, manifest, replica, receipts, secrets, faults>>

CleanupJournal ==
    /\ pc = "unjournal"
    /\ journal' = NoJournal
    /\ Goto("answer")
    /\ UNCHANGED <<blobs, backup, intent, manifest, replica, receipts, secrets, faults>>

\* The process prints the recovery key and the host has the user confirm it.
ConfirmRecoveryKey ==
    /\ pc = "answer"
    /\ shown' = shown \cup ({next} \cap Key)
    /\ pc' = "opening"
    /\ next' = Absent
    /\ UNCHANGED <<files, vault, staged, used, plan, faults>>

-----------------------------------------------------------------------------
(* Runtime.Open. *)

\* The host finds no intent and launches the runtime.
Launch ==
    /\ pc = "down"
    /\ intent = NoIntent
    /\ Goto("opening")
    /\ UNCHANGED <<files, secrets, faults>>

\* Mutant: the launch leaves the receipt to the dispatcher of the request.
LeaveRotationReceipt ==
    /\ pc = "opening"
    /\ \/ intent.state = "none" /\ Goto("open")
       \/ intent.state = "requested" /\ Goto("down")
       \/ /\ intent.state = "completed"
          /\ Goto(IF journal = NoJournal THEN "tidyIntent"
                  ELSE IF Swapped THEN "tidyBackup" ELSE "down")
    /\ UNCHANGED <<files, secrets, faults>>

\* ensureKeyRotationStartupReady and the receipt of
\* recoverCompletedKeyRotationReceipt, which finds the dispatcher's or writes it.
CommitRotationReceipt ==
    /\ pc = "opening"
    /\ \/ intent.state = "none" /\ Goto("open") /\ UNCHANGED receipts
       \/ intent.state = "requested" /\ Goto("down") /\ UNCHANGED receipts
       \/ /\ intent.state = "completed"
          /\ receipts' = receipts \cup {intent.request}
          /\ Goto(IF journal = NoJournal THEN "tidyIntent"
                  ELSE IF Swapped THEN "tidyBackup" ELSE "down")
    /\ UNCHANGED <<blobs, backup, journal, intent, manifest, replica, secrets, faults>>

TidyBackup ==
    /\ pc = "tidyBackup"
    /\ RemoveBackup
    /\ Goto("tidyJournal")
    /\ UNCHANGED <<blobs, journal, intent, manifest, replica, receipts, secrets, faults>>

TidyJournal ==
    /\ pc = "tidyJournal"
    /\ journal' = NoJournal
    /\ Goto("tidyIntent")
    /\ UNCHANGED <<blobs, backup, intent, manifest, replica, receipts, secrets, faults>>

TidyIntent ==
    /\ pc = "tidyIntent"
    /\ intent' = NoIntent
    /\ Goto("open")
    /\ UNCHANGED <<blobs, backup, journal, manifest, replica, receipts, secrets, faults>>

OpenRepository ==
    /\ pc = "open"
    /\ plan' = "none"
    /\ pc' = IF Opens(Credential(manifest)) THEN "serving" ELSE "down"
    /\ UNCHANGED <<files, secrets, next, faults>>

\* The process crashes, is killed at the host's time limit, or a step of it
\* fails before it took effect; the runtime may also simply be closed.
Ended ==
    /\ faults < MaxFaults
    /\ pc \notin {"new", "down"}
    /\ faults' = faults + 1
    /\ pc' = "down"
    /\ plan' = "none"
    /\ next' = Absent
    /\ UNCHANGED <<files, secrets>>

-----------------------------------------------------------------------------
OneShot ==
    \/ BeginRotation \/ BeginRefused \/ Backup \/ StageProtectedRotation \/ JournalPrepared
    \/ ResumeRotation \/ AlreadyChanged \/ NotYetChanged \/ VerifyOld \/ RestoreBlobConfig
    \/ RestoreRepositoryBlob \/ RecheckOld \/ ChangePassword \/ PasswordChanged
    \/ VerifyChanged \/ CommitStagedProtectedRotation \/ JournalSwapped \/ VerifySwapped
    \/ PublishReplicaManifest \/ PublishManifest \/ DeleteProtected
    \/ DiscardStagedProtectedRotation \/ CompleteKeyRotationIntent \/ CleanupBackup
    \/ CleanupJournal \/ ConfirmRecoveryKey

Startup ==
    \/ Launch \/ CommitRotationReceipt \/ TidyBackup \/ TidyJournal \/ TidyIntent
    \/ OpenRepository

Next ==
    \/ InitializeRepository
    \/ VaultLost
    \/ RestoreProtectedRepository
    \/ PreviewKeyRotation
    \/ Write
    \/ \E target \in Mode : ApplyKeyRotation(target)
    \/ CommitRequestReceipt
    \/ RotateProtectedRepository
    \/ OneShot
    \/ Startup
    \/ JournalPreparedFails
    \/ Ended

Spec == Init /\ [][Next]_vars

\* A process goes on, the host opens the workspace again after a refusal,
\* and a user whose key is missing types in the one that was shown.
FairSpec ==
    /\ Spec
    /\ WF_vars(CommitRequestReceipt)
    /\ WF_vars(RotateProtectedRepository)
    /\ WF_vars(OneShot)
    /\ WF_vars(Startup)
    /\ SF_vars(RestoreProtectedRepository)

-----------------------------------------------------------------------------
(* Properties. *)

\* What a rotation under its journal can still reach the repository with.
JournalReaches ==
    LET old == Credential(journal.source)
        saved == backup[journal.rotation]
    IN  CASE journal.phase = "prepared" ->
               \/ Opens(NextPassword)
               \/ old # Absent /\ saved = [b \in Blob |-> old]
          [] OTHER -> Opens(NextPassword)

\* Whatever process ends wherever, the repository can be opened again: by
\* the password the manifest leads to, by the recovery key the user was given
\* when the vault lost it, or through the journal, whose staged key opens the
\* repository or whose saved blobs open with the old password.
Openable ==
    pc # "new" =>
        IF journal # NoJournal THEN JournalReaches
        ELSE \/ Opens(Credential(manifest))
             \/ manifest = "protected" /\ vault = Absent /\ \E k \in shown : Opens(k)

\* A workspace that serves has nothing of a rotation left to do: both
\* manifests name the mode whose password opens the repository, the vault
\* holds a key exactly in protected mode, and the user was given that key.
ServingAgrees ==
    pc = "serving" =>
        /\ journal = NoJournal /\ intent = NoIntent
        /\ ReplicaIn({manifest})
        /\ Opens(Credential(manifest))
        /\ (vault # Absent) = (manifest = "protected")
        /\ manifest = "protected" => vault \in shown

\* Neither while a rotation is under way or has died, nor when everything
\* serves again, are key, manifests and user out of step (rotateRepositoryMode).
NeverLockedOut == Openable /\ ServingAgrees

\* The request of a rotation, key-rotation-intent.json, is taken away only
\* when the rotation is done and answered for: what opened the repository when
\* it was asked for opens it no more (unless the workspace asked for the public
\* password it already had), and the receipt that a resent request is answered
\* with is committed, by the dispatcher or, if the process ended before it
\* could, by the launch after the rotation (recoverCompletedKeyRotationReceipt).
Rekeyed ==
    \/ ~Opens(intent.from)
    \/ intent.target = "convenient" /\ intent.from = Convenient
RequestIsAnswered ==
    [][ intent # NoIntent /\ intent' = NoIntent =>
          Rekeyed /\ intent.request \in receipts ]_vars

\* Every rotation asked for is carried out and the workspace serves again.
RotationSettles == intent # NoIntent ~> pc = "serving" /\ intent = NoIntent
=============================================================================
