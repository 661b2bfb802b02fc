------------------------ MODULE RepositoryKeysProofs ------------------------
(***************************************************************************)
(* Nobody is ever locked out of a workspace by a key rotation, for any     *)
(* number of rotations and of ended processes: the inductive invariant     *)
(* over the control points of the rotation, and one lemma per action.      *)
(***************************************************************************)
EXTENDS RepositoryKeys, FiniteSetTheorems, TLAPS

-----------------------------------------------------------------------------
(* The inductive invariant                                                 *)

\* The password a rotation comes from and the one it goes to.
Old == intent.from
New == IF intent.target = "protected" THEN used ELSE Convenient
Holds(password) == \A b \in Blob : blobs[b] = password

\* Before the journal, under the journal before and after the swap, and after.
Attempt == {"backup", "stage", "journal"}
Changing == {"run", "old", "restoreCfg", "restoreRepository", "recheck", "change"}
Publishing == {"verify", "publishReplica", "publishLocal", "retire", "discard", "complete"}
Cleaning == {"cleanup", "unjournal"}
Tidying == {"tidyBackup", "tidyJournal"}

\* Where the process can be, by what the intent and the journal say.
ControlAgrees ==
    /\ pc \in {"new", "serving", "open"} => intent = NoIntent
    /\ pc \in {"reply", "begin", "resume", "committed"} \cup Attempt \cup Changing \cup Publishing =>
         intent.state = "requested"
    /\ pc \in {"answer", "tidyIntent"} \cup Cleaning \cup Tidying => intent.state = "completed"
    /\ pc = "opening" => intent.state # "requested"
    /\ pc \in {"reply", "tidyIntent"} \cup Attempt => journal = NoJournal
    /\ pc \in {"resume"} \cup Cleaning \cup Tidying => journal # NoJournal
    /\ pc \in Changing => journal.phase = "prepared" \/ (pc = "run" /\ journal.phase \in {"formatChanged", "verified"})
    /\ pc = "committed" => journal.phase = "verified"
    /\ pc \in Publishing => Swapped
    /\ intent = NoIntent => journal = NoJournal
    /\ pc \in Changing \cup Publishing \cup Cleaning \cup {"committed", "answer"} => next = New

\* A workspace that is not onboarded yet.
NewIsEmpty ==
    pc = "new" =>
        /\ journal = NoJournal /\ intent = NoIntent /\ ReplicaIn({manifest})
        /\ vault = Absent /\ used = 0 /\ shown = {} /\ receipts = {}

\* No rotation has written anything: the manifests name the mode of the
\* password, the vault holds it or lost it, and the user has it.
AtRest ==
    (journal = NoJournal /\ intent.state # "completed" /\ pc # "new") =>
        LET password == blobs["repository"] IN
        /\ Holds(password) /\ ReplicaIn({manifest})
        /\ manifest = "convenient" => password = Convenient /\ vault = Absent
        /\ manifest = "protected" => password \in shown /\ vault \in {password, Absent}
        /\ intent # NoIntent => Old = password
        /\ pc \in Attempt => Credential(manifest) = password /\ used # password /\ used \in Key
        /\ pc \in {"stage", "journal"} => backup[used] = blobs
        /\ pc = "journal" /\ intent.target = "protected" => used \in staged
        /\ pc = "serving" => Credential(manifest) = password

\* A journal names the rotation of the intent, between two passwords.
OldVault == IF journal.source = "protected" THEN Old ELSE Absent
JournalNames ==
    journal # NoJournal =>
        /\ journal.target = intent.target /\ journal.rotation = used
        /\ Old # used /\ (Old = Convenient) = (journal.source = "convenient")
        /\ journal.source = "protected" => Old \in shown
        /\ journal.target = "protected" /\ ~Swapped => used \in staged

\* What the files and the vault hold in each phase.
PhaseHolds ==
    /\ journal.phase = "prepared" =>
         /\ manifest = journal.source /\ ReplicaIn({manifest}) /\ vault = OldVault
         /\ backup[used] = [b \in Blob |-> Old] /\ \A b \in Blob : blobs[b] \in {Old, New}
    /\ journal.phase \in {"formatChanged", "verified"} =>
         /\ manifest = journal.source /\ ReplicaIn({manifest}) /\ Holds(New)
         /\ \/ vault = OldVault
            \/ journal.phase = "verified" /\ journal.target = "protected" /\ vault = used
    /\ journal.phase = "vaultSwapped" =>
         /\ Holds(New)
         /\ \/ manifest = journal.source /\ ReplicaIn({journal.source, journal.target})
            \/ manifest = journal.target /\ ReplicaIn({manifest})
         /\ journal.target = "protected" => vault = used
         /\ journal.target = "convenient" =>
              vault = OldVault \/ (manifest = "convenient" /\ vault = Absent)

\* What the process has done since.
PointHolds ==
    /\ pc = "committed" /\ journal.target = "protected" => vault = used
    /\ pc = "publishLocal" => ReplicaIn({journal.target})
    /\ pc \in {"retire", "discard", "complete"} =>
         manifest = journal.target /\ ReplicaIn({journal.target})
    /\ pc \in {"discard", "complete"} /\ journal.target = "convenient" => vault = Absent

\* A completed rotation: everything names the new password.
CompletedIsDone ==
    intent.state = "completed" =>
        /\ journal # NoJournal => Swapped
        /\ manifest = intent.target /\ ReplicaIn({manifest}) /\ Holds(New) /\ Old # used
        /\ vault = IF manifest = "protected" THEN used ELSE Absent
        /\ used \in Key
        /\ pc \in Tidying \cup {"opening", "tidyIntent"} /\ manifest = "protected" => used \in shown
        /\ pc \in Tidying \cup {"tidyIntent"} => intent.request \in receipts

\* Requests are numbered in turn, and every key made is that of the onboarding,
\* of a settled request, of an attempt that a fault ended or of the rotation
\* under way.  Settled requests have their receipts; the one of the intent may.
Settled == IF intent = NoIntent THEN Cardinality(receipts) ELSE intent.request - 1
UnderWay ==
    \/ intent.state = "requested" /\ (journal # NoJournal \/ pc \in Attempt)
    \/ intent.state = "completed"
KeysAreCounted ==
    /\ Settled \in 0..MaxRequests
    /\ receipts = 1..Settled \/ (intent # NoIntent /\ receipts = 1..(Settled + 1))
    /\ used <= 2 + Settled + faults /\ (~UnderWay => used <= 1 + Settled + faults)
    /\ shown \subseteq 1..used

Inductive ==
    /\ TypeOK /\ ControlAgrees /\ NewIsEmpty /\ AtRest /\ JournalNames /\ PhaseHolds
    /\ PointHolds /\ CompletedIsDone /\ KeysAreCounted

-----------------------------------------------------------------------------
(* One lemma per action.  The vocabulary of the model is visible in all of them. *)

USE KeysAssumption DEF files, secrets, process, Goto, NoBackup, NoJournal, NoIntent,
    JournalRecord, IntentRecord, Key, Mode, Blob, Phase, Absent, Convenient, Credential,
    Opens, ReplicaIn, Swapped, Old, New, Holds, Attempt, Changing, Publishing, Cleaning,
    Tidying

LEMMA CountOfInterval ==
    ASSUME NEW n \in Nat
    PROVE  Cardinality(1..n) = n
  BY FS_Interval

LEMMA InitializeRepositoryKeeps ==
    ASSUME Inductive, InitializeRepository
    PROVE  Inductive'
<1>1. FilesTypeOK'
  BY DEF Inductive, TypeOK, InitializeRepository, FilesTypeOK
<1>2. SecretsTypeOK'
  BY DEF Inductive, TypeOK, InitializeRepository, SecretsTypeOK
<1>3. ProcessTypeOK'
  BY DEF Inductive, TypeOK, InitializeRepository, ProcessTypeOK, Point
<1>4. ControlAgrees' /\ NewIsEmpty'
  BY DEF Inductive, InitializeRepository, ControlAgrees, NewIsEmpty
<1>5. AtRest'
  BY DEF Inductive, InitializeRepository, AtRest, TypeOK, ControlAgrees, NewIsEmpty,
      FilesTypeOK, SecretsTypeOK, ProcessTypeOK, Point
<1>6. JournalNames' /\ PhaseHolds' /\ PointHolds'
  BY DEF Inductive, InitializeRepository, JournalNames, PhaseHolds, PointHolds, TypeOK,
      ControlAgrees, OldVault, FilesTypeOK, SecretsTypeOK, ProcessTypeOK, Point
<1>7. CompletedIsDone'
  BY DEF Inductive, InitializeRepository, CompletedIsDone, TypeOK, ControlAgrees,
      FilesTypeOK, SecretsTypeOK, ProcessTypeOK, Point
<1>8. KeysAreCounted'
  BY DEF Inductive, InitializeRepository, KeysAreCounted, TypeOK, ControlAgrees,
      Settled, UnderWay, FilesTypeOK, SecretsTypeOK, ProcessTypeOK, Point
<1> QED
  BY <1>1, <1>2, <1>3, <1>4, <1>5, <1>6, <1>7, <1>8 DEF Inductive, TypeOK

LEMMA VaultLostKeeps ==
    ASSUME Inductive, VaultLost
    PROVE  Inductive'
<1>1. FilesTypeOK'
  BY DEF Inductive, TypeOK, VaultLost, FilesTypeOK
<1>2. SecretsTypeOK'
  BY DEF Inductive, TypeOK, VaultLost, SecretsTypeOK
<1>3. ProcessTypeOK'
  BY DEF Inductive, TypeOK, VaultLost, ProcessTypeOK, Point
<1>4. ControlAgrees' /\ NewIsEmpty'
  BY DEF Inductive, VaultLost, ControlAgrees, NewIsEmpty
<1>5. AtRest'
  BY DEF Inductive, VaultLost, AtRest
<1>6. JournalNames' /\ PhaseHolds' /\ PointHolds'
  BY DEF Inductive, VaultLost, JournalNames, PhaseHolds, PointHolds, OldVault
<1>7. CompletedIsDone'
  BY DEF Inductive, VaultLost, CompletedIsDone
<1>8. KeysAreCounted'
  <2>1. /\ pc = "down" /\ journal = NoJournal /\ intent.state # "completed"
        /\ faults' = faults + 1 /\ UNCHANGED <<used, receipts, intent, journal, shown, pc>>
    BY DEF VaultLost
  <2>2. Settled' = Settled /\ ~UnderWay /\ ~UnderWay'
    BY <2>1 DEF Settled, UnderWay
  <2>3. used \in Nat /\ faults \in Nat /\ Settled \in Nat
    BY DEF Inductive, TypeOK, SecretsTypeOK, ProcessTypeOK, KeysAreCounted
  <2>4. used <= 1 + Settled + faults' /\ used <= 2 + Settled + faults'
    BY <2>1, <2>2, <2>3 DEF Inductive, KeysAreCounted
  <2> QED
    BY <2>1, <2>2, <2>4 DEF Inductive, KeysAreCounted
<1> QED
  BY <1>1, <1>2, <1>3, <1>4, <1>5, <1>6, <1>7, <1>8 DEF Inductive, TypeOK

LEMMA RestoreProtectedRepositoryKeeps ==
    ASSUME Inductive, RestoreProtectedRepository
    PROVE  Inductive'
<1>1. FilesTypeOK'
  BY DEF Inductive, TypeOK, RestoreProtectedRepository, FilesTypeOK
<1>2. SecretsTypeOK'
  BY DEF Inductive, TypeOK, RestoreProtectedRepository, SecretsTypeOK
<1>3. ProcessTypeOK'
  BY DEF Inductive, TypeOK, RestoreProtectedRepository, ProcessTypeOK, Point
<1>4. ControlAgrees' /\ NewIsEmpty'
  BY DEF Inductive, RestoreProtectedRepository, ControlAgrees, NewIsEmpty
<1>5. AtRest'
  BY DEF Inductive, RestoreProtectedRepository, AtRest
<1>6. JournalNames' /\ PhaseHolds' /\ PointHolds'
  BY DEF Inductive, RestoreProtectedRepository, JournalNames, PhaseHolds, PointHolds,
      TypeOK, ControlAgrees, OldVault, FilesTypeOK, SecretsTypeOK, ProcessTypeOK, Point
<1>7. CompletedIsDone'
  BY DEF Inductive, RestoreProtectedRepository, CompletedIsDone
<1>8. KeysAreCounted'
  BY DEF Inductive, RestoreProtectedRepository, KeysAreCounted, Settled, UnderWay
<1> QED
  BY <1>1, <1>2, <1>3, <1>4, <1>5, <1>6, <1>7, <1>8 DEF Inductive, TypeOK

LEMMA PreviewKeyRotationKeeps ==
    ASSUME Inductive, PreviewKeyRotation
    PROVE  Inductive'
<1>1. FilesTypeOK'
  BY DEF Inductive, TypeOK, PreviewKeyRotation, FilesTypeOK
<1>2. SecretsTypeOK'
  BY DEF Inductive, TypeOK, PreviewKeyRotation, SecretsTypeOK
<1>3. ProcessTypeOK'
  BY DEF Inductive, TypeOK, PreviewKeyRotation, ProcessTypeOK, Point
<1>4. ControlAgrees' /\ NewIsEmpty'
  BY DEF Inductive, PreviewKeyRotation, ControlAgrees, NewIsEmpty
<1>5. AtRest'
  BY DEF Inductive, PreviewKeyRotation, AtRest
<1>6. JournalNames' /\ PhaseHolds' /\ PointHolds'
  BY DEF Inductive, PreviewKeyRotation, JournalNames, PhaseHolds, PointHolds, OldVault
<1>7. CompletedIsDone'
  BY DEF Inductive, PreviewKeyRotation, CompletedIsDone
<1>8. KeysAreCounted'
  BY DEF Inductive, PreviewKeyRotation, KeysAreCounted, Settled, UnderWay
<1> QED
  BY <1>1, <1>2, <1>3, <1>4, <1>5, <1>6, <1>7, <1>8 DEF Inductive, TypeOK

LEMMA WriteKeeps ==
    ASSUME Inductive, Write
    PROVE  Inductive'
<1>1. FilesTypeOK'
  BY DEF Inductive, TypeOK, Write, FilesTypeOK
<1>2. SecretsTypeOK'
  BY DEF Inductive, TypeOK, Write, SecretsTypeOK
<1>3. ProcessTypeOK'
  BY DEF Inductive, TypeOK, Write, ProcessTypeOK, Point
<1>4. ControlAgrees' /\ NewIsEmpty'
  BY DEF Inductive, Write, ControlAgrees, NewIsEmpty
<1>5. AtRest'
  BY DEF Inductive, Write, AtRest
<1>6. JournalNames' /\ PhaseHolds' /\ PointHolds'
  BY DEF Inductive, Write, JournalNames, PhaseHolds, PointHolds, OldVault
<1>7. CompletedIsDone'
  BY DEF Inductive, Write, CompletedIsDone
<1>8. KeysAreCounted'
  BY DEF Inductive, Write, KeysAreCounted, Settled, UnderWay
<1> QED
  BY <1>1, <1>2, <1>3, <1>4, <1>5, <1>6, <1>7, <1>8 DEF Inductive, TypeOK

LEMMA ApplyKeyRotationKeeps ==
    ASSUME Inductive, NEW target \in Mode, ApplyKeyRotation(target)
    PROVE  Inductive'
<1>1. FilesTypeOK'
  <2>1. Cardinality(receipts) \in Nat
    BY DEF Inductive, ApplyKeyRotation, ControlAgrees, KeysAreCounted, Settled
  <2>2. Cardinality(receipts) + 1 \in 1..MaxRequests
    BY <2>1 DEF ApplyKeyRotation
  <2>3. Credential(manifest) \in Key \cup {Convenient}
    BY DEF Inductive, ApplyKeyRotation, TypeOK, FilesTypeOK, SecretsTypeOK, ControlAgrees, AtRest
  <2>4. intent' \in IntentRecord
    BY <2>2, <2>3 DEF ApplyKeyRotation
  <2> QED
    BY <2>4 DEF Inductive, ApplyKeyRotation, TypeOK, FilesTypeOK
<1>2. SecretsTypeOK'
  BY DEF Inductive, TypeOK, ApplyKeyRotation, SecretsTypeOK
<1>3. ProcessTypeOK'
  BY DEF Inductive, TypeOK, ApplyKeyRotation, ProcessTypeOK, Point
<1>4. ControlAgrees' /\ NewIsEmpty'
  BY DEF Inductive, ApplyKeyRotation, ControlAgrees, NewIsEmpty
<1>5. AtRest'
  BY DEF Inductive, ApplyKeyRotation, AtRest, TypeOK, ControlAgrees, FilesTypeOK,
      SecretsTypeOK, ProcessTypeOK, Point
<1>6. JournalNames' /\ PhaseHolds' /\ PointHolds'
  BY DEF Inductive, ApplyKeyRotation, JournalNames, PhaseHolds, PointHolds, TypeOK,
      ControlAgrees, OldVault, FilesTypeOK, SecretsTypeOK, ProcessTypeOK, Point
<1>7. CompletedIsDone'
  BY DEF Inductive, ApplyKeyRotation, CompletedIsDone
<1>8. KeysAreCounted'
  <2>1. /\ intent = NoIntent /\ Settled = Cardinality(receipts) /\ journal = NoJournal
        /\ intent'.request = Cardinality(receipts) + 1 /\ intent'.state = "requested"
        /\ pc' = "reply" /\ UNCHANGED <<receipts, journal, used, faults, shown>>
    BY DEF Inductive, ApplyKeyRotation, ControlAgrees, Settled
  <2>2. Settled' = Settled
    BY <2>1 DEF Inductive, KeysAreCounted, Settled
  <2>3. ~UnderWay
    BY <2>1 DEF UnderWay
  <2> QED
    BY <2>1, <2>2, <2>3 DEF Inductive, KeysAreCounted
<1> QED
  BY <1>1, <1>2, <1>3, <1>4, <1>5, <1>6, <1>7, <1>8 DEF Inductive, TypeOK

\* The receipt of a request that is not carried out yet.
LEMMA CommitRequestReceiptKeeps ==
    ASSUME Inductive, CommitRequestReceipt
    PROVE  Inductive'
<1>1. FilesTypeOK'
  <2>1. intent \in IntentRecord
    BY DEF Inductive, TypeOK, FilesTypeOK, CommitRequestReceipt, ControlAgrees
  <2>2. receipts' \subseteq 1..MaxRequests
    BY <2>1 DEF Inductive, TypeOK, FilesTypeOK, CommitRequestReceipt
  <2> QED
    BY <2>2 DEF Inductive, TypeOK, CommitRequestReceipt, FilesTypeOK
<1>2. SecretsTypeOK'
  BY DEF Inductive, TypeOK, CommitRequestReceipt, SecretsTypeOK
<1>3. ProcessTypeOK'
  BY DEF Inductive, TypeOK, CommitRequestReceipt, ProcessTypeOK, Point
<1>4. ControlAgrees' /\ NewIsEmpty'
  BY DEF Inductive, CommitRequestReceipt, ControlAgrees, NewIsEmpty
<1>5. AtRest'
  BY DEF Inductive, CommitRequestReceipt, AtRest
<1>6. JournalNames' /\ PhaseHolds' /\ PointHolds'
  BY DEF Inductive, CommitRequestReceipt, JournalNames, PhaseHolds, PointHolds, OldVault
<1>7. CompletedIsDone'
  BY DEF Inductive, CommitRequestReceipt, CompletedIsDone, ControlAgrees
<1>8. KeysAreCounted'
  <2>1. /\ intent.state = "requested" /\ intent # NoIntent /\ journal = NoJournal
        /\ pc = "reply" /\ pc' = "down" /\ receipts' = receipts \cup {intent.request}
        /\ UNCHANGED <<intent, journal, used, faults, shown>>
    BY DEF Inductive, CommitRequestReceipt, ControlAgrees
  <2>2. Settled' = Settled /\ ~UnderWay /\ ~UnderWay'
    BY <2>1 DEF Settled, UnderWay
  <2>3. Settled \in Nat /\ intent.request = Settled + 1
    BY <2>1 DEF Inductive, TypeOK, FilesTypeOK, KeysAreCounted, Settled
  <2>4. receipts' = 1..(Settled + 1)
    BY <2>1, <2>3 DEF Inductive, KeysAreCounted
  <2> QED
    BY <2>1, <2>2, <2>4 DEF Inductive, KeysAreCounted
<1> QED
  BY <1>1, <1>2, <1>3, <1>4, <1>5, <1>6, <1>7, <1>8 DEF Inductive, TypeOK

LEMMA RotateProtectedRepositoryKeeps ==
    ASSUME Inductive, RotateProtectedRepository
    PROVE  Inductive'
<1>1. FilesTypeOK'
  BY DEF Inductive, TypeOK, RotateProtectedRepository, FilesTypeOK
<1>2. SecretsTypeOK'
  BY DEF Inductive, TypeOK, RotateProtectedRepository, SecretsTypeOK
<1>3. ProcessTypeOK'
  BY DEF Inductive, RotateProtectedRepository, ProcessTypeOK, TypeOK, ControlAgrees,
      Point, FilesTypeOK, SecretsTypeOK
<1>4. ControlAgrees' /\ NewIsEmpty'
  <2>1. /\ pc = "down" /\ intent \in IntentRecord
        /\ UNCHANGED <<files, secrets, plan>>
    BY DEF Inductive, RotateProtectedRepository, TypeOK, FilesTypeOK
  <2>2. CASE intent.state = "requested" /\ pc' = "begin"
    BY <2>1, <2>2 DEF Inductive, ControlAgrees, NewIsEmpty
  <2>3. CASE intent.state = "completed" /\ pc' = "answer" /\ next' = Credential(intent.target)
    <3>1. next' = New
      BY <2>1, <2>3 DEF Inductive, CompletedIsDone
    <3> QED
      BY <2>1, <2>3, <3>1 DEF Inductive, ControlAgrees, NewIsEmpty
  <2>4. CASE UNCHANGED <<pc, next>>
    BY <2>1, <2>4 DEF Inductive, ControlAgrees, NewIsEmpty
  <2> QED
    BY <2>1, <2>2, <2>3, <2>4 DEF RotateProtectedRepository
<1>5. AtRest'
  BY DEF Inductive, RotateProtectedRepository, AtRest
<1>6. JournalNames' /\ PhaseHolds' /\ PointHolds'
  BY DEF Inductive, RotateProtectedRepository, JournalNames, PhaseHolds, PointHolds,
      OldVault
<1>7. CompletedIsDone'
  BY DEF Inductive, RotateProtectedRepository, CompletedIsDone
<1>8. KeysAreCounted'
  BY DEF Inductive, RotateProtectedRepository, KeysAreCounted, Settled, UnderWay
<1> QED
  BY <1>1, <1>2, <1>3, <1>4, <1>5, <1>6, <1>7, <1>8 DEF Inductive, TypeOK

LEMMA BeginRotationKeeps ==
    ASSUME Inductive, BeginRotation
    PROVE  Inductive'
<1>1. FilesTypeOK'
  BY DEF Inductive, TypeOK, BeginRotation, FilesTypeOK
<1>2. SecretsTypeOK'
  <2>1. used' \in 0..(1 + MaxRequests + MaxFaults)
    <3>1. CASE journal # NoJournal
      BY <3>1 DEF Inductive, BeginRotation, TypeOK, SecretsTypeOK
    <3>2. CASE journal = NoJournal
      <4>1. intent.request \in 1..MaxRequests /\ intent.request = Settled + 1 /\ ~UnderWay
        BY <3>2 DEF Inductive, BeginRotation, TypeOK, FilesTypeOK, ControlAgrees,
            Settled, UnderWay
      <4>2. used \in Nat /\ used <= 1 + Settled + faults /\ faults \in 0..MaxFaults
            /\ Settled \in 0..MaxRequests
        BY <4>1 DEF Inductive, TypeOK, SecretsTypeOK, ProcessTypeOK, KeysAreCounted
      <4>3. used + 1 \in 0..(1 + MaxRequests + MaxFaults)
        BY <4>1, <4>2
      <4> QED
        BY <3>2, <4>3 DEF BeginRotation
    <3> QED
      BY <3>1, <3>2
  <2> QED
    BY <2>1 DEF Inductive, BeginRotation, TypeOK, SecretsTypeOK
<1>3. ProcessTypeOK'
  BY DEF Inductive, TypeOK, BeginRotation, ProcessTypeOK, Point
<1>4. ControlAgrees' /\ NewIsEmpty'
  BY DEF Inductive, BeginRotation, ControlAgrees, NewIsEmpty
<1>5. AtRest'
  <2>1. used \in Nat /\ shown \subseteq 1..used /\ used' \in Nat
    BY <1>2 DEF Inductive, TypeOK, SecretsTypeOK, KeysAreCounted
  <2>2. CASE journal # NoJournal
    BY <2>2 DEF BeginRotation, AtRest
  <2>3. CASE journal = NoJournal
    <3>1. used' = used + 1 /\ used' \in Key /\ used' # Convenient /\ used' \notin shown
      BY <1>2, <2>1, <2>3 DEF BeginRotation, SecretsTypeOK
    <3> QED
      BY <2>3, <3>1 DEF Inductive, BeginRotation, AtRest, TypeOK, FilesTypeOK, SecretsTypeOK,
          ControlAgrees, NewIsEmpty
  <2> QED
    BY <2>2, <2>3
<1>6. JournalNames' /\ PhaseHolds' /\ PointHolds'
  BY DEF Inductive, BeginRotation, JournalNames, PhaseHolds, PointHolds, OldVault
<1>7. CompletedIsDone'
  BY DEF Inductive, BeginRotation, CompletedIsDone, TypeOK, ControlAgrees, FilesTypeOK,
      SecretsTypeOK, ProcessTypeOK, Point
<1>8. KeysAreCounted'
  <2>1. CASE journal # NoJournal
    <3>1. /\ intent.state = "requested" /\ journal' = journal
          /\ UNCHANGED <<used, receipts, intent, faults, shown>>
      BY <2>1 DEF Inductive, BeginRotation, ControlAgrees
    <3>2. Settled' = Settled /\ UnderWay /\ UnderWay'
      BY <2>1, <3>1 DEF Settled, UnderWay
    <3> QED
      BY <3>1, <3>2 DEF Inductive, KeysAreCounted
  <2>2. CASE journal = NoJournal
    <3>1. /\ intent.state = "requested" /\ used' = used + 1 /\ pc = "begin" /\ pc' = "backup"
          /\ UNCHANGED <<journal, receipts, intent, faults, shown>>
      BY <2>2 DEF Inductive, BeginRotation, ControlAgrees
    <3>2. Settled' = Settled /\ ~UnderWay /\ UnderWay'
      BY <2>2, <3>1 DEF Settled, UnderWay
    <3>3. used \in Nat /\ faults \in Nat /\ Settled \in Nat /\ shown \subseteq 1..used
      BY DEF Inductive, TypeOK, SecretsTypeOK, ProcessTypeOK, KeysAreCounted
    <3>4. used' <= 2 + Settled + faults /\ shown \subseteq 1..used'
      BY <3>1, <3>2, <3>3 DEF Inductive, KeysAreCounted
    <3> QED
      BY <3>1, <3>2, <3>4 DEF Inductive, KeysAreCounted
  <2> QED
    BY <2>1, <2>2
<1> QED
  BY <1>1, <1>2, <1>3, <1>4, <1>5, <1>6, <1>7, <1>8 DEF Inductive, TypeOK

LEMMA BeginRefusedKeeps ==
    ASSUME Inductive, BeginRefused
    PROVE  Inductive'
<1>1. FilesTypeOK'
  BY DEF Inductive, TypeOK, BeginRefused, FilesTypeOK
<1>2. SecretsTypeOK'
  BY DEF Inductive, TypeOK, BeginRefused, SecretsTypeOK
<1>3. ProcessTypeOK'
  BY DEF Inductive, TypeOK, BeginRefused, ProcessTypeOK, Point
<1>4. ControlAgrees' /\ NewIsEmpty'
  BY DEF Inductive, BeginRefused, ControlAgrees, NewIsEmpty
<1>5. AtRest'
  BY DEF Inductive, BeginRefused, AtRest
<1>6. JournalNames' /\ PhaseHolds' /\ PointHolds'
  BY DEF Inductive, BeginRefused, JournalNames, PhaseHolds, PointHolds, OldVault
<1>7. CompletedIsDone'
  BY DEF Inductive, BeginRefused, CompletedIsDone
<1>8. KeysAreCounted'
  BY DEF Inductive, BeginRefused, KeysAreCounted, Settled, UnderWay
<1> QED
  BY <1>1, <1>2, <1>3, <1>4, <1>5, <1>6, <1>7, <1>8 DEF Inductive, TypeOK

LEMMA BackupKeeps ==
    ASSUME Inductive, Backup
    PROVE  Inductive'
<1>1. FilesTypeOK'
  BY DEF Inductive, TypeOK, Backup, FilesTypeOK
<1>2. SecretsTypeOK'
  BY DEF Inductive, TypeOK, Backup, SecretsTypeOK
<1>3. ProcessTypeOK'
  BY DEF Inductive, TypeOK, Backup, ProcessTypeOK, Point
<1>4. ControlAgrees' /\ NewIsEmpty'
  BY DEF Inductive, Backup, ControlAgrees, NewIsEmpty
<1>5. AtRest'
  BY DEF Inductive, Backup, AtRest, TypeOK, ControlAgrees, FilesTypeOK, SecretsTypeOK,
      ProcessTypeOK, Point
<1>6. JournalNames' /\ PhaseHolds' /\ PointHolds'
  BY DEF Inductive, Backup, JournalNames, PhaseHolds, PointHolds, TypeOK, ControlAgrees,
      OldVault, FilesTypeOK, SecretsTypeOK, ProcessTypeOK, Point
<1>7. CompletedIsDone'
  BY DEF Inductive, Backup, CompletedIsDone
<1>8. KeysAreCounted'
  BY DEF Inductive, Backup, KeysAreCounted, Settled, UnderWay
<1> QED
  BY <1>1, <1>2, <1>3, <1>4, <1>5, <1>6, <1>7, <1>8 DEF Inductive, TypeOK

LEMMA StageProtectedRotationKeeps ==
    ASSUME Inductive, StageProtectedRotation
    PROVE  Inductive'
<1>1. FilesTypeOK'
  BY DEF Inductive, TypeOK, StageProtectedRotation, FilesTypeOK
<1>2. SecretsTypeOK'
  BY DEF Inductive, StageProtectedRotation, SecretsTypeOK, TypeOK, ControlAgrees,
      AtRest, NewIsEmpty, FilesTypeOK, ProcessTypeOK, Point
<1>3. ProcessTypeOK'
  BY DEF Inductive, TypeOK, StageProtectedRotation, ProcessTypeOK, Point
<1>4. ControlAgrees' /\ NewIsEmpty'
  BY DEF Inductive, StageProtectedRotation, ControlAgrees, NewIsEmpty
<1>5. AtRest'
  BY DEF Inductive, StageProtectedRotation, AtRest
<1>6. JournalNames' /\ PhaseHolds' /\ PointHolds'
  BY DEF Inductive, StageProtectedRotation, JournalNames, PhaseHolds, PointHolds,
      OldVault
<1>7. CompletedIsDone'
  BY DEF Inductive, StageProtectedRotation, CompletedIsDone
<1>8. KeysAreCounted'
  BY DEF Inductive, StageProtectedRotation, KeysAreCounted, Settled, UnderWay
<1> QED
  BY <1>1, <1>2, <1>3, <1>4, <1>5, <1>6, <1>7, <1>8 DEF Inductive, TypeOK

LEMMA JournalPreparedKeeps ==
    ASSUME Inductive, JournalPrepared
    PROVE  Inductive'
<1>1. FilesTypeOK'
  BY DEF Inductive, JournalPrepared, FilesTypeOK, TypeOK, ControlAgrees, AtRest,
      NewIsEmpty, WriteJournal, SecretsTypeOK, ProcessTypeOK, Point
<1>2. SecretsTypeOK'
  BY DEF Inductive, TypeOK, JournalPrepared, SecretsTypeOK, WriteJournal
<1>3. ProcessTypeOK'
  BY DEF Inductive, TypeOK, JournalPrepared, ProcessTypeOK, WriteJournal, Point
<1>4. ControlAgrees' /\ NewIsEmpty'
  BY DEF Inductive, JournalPrepared, ControlAgrees, NewIsEmpty, WriteJournal
<1>5. AtRest'
  BY DEF Inductive, JournalPrepared, AtRest, WriteJournal
<1>6. JournalNames' /\ PhaseHolds' /\ PointHolds'
  BY DEF Inductive, JournalPrepared, JournalNames, PhaseHolds, PointHolds, TypeOK,
      ControlAgrees, AtRest, NewIsEmpty, WriteJournal, OldVault, FilesTypeOK,
      SecretsTypeOK, ProcessTypeOK, Point
<1>7. CompletedIsDone'
  BY DEF Inductive, JournalPrepared, CompletedIsDone, TypeOK, ControlAgrees,
      WriteJournal, FilesTypeOK, SecretsTypeOK, ProcessTypeOK, Point
<1>8. KeysAreCounted'
  BY DEF Inductive, JournalPrepared, KeysAreCounted, WriteJournal, Settled, UnderWay
<1> QED
  BY <1>1, <1>2, <1>3, <1>4, <1>5, <1>6, <1>7, <1>8 DEF Inductive, TypeOK

LEMMA ResumeRotationKeeps ==
    ASSUME Inductive, ResumeRotation
    PROVE  Inductive'
<1>1. FilesTypeOK'
  BY DEF Inductive, TypeOK, ResumeRotation, FilesTypeOK, JournalFits, NextPassword
<1>2. SecretsTypeOK'
  BY DEF Inductive, TypeOK, ResumeRotation, SecretsTypeOK, JournalFits, NextPassword
<1>3. ProcessTypeOK'
  BY DEF Inductive, ResumeRotation, ProcessTypeOK, TypeOK, ControlAgrees, JournalFits,
      NextPassword, Point, FilesTypeOK, SecretsTypeOK
<1>4. ControlAgrees' /\ NewIsEmpty'
  BY DEF Inductive, ResumeRotation, ControlAgrees, NewIsEmpty, TypeOK, JournalNames,
      PhaseHolds, PointHolds, JournalFits, NextPassword, FilesTypeOK, SecretsTypeOK,
      ProcessTypeOK, OldVault, Point
<1>5. AtRest'
  BY DEF Inductive, ResumeRotation, AtRest, JournalFits, NextPassword
<1>6. JournalNames' /\ PhaseHolds' /\ PointHolds'
  BY DEF Inductive, ResumeRotation, JournalNames, PhaseHolds, PointHolds, JournalFits,
      NextPassword, OldVault
<1>7. CompletedIsDone'
  BY DEF Inductive, ResumeRotation, CompletedIsDone, JournalFits, NextPassword
<1>8. KeysAreCounted'
  BY DEF Inductive, ResumeRotation, KeysAreCounted, JournalFits, NextPassword, Settled,
      UnderWay
<1> QED
  BY <1>1, <1>2, <1>3, <1>4, <1>5, <1>6, <1>7, <1>8 DEF Inductive, TypeOK

LEMMA AlreadyChangedKeeps ==
    ASSUME Inductive, AlreadyChanged
    PROVE  Inductive'
<1>1. FilesTypeOK'
  BY DEF Inductive, AlreadyChanged, FilesTypeOK, TypeOK, ControlAgrees, JournalNames,
      JournalPhase, SecretsTypeOK, ProcessTypeOK, WriteJournal, Point
<1>2. SecretsTypeOK'
  BY DEF Inductive, TypeOK, AlreadyChanged, SecretsTypeOK, JournalPhase, WriteJournal
<1>3. ProcessTypeOK'
  BY DEF Inductive, TypeOK, AlreadyChanged, ProcessTypeOK, JournalPhase, Point,
      WriteJournal
<1>4. ControlAgrees' /\ NewIsEmpty'
  BY DEF Inductive, AlreadyChanged, ControlAgrees, NewIsEmpty, JournalPhase,
      WriteJournal
<1>5. AtRest'
  BY DEF Inductive, AlreadyChanged, AtRest, JournalPhase, WriteJournal
<1>6. JournalNames' /\ PhaseHolds' /\ PointHolds'
  BY DEF Inductive, AlreadyChanged, JournalNames, PhaseHolds, PointHolds, TypeOK,
      ControlAgrees, JournalPhase, OldVault, FilesTypeOK, SecretsTypeOK, ProcessTypeOK,
      WriteJournal, Point
<1>7. CompletedIsDone'
  BY DEF Inductive, AlreadyChanged, CompletedIsDone, JournalPhase, WriteJournal
<1>8. KeysAreCounted'
  BY DEF Inductive, AlreadyChanged, KeysAreCounted, JournalPhase, Settled, UnderWay,
      WriteJournal
<1> QED
  BY <1>1, <1>2, <1>3, <1>4, <1>5, <1>6, <1>7, <1>8 DEF Inductive, TypeOK

LEMMA NotYetChangedKeeps ==
    ASSUME Inductive, NotYetChanged
    PROVE  Inductive'
<1>1. FilesTypeOK'
  BY DEF Inductive, TypeOK, NotYetChanged, FilesTypeOK
<1>2. SecretsTypeOK'
  BY DEF Inductive, TypeOK, NotYetChanged, SecretsTypeOK
<1>3. ProcessTypeOK'
  BY DEF Inductive, TypeOK, NotYetChanged, ProcessTypeOK, Point
<1>4. ControlAgrees' /\ NewIsEmpty'
  BY DEF Inductive, NotYetChanged, ControlAgrees, NewIsEmpty
<1>5. AtRest'
  BY DEF Inductive, NotYetChanged, AtRest
<1>6. JournalNames' /\ PhaseHolds' /\ PointHolds'
  BY DEF Inductive, NotYetChanged, JournalNames, PhaseHolds, PointHolds, OldVault
<1>7. CompletedIsDone'
  BY DEF Inductive, NotYetChanged, CompletedIsDone
<1>8. KeysAreCounted'
  <2>1. /\ pc = "run" /\ intent.state = "requested" /\ journal # NoJournal
        /\ faults' = faults \/ faults' = faults + 1
        /\ UNCHANGED <<used, receipts, intent, journal, shown>>
    BY DEF Inductive, NotYetChanged, ControlAgrees
  <2>2. Settled' = Settled /\ UnderWay /\ UnderWay'
    BY <2>1 DEF Settled, UnderWay
  <2>3. used \in Nat /\ faults \in Nat /\ Settled \in Nat
    BY DEF Inductive, TypeOK, SecretsTypeOK, ProcessTypeOK, KeysAreCounted
  <2>4. used <= 2 + Settled + faults
    BY DEF Inductive, KeysAreCounted
  <2>5. used <= 2 + Settled + faults'
    <3>1. CASE faults' = faults
      BY <2>4, <3>1
    <3>2. CASE faults' = faults + 1
      BY <2>3, <2>4, <3>2
    <3> QED
      BY <2>1, <3>1, <3>2
  <2> QED
    BY <2>1, <2>2, <2>5 DEF Inductive, KeysAreCounted
<1> QED
  BY <1>1, <1>2, <1>3, <1>4, <1>5, <1>6, <1>7, <1>8 DEF Inductive, TypeOK

LEMMA VerifyOldKeeps ==
    ASSUME Inductive, VerifyOld
    PROVE  Inductive'
<1>1. FilesTypeOK'
  BY DEF Inductive, TypeOK, VerifyOld, FilesTypeOK
<1>2. SecretsTypeOK'
  BY DEF Inductive, TypeOK, VerifyOld, SecretsTypeOK
<1>3. ProcessTypeOK'
  BY DEF Inductive, TypeOK, VerifyOld, ProcessTypeOK, Point
<1>4. ControlAgrees' /\ NewIsEmpty'
  BY DEF Inductive, VerifyOld, ControlAgrees, NewIsEmpty
<1>5. AtRest'
  BY DEF Inductive, VerifyOld, AtRest
<1>6. JournalNames' /\ PhaseHolds' /\ PointHolds'
  BY DEF Inductive, VerifyOld, JournalNames, PhaseHolds, PointHolds, OldVault
<1>7. CompletedIsDone'
  BY DEF Inductive, VerifyOld, CompletedIsDone
<1>8. KeysAreCounted'
  BY DEF Inductive, VerifyOld, KeysAreCounted, Settled, UnderWay
<1> QED
  BY <1>1, <1>2, <1>3, <1>4, <1>5, <1>6, <1>7, <1>8 DEF Inductive, TypeOK

LEMMA RestoreBlobConfigKeeps ==
    ASSUME Inductive, RestoreBlobConfig
    PROVE  Inductive'
<1>1. FilesTypeOK'
  BY DEF Inductive, RestoreBlobConfig, FilesTypeOK, TypeOK, ControlAgrees, RestoreBlob,
      SecretsTypeOK, ProcessTypeOK, Point
<1>2. SecretsTypeOK'
  BY DEF Inductive, TypeOK, RestoreBlobConfig, SecretsTypeOK, RestoreBlob
<1>3. ProcessTypeOK'
  BY DEF Inductive, TypeOK, RestoreBlobConfig, ProcessTypeOK, RestoreBlob, Point
<1>4. ControlAgrees' /\ NewIsEmpty'
  BY DEF Inductive, RestoreBlobConfig, ControlAgrees, NewIsEmpty, RestoreBlob
<1>5. AtRest'
  BY DEF Inductive, RestoreBlobConfig, AtRest, TypeOK, ControlAgrees, RestoreBlob,
      FilesTypeOK, SecretsTypeOK, ProcessTypeOK, Point
<1>6. JournalNames' /\ PhaseHolds' /\ PointHolds'
  BY DEF Inductive, RestoreBlobConfig, JournalNames, PhaseHolds, PointHolds, TypeOK,
      ControlAgrees, RestoreBlob, OldVault, FilesTypeOK, SecretsTypeOK, ProcessTypeOK,
      Point
<1>7. CompletedIsDone'
  BY DEF Inductive, RestoreBlobConfig, CompletedIsDone, TypeOK, ControlAgrees,
      RestoreBlob, FilesTypeOK, SecretsTypeOK, ProcessTypeOK, Point
<1>8. KeysAreCounted'
  BY DEF Inductive, RestoreBlobConfig, KeysAreCounted, RestoreBlob, Settled, UnderWay
<1> QED
  BY <1>1, <1>2, <1>3, <1>4, <1>5, <1>6, <1>7, <1>8 DEF Inductive, TypeOK

LEMMA RestoreRepositoryBlobKeeps ==
    ASSUME Inductive, RestoreRepositoryBlob
    PROVE  Inductive'
<1>1. FilesTypeOK'
  BY DEF Inductive, RestoreRepositoryBlob, FilesTypeOK, TypeOK, ControlAgrees,
      RestoreBlob, SecretsTypeOK, ProcessTypeOK, Point
<1>2. SecretsTypeOK'
  BY DEF Inductive, TypeOK, RestoreRepositoryBlob, SecretsTypeOK, RestoreBlob
<1>3. ProcessTypeOK'
  BY DEF Inductive, TypeOK, RestoreRepositoryBlob, ProcessTypeOK, RestoreBlob, Point
<1>4. ControlAgrees' /\ NewIsEmpty'
  BY DEF Inductive, RestoreRepositoryBlob, ControlAgrees, NewIsEmpty, RestoreBlob
<1>5. AtRest'
  BY DEF Inductive, RestoreRepositoryBlob, AtRest, TypeOK, ControlAgrees, RestoreBlob,
      FilesTypeOK, SecretsTypeOK, ProcessTypeOK, Point
<1>6. JournalNames' /\ PhaseHolds' /\ PointHolds'
  BY DEF Inductive, RestoreRepositoryBlob, JournalNames, PhaseHolds, PointHolds, TypeOK,
      ControlAgrees, RestoreBlob, OldVault, FilesTypeOK, SecretsTypeOK, ProcessTypeOK,
      Point
<1>7. CompletedIsDone'
  BY DEF Inductive, RestoreRepositoryBlob, CompletedIsDone, TypeOK, ControlAgrees,
      RestoreBlob, FilesTypeOK, SecretsTypeOK, ProcessTypeOK, Point
<1>8. KeysAreCounted'
  BY DEF Inductive, RestoreRepositoryBlob, KeysAreCounted, RestoreBlob, Settled,
      UnderWay
<1> QED
  BY <1>1, <1>2, <1>3, <1>4, <1>5, <1>6, <1>7, <1>8 DEF Inductive, TypeOK

LEMMA RecheckOldKeeps ==
    ASSUME Inductive, RecheckOld
    PROVE  Inductive'
<1>1. FilesTypeOK'
  BY DEF Inductive, TypeOK, RecheckOld, FilesTypeOK
<1>2. SecretsTypeOK'
  BY DEF Inductive, TypeOK, RecheckOld, SecretsTypeOK
<1>3. ProcessTypeOK'
  BY DEF Inductive, TypeOK, RecheckOld, ProcessTypeOK, Point
<1>4. ControlAgrees' /\ NewIsEmpty'
  BY DEF Inductive, RecheckOld, ControlAgrees, NewIsEmpty
<1>5. AtRest'
  BY DEF Inductive, RecheckOld, AtRest
<1>6. JournalNames' /\ PhaseHolds' /\ PointHolds'
  BY DEF Inductive, RecheckOld, JournalNames, PhaseHolds, PointHolds, OldVault
<1>7. CompletedIsDone'
  BY DEF Inductive, RecheckOld, CompletedIsDone
<1>8. KeysAreCounted'
  BY DEF Inductive, RecheckOld, KeysAreCounted, Settled, UnderWay
<1> QED
  BY <1>1, <1>2, <1>3, <1>4, <1>5, <1>6, <1>7, <1>8 DEF Inductive, TypeOK

LEMMA ChangePasswordKeeps ==
    ASSUME Inductive, ChangePassword
    PROVE  Inductive'
<1>1. FilesTypeOK'
  BY DEF Inductive, ChangePassword, FilesTypeOK, TypeOK, ControlAgrees, SecretsTypeOK,
      ProcessTypeOK, Point
<1>2. SecretsTypeOK'
  BY DEF Inductive, TypeOK, ChangePassword, SecretsTypeOK
<1>3. ProcessTypeOK'
  BY DEF Inductive, TypeOK, ChangePassword, ProcessTypeOK, Point
<1>4. ControlAgrees' /\ NewIsEmpty'
  BY DEF Inductive, ChangePassword, ControlAgrees, NewIsEmpty
<1>5. AtRest'
  BY DEF Inductive, ChangePassword, AtRest, TypeOK, ControlAgrees, FilesTypeOK,
      SecretsTypeOK, ProcessTypeOK, Point
<1>6. JournalNames' /\ PhaseHolds' /\ PointHolds'
  BY DEF Inductive, ChangePassword, JournalNames, PhaseHolds, PointHolds, TypeOK,
      ControlAgrees, OldVault, FilesTypeOK, SecretsTypeOK, ProcessTypeOK, Point
<1>7. CompletedIsDone'
  BY DEF Inductive, ChangePassword, CompletedIsDone, TypeOK, ControlAgrees, FilesTypeOK,
      SecretsTypeOK, ProcessTypeOK, Point
<1>8. KeysAreCounted'
  BY DEF Inductive, ChangePassword, KeysAreCounted, Settled, UnderWay
<1> QED
  BY <1>1, <1>2, <1>3, <1>4, <1>5, <1>6, <1>7, <1>8 DEF Inductive, TypeOK

LEMMA PasswordChangedKeeps ==
    ASSUME Inductive, PasswordChanged
    PROVE  Inductive'
<1>1. FilesTypeOK'
  BY DEF Inductive, PasswordChanged, FilesTypeOK, TypeOK, ControlAgrees, JournalNames,
      JournalPhase, SecretsTypeOK, ProcessTypeOK, WriteJournal, Point
<1>2. SecretsTypeOK'
  BY DEF Inductive, TypeOK, PasswordChanged, SecretsTypeOK, JournalPhase, WriteJournal
<1>3. ProcessTypeOK'
  BY DEF Inductive, TypeOK, PasswordChanged, ProcessTypeOK, JournalPhase, Point,
      WriteJournal
<1>4. ControlAgrees' /\ NewIsEmpty'
  BY DEF Inductive, PasswordChanged, ControlAgrees, NewIsEmpty, JournalPhase,
      WriteJournal
<1>5. AtRest'
  BY DEF Inductive, PasswordChanged, AtRest, JournalPhase, WriteJournal
<1>6. JournalNames' /\ PhaseHolds' /\ PointHolds'
  BY DEF Inductive, PasswordChanged, JournalNames, PhaseHolds, PointHolds, TypeOK,
      ControlAgrees, JournalPhase, OldVault, FilesTypeOK, SecretsTypeOK, ProcessTypeOK,
      WriteJournal, Point
<1>7. CompletedIsDone'
  BY DEF Inductive, PasswordChanged, CompletedIsDone, TypeOK, ControlAgrees,
      JournalPhase, FilesTypeOK, SecretsTypeOK, ProcessTypeOK, WriteJournal, Point
<1>8. KeysAreCounted'
  BY DEF Inductive, PasswordChanged, KeysAreCounted, TypeOK, ControlAgrees,
      JournalPhase, Settled, UnderWay, FilesTypeOK, SecretsTypeOK, ProcessTypeOK,
      WriteJournal, Point
<1> QED
  BY <1>1, <1>2, <1>3, <1>4, <1>5, <1>6, <1>7, <1>8 DEF Inductive, TypeOK

LEMMA VerifyChangedKeeps ==
    ASSUME Inductive, VerifyChanged
    PROVE  Inductive'
<1>1. FilesTypeOK'
  BY DEF Inductive, VerifyChanged, FilesTypeOK, TypeOK, ControlAgrees, JournalNames,
      JournalPhase, SecretsTypeOK, ProcessTypeOK, WriteJournal, Point
<1>2. SecretsTypeOK'
  BY DEF Inductive, TypeOK, VerifyChanged, SecretsTypeOK, JournalPhase, WriteJournal
<1>3. ProcessTypeOK'
  BY DEF Inductive, TypeOK, VerifyChanged, ProcessTypeOK, JournalPhase, Point,
      WriteJournal
<1>4. ControlAgrees' /\ NewIsEmpty'
  BY DEF Inductive, VerifyChanged, ControlAgrees, NewIsEmpty, TypeOK, JournalPhase,
      FilesTypeOK, SecretsTypeOK, ProcessTypeOK, WriteJournal, Point
<1>5. AtRest'
  BY DEF Inductive, VerifyChanged, AtRest, JournalPhase, WriteJournal
<1>6. JournalNames' /\ PhaseHolds' /\ PointHolds'
  BY DEF Inductive, VerifyChanged, JournalNames, PhaseHolds, PointHolds, TypeOK,
      ControlAgrees, JournalPhase, OldVault, FilesTypeOK, SecretsTypeOK, ProcessTypeOK,
      WriteJournal, Point
<1>7. CompletedIsDone'
  BY DEF Inductive, VerifyChanged, CompletedIsDone, JournalPhase, WriteJournal
<1>8. KeysAreCounted'
  BY DEF Inductive, VerifyChanged, KeysAreCounted, JournalPhase, Settled, UnderWay,
      WriteJournal
<1> QED
  BY <1>1, <1>2, <1>3, <1>4, <1>5, <1>6, <1>7, <1>8 DEF Inductive, TypeOK

LEMMA CommitStagedProtectedRotationKeeps ==
    ASSUME Inductive, CommitStagedProtectedRotation
    PROVE  Inductive'
<1>1. FilesTypeOK'
  BY DEF Inductive, TypeOK, CommitStagedProtectedRotation, FilesTypeOK
<1>2. SecretsTypeOK'
  BY DEF Inductive, CommitStagedProtectedRotation, SecretsTypeOK, TypeOK, ControlAgrees,
      FilesTypeOK, ProcessTypeOK, Point
<1>3. ProcessTypeOK'
  BY DEF Inductive, TypeOK, CommitStagedProtectedRotation, ProcessTypeOK, Point
<1>4. ControlAgrees' /\ NewIsEmpty'
  BY DEF Inductive, CommitStagedProtectedRotation, ControlAgrees, NewIsEmpty
<1>5. AtRest'
  BY DEF Inductive, CommitStagedProtectedRotation, AtRest
<1>6. JournalNames' /\ PhaseHolds' /\ PointHolds'
  BY DEF Inductive, CommitStagedProtectedRotation, JournalNames, PhaseHolds, PointHolds,
      OldVault
<1>7. CompletedIsDone'
  BY DEF Inductive, CommitStagedProtectedRotation, CompletedIsDone
<1>8. KeysAreCounted'
  BY DEF Inductive, CommitStagedProtectedRotation, KeysAreCounted, Settled, UnderWay
<1> QED
  BY <1>1, <1>2, <1>3, <1>4, <1>5, <1>6, <1>7, <1>8 DEF Inductive, TypeOK

LEMMA JournalSwappedKeeps ==
    ASSUME Inductive, JournalSwapped
    PROVE  Inductive'
<1>1. FilesTypeOK'
  BY DEF Inductive, JournalSwapped, FilesTypeOK, TypeOK, ControlAgrees, JournalNames,
      JournalPhase, SecretsTypeOK, ProcessTypeOK, WriteJournal, Point
<1>2. SecretsTypeOK'
  BY DEF Inductive, TypeOK, JournalSwapped, SecretsTypeOK, JournalPhase, WriteJournal
<1>3. ProcessTypeOK'
  BY DEF Inductive, TypeOK, JournalSwapped, ProcessTypeOK, JournalPhase, Point,
      WriteJournal
<1>4. ControlAgrees' /\ NewIsEmpty'
  BY DEF Inductive, JournalSwapped, ControlAgrees, NewIsEmpty, JournalPhase,
      WriteJournal
<1>5. AtRest'
  BY DEF Inductive, JournalSwapped, AtRest, JournalPhase, WriteJournal
<1>6. JournalNames' /\ PhaseHolds' /\ PointHolds'
  BY DEF Inductive, JournalSwapped, JournalNames, PhaseHolds, PointHolds, TypeOK,
      ControlAgrees, JournalPhase, OldVault, FilesTypeOK, SecretsTypeOK, ProcessTypeOK,
      WriteJournal, Point
<1>7. CompletedIsDone'
  BY DEF Inductive, JournalSwapped, CompletedIsDone, JournalPhase, WriteJournal
<1>8. KeysAreCounted'
  BY DEF Inductive, JournalSwapped, KeysAreCounted, TypeOK, ControlAgrees, JournalPhase,
      Settled, UnderWay, FilesTypeOK, SecretsTypeOK, ProcessTypeOK, WriteJournal, Point
<1> QED
  BY <1>1, <1>2, <1>3, <1>4, <1>5, <1>6, <1>7, <1>8 DEF Inductive, TypeOK

LEMMA VerifySwappedKeeps ==
    ASSUME Inductive, VerifySwapped
    PROVE  Inductive'
<1>1. FilesTypeOK'
  BY DEF Inductive, TypeOK, VerifySwapped, FilesTypeOK
<1>2. SecretsTypeOK'
  BY DEF Inductive, TypeOK, VerifySwapped, SecretsTypeOK
<1>3. ProcessTypeOK'
  BY DEF Inductive, TypeOK, VerifySwapped, ProcessTypeOK, Point
<1>4. ControlAgrees' /\ NewIsEmpty'
  BY DEF Inductive, VerifySwapped, ControlAgrees, NewIsEmpty
<1>5. AtRest'
  BY DEF Inductive, VerifySwapped, AtRest
<1>6. JournalNames' /\ PhaseHolds' /\ PointHolds'
  BY DEF Inductive, VerifySwapped, JournalNames, PhaseHolds, PointHolds, OldVault
<1>7. CompletedIsDone'
  BY DEF Inductive, VerifySwapped, CompletedIsDone
<1>8. KeysAreCounted'
  BY DEF Inductive, VerifySwapped, KeysAreCounted, Settled, UnderWay
<1> QED
  BY <1>1, <1>2, <1>3, <1>4, <1>5, <1>6, <1>7, <1>8 DEF Inductive, TypeOK

LEMMA PublishReplicaManifestKeeps ==
    ASSUME Inductive, PublishReplicaManifest
    PROVE  Inductive'
<1>1. FilesTypeOK'
  BY DEF Inductive, TypeOK, PublishReplicaManifest, FilesTypeOK
<1>2. SecretsTypeOK'
  BY DEF Inductive, TypeOK, PublishReplicaManifest, SecretsTypeOK
<1>3. ProcessTypeOK'
  BY DEF Inductive, TypeOK, PublishReplicaManifest, ProcessTypeOK, Point
<1>4. ControlAgrees' /\ NewIsEmpty'
  BY DEF Inductive, PublishReplicaManifest, ControlAgrees, NewIsEmpty
<1>5. AtRest'
  BY DEF Inductive, PublishReplicaManifest, AtRest
<1>6. JournalNames' /\ PhaseHolds' /\ PointHolds'
  BY DEF Inductive, PublishReplicaManifest, JournalNames, PhaseHolds, PointHolds,
      TypeOK, ControlAgrees, OldVault, FilesTypeOK, SecretsTypeOK, ProcessTypeOK, Point
<1>7. CompletedIsDone'
  BY DEF Inductive, PublishReplicaManifest, CompletedIsDone, TypeOK, ControlAgrees,
      FilesTypeOK, SecretsTypeOK, ProcessTypeOK, Point
<1>8. KeysAreCounted'
  BY DEF Inductive, PublishReplicaManifest, KeysAreCounted, Settled, UnderWay
<1> QED
  BY <1>1, <1>2, <1>3, <1>4, <1>5, <1>6, <1>7, <1>8 DEF Inductive, TypeOK

LEMMA PublishManifestKeeps ==
    ASSUME Inductive, PublishManifest
    PROVE  Inductive'
<1>1. FilesTypeOK'
  BY DEF Inductive, PublishManifest, FilesTypeOK, TypeOK, ControlAgrees, SecretsTypeOK,
      ProcessTypeOK, Point
<1>2. SecretsTypeOK'
  BY DEF Inductive, TypeOK, PublishManifest, SecretsTypeOK
<1>3. ProcessTypeOK'
  BY DEF Inductive, TypeOK, PublishManifest, ProcessTypeOK, Point
<1>4. ControlAgrees' /\ NewIsEmpty'
  BY DEF Inductive, PublishManifest, ControlAgrees, NewIsEmpty
<1>5. AtRest'
  BY DEF Inductive, PublishManifest, AtRest, TypeOK, ControlAgrees, FilesTypeOK,
      SecretsTypeOK, ProcessTypeOK, Point
<1>6. JournalNames' /\ PhaseHolds' /\ PointHolds'
  BY DEF Inductive, PublishManifest, JournalNames, PhaseHolds, PointHolds, TypeOK,
      ControlAgrees, OldVault, FilesTypeOK, SecretsTypeOK, ProcessTypeOK, Point
<1>7. CompletedIsDone'
  BY DEF Inductive, PublishManifest, CompletedIsDone, TypeOK, ControlAgrees,
      FilesTypeOK, SecretsTypeOK, ProcessTypeOK, Point
<1>8. KeysAreCounted'
  BY DEF Inductive, PublishManifest, KeysAreCounted, Settled, UnderWay
<1> QED
  BY <1>1, <1>2, <1>3, <1>4, <1>5, <1>6, <1>7, <1>8 DEF Inductive, TypeOK

LEMMA DeleteProtectedKeeps ==
    ASSUME Inductive, DeleteProtected
    PROVE  Inductive'
<1>1. FilesTypeOK'
  BY DEF Inductive, TypeOK, DeleteProtected, FilesTypeOK
<1>2. SecretsTypeOK'
  BY DEF Inductive, TypeOK, DeleteProtected, SecretsTypeOK
<1>3. ProcessTypeOK'
  BY DEF Inductive, TypeOK, DeleteProtected, ProcessTypeOK, Point
<1>4. ControlAgrees' /\ NewIsEmpty'
  BY DEF Inductive, DeleteProtected, ControlAgrees, NewIsEmpty
<1>5. AtRest'
  BY DEF Inductive, DeleteProtected, AtRest
<1>6. JournalNames' /\ PhaseHolds' /\ PointHolds'
  BY DEF Inductive, DeleteProtected, JournalNames, PhaseHolds, PointHolds, TypeOK,
      ControlAgrees, OldVault, FilesTypeOK, SecretsTypeOK, ProcessTypeOK, Point
<1>7. CompletedIsDone'
  BY DEF Inductive, DeleteProtected, CompletedIsDone, TypeOK, ControlAgrees,
      FilesTypeOK, SecretsTypeOK, ProcessTypeOK, Point
<1>8. KeysAreCounted'
  BY DEF Inductive, DeleteProtected, KeysAreCounted, Settled, UnderWay
<1> QED
  BY <1>1, <1>2, <1>3, <1>4, <1>5, <1>6, <1>7, <1>8 DEF Inductive, TypeOK

LEMMA DiscardStagedProtectedRotationKeeps ==
    ASSUME Inductive, DiscardStagedProtectedRotation
    PROVE  Inductive'
<1>1. FilesTypeOK'
  BY DEF Inductive, TypeOK, DiscardStagedProtectedRotation, FilesTypeOK
<1>2. SecretsTypeOK'
  BY DEF Inductive, TypeOK, DiscardStagedProtectedRotation, SecretsTypeOK
<1>3. ProcessTypeOK'
  BY DEF Inductive, TypeOK, DiscardStagedProtectedRotation, ProcessTypeOK, Point
<1>4. ControlAgrees' /\ NewIsEmpty'
  BY DEF Inductive, DiscardStagedProtectedRotation, ControlAgrees, NewIsEmpty
<1>5. AtRest'
  BY DEF Inductive, DiscardStagedProtectedRotation, AtRest
<1>6. JournalNames' /\ PhaseHolds' /\ PointHolds'
  BY DEF Inductive, DiscardStagedProtectedRotation, JournalNames, PhaseHolds,
      PointHolds, TypeOK, ControlAgrees, OldVault, FilesTypeOK, SecretsTypeOK,
      ProcessTypeOK, Point
<1>7. CompletedIsDone'
  BY DEF Inductive, DiscardStagedProtectedRotation, CompletedIsDone
<1>8. KeysAreCounted'
  BY DEF Inductive, DiscardStagedProtectedRotation, KeysAreCounted, Settled, UnderWay
<1> QED
  BY <1>1, <1>2, <1>3, <1>4, <1>5, <1>6, <1>7, <1>8 DEF Inductive, TypeOK

LEMMA CompleteKeyRotationIntentKeeps ==
    ASSUME Inductive, CompleteKeyRotationIntent
    PROVE  Inductive'
<1>1. FilesTypeOK'
  BY DEF Inductive, CompleteKeyRotationIntent, FilesTypeOK, TypeOK, ControlAgrees,
      JournalNames, SecretsTypeOK, ProcessTypeOK, Point
<1>2. SecretsTypeOK'
  BY DEF Inductive, TypeOK, CompleteKeyRotationIntent, SecretsTypeOK
<1>3. ProcessTypeOK'
  BY DEF Inductive, TypeOK, CompleteKeyRotationIntent, ProcessTypeOK, Point
<1>4. ControlAgrees' /\ NewIsEmpty'
  BY DEF Inductive, CompleteKeyRotationIntent, ControlAgrees, NewIsEmpty
<1>5. AtRest'
  BY DEF Inductive, CompleteKeyRotationIntent, AtRest
<1>6. JournalNames' /\ PhaseHolds' /\ PointHolds'
  BY DEF Inductive, CompleteKeyRotationIntent, JournalNames, PhaseHolds, PointHolds,
      OldVault
<1>7. CompletedIsDone'
  BY DEF Inductive, CompleteKeyRotationIntent, CompletedIsDone, TypeOK, ControlAgrees,
      JournalNames, PhaseHolds, PointHolds, FilesTypeOK, SecretsTypeOK, ProcessTypeOK,
      OldVault, Point
<1>8. KeysAreCounted'
  BY DEF Inductive, CompleteKeyRotationIntent, KeysAreCounted, TypeOK, ControlAgrees,
      Settled, UnderWay, FilesTypeOK, SecretsTypeOK, ProcessTypeOK, Point
<1> QED
  BY <1>1, <1>2, <1>3, <1>4, <1>5, <1>6, <1>7, <1>8 DEF Inductive, TypeOK

LEMMA CleanupBackupKeeps ==
    ASSUME Inductive, CleanupBackup
    PROVE  Inductive'
<1>1. FilesTypeOK'
  BY DEF Inductive, TypeOK, CleanupBackup, FilesTypeOK, RemoveBackup
<1>2. SecretsTypeOK'
  BY DEF Inductive, TypeOK, CleanupBackup, SecretsTypeOK, RemoveBackup
<1>3. ProcessTypeOK'
  BY DEF Inductive, TypeOK, CleanupBackup, ProcessTypeOK, RemoveBackup, Point
<1>4. ControlAgrees' /\ NewIsEmpty'
  BY DEF Inductive, CleanupBackup, ControlAgrees, NewIsEmpty, RemoveBackup
<1>5. AtRest'
  BY DEF Inductive, CleanupBackup, AtRest, RemoveBackup
<1>6. JournalNames' /\ PhaseHolds' /\ PointHolds'
  BY DEF Inductive, CleanupBackup, JournalNames, PhaseHolds, PointHolds, TypeOK,
      ControlAgrees, NewIsEmpty, AtRest, CompletedIsDone, KeysAreCounted, RemoveBackup,
      OldVault, FilesTypeOK, SecretsTypeOK, ProcessTypeOK, Settled, UnderWay, Point
<1>7. CompletedIsDone'
  BY DEF Inductive, CleanupBackup, CompletedIsDone, RemoveBackup
<1>8. KeysAreCounted'
  BY DEF Inductive, CleanupBackup, KeysAreCounted, RemoveBackup, Settled, UnderWay
<1> QED
  BY <1>1, <1>2, <1>3, <1>4, <1>5, <1>6, <1>7, <1>8 DEF Inductive, TypeOK

LEMMA CleanupJournalKeeps ==
    ASSUME Inductive, CleanupJournal
    PROVE  Inductive'
<1>1. FilesTypeOK'
  BY DEF Inductive, TypeOK, CleanupJournal, FilesTypeOK
<1>2. SecretsTypeOK'
  BY DEF Inductive, TypeOK, CleanupJournal, SecretsTypeOK
<1>3. ProcessTypeOK'
  BY DEF Inductive, TypeOK, CleanupJournal, ProcessTypeOK, Point
<1>4. ControlAgrees' /\ NewIsEmpty'
  BY DEF Inductive, CleanupJournal, ControlAgrees, NewIsEmpty
<1>5. AtRest'
  BY DEF Inductive, CleanupJournal, AtRest, TypeOK, ControlAgrees, FilesTypeOK,
      SecretsTypeOK, ProcessTypeOK, Point
<1>6. JournalNames' /\ PhaseHolds' /\ PointHolds'
  BY DEF Inductive, CleanupJournal, JournalNames, PhaseHolds, PointHolds, OldVault
<1>7. CompletedIsDone'
  BY DEF Inductive, CleanupJournal, CompletedIsDone
<1>8. KeysAreCounted'
  BY DEF Inductive, CleanupJournal, KeysAreCounted, TypeOK, ControlAgrees, Settled,
      UnderWay, FilesTypeOK, SecretsTypeOK, ProcessTypeOK, Point
<1> QED
  BY <1>1, <1>2, <1>3, <1>4, <1>5, <1>6, <1>7, <1>8 DEF Inductive, TypeOK

LEMMA ConfirmRecoveryKeyKeeps ==
    ASSUME Inductive, ConfirmRecoveryKey
    PROVE  Inductive'
<1>1. FilesTypeOK'
  BY DEF Inductive, TypeOK, ConfirmRecoveryKey, FilesTypeOK
<1>2. SecretsTypeOK'
  BY DEF Inductive, TypeOK, ConfirmRecoveryKey, SecretsTypeOK
<1>3. ProcessTypeOK'
  BY DEF Inductive, TypeOK, ConfirmRecoveryKey, ProcessTypeOK, Point
<1>4. ControlAgrees' /\ NewIsEmpty'
  BY DEF Inductive, ConfirmRecoveryKey, ControlAgrees, NewIsEmpty
<1>5. AtRest'
  BY DEF Inductive, ConfirmRecoveryKey, AtRest
<1>6. JournalNames' /\ PhaseHolds' /\ PointHolds'
  BY DEF Inductive, ConfirmRecoveryKey, JournalNames, PhaseHolds, PointHolds, OldVault
<1>7. CompletedIsDone'
  BY DEF Inductive, ConfirmRecoveryKey, CompletedIsDone, TypeOK, ControlAgrees,
      FilesTypeOK, SecretsTypeOK, ProcessTypeOK, Point
<1>8. KeysAreCounted'
  <2>1. shown' \subseteq 1..used
    <3>1. used \in Nat /\ next \in {used, Convenient} /\ shown \subseteq 1..used
      BY DEF Inductive, ConfirmRecoveryKey, TypeOK, SecretsTypeOK, ControlAgrees, KeysAreCounted
    <3>2. \A k \in shown' : k \in shown \/ (k = next /\ k \in Key)
      BY DEF ConfirmRecoveryKey
    <3>3. \A k \in Key : k = next => k \in 1..used
      BY <3>1
    <3> QED
      BY <3>1, <3>2, <3>3
  <2>2. intent.state = "completed" /\ UNCHANGED <<used, receipts, faults, intent>>
    BY DEF Inductive, ConfirmRecoveryKey, ControlAgrees
  <2>3. Settled' = Settled /\ UnderWay' = UnderWay
    BY <2>2 DEF Settled, UnderWay
  <2> QED
    BY <2>1, <2>2, <2>3 DEF Inductive, KeysAreCounted
<1> QED
  BY <1>1, <1>2, <1>3, <1>4, <1>5, <1>6, <1>7, <1>8 DEF Inductive, TypeOK

LEMMA LaunchKeeps ==
    ASSUME Inductive, Launch
    PROVE  Inductive'
<1>1. FilesTypeOK'
  BY DEF Inductive, TypeOK, Launch, FilesTypeOK
<1>2. SecretsTypeOK'
  BY DEF Inductive, TypeOK, Launch, SecretsTypeOK
<1>3. ProcessTypeOK'
  BY DEF Inductive, TypeOK, Launch, ProcessTypeOK, Point
<1>4. ControlAgrees' /\ NewIsEmpty'
  BY DEF Inductive, Launch, ControlAgrees, NewIsEmpty
<1>5. AtRest'
  BY DEF Inductive, Launch, AtRest
<1>6. JournalNames' /\ PhaseHolds' /\ PointHolds'
  BY DEF Inductive, Launch, JournalNames, PhaseHolds, PointHolds, OldVault
<1>7. CompletedIsDone'
  BY DEF Inductive, Launch, CompletedIsDone
<1>8. KeysAreCounted'
  BY DEF Inductive, Launch, KeysAreCounted, Settled, UnderWay
<1> QED
  BY <1>1, <1>2, <1>3, <1>4, <1>5, <1>6, <1>7, <1>8 DEF Inductive, TypeOK

\* A launch finds no rotation, or a completed one whose receipt it writes.
LEMMA CommitRotationReceiptKeeps ==
    ASSUME Inductive, CommitRotationReceipt
    PROVE  Inductive'
<1>1. /\ pc = "opening"
      /\ UNCHANGED <<blobs, backup, journal, intent, manifest, replica, secrets, plan, next, faults>>
      /\ \/ intent = NoIntent /\ pc' = "open" /\ receipts' = receipts
         \/ /\ intent.state = "completed"
            /\ receipts' = receipts \cup {intent.request}
            /\ pc' = IF journal = NoJournal THEN "tidyIntent" ELSE "tidyBackup"
  <2>1. intent = NoIntent \/ intent.state = "completed"
    BY DEF Inductive, CommitRotationReceipt, TypeOK, FilesTypeOK, ControlAgrees
  <2>2. CASE intent = NoIntent
    BY <2>2 DEF CommitRotationReceipt
  <2>3. CASE intent.state = "completed"
    <3>1. journal = NoJournal \/ Swapped
      BY <2>3 DEF Inductive, CompletedIsDone
    <3> QED
      BY <2>3, <3>1 DEF CommitRotationReceipt
  <2> QED
    BY <2>1, <2>2, <2>3
<1>2. /\ Settled' = Settled /\ UnderWay' = UnderWay
      /\ receipts' = 1..Settled \/ (intent # NoIntent /\ receipts' = 1..(Settled + 1))
  <2>1. CASE intent = NoIntent
    BY <1>1, <2>1 DEF Inductive, KeysAreCounted, Settled, UnderWay
  <2>2. CASE intent.state = "completed"
    <3>1. Settled \in Nat /\ intent.request = Settled + 1 /\ intent # NoIntent
      BY <2>2 DEF Inductive, TypeOK, FilesTypeOK, KeysAreCounted, Settled
    <3>2. receipts' = 1..(Settled + 1)
      <4>1. receipts' = receipts \cup {Settled + 1}
        BY <1>1, <2>2, <3>1
      <4>2. receipts = 1..Settled \/ receipts = 1..(Settled + 1)
        BY DEF Inductive, KeysAreCounted
      <4> QED
        BY <3>1, <4>1, <4>2
    <3> QED
      BY <1>1, <2>2, <3>1, <3>2 DEF Settled, UnderWay
  <2> QED
    BY <1>1, <2>1, <2>2
<1>3. TypeOK'
  <2>1. FilesTypeOK'
    <3>1. receipts' \subseteq 1..MaxRequests
      <4>1. CASE intent = NoIntent
        BY <1>1, <4>1 DEF Inductive, TypeOK, FilesTypeOK
      <4>2. CASE intent # NoIntent
        <5>1. intent.request \in 1..MaxRequests
          BY <4>2 DEF Inductive, TypeOK, FilesTypeOK
        <5> QED
          BY <1>1, <5>1 DEF Inductive, TypeOK, FilesTypeOK
      <4> QED
        BY <4>1, <4>2
    <3> QED
      BY <1>1, <3>1 DEF Inductive, TypeOK, FilesTypeOK
  <2>2. SecretsTypeOK'
    BY <1>1 DEF Inductive, TypeOK, SecretsTypeOK
  <2>3. ProcessTypeOK'
    BY <1>1 DEF Inductive, TypeOK, ProcessTypeOK, Point
  <2> QED
    BY <2>1, <2>2, <2>3 DEF TypeOK
<1>4. ControlAgrees' /\ NewIsEmpty'
  BY <1>1 DEF Inductive, TypeOK, FilesTypeOK, ControlAgrees, NewIsEmpty
<1>5. AtRest'
  BY <1>1 DEF Inductive, TypeOK, FilesTypeOK, ControlAgrees, AtRest
<1>6. JournalNames' /\ PhaseHolds' /\ PointHolds'
  BY <1>1 DEF Inductive, JournalNames, PhaseHolds, PointHolds, OldVault
<1>7. CompletedIsDone'
  BY <1>1 DEF Inductive, CompletedIsDone
<1>8. KeysAreCounted'
  BY <1>1, <1>2 DEF Inductive, KeysAreCounted
<1> QED
  BY <1>3, <1>4, <1>5, <1>6, <1>7, <1>8 DEF Inductive

LEMMA TidyBackupKeeps ==
    ASSUME Inductive, TidyBackup
    PROVE  Inductive'
<1>1. FilesTypeOK'
  BY DEF Inductive, TypeOK, TidyBackup, FilesTypeOK, RemoveBackup
<1>2. SecretsTypeOK'
  BY DEF Inductive, TypeOK, TidyBackup, SecretsTypeOK, RemoveBackup
<1>3. ProcessTypeOK'
  BY DEF Inductive, TypeOK, TidyBackup, ProcessTypeOK, RemoveBackup, Point
<1>4. ControlAgrees' /\ NewIsEmpty'
  BY DEF Inductive, TidyBackup, ControlAgrees, NewIsEmpty, RemoveBackup
<1>5. AtRest'
  BY DEF Inductive, TidyBackup, AtRest, RemoveBackup
<1>6. JournalNames' /\ PhaseHolds' /\ PointHolds'
  BY DEF Inductive, TidyBackup, JournalNames, PhaseHolds, PointHolds, TypeOK,
      ControlAgrees, NewIsEmpty, AtRest, CompletedIsDone, KeysAreCounted, RemoveBackup,
      OldVault, FilesTypeOK, SecretsTypeOK, ProcessTypeOK, Settled, UnderWay, Point
<1>7. CompletedIsDone'
  BY DEF Inductive, TidyBackup, CompletedIsDone, RemoveBackup
<1>8. KeysAreCounted'
  BY DEF Inductive, TidyBackup, KeysAreCounted, RemoveBackup, Settled, UnderWay
<1> QED
  BY <1>1, <1>2, <1>3, <1>4, <1>5, <1>6, <1>7, <1>8 DEF Inductive, TypeOK

LEMMA TidyJournalKeeps ==
    ASSUME Inductive, TidyJournal
    PROVE  Inductive'
<1>1. FilesTypeOK'
  BY DEF Inductive, TypeOK, TidyJournal, FilesTypeOK
<1>2. SecretsTypeOK'
  BY DEF Inductive, TypeOK, TidyJournal, SecretsTypeOK
<1>3. ProcessTypeOK'
  BY DEF Inductive, TypeOK, TidyJournal, ProcessTypeOK, Point
<1>4. ControlAgrees' /\ NewIsEmpty'
  BY DEF Inductive, TidyJournal, ControlAgrees, NewIsEmpty
<1>5. AtRest'
  BY DEF Inductive, TidyJournal, AtRest, TypeOK, ControlAgrees, FilesTypeOK,
      SecretsTypeOK, ProcessTypeOK, Point
<1>6. JournalNames' /\ PhaseHolds' /\ PointHolds'
  BY DEF Inductive, TidyJournal, JournalNames, PhaseHolds, PointHolds, OldVault
<1>7. CompletedIsDone'
  BY DEF Inductive, TidyJournal, CompletedIsDone
<1>8. KeysAreCounted'
  BY DEF Inductive, TidyJournal, KeysAreCounted, TypeOK, ControlAgrees, Settled,
      UnderWay, FilesTypeOK, SecretsTypeOK, ProcessTypeOK, Point
<1> QED
  BY <1>1, <1>2, <1>3, <1>4, <1>5, <1>6, <1>7, <1>8 DEF Inductive, TypeOK

LEMMA TidyIntentKeeps ==
    ASSUME Inductive, TidyIntent
    PROVE  Inductive'
<1>1. FilesTypeOK'
  BY DEF Inductive, TypeOK, TidyIntent, FilesTypeOK
<1>2. SecretsTypeOK'
  BY DEF Inductive, TypeOK, TidyIntent, SecretsTypeOK
<1>3. ProcessTypeOK'
  BY DEF Inductive, TypeOK, TidyIntent, ProcessTypeOK, Point
<1>4. ControlAgrees' /\ NewIsEmpty'
  BY DEF Inductive, TidyIntent, ControlAgrees, NewIsEmpty
<1>5. AtRest'
  BY DEF Inductive, TidyIntent, AtRest, TypeOK, ControlAgrees, NewIsEmpty, JournalNames,
      PhaseHolds, PointHolds, CompletedIsDone, KeysAreCounted, FilesTypeOK,
      SecretsTypeOK, ProcessTypeOK, OldVault, Settled, UnderWay, Point
<1>6. JournalNames' /\ PhaseHolds' /\ PointHolds'
  BY DEF Inductive, TidyIntent, JournalNames, PhaseHolds, PointHolds, TypeOK,
      ControlAgrees, OldVault, FilesTypeOK, SecretsTypeOK, ProcessTypeOK, Point
<1>7. CompletedIsDone'
  BY DEF Inductive, TidyIntent, CompletedIsDone
<1>8. KeysAreCounted'
  <2>1. /\ intent.state = "completed" /\ intent.request \in receipts /\ intent # NoIntent
        /\ intent' = NoIntent /\ UNCHANGED <<receipts, used, faults, shown>>
    BY DEF Inductive, TidyIntent, ControlAgrees, CompletedIsDone
  <2>2. /\ Settled \in Nat /\ intent.request = Settled + 1 /\ intent.request \in 1..MaxRequests
        /\ used \in Nat /\ faults \in Nat /\ used <= 2 + Settled + faults
    BY <2>1 DEF Inductive, TypeOK, FilesTypeOK, SecretsTypeOK, ProcessTypeOK, KeysAreCounted, Settled
  <2>3. receipts = 1..(Settled + 1)
    BY <2>1, <2>2 DEF Inductive, KeysAreCounted
  <2>4. Settled' = Settled + 1
    BY <2>1, <2>2, <2>3, CountOfInterval DEF Settled
  <2>5. /\ Settled' \in 0..MaxRequests /\ receipts' = 1..Settled'
        /\ used' <= 1 + Settled' + faults' /\ used' <= 2 + Settled' + faults'
    BY <2>1, <2>2, <2>3, <2>4
  <2> QED
    BY <2>1, <2>5 DEF Inductive, KeysAreCounted
<1> QED
  BY <1>1, <1>2, <1>3, <1>4, <1>5, <1>6, <1>7, <1>8 DEF Inductive, TypeOK

LEMMA OpenRepositoryKeeps ==
    ASSUME Inductive, OpenRepository
    PROVE  Inductive'
<1>1. FilesTypeOK'
  BY DEF Inductive, TypeOK, OpenRepository, FilesTypeOK
<1>2. SecretsTypeOK'
  BY DEF Inductive, TypeOK, OpenRepository, SecretsTypeOK
<1>3. ProcessTypeOK'
  BY DEF Inductive, TypeOK, OpenRepository, ProcessTypeOK, Point
<1>4. ControlAgrees' /\ NewIsEmpty'
  BY DEF Inductive, OpenRepository, ControlAgrees, NewIsEmpty
<1>5. AtRest'
  BY DEF Inductive, OpenRepository, AtRest
<1>6. JournalNames' /\ PhaseHolds' /\ PointHolds'
  BY DEF Inductive, OpenRepository, JournalNames, PhaseHolds, PointHolds, OldVault
<1>7. CompletedIsDone'
  BY DEF Inductive, OpenRepository, CompletedIsDone
<1>8. KeysAreCounted'
  BY DEF Inductive, OpenRepository, KeysAreCounted, Settled, UnderWay
<1> QED
  BY <1>1, <1>2, <1>3, <1>4, <1>5, <1>6, <1>7, <1>8 DEF Inductive, TypeOK

LEMMA JournalPreparedFailsKeeps ==
    ASSUME Inductive, JournalPreparedFails
    PROVE  Inductive'
<1>1. FilesTypeOK'
  BY DEF Inductive, TypeOK, JournalPreparedFails, FilesTypeOK
<1>2. SecretsTypeOK'
  BY DEF Inductive, TypeOK, JournalPreparedFails, SecretsTypeOK
<1>3. ProcessTypeOK'
  BY DEF Inductive, TypeOK, JournalPreparedFails, ProcessTypeOK, Point
<1>4. ControlAgrees' /\ NewIsEmpty'
  BY DEF Inductive, JournalPreparedFails, ControlAgrees, NewIsEmpty
<1>5. AtRest'
  BY DEF Inductive, JournalPreparedFails, AtRest
<1>6. JournalNames' /\ PhaseHolds' /\ PointHolds'
  BY DEF Inductive, JournalPreparedFails, JournalNames, PhaseHolds, PointHolds, TypeOK,
      ControlAgrees, OldVault, FilesTypeOK, SecretsTypeOK, ProcessTypeOK, Point
<1>7. CompletedIsDone'
  BY DEF Inductive, JournalPreparedFails, CompletedIsDone
<1>8. KeysAreCounted'
  <2>1. /\ pc = "journal" /\ pc' = "down" /\ journal = NoJournal /\ intent.state = "requested"
        /\ faults' = faults + 1 /\ UNCHANGED <<used, receipts, intent, journal, shown>>
    BY DEF Inductive, JournalPreparedFails, ControlAgrees
  <2>2. Settled' = Settled /\ UnderWay /\ ~UnderWay'
    BY <2>1 DEF Settled, UnderWay
  <2>3. used \in Nat /\ faults \in Nat /\ Settled \in Nat
    BY DEF Inductive, TypeOK, SecretsTypeOK, ProcessTypeOK, KeysAreCounted
  <2>4. used <= 1 + Settled + faults' /\ used <= 2 + Settled + faults'
    BY <2>1, <2>2, <2>3 DEF Inductive, KeysAreCounted
  <2> QED
    BY <2>1, <2>2, <2>4 DEF Inductive, KeysAreCounted
<1> QED
  BY <1>1, <1>2, <1>3, <1>4, <1>5, <1>6, <1>7, <1>8 DEF Inductive, TypeOK

LEMMA EndedKeeps ==
    ASSUME Inductive, Ended
    PROVE  Inductive'
<1>1. FilesTypeOK'
  BY DEF Inductive, TypeOK, Ended, FilesTypeOK
<1>2. SecretsTypeOK'
  BY DEF Inductive, TypeOK, Ended, SecretsTypeOK
<1>3. ProcessTypeOK'
  BY DEF Inductive, TypeOK, Ended, ProcessTypeOK, Point
<1>4. ControlAgrees' /\ NewIsEmpty'
  BY DEF Inductive, Ended, ControlAgrees, NewIsEmpty
<1>5. AtRest'
  BY DEF Inductive, Ended, AtRest
<1>6. JournalNames' /\ PhaseHolds' /\ PointHolds'
  BY DEF Inductive, Ended, JournalNames, PhaseHolds, PointHolds, OldVault
<1>7. CompletedIsDone'
  BY DEF Inductive, Ended, CompletedIsDone
<1>8. KeysAreCounted'
  <2>1. /\ pc' = "down" /\ faults' = faults + 1
        /\ UNCHANGED <<used, receipts, intent, journal, shown>>
    BY DEF Ended
  <2>2. Settled' = Settled /\ (UnderWay' => UnderWay)
    BY <2>1 DEF Settled, UnderWay, Attempt
  <2>3. used \in Nat /\ faults \in Nat /\ Settled \in Nat
    BY DEF Inductive, TypeOK, SecretsTypeOK, ProcessTypeOK, KeysAreCounted
  <2>4. used <= 1 + Settled + faults' /\ used <= 2 + Settled + faults'
    BY <2>1, <2>3 DEF Inductive, KeysAreCounted
  <2> QED
    BY <2>1, <2>2, <2>4 DEF Inductive, KeysAreCounted
<1> QED
  BY <1>1, <1>2, <1>3, <1>4, <1>5, <1>6, <1>7, <1>8 DEF Inductive, TypeOK

-----------------------------------------------------------------------------
(* The theorems                                                            *)

LEMMA InitHolds == Init => Inductive
<1> SUFFICES ASSUME Init PROVE Inductive
  OBVIOUS
<1>1. Settled = 0
  BY FS_EmptySet DEF Init, Settled
<1>2. TypeOK
  BY DEF Init, TypeOK, FilesTypeOK, SecretsTypeOK, ProcessTypeOK, Point
<1>3. KeysAreCounted
  BY <1>1 DEF Init, KeysAreCounted, UnderWay
<1> QED
  BY <1>2, <1>3 DEF Init, Inductive, ControlAgrees, NewIsEmpty, AtRest, JournalNames, PhaseHolds,
      PointHolds, CompletedIsDone

LEMMA StutterHolds ==
    ASSUME Inductive, UNCHANGED vars
    PROVE  Inductive'
<1>1. UNCHANGED <<blobs, vault, staged, backup, journal, intent, manifest, replica, receipts,
                  shown, used, plan, pc, next, faults>>
  BY DEF vars
<1>2. KeysAreCounted'
  <2>1. Settled' = Settled /\ UnderWay' = UnderWay
    BY <1>1 DEF Settled, UnderWay
  <2> QED
    BY <1>1, <2>1 DEF Inductive, KeysAreCounted
<1>3. TypeOK' /\ ControlAgrees' /\ NewIsEmpty' /\ AtRest'
  BY <1>1 DEF Inductive, TypeOK, FilesTypeOK, SecretsTypeOK, ProcessTypeOK, ControlAgrees, NewIsEmpty, AtRest
<1>4. JournalNames' /\ PhaseHolds' /\ PointHolds' /\ CompletedIsDone'
  BY <1>1 DEF Inductive, OldVault, JournalNames, PhaseHolds, PointHolds, CompletedIsDone
<1> QED
  BY <1>2, <1>3, <1>4 DEF Inductive

LEMMA NextHolds ==
    ASSUME Inductive, [Next]_vars
    PROVE  Inductive'
<1>1. CASE OneShot
  BY <1>1, BeginRotationKeeps, BeginRefusedKeeps, BackupKeeps, StageProtectedRotationKeeps,
     JournalPreparedKeeps, ResumeRotationKeeps, AlreadyChangedKeeps, NotYetChangedKeeps,
     VerifyOldKeeps, RestoreBlobConfigKeeps, RestoreRepositoryBlobKeeps, RecheckOldKeeps,
     ChangePasswordKeeps, PasswordChangedKeeps, VerifyChangedKeeps,
     CommitStagedProtectedRotationKeeps, JournalSwappedKeeps, VerifySwappedKeeps,
     PublishReplicaManifestKeeps, PublishManifestKeeps, DeleteProtectedKeeps,
     DiscardStagedProtectedRotationKeeps, CompleteKeyRotationIntentKeeps,
     CleanupBackupKeeps, CleanupJournalKeeps, ConfirmRecoveryKeyKeeps
     DEF OneShot
<1>2. CASE Startup
  BY <1>2, LaunchKeeps, CommitRotationReceiptKeeps, TidyBackupKeeps, TidyJournalKeeps,
     TidyIntentKeeps, OpenRepositoryKeeps
     DEF Startup
<1>3. CASE \E target \in Mode : ApplyKeyRotation(target)
  BY <1>3, ApplyKeyRotationKeeps
<1>4. CASE InitializeRepository \/ VaultLost \/ RestoreProtectedRepository
  BY <1>4, InitializeRepositoryKeeps, VaultLostKeeps, RestoreProtectedRepositoryKeeps
<1>5. CASE PreviewKeyRotation \/ Write \/ RotateProtectedRepository
  BY <1>5, PreviewKeyRotationKeeps, WriteKeeps, RotateProtectedRepositoryKeeps
<1>6. CASE CommitRequestReceipt \/ JournalPreparedFails \/ Ended
  BY <1>6, CommitRequestReceiptKeeps, JournalPreparedFailsKeeps, EndedKeeps
<1>7. CASE UNCHANGED vars
  BY <1>7, StutterHolds
<1> QED
  BY <1>1, <1>2, <1>3, <1>4, <1>5, <1>6, <1>7 DEF Next

\* The whole argument: at every point of the onboarding, the rotation and the
\* launches, format blobs, vault, manifests, journal, intent and the user's
\* recovery keys are in one of the combinations the invariant names.
THEOREM InductiveInvariant == Spec => []Inductive
<1>1. Inductive /\ [Next]_vars => Inductive'
  BY NextHolds
<1> QED
  BY InitHolds, <1>1, PTL DEF Spec

\* Nobody is locked out: whatever process ends wherever in a rotation, the
\* repository can be opened again, and a workspace that serves has manifests,
\* vault and the user's recovery key in step (rotateRepositoryMode).
THEOREM NobodyIsLockedOut == Spec => []NeverLockedOut
<1>1. Inductive => Openable
  <2> SUFFICES ASSUME Inductive, pc # "new" PROVE Openable
    BY DEF Openable
  <2>1. CASE journal = NoJournal
    BY <2>1 DEF Inductive, Openable, TypeOK, FilesTypeOK, SecretsTypeOK, ProcessTypeOK, AtRest, CompletedIsDone
  <2>2. CASE journal # NoJournal
    <3>1. journal.phase \in Phase
      BY <2>2 DEF Inductive, TypeOK, FilesTypeOK, SecretsTypeOK, ProcessTypeOK
    <3>2. CASE journal.phase = "prepared"
      <4>1. intent \in IntentRecord
        BY <2>2 DEF Inductive, TypeOK, FilesTypeOK, SecretsTypeOK, ProcessTypeOK, ControlAgrees
      <4>2. Credential(journal.source) = Old
        BY <2>2, <3>1, <3>2, <4>1 DEF Inductive, TypeOK, FilesTypeOK, SecretsTypeOK, ProcessTypeOK, JournalNames, PhaseHolds, OldVault
      <4>3. Old # Absent /\ backup[journal.rotation] = [b \in Blob |-> Old]
        BY <2>2, <3>2, <4>1 DEF Inductive, JournalNames, PhaseHolds
      <4>4. JournalReaches
        BY <3>2, <4>2, <4>3 DEF JournalReaches
      <4> QED
        BY <2>2, <4>4 DEF Openable
    <3>3. CASE journal.phase # "prepared"
      BY <2>2, <3>1, <3>3 DEF Inductive, Openable, JournalReaches, NextPassword, TypeOK, FilesTypeOK, SecretsTypeOK, ProcessTypeOK,
          PhaseHolds, JournalNames, OldVault, CompletedIsDone
    <3> QED
      BY <3>2, <3>3
  <2> QED
    BY <2>1, <2>2
<1>2. Inductive => ServingAgrees
  BY DEF Inductive, ServingAgrees, TypeOK, FilesTypeOK, SecretsTypeOK, ProcessTypeOK, ControlAgrees, AtRest
<1>3. Inductive => NeverLockedOut
  BY <1>1, <1>2 DEF NeverLockedOut
<1> QED
  BY InductiveInvariant, <1>3, PTL

\* A rotation is over only when the password it was asked for under opens the
\* repository no more and its request has a receipt, whichever process wrote it
\* (removeKeyRotationIntent comes last in recoverCompletedKeyRotationReceipt).
THEOREM RequestsAreAnswered == Spec => RequestIsAnswered
<1>1. Inductive /\ [Next]_vars =>
        [intent # NoIntent /\ intent' = NoIntent => Rekeyed /\ intent.request \in receipts]_vars
  <2> SUFFICES ASSUME Inductive, Next, intent # NoIntent, intent' = NoIntent
               PROVE  Rekeyed /\ intent.request \in receipts
    OBVIOUS
  <2>1. TidyIntent
    BY DEF Next, OneShot, Startup, InitializeRepository, VaultLost, RestoreProtectedRepository,
       PreviewKeyRotation, Write, ApplyKeyRotation, CommitRequestReceipt,
       RotateProtectedRepository, BeginRotation, BeginRefused, Backup, StageProtectedRotation,
       JournalPrepared, ResumeRotation, AlreadyChanged, NotYetChanged, VerifyOld,
       RestoreBlobConfig, RestoreRepositoryBlob, RecheckOld, ChangePassword, PasswordChanged,
       VerifyChanged, CommitStagedProtectedRotation, JournalSwapped, VerifySwapped,
       PublishReplicaManifest, PublishManifest, DeleteProtected,
       DiscardStagedProtectedRotation, CompleteKeyRotationIntent, CleanupBackup,
       CleanupJournal, ConfirmRecoveryKey, Launch, CommitRotationReceipt, TidyBackup,
       TidyJournal, OpenRepository, JournalPreparedFails, Ended, Inductive, TypeOK, FilesTypeOK
  <2>2. intent.state = "completed" /\ intent.request \in receipts
    BY <2>1 DEF TidyIntent, Inductive, ControlAgrees, CompletedIsDone
  <2>3. Rekeyed
    BY <2>2 DEF Rekeyed, Inductive, TypeOK, FilesTypeOK, SecretsTypeOK, ProcessTypeOK, CompletedIsDone
  <2> QED
    BY <2>2, <2>3
<1> QED
  BY InductiveInvariant, <1>1, PTL DEF Spec, RequestIsAnswered
=============================================================================
