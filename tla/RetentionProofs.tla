---------------------------- MODULE RetentionProofs ----------------------------
(***************************************************************************)
(* Retention never takes an object that is still named, for any contents,  *)
(* any number of snapshots and any number of crashes.                      *)
(***************************************************************************)
EXTENDS Retention, FiniteSetTheorems, TLAPS

-----------------------------------------------------------------------------
(* The inductive invariant                                                 *)

\* The sweep retires what it found due: it is under the lock of the repository,
\* or no commit has come since its inventory.
Armed == ~RepositoryFree \/ (sweep.pc = "retire" /\ sweep.fresh)

\* What a capture has committed is pinned until it is published or fails, and
\* after the second look it is there; the catalogue has room for it.
Sealed == capture.pc \in {"size", "publish"}
CaptureIsKept ==
    /\ capture.pc \in {"verify", "seal"} \/ Sealed => capture.objs \subseteq pins["capture"]
    /\ capture.pc = "publish" => Present(capture.objs)
    /\ capture.pc # "idle" => Len(catalog) < MaxSnapshots

\* An armed sweep spares what is named and what is about to be: a head that is
\* committed disarms it, a sealed capture was pinned before its inventory.  Of
\* the list it takes only what its inventory found given up.
Spared == history \cup UNION {catalog[i] : i \in Live \ (forsaken \cup sweep.given)}
SweepSpares ==
    /\ Armed => sweep.due \cap Spared = {} /\ save.pc # "head"
    /\ ~RepositoryFree => sweep.given \subseteq forsaken
    /\ Armed /\ Sealed => sweep.due \cap capture.objs = {}
    /\ sweep.pc = "stores" /\ sweep.fresh /\ Sealed => capture.objs \subseteq sweep.view.pinned

Inductive == JournalIsResumable /\ NamedIsReadable /\ CaptureIsKept /\ SweepSpares

-----------------------------------------------------------------------------
(* One lemma per action.  What steps have in common is visible in all of them. *)

USE RetentionAssumption DEF repository, retention, naming, keeping, Moved, Idle, Uncaptured,
    Resting, RepositoryFree, JournalIsResumable, TypeOK

LEMMA RestingIsTyped == sweep' = Resting => SweepTypeOK'
<1>1. (CHOOSE p \in Policy : TRUE) \in Policy
  OBVIOUS
<1> QED
  BY <1>1 DEF SweepTypeOK, NoView, View

\* The pins that a process leaves behind are of objects of the workspace.
LEMMA OrphanedIsTyped ==
    ASSUME TypeOK, NEW objs \in SUBSET Object, NEW snapshots \in SUBSET (1..Len(catalog))
    PROVE  Orphaned(objs, snapshots) \in [{"capture", "reader", "orphan"} -> SUBSET Object]
<1>1. \A i \in snapshots : catalog[i] \subseteq Object
  BY DEF StoresTypeOK
<1>2. UNION {catalog[i] : i \in snapshots} \subseteq Object
  BY <1>1
<1> QED
  BY <1>2 DEF Orphaned, RepositoryTypeOK

LEMMA InventoryIsView ==
    ASSUME TypeOK
    PROVE  Inventory \in View
<1>1. Pending \subseteq Object
  BY DEF Pending, RepositoryTypeOK
<1>2. Inventory.done \subseteq Object
  BY DEF Inventory, RepositoryTypeOK
<1>3. Inventory.pinned \subseteq Object
  <2>1. \A x \in DOMAIN pins : pins[x] \subseteq Object
    BY DEF RepositoryTypeOK
  <2>2. \A i \in Rooted : catalog[i] \subseteq Object
    BY DEF Rooted, StoresTypeOK
  <2>3. UNION {pins[x] : x \in DOMAIN pins} \subseteq Object
    BY <2>1
  <2>4. UNION {catalog[i] : i \in Rooted} \subseteq Object
    BY <2>2
  <2> QED
    BY <2>3, <2>4 DEF Inventory
<1>4. Inventory.intact \in BOOLEAN
  BY DEF Inventory
<1> QED
  BY <1>1, <1>2, <1>3, <1>4 DEF Inventory, View, RepositoryTypeOK

\* A journal that is written again in a later stage stays the only one of its
\* objects and the only one that is pending.
LEMMA RewriteHolds ==
    ASSUME TypeOK, Single, Finished, NEW stage \in Stage, NEW found \in Matching,
           found.stage # "completed" \/ stage = "completed",
           Rewrite(stage), sweep'.due = sweep.due, tomb' = tomb
    PROVE  Single' /\ Finished' /\ \E j \in Matching' : j.stage = stage
<1> DEFINE new == [ids |-> sweep.due, stage |-> stage]
<1>1. /\ new \in journals' /\ new.ids = sweep.due /\ new.stage = stage
      /\ \A j \in journals' : j = new \/ (j \in journals /\ j.ids # sweep.due)
      /\ \A j \in journals : j.ids # sweep.due => j \in journals'
  BY DEF Rewrite
<1>2. found \in journals /\ found.ids = sweep.due
  BY DEF Matching
<1> HIDE DEF new
<1>3. \A j, k \in journals' : j.ids = k.ids => j = k
  BY <1>1 DEF Single
<1>4. \A j, k \in journals' : "completed" \notin {j.stage, k.stage} => j = k
  <2> SUFFICES ASSUME NEW j \in journals', NEW k \in journals', j.stage # "completed",
                      k.stage # "completed"
               PROVE  j = k
    OBVIOUS
  <2>1. CASE j = new /\ k # new
    <3>1. stage # "completed" /\ found.stage # "completed" /\ k \in journals /\ k.ids # sweep.due
      BY <1>1, <2>1
    <3> QED
      BY <1>2, <3>1 DEF Single
  <2>2. CASE k = new /\ j # new
    <3>1. stage # "completed" /\ found.stage # "completed" /\ j \in journals /\ j.ids # sweep.due
      BY <1>1, <2>2
    <3> QED
      BY <1>2, <3>1 DEF Single
  <2>3. CASE j # new /\ k # new
    BY <1>1, <2>3 DEF Single
  <2> QED
    BY <2>1, <2>2, <2>3
<1>5. Finished'
  <2> SUFFICES ASSUME NEW o \in Object, tomb[o] = "maintained"
               PROVE  \E j \in journals' : o \in j.ids /\ j.stage = "completed"
    BY DEF Finished
  <2>1. PICK j \in journals : o \in j.ids /\ j.stage = "completed"
    BY DEF Finished
  <2>2. CASE j.ids # sweep.due
    BY <1>1, <2>1, <2>2
  <2>3. CASE j.ids = sweep.due
    <3>1. stage = "completed"
      BY <1>2, <2>1, <2>3 DEF Single
    <3> QED
      BY <1>1, <2>1, <2>3, <3>1
  <2> QED
    BY <2>2, <2>3
<1>6. new \in Matching'
  BY <1>1 DEF Matching
<1> QED
  BY <1>1, <1>3, <1>4, <1>5, <1>6 DEF Single

LEMMA BeginCaptureKeeps ==
    ASSUME Inductive, BeginCapture
    PROVE  Inductive'
<1>1. RepositoryTypeOK'
  BY DEF Inductive, BeginCapture, RepositoryTypeOK, GateFree, Use, Stage
<1>2. StoresTypeOK'
  BY DEF Inductive, BeginCapture, StoresTypeOK, GateFree, Use, Index
<1>3. PlanTypeOK'
  BY DEF Inductive, BeginCapture, PlanTypeOK, GateFree, Use, Binding, Index, View
<1>4. WritersTypeOK'
  BY DEF Inductive, BeginCapture, WritersTypeOK, GateFree, Use
<1>5. SweepTypeOK'
  BY DEF Inductive, BeginCapture, SweepTypeOK, GateFree, Use, View, Index
<1>6. Single' /\ Stepped' /\ Finished'
  BY DEF Inductive, BeginCapture, Single, Stepped, Finished, GateFree, Use, At, Matching
<1>7. NamedIsReadable'
  BY DEF Inductive, BeginCapture, NamedIsReadable, GateFree, Use, Present, Named, Live
<1>8. CaptureIsKept'
  BY DEF Inductive, BeginCapture, CaptureIsKept, GateFree, Use, Sealed, Present
<1>9. SweepSpares'
  BY DEF Inductive, BeginCapture, SweepSpares, GateFree, Use, Armed, Spared, Sealed,
      Live
<1> QED
  BY <1>1, <1>2, <1>3, <1>4, <1>5, <1>6, <1>7, <1>8, <1>9 DEF Inductive

LEMMA CommitObjectsKeeps ==
    ASSUME Inductive, CommitObjects
    PROVE  Inductive'
<1>1. RepositoryTypeOK'
  BY DEF Inductive, CommitObjects, RepositoryTypeOK, WritersTypeOK, SweepTypeOK, Commit,
      Stage, View, Index, Outdated
<1>2. StoresTypeOK'
  BY DEF Inductive, CommitObjects, StoresTypeOK, Commit, Index, Outdated
<1>3. PlanTypeOK'
  BY DEF Inductive, CommitObjects, PlanTypeOK, Commit, Binding, Index, View, Outdated
<1>4. WritersTypeOK'
  BY DEF Inductive, CommitObjects, WritersTypeOK, Commit, Outdated
<1>5. SweepTypeOK'
  BY DEF Inductive, CommitObjects, SweepTypeOK, Commit, View, Index, Outdated
<1>6. Single' /\ Stepped' /\ Finished'
  BY DEF Inductive, CommitObjects, Single, Stepped, Finished, Commit, At, Matching,
      Outdated
<1>7. NamedIsReadable'
  BY DEF Inductive, CommitObjects, NamedIsReadable, Commit, Present, Named, Live,
      Outdated
<1>8. CaptureIsKept'
  BY DEF Inductive, CommitObjects, CaptureIsKept, Commit, Sealed, Present, Outdated
<1>9. SweepSpares'
  BY DEF Inductive, CommitObjects, SweepSpares, Commit, Armed, Spared, Sealed, Live,
      Outdated
<1> QED
  BY <1>1, <1>2, <1>3, <1>4, <1>5, <1>6, <1>7, <1>8, <1>9 DEF Inductive

LEMMA PinCaptureKeeps ==
    ASSUME Inductive, PinCapture
    PROVE  Inductive'
<1>1. RepositoryTypeOK'
  BY DEF Inductive, PinCapture, RepositoryTypeOK, Stage
<1>2. StoresTypeOK'
  BY DEF Inductive, PinCapture, StoresTypeOK, Index
<1>3. PlanTypeOK'
  BY DEF Inductive, PinCapture, PlanTypeOK, Binding, Index, View
<1>4. WritersTypeOK'
  BY DEF Inductive, PinCapture, WritersTypeOK
<1>5. SweepTypeOK'
  BY DEF Inductive, PinCapture, SweepTypeOK, View, Index
<1>6. Single' /\ Stepped' /\ Finished'
  BY DEF Inductive, PinCapture, Single, Stepped, Finished, At, Matching
<1>7. NamedIsReadable'
  BY DEF Inductive, PinCapture, NamedIsReadable, Present, Named, Live
<1>8. CaptureIsKept'
  BY DEF Inductive, PinCapture, CaptureIsKept, RepositoryTypeOK, WritersTypeOK,
      SweepTypeOK, Sealed, Present, Stage, View, Index
<1>9. SweepSpares'
  BY DEF Inductive, PinCapture, SweepSpares, Armed, Spared, Sealed, Live
<1> QED
  BY <1>1, <1>2, <1>3, <1>4, <1>5, <1>6, <1>7, <1>8, <1>9 DEF Inductive

LEMMA VerifyCaptureKeeps ==
    ASSUME Inductive, VerifyCapture
    PROVE  Inductive'
<1>1. RepositoryTypeOK'
  BY DEF Inductive, VerifyCapture, RepositoryTypeOK, Present, Stage
<1>2. StoresTypeOK'
  BY DEF Inductive, VerifyCapture, StoresTypeOK, Present, Index
<1>3. PlanTypeOK'
  BY DEF Inductive, VerifyCapture, PlanTypeOK, Present, Binding, Index, View
<1>4. WritersTypeOK'
  BY DEF Inductive, VerifyCapture, WritersTypeOK, Present
<1>5. SweepTypeOK'
  BY DEF Inductive, VerifyCapture, SweepTypeOK, Present, View, Index
<1>6. Single' /\ Stepped' /\ Finished'
  BY DEF Inductive, VerifyCapture, Single, Stepped, Finished, Present, At, Matching
<1>7. NamedIsReadable'
  BY DEF Inductive, VerifyCapture, NamedIsReadable, Present, Named, Live
<1>8. CaptureIsKept'
  BY DEF Inductive, VerifyCapture, CaptureIsKept, Present, Sealed
<1>9. SweepSpares'
  BY DEF Inductive, VerifyCapture, SweepSpares, Present, Armed, Spared, Sealed, Live
<1> QED
  BY <1>1, <1>2, <1>3, <1>4, <1>5, <1>6, <1>7, <1>8, <1>9 DEF Inductive

LEMMA SealKeeps ==
    ASSUME Inductive, Seal
    PROVE  Inductive'
<1>1. RepositoryTypeOK'
  BY DEF Inductive, Seal, RepositoryTypeOK, Commit, Stage, Outdated
<1>2. StoresTypeOK'
  BY DEF Inductive, Seal, StoresTypeOK, Commit, Index, Outdated
<1>3. PlanTypeOK'
  BY DEF Inductive, Seal, PlanTypeOK, Commit, Binding, Index, View, Outdated
<1>4. WritersTypeOK'
  BY DEF Inductive, Seal, WritersTypeOK, Commit, Outdated
<1>5. SweepTypeOK'
  BY DEF Inductive, Seal, SweepTypeOK, Commit, View, Index, Outdated
<1>6. Single' /\ Stepped' /\ Finished'
  BY DEF Inductive, Seal, Single, Stepped, Finished, Commit, At, Matching, Outdated
<1>7. NamedIsReadable'
  BY DEF Inductive, Seal, NamedIsReadable, Commit, Present, Named, Live, Outdated
<1>8. CaptureIsKept'
  BY DEF Inductive, Seal, CaptureIsKept, Commit, Sealed, Present, Outdated
<1>9. SweepSpares'
  BY DEF Inductive, Seal, SweepSpares, Commit, Armed, Spared, Sealed, Live, Outdated
<1> QED
  BY <1>1, <1>2, <1>3, <1>4, <1>5, <1>6, <1>7, <1>8, <1>9 DEF Inductive

LEMMA MeasureKeeps ==
    ASSUME Inductive, Measure
    PROVE  Inductive'
<1>1. RepositoryTypeOK'
  BY DEF Inductive, Measure, RepositoryTypeOK, Present, Stage
<1>2. StoresTypeOK'
  BY DEF Inductive, Measure, StoresTypeOK, Present, Index
<1>3. PlanTypeOK'
  BY DEF Inductive, Measure, PlanTypeOK, Present, Binding, Index, View
<1>4. WritersTypeOK'
  BY DEF Inductive, Measure, WritersTypeOK, Present
<1>5. SweepTypeOK'
  BY DEF Inductive, Measure, SweepTypeOK, Present, View, Index
<1>6. Single' /\ Stepped' /\ Finished'
  BY DEF Inductive, Measure, Single, Stepped, Finished, Present, At, Matching
<1>7. NamedIsReadable'
  BY DEF Inductive, Measure, NamedIsReadable, Present, Named, Live
<1>8. CaptureIsKept'
  BY DEF Inductive, Measure, CaptureIsKept, Present, Sealed
<1>9. SweepSpares'
  BY DEF Inductive, Measure, SweepSpares, Present, Armed, Spared, Sealed, Live
<1> QED
  BY <1>1, <1>2, <1>3, <1>4, <1>5, <1>6, <1>7, <1>8, <1>9 DEF Inductive

LEMMA PublishKeeps ==
    ASSUME Inductive, Publish
    PROVE  Inductive'
<1>1. RepositoryTypeOK'
  BY DEF Inductive, Publish, RepositoryTypeOK, Stage
<1>2. StoresTypeOK'
  BY DEF Inductive, Publish, StoresTypeOK, RepositoryTypeOK, WritersTypeOK, SweepTypeOK,
      Stepped, Single, SweepSpares, CaptureIsKept, Index, Stage, View, At, Armed,
      Spared, Sealed, Present, Matching, Live
<1>3. PlanTypeOK'
  BY DEF Inductive, Publish, PlanTypeOK, Binding, Index, View
<1>4. WritersTypeOK'
  BY DEF Inductive, Publish, WritersTypeOK
<1>5. SweepTypeOK'
  BY DEF Inductive, Publish, SweepTypeOK, View, Index
<1>6. Single' /\ Stepped' /\ Finished'
  BY DEF Inductive, Publish, Single, Stepped, Finished, At, Matching
<1>7. NamedIsReadable'
  BY DEF Inductive, Publish, NamedIsReadable, RepositoryTypeOK, WritersTypeOK,
      SweepTypeOK, Stepped, Single, SweepSpares, CaptureIsKept, StoresTypeOK, Present,
      Named, Stage, View, Index, At, Armed, Spared, Sealed, Live, Matching
<1>8. CaptureIsKept'
  BY DEF Inductive, Publish, CaptureIsKept, Sealed, Present
<1>9. SweepSpares'
  BY DEF Inductive, Publish, SweepSpares, Armed, Spared, Sealed, Live
<1> QED
  BY <1>1, <1>2, <1>3, <1>4, <1>5, <1>6, <1>7, <1>8, <1>9 DEF Inductive

LEMMA CaptureFailsKeeps ==
    ASSUME Inductive, CaptureFails
    PROVE  Inductive'
<1>1. RepositoryTypeOK'
  BY DEF Inductive, CaptureFails, RepositoryTypeOK, Present, Fault, Stage
<1>2. StoresTypeOK'
  BY DEF Inductive, CaptureFails, StoresTypeOK, Present, Fault, Index
<1>3. PlanTypeOK'
  BY DEF Inductive, CaptureFails, PlanTypeOK, Present, Fault, Binding, Index, View
<1>4. WritersTypeOK'
  BY DEF Inductive, CaptureFails, WritersTypeOK, Present, Fault
<1>5. SweepTypeOK'
  BY DEF Inductive, CaptureFails, SweepTypeOK, Present, Fault, View, Index
<1>6. Single' /\ Stepped' /\ Finished'
  BY DEF Inductive, CaptureFails, Single, Stepped, Finished, Present, Fault, At,
      Matching
<1>7. NamedIsReadable'
  BY DEF Inductive, CaptureFails, NamedIsReadable, Present, Fault, Named, Live
<1>8. CaptureIsKept'
  BY DEF Inductive, CaptureFails, CaptureIsKept, Present, Fault, Sealed
<1>9. SweepSpares'
  BY DEF Inductive, CaptureFails, SweepSpares, Present, Fault, Armed, Spared, Sealed,
      Live
<1> QED
  BY <1>1, <1>2, <1>3, <1>4, <1>5, <1>6, <1>7, <1>8, <1>9 DEF Inductive

LEMMA BeginSaveKeeps ==
    ASSUME Inductive, BeginSave
    PROVE  Inductive'
<1>1. RepositoryTypeOK'
  BY DEF Inductive, BeginSave, RepositoryTypeOK, GateFree, Use, Stage
<1>2. StoresTypeOK'
  BY DEF Inductive, BeginSave, StoresTypeOK, GateFree, Use, Index
<1>3. PlanTypeOK'
  BY DEF Inductive, BeginSave, PlanTypeOK, GateFree, Use, Binding, Index, View
<1>4. WritersTypeOK'
  BY DEF Inductive, BeginSave, WritersTypeOK, GateFree, Use
<1>5. SweepTypeOK'
  BY DEF Inductive, BeginSave, SweepTypeOK, GateFree, Use, View, Index
<1>6. Single' /\ Stepped' /\ Finished'
  BY DEF Inductive, BeginSave, Single, Stepped, Finished, GateFree, Use, At, Matching
<1>7. NamedIsReadable'
  BY DEF Inductive, BeginSave, NamedIsReadable, GateFree, Use, Present, Named, Live
<1>8. CaptureIsKept'
  BY DEF Inductive, BeginSave, CaptureIsKept, GateFree, Use, Sealed, Present
<1>9. SweepSpares'
  BY DEF Inductive, BeginSave, SweepSpares, GateFree, Use, Armed, Spared, Sealed, Live
<1> QED
  BY <1>1, <1>2, <1>3, <1>4, <1>5, <1>6, <1>7, <1>8, <1>9 DEF Inductive

LEMMA CommitContentKeeps ==
    ASSUME Inductive, CommitContent
    PROVE  Inductive'
<1>1. RepositoryTypeOK'
  BY DEF Inductive, CommitContent, RepositoryTypeOK, WritersTypeOK, SweepTypeOK, Commit,
      Stage, View, Index, Outdated
<1>2. StoresTypeOK'
  BY DEF Inductive, CommitContent, StoresTypeOK, Commit, Index, Outdated
<1>3. PlanTypeOK'
  BY DEF Inductive, CommitContent, PlanTypeOK, Commit, Binding, Index, View, Outdated
<1>4. WritersTypeOK'
  BY DEF Inductive, CommitContent, WritersTypeOK, Commit, Outdated
<1>5. SweepTypeOK'
  BY DEF Inductive, CommitContent, SweepTypeOK, Commit, View, Index, Outdated
<1>6. Single' /\ Stepped' /\ Finished'
  BY DEF Inductive, CommitContent, Single, Stepped, Finished, Commit, At, Matching,
      Outdated
<1>7. NamedIsReadable'
  BY DEF Inductive, CommitContent, NamedIsReadable, Commit, Present, Named, Live,
      Outdated
<1>8. CaptureIsKept'
  BY DEF Inductive, CommitContent, CaptureIsKept, Commit, Sealed, Present, Outdated
<1>9. SweepSpares'
  BY DEF Inductive, CommitContent, SweepSpares, Commit, Armed, Spared, Sealed, Live,
      Outdated
<1> QED
  BY <1>1, <1>2, <1>3, <1>4, <1>5, <1>6, <1>7, <1>8, <1>9 DEF Inductive

LEMMA PublishHeadKeeps ==
    ASSUME Inductive, PublishHead
    PROVE  Inductive'
<1>1. RepositoryTypeOK'
  BY DEF Inductive, PublishHead, RepositoryTypeOK, Present, Stage
<1>2. StoresTypeOK'
  BY DEF Inductive, PublishHead, StoresTypeOK, RepositoryTypeOK, WritersTypeOK,
      SweepTypeOK, Present, Index, Stage, View
<1>3. PlanTypeOK'
  BY DEF Inductive, PublishHead, PlanTypeOK, Present, Binding, Index, View
<1>4. WritersTypeOK'
  BY DEF Inductive, PublishHead, WritersTypeOK, Present
<1>5. SweepTypeOK'
  BY DEF Inductive, PublishHead, SweepTypeOK, Present, View, Index
<1>6. Single' /\ Stepped' /\ Finished'
  BY DEF Inductive, PublishHead, Single, Stepped, Finished, Present, At, Matching
<1>7. NamedIsReadable'
  BY DEF Inductive, PublishHead, NamedIsReadable, Present, Named, Live
<1>8. CaptureIsKept'
  BY DEF Inductive, PublishHead, CaptureIsKept, Present, Sealed
<1>9. SweepSpares'
  BY DEF Inductive, PublishHead, SweepSpares, Present, Armed, Spared, Sealed, Live
<1> QED
  BY <1>1, <1>2, <1>3, <1>4, <1>5, <1>6, <1>7, <1>8, <1>9 DEF Inductive

LEMMA SaveFailsKeeps ==
    ASSUME Inductive, SaveFails
    PROVE  Inductive'
<1>1. RepositoryTypeOK'
  BY DEF Inductive, SaveFails, RepositoryTypeOK, Fault, Present, Stage
<1>2. StoresTypeOK'
  BY DEF Inductive, SaveFails, StoresTypeOK, Fault, Present, Index
<1>3. PlanTypeOK'
  BY DEF Inductive, SaveFails, PlanTypeOK, Fault, Present, Binding, Index, View
<1>4. WritersTypeOK'
  BY DEF Inductive, SaveFails, WritersTypeOK, Fault, Present
<1>5. SweepTypeOK'
  BY DEF Inductive, SaveFails, SweepTypeOK, Fault, Present, View, Index
<1>6. Single' /\ Stepped' /\ Finished'
  BY DEF Inductive, SaveFails, Single, Stepped, Finished, Fault, Present, At, Matching
<1>7. NamedIsReadable'
  BY DEF Inductive, SaveFails, NamedIsReadable, Fault, Present, Named, Live
<1>8. CaptureIsKept'
  BY DEF Inductive, SaveFails, CaptureIsKept, Fault, Present, Sealed
<1>9. SweepSpares'
  BY DEF Inductive, SaveFails, SweepSpares, Fault, Present, Armed, Spared, Sealed, Live
<1> QED
  BY <1>1, <1>2, <1>3, <1>4, <1>5, <1>6, <1>7, <1>8, <1>9 DEF Inductive

LEMMA PinReaderKeeps ==
    ASSUME Inductive, PinReader
    PROVE  Inductive'
<1>1. RepositoryTypeOK'
  BY DEF Inductive, PinReader, RepositoryTypeOK, Use, Stage
<1>2. StoresTypeOK'
  BY DEF Inductive, PinReader, StoresTypeOK, Use, Index
<1>3. PlanTypeOK'
  BY DEF Inductive, PinReader, PlanTypeOK, Use, Binding, Index, View
<1>4. WritersTypeOK'
  BY DEF Inductive, PinReader, WritersTypeOK, Use
<1>5. SweepTypeOK'
  BY DEF Inductive, PinReader, SweepTypeOK, Use, View, Index
<1>6. Single' /\ Stepped' /\ Finished'
  BY DEF Inductive, PinReader, Single, Stepped, Finished, Use, At, Matching
<1>7. NamedIsReadable'
  BY DEF Inductive, PinReader, NamedIsReadable, Use, Present, Named, Live
<1>8. CaptureIsKept'
  BY DEF Inductive, PinReader, CaptureIsKept, Use, Sealed, Present
<1>9. SweepSpares'
  BY DEF Inductive, PinReader, SweepSpares, Use, Armed, Spared, Sealed, Live
<1> QED
  BY <1>1, <1>2, <1>3, <1>4, <1>5, <1>6, <1>7, <1>8, <1>9 DEF Inductive

LEMMA ReleaseReaderKeeps ==
    ASSUME Inductive, ReleaseReader
    PROVE  Inductive'
<1>1. RepositoryTypeOK'
  BY DEF Inductive, ReleaseReader, RepositoryTypeOK, Stage
<1>2. StoresTypeOK'
  BY DEF Inductive, ReleaseReader, StoresTypeOK, Index
<1>3. PlanTypeOK'
  BY DEF Inductive, ReleaseReader, PlanTypeOK, Binding, Index, View
<1>4. WritersTypeOK'
  BY DEF Inductive, ReleaseReader, WritersTypeOK
<1>5. SweepTypeOK'
  BY DEF Inductive, ReleaseReader, SweepTypeOK, View, Index
<1>6. Single' /\ Stepped' /\ Finished'
  BY DEF Inductive, ReleaseReader, Single, Stepped, Finished, At, Matching
<1>7. NamedIsReadable'
  BY DEF Inductive, ReleaseReader, NamedIsReadable, Present, Named, Live
<1>8. CaptureIsKept'
  BY DEF Inductive, ReleaseReader, CaptureIsKept, Sealed, Present
<1>9. SweepSpares'
  BY DEF Inductive, ReleaseReader, SweepSpares, Armed, Spared, Sealed, Live
<1> QED
  BY <1>1, <1>2, <1>3, <1>4, <1>5, <1>6, <1>7, <1>8, <1>9 DEF Inductive

LEMMA PinReplacementKeeps ==
    ASSUME Inductive, PinReplacement
    PROVE  Inductive'
<1>1. RepositoryTypeOK'
  BY DEF Inductive, PinReplacement, RepositoryTypeOK, DispatcherFree, Use, Live, Stage
<1>2. StoresTypeOK'
  BY DEF Inductive, PinReplacement, StoresTypeOK, DispatcherFree, Use, Live, Index
<1>3. PlanTypeOK'
  BY DEF Inductive, PinReplacement, PlanTypeOK, DispatcherFree, Use, Live, Binding,
      Index, View
<1>4. WritersTypeOK'
  BY DEF Inductive, PinReplacement, WritersTypeOK, RepositoryTypeOK, SweepTypeOK,
      Stepped, Single, SweepSpares, CaptureIsKept, StoresTypeOK, DispatcherFree, Use,
      Live, Stage, View, Index, At, Armed, Spared, Sealed, Present, Matching
<1>5. SweepTypeOK'
  BY DEF Inductive, PinReplacement, SweepTypeOK, DispatcherFree, Use, Live, View, Index
<1>6. Single' /\ Stepped' /\ Finished'
  BY DEF Inductive, PinReplacement, Single, Stepped, Finished, DispatcherFree, Use,
      Live, At, Matching
<1>7. NamedIsReadable'
  BY DEF Inductive, PinReplacement, NamedIsReadable, DispatcherFree, Use, Live, Present,
      Named
<1>8. CaptureIsKept'
  BY DEF Inductive, PinReplacement, CaptureIsKept, DispatcherFree, Use, Live, Sealed,
      Present
<1>9. SweepSpares'
  BY DEF Inductive, PinReplacement, SweepSpares, DispatcherFree, Use, Live, Armed,
      Spared, Sealed
<1> QED
  BY <1>1, <1>2, <1>3, <1>4, <1>5, <1>6, <1>7, <1>8, <1>9 DEF Inductive

LEMMA RecordPinnedKeeps ==
    ASSUME Inductive, RecordPinned
    PROVE  Inductive'
<1>1. RepositoryTypeOK'
  <2>1. pins' \in {pins, Orphaned({}, {update})}
    BY DEF RecordPinned
  <2>2. update \in 1..Len(catalog)
    BY DEF Inductive, RecordPinned, WritersTypeOK, StoresTypeOK
  <2>3. Orphaned({}, {update}) \in [{"capture", "reader", "orphan"} -> SUBSET Object]
    BY <2>2, OrphanedIsTyped DEF Inductive
  <2> QED
    BY <2>1, <2>3 DEF Inductive, RecordPinned, RepositoryTypeOK
<1>2. StoresTypeOK'
  BY DEF Inductive, RecordPinned, StoresTypeOK, RepositoryTypeOK, WritersTypeOK,
      SweepTypeOK, GateFree, Fault, Orphaned, Index, Stage, View
<1>3. PlanTypeOK'
  BY DEF Inductive, RecordPinned, PlanTypeOK, GateFree, Fault, Orphaned, Binding, Index,
      View
<1>4. WritersTypeOK'
  BY DEF Inductive, RecordPinned, WritersTypeOK, GateFree, Fault, Orphaned
<1>5. SweepTypeOK'
  BY DEF Inductive, RecordPinned, SweepTypeOK, GateFree, Fault, Orphaned, View, Index
<1>6. Single' /\ Stepped' /\ Finished'
  BY DEF Inductive, RecordPinned, Single, Stepped, Finished, GateFree, Fault, Orphaned,
      At, Matching
<1>7. NamedIsReadable'
  BY DEF Inductive, RecordPinned, NamedIsReadable, GateFree, Fault, Orphaned, Present,
      Named, Live
<1>8. CaptureIsKept'
  BY DEF Inductive, RecordPinned, CaptureIsKept, GateFree, Fault, Orphaned, Sealed,
      Present
<1>9. SweepSpares'
  BY DEF Inductive, RecordPinned, SweepSpares, GateFree, Fault, Orphaned, Armed, Spared,
      Sealed, Live
<1> QED
  BY <1>1, <1>2, <1>3, <1>4, <1>5, <1>6, <1>7, <1>8, <1>9 DEF Inductive

LEMMA UpdateFailsKeeps ==
    ASSUME Inductive, UpdateFails
    PROVE  Inductive'
<1>1. RepositoryTypeOK'
  BY DEF Inductive, UpdateFails, RepositoryTypeOK, Fault, Stage
<1>2. StoresTypeOK'
  BY DEF Inductive, UpdateFails, StoresTypeOK, Fault, Index
<1>3. PlanTypeOK'
  BY DEF Inductive, UpdateFails, PlanTypeOK, Fault, Binding, Index, View
<1>4. WritersTypeOK'
  BY DEF Inductive, UpdateFails, WritersTypeOK, Fault
<1>5. SweepTypeOK'
  BY DEF Inductive, UpdateFails, SweepTypeOK, Fault, View, Index
<1>6. Single' /\ Stepped' /\ Finished'
  BY DEF Inductive, UpdateFails, Single, Stepped, Finished, Fault, At, Matching
<1>7. NamedIsReadable'
  BY DEF Inductive, UpdateFails, NamedIsReadable, Fault, Present, Named, Live
<1>8. CaptureIsKept'
  BY DEF Inductive, UpdateFails, CaptureIsKept, Fault, Sealed, Present
<1>9. SweepSpares'
  BY DEF Inductive, UpdateFails, SweepSpares, Fault, Armed, Spared, Sealed, Live
<1> QED
  BY <1>1, <1>2, <1>3, <1>4, <1>5, <1>6, <1>7, <1>8, <1>9 DEF Inductive

LEMMA UpdateRetentionKeeps ==
    ASSUME Inductive, UpdateRetention
    PROVE  Inductive'
<1>1. RepositoryTypeOK'
  BY DEF Inductive, UpdateRetention, RepositoryTypeOK, DispatcherFree, GateFree, Use,
      Stage
<1>2. StoresTypeOK'
  BY DEF Inductive, UpdateRetention, StoresTypeOK, DispatcherFree, GateFree, Use, Index
<1>3. PlanTypeOK'
  BY DEF Inductive, UpdateRetention, PlanTypeOK, DispatcherFree, GateFree, Use, Binding,
      Index, View
<1>4. WritersTypeOK'
  BY DEF Inductive, UpdateRetention, WritersTypeOK, DispatcherFree, GateFree, Use
<1>5. SweepTypeOK'
  BY DEF Inductive, UpdateRetention, SweepTypeOK, DispatcherFree, GateFree, Use, View,
      Index
<1>6. Single' /\ Stepped' /\ Finished'
  BY DEF Inductive, UpdateRetention, Single, Stepped, Finished, DispatcherFree,
      GateFree, Use, At, Matching
<1>7. NamedIsReadable'
  BY DEF Inductive, UpdateRetention, NamedIsReadable, DispatcherFree, GateFree, Use,
      Present, Named, Live
<1>8. CaptureIsKept'
  BY DEF Inductive, UpdateRetention, CaptureIsKept, DispatcherFree, GateFree, Use,
      Sealed, Present
<1>9. SweepSpares'
  BY DEF Inductive, UpdateRetention, SweepSpares, DispatcherFree, GateFree, Use, Armed,
      Spared, Sealed, Live
<1> QED
  BY <1>1, <1>2, <1>3, <1>4, <1>5, <1>6, <1>7, <1>8, <1>9 DEF Inductive

LEMMA PlanKeeps ==
    ASSUME Inductive, Plan
    PROVE  Inductive'
<1>1. RepositoryTypeOK'
  BY DEF Inductive, Plan, RepositoryTypeOK, DispatcherFree, HistoryFree, Corrupt, Safe,
      Inventory, Garbage, Digest, Retained, Stage, CorruptIndex, Unmaintained, Nodes,
      Pending, Rooted, Protected, Live
<1>2. StoresTypeOK'
  BY DEF Inductive, Plan, StoresTypeOK, DispatcherFree, HistoryFree, Corrupt, Safe,
      Inventory, Garbage, Digest, Retained, Index, CorruptIndex, Unmaintained, Nodes,
      Pending, Rooted, Protected, Live
<1>3. PlanTypeOK'
  <2> DEFINE v == Inventory
  <2>1. v \in View
    BY InventoryIsView DEF Inductive
  <2>2. /\ Unmaintained \subseteq Object /\ history \subseteq Object /\ policy \in Policy
        /\ Live \subseteq Index /\ Retained(policy) \subseteq Index
    BY DEF Inductive, Unmaintained, StoresTypeOK, Live, Retained, Index
  <2> HIDE DEF v
  <2>3. Digest(v) \in Binding
    BY <2>1, <2>2 DEF Digest, Binding
  <2>4. Garbage(v, policy) \subseteq Object
    BY <2>1, <2>2 DEF Garbage, Nodes, View
  <2> QED
    BY <2>2, <2>3, <2>4 DEF Plan, PlanTypeOK, v
<1>4. WritersTypeOK'
  BY DEF Inductive, Plan, WritersTypeOK, DispatcherFree, HistoryFree, Corrupt, Safe,
      Inventory, Garbage, Digest, Retained, CorruptIndex, Unmaintained, Nodes, Pending,
      Rooted, Protected, Live
<1>5. SweepTypeOK'
  BY DEF Inductive, Plan, SweepTypeOK, DispatcherFree, HistoryFree, Corrupt, Safe,
      Inventory, Garbage, Digest, Retained, View, Index, CorruptIndex, Unmaintained,
      Nodes, Pending, Rooted, Protected, Live
<1>6. Single' /\ Stepped' /\ Finished'
  BY DEF Inductive, Plan, Single, Stepped, Finished, DispatcherFree, HistoryFree,
      Corrupt, Safe, Inventory, Garbage, Digest, Retained, At, CorruptIndex,
      Unmaintained, Nodes, Pending, Rooted, Protected, Live, Matching
<1>7. NamedIsReadable'
  BY DEF Inductive, Plan, NamedIsReadable, DispatcherFree, HistoryFree, Corrupt, Safe,
      Inventory, Garbage, Digest, Retained, Present, Named, CorruptIndex, Unmaintained,
      Nodes, Pending, Rooted, Protected, Live
<1>8. CaptureIsKept'
  BY DEF Inductive, Plan, CaptureIsKept, DispatcherFree, HistoryFree, Corrupt, Safe,
      Inventory, Garbage, Digest, Retained, Sealed, Present, CorruptIndex, Unmaintained,
      Nodes, Pending, Rooted, Protected, Live
<1>9. SweepSpares'
  BY DEF Inductive, Plan, SweepSpares, DispatcherFree, HistoryFree, Corrupt, Safe,
      Inventory, Garbage, Digest, Retained, Armed, Spared, Sealed, CorruptIndex,
      Unmaintained, Nodes, Pending, Rooted, Protected, Live
<1> QED
  BY <1>1, <1>2, <1>3, <1>4, <1>5, <1>6, <1>7, <1>8, <1>9 DEF Inductive

LEMMA ApplyKeeps ==
    ASSUME Inductive, Apply
    PROVE  Inductive'
<1>1. RepositoryTypeOK'
  BY DEF Inductive, Apply, RepositoryTypeOK, DispatcherFree, GateFree, Corrupt, Safe,
      Inventory, Digest, Retained, Garbage, Tombstone, Stage, CorruptIndex,
      Unmaintained, Nodes, Pending, Rooted, Live, Protected
<1>2. StoresTypeOK'
  BY DEF Inductive, Apply, StoresTypeOK, DispatcherFree, GateFree, Corrupt, Safe,
      Inventory, Digest, Retained, Garbage, Tombstone, Index, CorruptIndex,
      Unmaintained, Nodes, Pending, Rooted, Live, Protected
<1>3. PlanTypeOK'
  BY DEF Inductive, Apply, PlanTypeOK, DispatcherFree, GateFree, Corrupt, Safe,
      Inventory, Digest, Retained, Garbage, Tombstone, Binding, Index, CorruptIndex,
      Unmaintained, Nodes, Pending, Rooted, Live, Protected, View
<1>4. WritersTypeOK'
  BY DEF Inductive, Apply, WritersTypeOK, DispatcherFree, GateFree, Corrupt, Safe,
      Inventory, Digest, Retained, Garbage, Tombstone, CorruptIndex, Unmaintained,
      Nodes, Pending, Rooted, Live, Protected
<1>5. SweepTypeOK'
  BY DEF Inductive, Apply, SweepTypeOK, DispatcherFree, GateFree, Corrupt, Safe,
      Inventory, Digest, Retained, Garbage, Tombstone, View, Index, CorruptIndex,
      Unmaintained, Nodes, Pending, Rooted, Live, Protected
<1>6. Single' /\ Stepped' /\ Finished'
  BY DEF Inductive, Apply, Single, Stepped, Finished, RepositoryTypeOK, WritersTypeOK,
      SweepTypeOK, DispatcherFree, GateFree, Corrupt, Safe, Inventory, Digest, Retained,
      Garbage, Tombstone, At, Stage, View, Index, CorruptIndex, Unmaintained, Nodes,
      Pending, Rooted, Live, Protected, Matching
<1>7. NamedIsReadable'
  BY DEF Inductive, Apply, NamedIsReadable, DispatcherFree, GateFree, Corrupt, Safe,
      Inventory, Digest, Retained, Garbage, Tombstone, Present, Named, CorruptIndex,
      Unmaintained, Nodes, Pending, Rooted, Live, Protected
<1>8. CaptureIsKept'
  BY DEF Inductive, Apply, CaptureIsKept, DispatcherFree, GateFree, Corrupt, Safe,
      Inventory, Digest, Retained, Garbage, Tombstone, Sealed, Present, CorruptIndex,
      Unmaintained, Nodes, Pending, Rooted, Live, Protected
<1>9. SweepSpares'
  BY DEF Inductive, Apply, SweepSpares, DispatcherFree, GateFree, Corrupt, Safe,
      Inventory, Digest, Retained, Garbage, Tombstone, Armed, Spared, Sealed,
      CorruptIndex, Unmaintained, Nodes, Pending, Rooted, Live, Protected
<1> QED
  BY <1>1, <1>2, <1>3, <1>4, <1>5, <1>6, <1>7, <1>8, <1>9 DEF Inductive

LEMMA ReadRepositoryKeeps ==
    ASSUME Inductive, ReadRepository
    PROVE  Inductive'
<1>1. RepositoryTypeOK'
  BY DEF Inductive, ReadRepository, RepositoryTypeOK, Inventory, Stage, NoView, Pending,
      Rooted
<1>2. StoresTypeOK'
  BY DEF Inductive, ReadRepository, StoresTypeOK, Inventory, Index, NoView, Pending,
      Rooted
<1>3. PlanTypeOK'
  BY DEF Inductive, ReadRepository, PlanTypeOK, Inventory, Binding, Index, NoView,
      Pending, Rooted, View
<1>4. WritersTypeOK'
  BY DEF Inductive, ReadRepository, WritersTypeOK, Inventory, NoView, Pending, Rooted
<1>5. SweepTypeOK'
  <2>1. Inventory \in View /\ policy \in Policy
    BY InventoryIsView DEF Inductive, StoresTypeOK
  <2> QED
    BY <2>1 DEF ReadRepository, SweepTypeOK, NoView, View
<1>6. Single' /\ Stepped' /\ Finished'
  BY DEF Inductive, ReadRepository, Single, Stepped, Finished, Inventory, At, NoView,
      Pending, Rooted, Matching
<1>7. NamedIsReadable'
  BY DEF Inductive, ReadRepository, NamedIsReadable, Inventory, Present, Named, NoView,
      Pending, Rooted, Live
<1>8. CaptureIsKept'
  BY DEF Inductive, ReadRepository, CaptureIsKept, Inventory, Sealed, Present, NoView,
      Pending, Rooted
<1>9. SweepSpares'
  BY DEF Inductive, ReadRepository, SweepSpares, RepositoryTypeOK, WritersTypeOK,
      SweepTypeOK, Stepped, Single, CaptureIsKept, StoresTypeOK, Inventory, Armed,
      Spared, Sealed, Stage, View, Index, At, Present, NoView, Pending, Rooted, Live,
      Matching
<1> QED
  BY <1>1, <1>2, <1>3, <1>4, <1>5, <1>6, <1>7, <1>8, <1>9 DEF Inductive

LEMMA ReadStoresKeeps ==
    ASSUME Inductive, ReadStores
    PROVE  Inductive'
<1>1. RepositoryTypeOK'
  BY DEF Inductive, ReadStores, RepositoryTypeOK, HistoryFree, Safe, Due, Protected,
      NoView, Live, Stage, CorruptIndex, Unmaintained, Nodes, Retained
<1>2. StoresTypeOK'
  BY DEF Inductive, ReadStores, StoresTypeOK, HistoryFree, Safe, Due, Protected, NoView,
      Live, Index, CorruptIndex, Unmaintained, Nodes, Retained
<1>3. PlanTypeOK'
  BY DEF Inductive, ReadStores, PlanTypeOK, HistoryFree, Safe, Due, Protected, NoView,
      Live, Binding, Index, CorruptIndex, Unmaintained, Nodes, Retained, View
<1>4. WritersTypeOK'
  BY DEF Inductive, ReadStores, WritersTypeOK, HistoryFree, Safe, Due, Protected,
      NoView, Live, CorruptIndex, Unmaintained, Nodes, Retained
<1>5. SweepTypeOK'
  <2> DEFINE given == {i \in Live : catalog[i] \cap Due # {}}
  <2>1. Due \subseteq Object /\ given \subseteq Index /\ NoView \in View
    BY DEF Inductive, Due, Live, Index, StoresTypeOK, NoView, View
  <2>2. \/ sweep' = Resting
        \/ sweep' = [sweep EXCEPT !.pc = "retire", !.due = Due, !.view = NoView, !.given = given]
    BY DEF ReadStores
  <2> HIDE DEF given
  <2>3. CASE sweep' # Resting
    BY <2>1, <2>2, <2>3 DEF Inductive, SweepTypeOK
  <2> QED
    BY <2>3, RestingIsTyped DEF SweepTypeOK
<1>6. Single' /\ Stepped' /\ Finished'
  BY DEF Inductive, ReadStores, Single, Stepped, Finished, HistoryFree, Safe, Due,
      Protected, NoView, Live, At, CorruptIndex, Unmaintained, Nodes, Retained, Matching
<1>7. NamedIsReadable'
  BY DEF Inductive, ReadStores, NamedIsReadable, HistoryFree, Safe, Due, Protected,
      NoView, Live, Present, Named, CorruptIndex, Unmaintained, Nodes, Retained
<1>8. CaptureIsKept'
  BY DEF Inductive, ReadStores, CaptureIsKept, HistoryFree, Safe, Due, Protected,
      NoView, Live, Sealed, Present, CorruptIndex, Unmaintained, Nodes, Retained
<1>9. SweepSpares'
  BY DEF Inductive, ReadStores, SweepSpares, HistoryFree, Safe, Due, Protected, NoView,
      Live, Armed, Spared, Sealed, CorruptIndex, Unmaintained, Nodes, Retained
<1> QED
  BY <1>1, <1>2, <1>3, <1>4, <1>5, <1>6, <1>7, <1>8, <1>9 DEF Inductive

LEMMA RetireKeeps ==
    ASSUME Inductive, Retire
    PROVE  Inductive'
<1>1. RepositoryTypeOK'
  BY DEF Inductive, Retire, RepositoryTypeOK, Matching, Resume, Blocked, Present, Stage,
      NoView
<1>2. StoresTypeOK'
  BY DEF Inductive, Retire, StoresTypeOK, RepositoryTypeOK, WritersTypeOK, SweepTypeOK,
      Matching, Resume, Blocked, Present, Index, Stage, View, NoView
<1>3. PlanTypeOK'
  BY DEF Inductive, Retire, PlanTypeOK, Matching, Resume, Blocked, Present, Binding,
      Index, NoView, View
<1>4. WritersTypeOK'
  BY DEF Inductive, Retire, WritersTypeOK, Matching, Resume, Blocked, Present, NoView
<1>5. SweepTypeOK'
  <2>1. PICK point : /\ point \in {"prepared", "removed", "verify"}
                     /\ sweep' = [sweep EXCEPT !.pc = point] \/ sweep' = Resting
    <3>1. CASE Matching # {}
      <4>1. (CHOOSE j \in Matching : TRUE) \in Matching
        BY <3>1
      <4>2. (CHOOSE j \in Matching : TRUE).stage \in Stage
        BY <4>1 DEF Inductive, Matching, RepositoryTypeOK
      <4>3. Resume[(CHOOSE j \in Matching : TRUE).stage] \in {"prepared", "removed", "verify"}
        BY <4>2 DEF Resume, Stage
      <4> QED
        BY <3>1, <4>3 DEF Retire
    <3>2. CASE Matching = {}
      BY <3>2 DEF Retire
    <3> QED
      BY <3>1, <3>2
  <2>2. CASE sweep' = [sweep EXCEPT !.pc = point]
    BY <2>1, <2>2 DEF Inductive, SweepTypeOK
  <2> QED
    BY <2>1, <2>2, RestingIsTyped DEF SweepTypeOK
<1>6. Single' /\ Stepped' /\ Finished'
  <2>1. CASE /\ Matching # {} /\ UNCHANGED journals
             /\ sweep' = [sweep EXCEPT !.pc = Resume[(CHOOSE j \in Matching : TRUE).stage]]
    <3>1. PICK found \in Matching : sweep' = [sweep EXCEPT !.pc = Resume[found.stage]]
      BY <2>1
    <3>2. found.stage \in Stage /\ Matching' = Matching
      BY <2>1, <3>1 DEF Inductive, Matching, RepositoryTypeOK, SweepTypeOK
    <3>3. sweep'.pc = Resume[found.stage] /\ sweep'.due = sweep.due
      BY <3>1 DEF Inductive, SweepTypeOK
    <3>4. Stepped'
      <4>1. sweep.pc = "retire" /\ tomb' = tomb
        BY DEF Retire
      <4>2. \A o \in sweep.due : tomb[o] = "due"
        BY <4>1 DEF Inductive, Stepped
      <4>3. /\ sweep'.pc = "prepared" => found.stage = "prepared"
            /\ sweep'.pc = "removed" => found.stage = "removed"
            /\ sweep'.pc = "verify" => found.stage \in {"deleted", "completed"}
            /\ sweep'.pc \in {"prepared", "removed", "verify"}
        BY <3>2, <3>3 DEF Resume, Stage
      <4> QED
        BY <3>1, <3>2, <3>3, <4>1, <4>2, <4>3 DEF Stepped, At
    <3> QED
      BY <2>1, <3>4 DEF Inductive, Retire, Single, Finished
  <2>2. CASE /\ Matching = {} /\ ~Blocked
             /\ journals' = journals \cup {[ids |-> sweep.due, stage |-> "prepared"]}
             /\ sweep' = [sweep EXCEPT !.pc = "prepared"]
    <3> DEFINE new == [ids |-> sweep.due, stage |-> "prepared"]
    <3>1. new.ids = sweep.due /\ new.stage = "prepared" /\ journals' = journals \cup {new}
      BY <2>2
    <3>2. \A j \in journals : j.ids # sweep.due /\ j.stage = "completed"
      BY <2>2 DEF Matching, Blocked
    <3> HIDE DEF new
    <3>3. Single'
      BY <3>1, <3>2 DEF Inductive, Single
    <3>4. sweep'.pc = "prepared" /\ sweep'.due = sweep.due /\ tomb' = tomb /\ sweep.pc = "retire"
      BY <2>2 DEF Inductive, Retire, SweepTypeOK
    <3>5. new \in Matching'
      BY <3>1, <3>4 DEF Matching
    <3>6. Stepped'
      BY <3>1, <3>4, <3>5 DEF Inductive, Stepped, At
    <3> QED
      BY <3>1, <3>3, <3>4, <3>6 DEF Inductive, Finished
  <2>3. CASE sweep' = Resting /\ UNCHANGED journals
    BY <2>3 DEF Inductive, Retire, Single, Stepped, Finished
  <2> QED
    BY <2>1, <2>2, <2>3 DEF Retire
<1>7. NamedIsReadable'
  BY DEF Inductive, Retire, NamedIsReadable, Matching, Resume, Blocked, Present, Named,
      NoView, Live
<1>8. CaptureIsKept'
  BY DEF Inductive, Retire, CaptureIsKept, Matching, Resume, Blocked, Present, Sealed,
      NoView
<1>9. SweepSpares'
  BY DEF Inductive, Retire, SweepSpares, RepositoryTypeOK, WritersTypeOK, SweepTypeOK,
      Matching, Resume, Blocked, Present, Armed, Spared, Sealed, Stage, View, Index,
      NoView, Live
<1> QED
  BY <1>1, <1>2, <1>3, <1>4, <1>5, <1>6, <1>7, <1>8, <1>9 DEF Inductive

LEMMA RemoveMappingsKeeps ==
    ASSUME Inductive, RemoveMappings
    PROVE  Inductive'
<1>1. RepositoryTypeOK'
  BY DEF Inductive, RemoveMappings, RepositoryTypeOK, WritersTypeOK, SweepTypeOK,
      Rewrite, Outdated, Stage, View, Index
<1>2. StoresTypeOK'
  BY DEF Inductive, RemoveMappings, StoresTypeOK, Rewrite, Outdated, Index
<1>3. PlanTypeOK'
  BY DEF Inductive, RemoveMappings, PlanTypeOK, Rewrite, Outdated, Binding, Index, View
<1>4. WritersTypeOK'
  BY DEF Inductive, RemoveMappings, WritersTypeOK, Rewrite, Outdated
<1>5. SweepTypeOK'
  BY DEF Inductive, RemoveMappings, SweepTypeOK, Rewrite, Outdated, View, Index
<1>6. Single' /\ Stepped' /\ Finished'
  <2>1. /\ sweep.pc = "prepared" /\ sweep'.pc = "removed" /\ sweep'.due = sweep.due
        /\ Rewrite("removed") /\ tomb' = tomb
    BY DEF Inductive, RemoveMappings, SweepTypeOK
  <2>2. PICK j \in Matching : j.stage = "prepared"
    BY <2>1 DEF Inductive, Stepped, At
  <2>3. Single' /\ Finished' /\ \E k \in Matching' : k.stage = "removed"
    BY <2>1, <2>2, RewriteHolds DEF Inductive, Stage
  <2> QED
    BY <2>1, <2>3 DEF Inductive, Stepped, At
<1>7. NamedIsReadable'
  BY DEF Inductive, RemoveMappings, NamedIsReadable, RepositoryTypeOK, WritersTypeOK,
      SweepTypeOK, Stepped, Single, SweepSpares, CaptureIsKept, StoresTypeOK, Rewrite,
      Outdated, Present, Named, Stage, View, Index, At, Armed, Spared, Sealed, Live,
      Matching
<1>8. CaptureIsKept'
  BY DEF Inductive, RemoveMappings, CaptureIsKept, Rewrite, Outdated, Sealed, Present
<1>9. SweepSpares'
  BY DEF Inductive, RemoveMappings, SweepSpares, Rewrite, Outdated, Armed, Spared,
      Sealed, Live
<1> QED
  BY <1>1, <1>2, <1>3, <1>4, <1>5, <1>6, <1>7, <1>8, <1>9 DEF Inductive

LEMMA DeleteContentsKeeps ==
    ASSUME Inductive, DeleteContents
    PROVE  Inductive'
<1>1. RepositoryTypeOK'
  BY DEF Inductive, DeleteContents, RepositoryTypeOK, Stage
<1>2. StoresTypeOK'
  BY DEF Inductive, DeleteContents, StoresTypeOK, Index
<1>3. PlanTypeOK'
  BY DEF Inductive, DeleteContents, PlanTypeOK, Binding, Index, View
<1>4. WritersTypeOK'
  BY DEF Inductive, DeleteContents, WritersTypeOK
<1>5. SweepTypeOK'
  BY DEF Inductive, DeleteContents, SweepTypeOK, View, Index
<1>6. Single' /\ Stepped' /\ Finished'
  BY DEF Inductive, DeleteContents, Single, Stepped, Finished, At, Matching
<1>7. NamedIsReadable'
  BY DEF Inductive, DeleteContents, NamedIsReadable, RepositoryTypeOK, WritersTypeOK,
      SweepTypeOK, Stepped, Single, SweepSpares, CaptureIsKept, StoresTypeOK, Present,
      Named, Stage, View, Index, At, Armed, Spared, Sealed, Live, Matching
<1>8. CaptureIsKept'
  BY DEF Inductive, DeleteContents, CaptureIsKept, RepositoryTypeOK, WritersTypeOK,
      SweepTypeOK, Stepped, Single, SweepSpares, StoresTypeOK, Sealed, Present, Stage,
      View, Index, At, Armed, Spared, Matching, Live
<1>9. SweepSpares'
  BY DEF Inductive, DeleteContents, SweepSpares, Armed, Spared, Sealed, Live
<1> QED
  BY <1>1, <1>2, <1>3, <1>4, <1>5, <1>6, <1>7, <1>8, <1>9 DEF Inductive

LEMMA RecordDeletionKeeps ==
    ASSUME Inductive, RecordDeletion
    PROVE  Inductive'
<1>1. RepositoryTypeOK'
  BY DEF Inductive, RecordDeletion, RepositoryTypeOK, WritersTypeOK, SweepTypeOK,
      Rewrite, Stage, View, Index
<1>2. StoresTypeOK'
  BY DEF Inductive, RecordDeletion, StoresTypeOK, Rewrite, Index
<1>3. PlanTypeOK'
  BY DEF Inductive, RecordDeletion, PlanTypeOK, Rewrite, Binding, Index, View
<1>4. WritersTypeOK'
  BY DEF Inductive, RecordDeletion, WritersTypeOK, Rewrite
<1>5. SweepTypeOK'
  BY DEF Inductive, RecordDeletion, SweepTypeOK, Rewrite, View, Index
<1>6. Single' /\ Stepped' /\ Finished'
  <2>1. /\ sweep.pc = "deleted" /\ sweep'.pc = "verify" /\ sweep'.due = sweep.due
        /\ Rewrite("deleted") /\ tomb' = tomb
    BY DEF Inductive, RecordDeletion, SweepTypeOK
  <2>2. PICK j \in Matching : j.stage = "removed"
    BY <2>1 DEF Inductive, Stepped, At
  <2>3. Single' /\ Finished' /\ \E k \in Matching' : k.stage = "deleted"
    BY <2>1, <2>2, RewriteHolds DEF Inductive, Stage
  <2> QED
    BY <2>1, <2>3 DEF Inductive, Stepped, At
<1>7. NamedIsReadable'
  BY DEF Inductive, RecordDeletion, NamedIsReadable, Rewrite, Present, Named, Live
<1>8. CaptureIsKept'
  BY DEF Inductive, RecordDeletion, CaptureIsKept, Rewrite, Sealed, Present
<1>9. SweepSpares'
  BY DEF Inductive, RecordDeletion, SweepSpares, Rewrite, Armed, Spared, Sealed, Live
<1> QED
  BY <1>1, <1>2, <1>3, <1>4, <1>5, <1>6, <1>7, <1>8, <1>9 DEF Inductive

LEMMA CompleteKeeps ==
    ASSUME Inductive, Complete
    PROVE  Inductive'
<1>1. RepositoryTypeOK'
  BY DEF Inductive, Complete, RepositoryTypeOK, WritersTypeOK, SweepTypeOK, Rewrite,
      Outdated, Stage, View, Index, NoView
<1>2. StoresTypeOK'
  BY DEF Inductive, Complete, StoresTypeOK, Rewrite, Outdated, Index, NoView
<1>3. PlanTypeOK'
  BY DEF Inductive, Complete, PlanTypeOK, Rewrite, Outdated, Binding, Index, NoView,
      View
<1>4. WritersTypeOK'
  BY DEF Inductive, Complete, WritersTypeOK, Rewrite, Outdated, NoView
<1>5. SweepTypeOK'
  <2>1. sweep' = [sweep EXCEPT !.pc = "mark"] \/ sweep' = Resting
    BY DEF Complete
  <2>2. CASE sweep' = [sweep EXCEPT !.pc = "mark"]
    BY <2>2 DEF Inductive, SweepTypeOK
  <2> QED
    BY <2>1, <2>2, RestingIsTyped DEF SweepTypeOK
<1>6. Single' /\ Stepped' /\ Finished'
  <2>1. CASE /\ Rewrite("completed") /\ sweep' = [sweep EXCEPT !.pc = "mark"]
    <3>1. /\ sweep.pc = "verify" /\ sweep'.pc = "mark" /\ sweep'.due = sweep.due /\ tomb' = tomb
      BY <2>1 DEF Inductive, Complete, SweepTypeOK
    <3>2. PICK j \in Matching : j.stage \in {"deleted", "completed"}
      BY <3>1 DEF Inductive, Stepped, At
    <3>3. Single' /\ Finished' /\ \E k \in Matching' : k.stage = "completed"
      BY <2>1, <3>1, <3>2, RewriteHolds DEF Inductive, Stage
    <3> QED
      BY <3>1, <3>3 DEF Inductive, Stepped, At
  <2>2. CASE sweep' = Resting /\ UNCHANGED journals
    BY <2>2 DEF Inductive, Complete, Single, Stepped, Finished
  <2> QED
    BY <2>1, <2>2 DEF Complete
<1>7. NamedIsReadable'
  BY DEF Inductive, Complete, NamedIsReadable, Rewrite, Outdated, Present, Named,
      NoView, Live
<1>8. CaptureIsKept'
  BY DEF Inductive, Complete, CaptureIsKept, Rewrite, Outdated, Sealed, Present, NoView
<1>9. SweepSpares'
  BY DEF Inductive, Complete, SweepSpares, RepositoryTypeOK, WritersTypeOK, SweepTypeOK,
      Rewrite, Outdated, Armed, Spared, Sealed, Stage, View, Index, NoView, Live
<1> QED
  BY <1>1, <1>2, <1>3, <1>4, <1>5, <1>6, <1>7, <1>8, <1>9 DEF Inductive

LEMMA MarkMaintainedKeeps ==
    ASSUME Inductive, MarkMaintained
    PROVE  Inductive'
<1>1. RepositoryTypeOK'
  BY DEF Inductive, MarkMaintained, RepositoryTypeOK, Stage, NoView
<1>2. StoresTypeOK'
  BY DEF Inductive, MarkMaintained, StoresTypeOK, Index, NoView
<1>3. PlanTypeOK'
  BY DEF Inductive, MarkMaintained, PlanTypeOK, Binding, Index, NoView, View
<1>4. WritersTypeOK'
  BY DEF Inductive, MarkMaintained, WritersTypeOK, NoView
<1>5. SweepTypeOK'
  BY DEF Inductive, MarkMaintained, SweepTypeOK, View, Index, NoView
<1>6. Single' /\ Stepped' /\ Finished'
  BY DEF Inductive, MarkMaintained, Single, Stepped, Finished, At, NoView, Matching
<1>7. NamedIsReadable'
  BY DEF Inductive, MarkMaintained, NamedIsReadable, Present, Named, NoView, Live
<1>8. CaptureIsKept'
  BY DEF Inductive, MarkMaintained, CaptureIsKept, Sealed, Present, NoView
<1>9. SweepSpares'
  BY DEF Inductive, MarkMaintained, SweepSpares, Armed, Spared, Sealed, NoView, Live
<1> QED
  BY <1>1, <1>2, <1>3, <1>4, <1>5, <1>6, <1>7, <1>8, <1>9 DEF Inductive

LEMMA SweepFailsKeeps ==
    ASSUME Inductive, SweepFails
    PROVE  Inductive'
<1>1. RepositoryTypeOK'
  BY DEF Inductive, SweepFails, RepositoryTypeOK, Fault, Stage, NoView
<1>2. StoresTypeOK'
  BY DEF Inductive, SweepFails, StoresTypeOK, Fault, Index, NoView
<1>3. PlanTypeOK'
  BY DEF Inductive, SweepFails, PlanTypeOK, Fault, Binding, Index, NoView, View
<1>4. WritersTypeOK'
  BY DEF Inductive, SweepFails, WritersTypeOK, Fault, NoView
<1>5. SweepTypeOK'
  BY DEF Inductive, SweepFails, SweepTypeOK, Fault, View, Index, NoView
<1>6. Single' /\ Stepped' /\ Finished'
  BY DEF Inductive, SweepFails, Single, Stepped, Finished, Fault, At, NoView, Matching
<1>7. NamedIsReadable'
  BY DEF Inductive, SweepFails, NamedIsReadable, Fault, Present, Named, NoView, Live
<1>8. CaptureIsKept'
  BY DEF Inductive, SweepFails, CaptureIsKept, Fault, Sealed, Present, NoView
<1>9. SweepSpares'
  BY DEF Inductive, SweepFails, SweepSpares, Fault, Armed, Spared, Sealed, NoView, Live
<1> QED
  BY <1>1, <1>2, <1>3, <1>4, <1>5, <1>6, <1>7, <1>8, <1>9 DEF Inductive

LEMMA CheckFullKeeps ==
    ASSUME Inductive, CheckFull
    PROVE  Inductive'
<1>1. RepositoryTypeOK'
  BY DEF Inductive, CheckFull, RepositoryTypeOK, HistoryFree, Sound, CorruptIndex,
      Inventory, Stage, Present, Unmaintained, Live, Nodes, Pending, Rooted
<1>2. StoresTypeOK'
  BY DEF Inductive, CheckFull, StoresTypeOK, HistoryFree, Sound, CorruptIndex,
      Inventory, Index, Present, Unmaintained, Live, Nodes, Pending, Rooted
<1>3. PlanTypeOK'
  BY DEF Inductive, CheckFull, PlanTypeOK, HistoryFree, Sound, CorruptIndex, Inventory,
      Binding, Index, Present, Unmaintained, Live, Nodes, Pending, Rooted, View
<1>4. WritersTypeOK'
  BY DEF Inductive, CheckFull, WritersTypeOK, HistoryFree, Sound, CorruptIndex,
      Inventory, Present, Unmaintained, Live, Nodes, Pending, Rooted
<1>5. SweepTypeOK'
  BY DEF Inductive, CheckFull, SweepTypeOK, HistoryFree, Sound, CorruptIndex, Inventory,
      View, Index, Present, Unmaintained, Live, Nodes, Pending, Rooted
<1>6. Single' /\ Stepped' /\ Finished'
  BY DEF Inductive, CheckFull, Single, Stepped, Finished, HistoryFree, Sound,
      CorruptIndex, Inventory, At, Present, Unmaintained, Live, Nodes, Pending, Rooted,
      Matching
<1>7. NamedIsReadable'
  BY DEF Inductive, CheckFull, NamedIsReadable, HistoryFree, Sound, CorruptIndex,
      Inventory, Present, Named, Unmaintained, Live, Nodes, Pending, Rooted
<1>8. CaptureIsKept'
  BY DEF Inductive, CheckFull, CaptureIsKept, HistoryFree, Sound, CorruptIndex,
      Inventory, Sealed, Present, Unmaintained, Live, Nodes, Pending, Rooted
<1>9. SweepSpares'
  BY DEF Inductive, CheckFull, SweepSpares, HistoryFree, Sound, CorruptIndex, Inventory,
      Armed, Spared, Sealed, Present, Unmaintained, Live, Nodes, Pending, Rooted
<1> QED
  BY <1>1, <1>2, <1>3, <1>4, <1>5, <1>6, <1>7, <1>8, <1>9 DEF Inductive

LEMMA CheckIncrementalKeeps ==
    ASSUME Inductive, CheckIncremental
    PROVE  Inductive'
<1>1. RepositoryTypeOK'
  BY DEF Inductive, CheckIncremental, RepositoryTypeOK, Sound, Stage, Present
<1>2. StoresTypeOK'
  <2>1. Len(catalog) \in 0..MaxSnapshots
    BY DEF Inductive, StoresTypeOK
  <2>2. integrity' \in [state : {"new", "healthy", "daily", "monthly"}, seen : 0..MaxSnapshots]
    BY <2>1 DEF Inductive, CheckIncremental, StoresTypeOK
  <2> QED
    BY <2>2 DEF Inductive, CheckIncremental, StoresTypeOK
<1>3. PlanTypeOK'
  BY DEF Inductive, CheckIncremental, PlanTypeOK, Sound, Binding, Index, Present, View
<1>4. WritersTypeOK'
  BY DEF Inductive, CheckIncremental, WritersTypeOK, Sound, Present
<1>5. SweepTypeOK'
  BY DEF Inductive, CheckIncremental, SweepTypeOK, Sound, View, Index, Present
<1>6. Single' /\ Stepped' /\ Finished'
  BY DEF Inductive, CheckIncremental, Single, Stepped, Finished, Sound, At, Present,
      Matching
<1>7. NamedIsReadable'
  BY DEF Inductive, CheckIncremental, NamedIsReadable, Sound, Present, Named, Live
<1>8. CaptureIsKept'
  BY DEF Inductive, CheckIncremental, CaptureIsKept, Sound, Sealed, Present
<1>9. SweepSpares'
  BY DEF Inductive, CheckIncremental, SweepSpares, Sound, Armed, Spared, Sealed,
      Present, Live
<1> QED
  BY <1>1, <1>2, <1>3, <1>4, <1>5, <1>6, <1>7, <1>8, <1>9 DEF Inductive

LEMMA AgeKeeps ==
    ASSUME Inductive, Age
    PROVE  Inductive'
<1>1. RepositoryTypeOK'
  BY DEF Inductive, Age, RepositoryTypeOK, Stage
<1>2. StoresTypeOK'
  BY DEF Inductive, Age, StoresTypeOK, Index
<1>3. PlanTypeOK'
  BY DEF Inductive, Age, PlanTypeOK, Binding, Index, View
<1>4. WritersTypeOK'
  BY DEF Inductive, Age, WritersTypeOK
<1>5. SweepTypeOK'
  BY DEF Inductive, Age, SweepTypeOK, View, Index
<1>6. Single' /\ Stepped' /\ Finished'
  BY DEF Inductive, Age, Single, Stepped, Finished, At, Matching
<1>7. NamedIsReadable'
  BY DEF Inductive, Age, NamedIsReadable, Present, Named, Live
<1>8. CaptureIsKept'
  BY DEF Inductive, Age, CaptureIsKept, Sealed, Present
<1>9. SweepSpares'
  BY DEF Inductive, Age, SweepSpares, Armed, Spared, Sealed, Live
<1> QED
  BY <1>1, <1>2, <1>3, <1>4, <1>5, <1>6, <1>7, <1>8, <1>9 DEF Inductive

LEMMA DayEndsKeeps ==
    ASSUME Inductive, NEW i \in Index, DayEnds(i)
    PROVE  Inductive'
<1>1. RepositoryTypeOK'
  BY DEF Inductive, DayEnds, RepositoryTypeOK, Stage
<1>2. StoresTypeOK'
  BY DEF Inductive, DayEnds, StoresTypeOK, Index
<1>3. PlanTypeOK'
  BY DEF Inductive, DayEnds, PlanTypeOK, Binding, Index, View
<1>4. WritersTypeOK'
  BY DEF Inductive, DayEnds, WritersTypeOK
<1>5. SweepTypeOK'
  BY DEF Inductive, DayEnds, SweepTypeOK, View, Index
<1>6. Single' /\ Stepped' /\ Finished'
  BY DEF Inductive, DayEnds, Single, Stepped, Finished, At, Matching
<1>7. NamedIsReadable'
  BY DEF Inductive, DayEnds, NamedIsReadable, Present, Named, Live
<1>8. CaptureIsKept'
  BY DEF Inductive, DayEnds, CaptureIsKept, Sealed, Present
<1>9. SweepSpares'
  BY DEF Inductive, DayEnds, SweepSpares, Armed, Spared, Sealed, Live
<1> QED
  BY <1>1, <1>2, <1>3, <1>4, <1>5, <1>6, <1>7, <1>8, <1>9 DEF Inductive

LEMMA GraceEndsKeeps ==
    ASSUME Inductive, NEW o \in Object, GraceEnds(o)
    PROVE  Inductive'
<1>1. RepositoryTypeOK'
  BY DEF Inductive, GraceEnds, RepositoryTypeOK, Stage
<1>2. StoresTypeOK'
  BY DEF Inductive, GraceEnds, StoresTypeOK, Index
<1>3. PlanTypeOK'
  BY DEF Inductive, GraceEnds, PlanTypeOK, Binding, Index, View
<1>4. WritersTypeOK'
  BY DEF Inductive, GraceEnds, WritersTypeOK
<1>5. SweepTypeOK'
  BY DEF Inductive, GraceEnds, SweepTypeOK, View, Index
<1>6. Single' /\ Stepped' /\ Finished'
  BY DEF Inductive, GraceEnds, Single, Stepped, Finished, At, Matching
<1>7. NamedIsReadable'
  BY DEF Inductive, GraceEnds, NamedIsReadable, Present, Named, Live
<1>8. CaptureIsKept'
  BY DEF Inductive, GraceEnds, CaptureIsKept, Sealed, Present
<1>9. SweepSpares'
  BY DEF Inductive, GraceEnds, SweepSpares, Armed, Spared, Sealed, Live
<1> QED
  BY <1>1, <1>2, <1>3, <1>4, <1>5, <1>6, <1>7, <1>8, <1>9 DEF Inductive

LEMMA CrashKeeps ==
    ASSUME Inductive, Crash
    PROVE  Inductive'
<1>1. RepositoryTypeOK'
  <2> DEFINE objs == IF capture.keep THEN pins["capture"] ELSE {}
             snapshots == {i \in {update} \ pinned : i # 0}
  <2>1. objs \in SUBSET Object
    BY DEF Inductive, RepositoryTypeOK
  <2>2. snapshots \in SUBSET (1..Len(catalog))
    BY DEF Inductive, WritersTypeOK, StoresTypeOK
  <2>3. pins' = Orphaned(objs, snapshots)
    BY DEF Crash
  <2> HIDE DEF objs, snapshots
  <2>4. pins' \in [{"capture", "reader", "orphan"} -> SUBSET Object]
    BY <2>1, <2>2, <2>3, OrphanedIsTyped DEF Inductive
  <2> QED
    BY <2>4 DEF Inductive, Crash, RepositoryTypeOK
<1>2. StoresTypeOK'
  BY DEF Inductive, Crash, StoresTypeOK, Fault, Orphaned, Index, NoView
<1>3. PlanTypeOK'
  BY DEF Inductive, Crash, PlanTypeOK, Fault, Orphaned, Binding, Index, NoView, View
<1>4. WritersTypeOK'
  BY DEF Inductive, Crash, WritersTypeOK, Fault, Orphaned, NoView
<1>5. SweepTypeOK'
  BY DEF Inductive, Crash, SweepTypeOK, Fault, Orphaned, View, Index, NoView
<1>6. Single' /\ Stepped' /\ Finished'
  BY DEF Inductive, Crash, Single, Stepped, Finished, Fault, Orphaned, At, NoView,
      Matching
<1>7. NamedIsReadable'
  BY DEF Inductive, Crash, NamedIsReadable, Fault, Orphaned, Present, Named, NoView,
      Live
<1>8. CaptureIsKept'
  BY DEF Inductive, Crash, CaptureIsKept, Fault, Orphaned, Sealed, Present, NoView
<1>9. SweepSpares'
  BY DEF Inductive, Crash, SweepSpares, Fault, Orphaned, Armed, Spared, Sealed, NoView,
      Live
<1> QED
  BY <1>1, <1>2, <1>3, <1>4, <1>5, <1>6, <1>7, <1>8, <1>9 DEF Inductive

-----------------------------------------------------------------------------
(* The theorems                                                            *)

LEMMA InitHolds == Init => Inductive
<1> SUFFICES ASSUME Init PROVE Inductive
  OBVIOUS
<1>1. \A i \in DOMAIN Published : Published[i] \in SUBSET Object
  OBVIOUS
<1>2. RepositoryTypeOK
  BY <1>1 DEF Init, RepositoryTypeOK
<1>3. StoresTypeOK
  BY DEF Init, StoresTypeOK, Index
<1>4. PlanTypeOK /\ WritersTypeOK /\ SweepTypeOK
  <2>1. (CHOOSE p \in Policy : TRUE) \in Policy
    OBVIOUS
  <2> QED
    BY <2>1 DEF Init, PlanTypeOK, WritersTypeOK, SweepTypeOK, NoView, View
<1>5. Named \subseteq mapped
  BY DEF Init, Named, Live
<1>6. NamedIsReadable
  BY <1>5 DEF Init, NamedIsReadable, Present
<1>7. Single /\ Stepped /\ Finished
  BY DEF Init, Single, Stepped, Finished
<1>8. CaptureIsKept /\ SweepSpares
  BY DEF Init, CaptureIsKept, SweepSpares, Sealed, Armed
<1> QED
  BY <1>2, <1>3, <1>4, <1>6, <1>7, <1>8 DEF Inductive

LEMMA StutterHolds ==
    ASSUME Inductive, UNCHANGED vars
    PROVE  Inductive'
<1>1. UNCHANGED <<mapped, stored, journals, pins, tomb, dead, catalog, history, pinned, daily,
                  policy, aged, plan, update, capture, save, sweep, integrity, forsaken,
                  uses, faults>>
  BY DEF vars
<1>2. TypeOK'
  BY <1>1 DEF Inductive, RepositoryTypeOK, StoresTypeOK, PlanTypeOK, WritersTypeOK, SweepTypeOK
<1>3. Single' /\ Stepped' /\ Finished'
  BY <1>1 DEF Inductive, Single, Stepped, At, Matching, Finished
<1>4. NamedIsReadable' /\ CaptureIsKept' /\ SweepSpares'
  BY <1>1 DEF Inductive, NamedIsReadable, Present, Named, Live, CaptureIsKept, Sealed,
      SweepSpares, Spared, Armed
<1> QED
  BY <1>2, <1>3, <1>4 DEF Inductive

LEMMA NextHolds ==
    ASSUME Inductive, [Next]_vars
    PROVE  Inductive'
<1>1. CASE BeginCapture \/ Capturing
  BY <1>1, BeginCaptureKeeps, CommitObjectsKeeps, PinCaptureKeeps, VerifyCaptureKeeps, SealKeeps,
     MeasureKeeps, PublishKeeps, CaptureFailsKeeps
     DEF Capturing
<1>2. CASE BeginSave \/ Saving
  BY <1>2, BeginSaveKeeps, CommitContentKeeps, PublishHeadKeeps, SaveFailsKeeps DEF Saving
<1>3. CASE PinReader \/ ReleaseReader \/ PinReplacement \/ Updating \/ UpdateRetention
  BY <1>3, PinReaderKeeps, ReleaseReaderKeeps, PinReplacementKeeps, RecordPinnedKeeps,
     UpdateFailsKeeps, UpdateRetentionKeeps
     DEF Updating
<1>4. CASE Sweeping
  BY <1>4, ReadRepositoryKeeps, ReadStoresKeeps, RetireKeeps, RemoveMappingsKeeps,
     DeleteContentsKeeps, RecordDeletionKeeps, CompleteKeeps, MarkMaintainedKeeps,
     SweepFailsKeeps
     DEF Sweeping
<1>5. CASE Checking
  BY <1>5, CheckFullKeeps, CheckIncrementalKeeps DEF Checking
<1>6. CASE Plan \/ Apply
  BY <1>6, PlanKeeps, ApplyKeeps
<1>7. CASE Age \/ (\E i \in Index : DayEnds(i)) \/ (\E o \in Object : GraceEnds(o))
  BY <1>7, AgeKeeps, DayEndsKeeps, GraceEndsKeeps
<1>8. CASE Crash \/ UNCHANGED vars
  BY <1>8, CrashKeeps, StutterHolds
<1> QED
  BY <1>1, <1>2, <1>3, <1>4, <1>5, <1>6, <1>7, <1>8 DEF Next

\* The whole argument: journals, sweep, writers and what is named agree.
THEOREM InductiveInvariant == Spec => []Inductive
<1>1. Inductive /\ [Next]_vars => Inductive'
  BY NextHolds
<1> QED
  BY InitHolds, <1>1, PTL DEF Spec

\* Whatever stage of a retirement a crash leaves, its journal is one a later
\* sweep resumes from (RetireAndMaintain of objectrepo/retention.go).
THEOREM JournalsAreResumable == Spec => []JournalIsResumable
<1>1. Inductive => JournalIsResumable
  BY DEF Inductive
<1> QED
  BY InductiveInvariant, <1>1, PTL

\* Retention never takes an object of a file revision or of a snapshot of the
\* list, retained or not, but of those that a retirement's own inventory found
\* live and given up, whatever captures, saves, pins, changes of the policy,
\* sweeps and crashes interleave (RetireAndMaintain of objectrepo/retention.go).
THEOREM NamedStaysReadable == Spec => []NamedIsReadable
<1>1. Inductive => NamedIsReadable
  BY DEF Inductive
<1> QED
  BY InductiveInvariant, <1>1, PTL

\* However old the plan that is applied (retention.Engine.Apply), no object of a
\* file revision or under a root pin is tombstoned, and no snapshot leaves the
\* list but an unpinned one that the plan gave up.
THEOREM OnlyRelinquishedObjectsAreTombstoned == Spec => OnlyRelinquishedIsTombstoned
<1>1. Inductive /\ [Next]_vars =>
        [\A o \in Object : tomb[o] = "none" /\ tomb'[o] # "none" => Relinquished(o)]_vars
  <2> SUFFICES ASSUME Inductive, Next, NEW o \in Object, tomb[o] = "none", tomb'[o] # "none"
               PROVE  Relinquished(o)
    OBVIOUS
  <2>1. CASE Apply
    <3>1. PICK p \in plan : /\ Retained(p.policy) = p.retained
                            /\ p.garbage \subseteq Garbage(Inventory, p.policy)
                            /\ Tombstone(p.garbage)
      BY <2>1 DEF Apply
    <3>2. o \in p.garbage /\ dead' = dead \cup {i \in Live : catalog[i] \cap p.garbage # {}}
      BY <3>1 DEF Tombstone
    <3>3. o \notin Protected(Inventory, p.policy)
      BY <3>1, <3>2 DEF Garbage
    <3>4. o \notin history \cup Inventory.pinned
      BY <3>3 DEF Protected
    <3>5. ASSUME NEW i \in Live, o \in catalog[i]
          PROVE  i \notin pinned /\ i \in dead' /\ i \notin p.retained
      <4>1. i \notin Retained(p.policy)
        BY <3>3, <3>5 DEF Protected
      <4>2. i \notin pinned
        BY <4>1 DEF Retained
      <4>3. catalog[i] \cap p.garbage # {}
        BY <3>2, <3>5
      <4> QED
        BY <3>1, <3>2, <3>5, <4>1, <4>2, <4>3
    <3> QED
      BY <3>4, <3>5 DEF Relinquished
  <2>2. CASE MarkMaintained
    <3>1. o \notin sweep.due
      BY <2>2 DEF Inductive, MarkMaintained, Stepped
    <3> QED
      BY <2>2, <3>1 DEF MarkMaintained
  <2>3. CASE \E x \in Object : GraceEnds(x)
    BY <2>3 DEF Inductive, GraceEnds, StoresTypeOK
  <2>4. CASE ~Apply /\ ~MarkMaintained /\ ~\E x \in Object : GraceEnds(x)
    <3>1. tomb' = tomb
      BY <2>4 DEF Next, Capturing, Saving, Updating, Sweeping, Checking, BeginCapture,
         CommitObjects, PinCapture, VerifyCapture, Seal, Measure, Publish, CaptureFails,
         BeginSave, CommitContent, PublishHead, SaveFails, PinReader, ReleaseReader,
         PinReplacement, RecordPinned, UpdateFails, UpdateRetention, Plan, ReadRepository,
         ReadStores, Retire, RemoveMappings, DeleteContents, RecordDeletion, Complete,
         SweepFails, CheckFull, CheckIncremental, Age, DayEnds, Crash
    <3> QED
      BY <3>1
  <2> QED
    BY <2>1, <2>2, <2>3, <2>4
<1> QED
  BY InductiveInvariant, <1>1, PTL DEF Spec, OnlyRelinquishedIsTombstoned
=============================================================================
