----------------------- MODULE WriteCoordinatorProofs -----------------------
(***************************************************************************)
(* Inductive is an invariant of the write coordinator, for any number of   *)
(* goroutines, stores and counter limits; the properties of                *)
(* WriteCoordinator follow from it.                                        *)
(***************************************************************************)
EXTENDS WriteCoordinator, TLAPS

-----------------------------------------------------------------------------
(* Types of what the actions build                                         *)

\* The records of the initial state have their types.
LEMMA InitialRecords == FirstToken \in Token /\ NoLocal \in Local /\ NoCapture \in Capture
  BY BoundAssumption
     DEF FirstToken, Token, NoLocal, Local, Op, NoCapture, Capture, Revision

\* A goroutine's record built field by field has its type.
LEMMA LocalRecords ==
  ASSUME NEW o \in Op \cup {"none"}, NEW t \in Token,
         NEW r \in 0..MaxRevision, NEW q \in 0..MaxSequence
  PROVE  [op |-> o, token |-> t, revision |-> r, sequence |-> q] \in Local
  BY DEF Local

\* So has a row of the captures table.
LEMMA CaptureRecords ==
  ASSUME NEW st \in {"none", "prepared", "captured", "failed", "abandoned"},
         NEW r \in 0..MaxRevision, NEW v \in SUBSET Revision
  PROVE  [state |-> st, revision |-> r, view |-> v] \in Capture
  BY DEF Capture

\* The fields of a goroutine's record have theirs.
LEMMA LocalFields ==
  ASSUME NEW l \in Local
  PROVE  /\ l.op \in Op \cup {"none"} /\ l.token \in Token
         /\ l.revision \in 0..MaxRevision /\ l.sequence \in 0..MaxSequence
  BY DEF Local

\* The fields of a row of the captures table have theirs.
LEMMA CaptureFields ==
  ASSUME NEW k \in Capture
  PROVE  /\ k.state \in {"none", "prepared", "captured", "failed", "abandoned"}
         /\ k.revision \in 0..MaxRevision /\ k.view \in SUBSET Revision
  BY DEF Capture

\* The fields of a proof have theirs.
LEMMA ProofFields ==
  ASSUME NEW p \in Proof
  PROVE  /\ p.domain \in Domain /\ p.revision \in Revision /\ p.token \in Token
  BY DEF Proof

-----------------------------------------------------------------------------
(* Passing the gate                                                        *)

\* Leaving the gate keeps the types of goroutines.
LEMMA ReturnTypes ==
  ASSUME GoroutineTypes, NEW c \in Client, Return(c)
  PROVE  GoroutineTypes'
  BY InitialRecords DEF GoroutineTypes, Return

\* So does entering it.
LEMMA EnterTypes ==
  ASSUME GoroutineTypes, ProcessTypes, NEW c \in Client, NEW state \in Holding,
         loc[c].token = token,
         NEW r \in 0..MaxRevision, NEW q \in 0..MaxSequence, Enter(c, state, r, q)
  PROVE  GoroutineTypes'
<1>1. loc[c].op \in Op \cup {"none"}
  BY LocalFields DEF GoroutineTypes
<1>2. [op |-> loc[c].op, token |-> token, revision |-> r, sequence |-> q] \in Local
  BY <1>1, LocalRecords DEF ProcessTypes
<1> QED
  BY <1>2 DEF GoroutineTypes, Enter

\* The gate admits one goroutine: nobody else is inside when c is, or when
\* the gate is free.
LEMMA OthersAreOutside ==
  ASSUME Inductive, NEW c \in Client, gate = NoClient \/ pc[c] \in Holding
  PROVE  \A b \in Client \ {c} : pc[b] \notin Holding
  BY ClientAssumption DEF Inductive, GoroutineInv, GateIsExclusive

\* After Return nobody is inside the gate, and the parts of the invariant about
\* gate holders hold vacuously.
LEMMA ReturnKeepsGoroutines ==
  ASSUME Inductive, NEW c \in Client, gate = NoClient \/ pc[c] \in Holding,
         up = "serving", up' = up, Return(c)
  PROVE  GoroutineTypes' /\ GoroutineInv'
<1>1. GoroutineTypes'
  BY ReturnTypes DEF Inductive, TypeOK
<1>2. \A b \in Client : pc'[b] \notin Holding
  BY OthersAreOutside DEF Inductive, TypeOK, GoroutineTypes, Return, Holding
<1>3. gate' = NoClient
  BY DEF Return
<1>4. GateIsExclusive'
  BY <1>2, <1>3, ClientAssumption DEF GateIsExclusive
<1>5. HolderIsCurrent' /\ CallbackMatchesProof' /\ FreezeIsJournalled'
  BY <1>2 DEF HolderIsCurrent, CallbackMatchesProof, FreezeIsJournalled, Holding
<1> QED
  BY <1>1, <1>4, <1>5 DEF GoroutineInv

\* After Enter only c is inside.
LEMMA EnterKeepsGate ==
  ASSUME Inductive, NEW c \in Client, gate = NoClient, up = "serving", up' = up,
         loc[c].token = token,
         NEW state \in Holding, NEW r, NEW q, Enter(c, state, r, q)
  PROVE  /\ GateIsExclusive'
         /\ \A b \in Client : pc'[b] \in Holding => b = c
         /\ pc'[c] = state
         /\ loc'[c] = [op |-> loc[c].op, token |-> token, revision |-> r, sequence |-> q]
<1>1. \A b \in Client \ {c} : pc[b] \notin Holding
  BY OthersAreOutside
<1>2. /\ pc' = [pc EXCEPT ![c] = state] /\ gate' = c
      /\ loc' = [loc EXCEPT ![c] = [op |-> loc[c].op, token |-> token,
                                    revision |-> r, sequence |-> q]]
  BY DEF Enter
<1>3. pc \in [Client -> Holding \cup {"idle", "waiting"}] /\ loc \in [Client -> Local]
  BY DEF Inductive, TypeOK, GoroutineTypes
<1> QED
  BY <1>1, <1>2, <1>3 DEF GateIsExclusive

\* The parts about the database speak of the database and the proofs only.
LEMMA DatabaseUntouched ==
  ASSUME Inductive, UNCHANGED <<dbVars, proofs>>
  PROVE  DatabaseTypes' /\ DatabaseInv'
  BY DEF Inductive, TypeOK, DatabaseTypes, DatabaseInv, dbVars, RevisionsAreProven,
         IntentsAtTip, ProofsAtTip, CapturesInOrder, CapturesAreExact,
         AnchorIsSettled, Proven

\* The parts about the process speak of its memory and the database only.
LEMMA ProcessUntouched ==
  ASSUME Inductive, UNCHANGED <<dbVars, proofs, up, target, memVars>>
  PROVE  ProcessTypes' /\ ProcessInv'
  BY DEF Inductive, TypeOK, ProcessTypes, ProcessInv, dbVars, memVars,
         MemoryMirrorsDatabase, PendingIsUndecided, Proven

-----------------------------------------------------------------------------
(* One lemma per action                                                    *)

\* Calling and giving up touch only a goroutine outside the gate.
LEMMA CallStep ==
  ASSUME Inductive, NEW c \in Client, NEW op \in Op, Call(c, op)
  PROVE  Inductive'
<1>1. UNCHANGED <<dbVars, proofs, up, target, memVars, gate>> /\ up = "serving"
  BY DEF Call
<1>2. DatabaseTypes' /\ DatabaseInv' /\ ProcessTypes' /\ ProcessInv'
  BY <1>1, DatabaseUntouched, ProcessUntouched
<1>3. PICK l \in Local : loc' = [loc EXCEPT ![c] = l]
  <2>1. (IF op = "resume" THEN pending ELSE 0) \in 0..MaxRevision /\ 0 \in 0..MaxSequence
    BY BoundAssumption DEF Inductive, TypeOK, ProcessTypes
  <2>2. [op |-> op, token |-> token, revision |-> IF op = "resume" THEN pending ELSE 0,
         sequence |-> 0] \in Local
    BY <2>1, LocalRecords DEF Inductive, TypeOK, ProcessTypes
  <2> QED
    BY <2>2 DEF Call
<1>4. pc[c] = "idle" /\ pc' = [pc EXCEPT ![c] = "waiting"]
  BY DEF Call
<1>5. GoroutineTypes'
  BY <1>1, <1>3, <1>4 DEF Inductive, TypeOK, GoroutineTypes
<1>6. \A b \in Client : pc'[b] \in Holding => pc'[b] = pc[b] /\ loc'[b] = loc[b]
  BY <1>3, <1>4 DEF Inductive, TypeOK, GoroutineTypes, Holding
<1>7. \A b \in Client : pc[b] \in Holding <=> pc'[b] \in Holding
  BY <1>4 DEF Inductive, TypeOK, GoroutineTypes, Holding
<1>8. GateIsExclusive'
  BY <1>1, <1>7 DEF Inductive, GoroutineInv, GateIsExclusive
<1>9. HolderIsCurrent' /\ CallbackMatchesProof' /\ FreezeIsJournalled'
  BY <1>1, <1>6 DEF Inductive, GoroutineInv, HolderIsCurrent, CallbackMatchesProof,
     FreezeIsJournalled, dbVars, memVars, Holding, Proven
<1> QED
  BY <1>2, <1>5, <1>8, <1>9 DEF Inductive, TypeOK, GoroutineInv

\* A waiting caller gives up.
LEMMA CancelStep ==
  ASSUME Inductive, NEW c \in Client, Cancel(c)
  PROVE  Inductive'
<1>1. UNCHANGED <<dbVars, proofs, up, target, memVars, gate>> /\ up = "serving"
  BY DEF Cancel
<1>2. DatabaseTypes' /\ DatabaseInv' /\ ProcessTypes' /\ ProcessInv'
  BY <1>1, DatabaseUntouched, ProcessUntouched
<1>3. /\ pc[c] = "waiting" /\ pc' = [pc EXCEPT ![c] = "idle"]
      /\ loc' = [loc EXCEPT ![c] = NoLocal]
  BY DEF Cancel
<1>4. GoroutineTypes'
  BY <1>1, <1>3, InitialRecords DEF Inductive, TypeOK, GoroutineTypes
<1>5. \A b \in Client : pc'[b] \in Holding => pc'[b] = pc[b] /\ loc'[b] = loc[b]
  BY <1>3 DEF Inductive, TypeOK, GoroutineTypes, Holding
<1>6. \A b \in Client : pc[b] \in Holding <=> pc'[b] \in Holding
  BY <1>3 DEF Inductive, TypeOK, GoroutineTypes, Holding
<1>7. GateIsExclusive'
  BY <1>1, <1>6 DEF Inductive, GoroutineInv, GateIsExclusive
<1>8. HolderIsCurrent' /\ CallbackMatchesProof' /\ FreezeIsJournalled'
  BY <1>1, <1>5 DEF Inductive, GoroutineInv, HolderIsCurrent, CallbackMatchesProof,
     FreezeIsJournalled, dbVars, memVars, Holding, Proven
<1> QED
  BY <1>2, <1>4, <1>7, <1>8 DEF Inductive, TypeOK, GoroutineInv

\* Refusals and errors leave the gate and change nothing else.
LEMMA ReturnStep ==
  ASSUME Inductive, NEW c \in Client,
         \/ Refuse(c) \/ ReturnExternalCommitted(c) \/ FinishMutationFails(c)
         \/ FinishCaptureFails(c) \/ DrainFails(c)
  PROVE  Inductive'
<1>1. /\ UNCHANGED <<dbVars, proofs, up, target, memVars>> /\ up = "serving"
      /\ gate = NoClient \/ pc[c] \in Holding
      /\ Return(c)
  BY DEF Refuse, ReturnExternalCommitted, FinishMutationFails, FinishCaptureFails,
         DrainFails, Entering, Holding
<1> QED
  BY <1>1, DatabaseUntouched, ProcessUntouched, ReturnKeepsGoroutines
     DEF Inductive, TypeOK

\* Journalling the intent touches only the row after the settled ones.
LEMMA PreparedRowKeepsDatabase ==
  ASSUME Inductive, up = "serving", revision # MaxRevision, pending = 0,
         intents' = PreparedRow(revision + 1),
         UNCHANGED <<dbToken, dbRevision, dbSequence, dbAnchor, captures, proofs>>
  PROVE  /\ DatabaseTypes' /\ DatabaseInv'
         /\ revision = dbRevision /\ revision + 1 \in Revision
         /\ intents'[revision + 1] = "prepared"
         /\ ~Proven(dbRevision + 1)
<1>1. revision = dbRevision /\ revision \in 0..MaxRevision
  BY DEF Inductive, TypeOK, ProcessTypes, ProcessInv, MemoryMirrorsDatabase
<1>2. revision + 1 \in Revision
  BY <1>1, BoundAssumption DEF Revision
<1>3. intents \in [Revision -> {"none", "prepared", "committed", "failed"}]
  BY DEF Inductive, TypeOK, DatabaseTypes
<1>4. intents[revision + 1] # "committed"
  BY <1>1, <1>2, BoundAssumption DEF Inductive, DatabaseInv, RevisionsAreProven
<1>5. /\ intents' = [intents EXCEPT ![revision + 1] = "prepared"]
      /\ intents'[revision + 1] = "prepared"
  BY <1>2, <1>3, <1>4 DEF PreparedRow
<1>6. DatabaseTypes'
  BY <1>3, <1>5 DEF Inductive, TypeOK, DatabaseTypes
<1>7. RevisionsAreProven' /\ IntentsAtTip'
  BY <1>1, <1>2, <1>3, <1>5, BoundAssumption
     DEF Inductive, DatabaseInv, RevisionsAreProven, IntentsAtTip, Proven, Revision
<1>8. ProofsAtTip'
  BY <1>1, <1>2, <1>3, <1>5 DEF Inductive, DatabaseInv, ProofsAtTip
<1>9. CapturesInOrder' /\ CapturesAreExact' /\ AnchorIsSettled'
  BY DEF Inductive, DatabaseInv, CapturesInOrder, CapturesAreExact, AnchorIsSettled
<1>10. ~Proven(dbRevision + 1)
  BY DEF Inductive, ProcessInv, PendingIsUndecided
<1> QED
  BY <1>1, <1>2, <1>5, <1>6, <1>7, <1>8, <1>9, <1>10 DEF DatabaseInv

\* Write journals its intent.
LEMMA PrepareMutationStep ==
  ASSUME Inductive, NEW c \in Client, PrepareMutation(c)
  PROVE  Inductive'
<1>1. /\ loc[c].token = token
      /\ up = "serving" /\ gate = NoClient /\ pending = 0 /\ loc[c].op = "write"
      /\ revision # MaxRevision /\ intents' = PreparedRow(revision + 1)
      /\ pending' = revision + 1 /\ Enter(c, "applying", revision + 1, sequence)
      /\ UNCHANGED <<dbToken, dbRevision, dbSequence, dbAnchor, captures, proofs,
                     up, target, token, revision, sequence>>
  BY DEF PrepareMutation, Entering, Admitted, Exhausted
<1>2. /\ DatabaseTypes' /\ DatabaseInv' /\ revision = dbRevision
      /\ revision + 1 \in Revision /\ intents'[revision + 1] = "prepared"
      /\ ~Proven(dbRevision + 1)
  BY <1>1, PreparedRowKeepsDatabase
<1>3. ProcessTypes'
  BY <1>1, <1>2, BoundAssumption DEF Inductive, TypeOK, ProcessTypes, Revision
<1>4. ProcessInv'
  BY <1>1, <1>2, BoundAssumption
     DEF Inductive, ProcessInv, MemoryMirrorsDatabase, PendingIsUndecided, Revision
<1>5. GoroutineTypes'
  BY <1>1, <1>2, EnterTypes, BoundAssumption
     DEF Inductive, TypeOK, ProcessTypes, Revision, Holding
<1>6. /\ GateIsExclusive'
      /\ \A b \in Client : pc'[b] \in Holding => b = c
      /\ pc'[c] = "applying"
      /\ loc'[c] = [op |-> loc[c].op, token |-> token, revision |-> revision + 1,
                    sequence |-> sequence]
  BY <1>1, EnterKeepsGate DEF Holding
<1>7. token = dbToken /\ sequence = dbSequence
  BY <1>1 DEF Inductive, ProcessInv, MemoryMirrorsDatabase
<1>8. HolderIsCurrent' /\ CallbackMatchesProof' /\ FreezeIsJournalled'
  BY <1>1, <1>2, <1>6, <1>7
     DEF HolderIsCurrent, CallbackMatchesProof, FreezeIsJournalled, Holding, Proven
<1> QED
  BY <1>2, <1>3, <1>4, <1>5, <1>6, <1>8 DEF Inductive, TypeOK, GoroutineInv

\* The intent is durable and the call returns an error.
LEMMA PrepareMutationLostStep ==
  ASSUME Inductive, NEW c \in Client, PrepareMutationLost(c)
  PROVE  Inductive'
<1>1. /\ up = "serving" /\ gate = NoClient /\ pending = 0
      /\ revision # MaxRevision /\ intents' = PreparedRow(revision + 1)
      /\ Return(c)
      /\ UNCHANGED <<dbToken, dbRevision, dbSequence, dbAnchor, captures, proofs,
                     up, target, memVars>>
  BY DEF PrepareMutationLost, Entering, Admitted, Exhausted
<1>2. DatabaseTypes' /\ DatabaseInv'
  BY <1>1, PreparedRowKeepsDatabase
<1>3. ProcessTypes' /\ ProcessInv'
  BY <1>1 DEF Inductive, TypeOK, ProcessTypes, ProcessInv, MemoryMirrorsDatabase,
              PendingIsUndecided, memVars, Proven
<1> QED
  BY <1>1, <1>2, <1>3, ReturnKeepsGoroutines DEF Inductive, TypeOK

\* The commit of the authoritative transaction leaves its proof at the tip,
\* under the durable token: this is what recovery relies on.
LEMMA ApplyCommitStep ==
  ASSUME Inductive, NEW c \in Client, NEW d \in Domain, ApplyCommit(c, d)
  PROVE  Inductive' /\ (\A p \in proofs' \ proofs : p.token = dbToken)
<1> DEFINE new == [domain |-> d, by |-> IF c \in Resolver THEN "conflict" ELSE "write",
                   revision |-> loc[c].revision, token |-> loc[c].token]
<1>1. /\ up = "serving" /\ pc[c] = "applying" /\ proofs' = proofs \cup {new}
      /\ pc' = [pc EXCEPT ![c] = "committed"]
      /\ UNCHANGED <<dbVars, up, target, memVars, gate, loc>>
  BY DEF ApplyCommit
<1>2. /\ loc[c].revision = dbRevision + 1 /\ loc[c].token = dbToken
      /\ pending = dbRevision + 1 /\ dbRevision \in 0..MaxRevision
      /\ intents[dbRevision + 1] = "prepared"
  BY <1>1, BoundAssumption
     DEF Inductive, GoroutineInv, HolderIsCurrent, ProcessInv, PendingIsUndecided,
         Holding, TypeOK, DatabaseTypes
<1>3. loc[c].revision \in Revision /\ loc[c].token \in Token
  BY <1>2, LocalFields, BoundAssumption DEF Inductive, TypeOK, GoroutineTypes, Revision
<1>4. new \in Proof /\ new.revision = dbRevision + 1 /\ new.token = dbToken
  BY <1>2, <1>3 DEF Proof
<1> HIDE DEF new
<1>5. DatabaseTypes'
  BY <1>1, <1>4 DEF Inductive, TypeOK, DatabaseTypes, dbVars
<1>6. ProofsAtTip'
  BY <1>1, <1>2, <1>4 DEF Inductive, DatabaseInv, ProofsAtTip, dbVars
<1>7. RevisionsAreProven'
  BY <1>1 DEF Inductive, DatabaseInv, RevisionsAreProven, dbVars, Proven
<1>8. IntentsAtTip' /\ CapturesInOrder' /\ CapturesAreExact' /\ AnchorIsSettled'
  BY <1>1 DEF Inductive, DatabaseInv, IntentsAtTip, CapturesInOrder, CapturesAreExact,
              AnchorIsSettled, dbVars
<1>9. ProcessTypes' /\ ProcessInv'
  BY <1>1, <1>2, BoundAssumption
     DEF Inductive, TypeOK, ProcessTypes, ProcessInv, MemoryMirrorsDatabase,
         PendingIsUndecided, dbVars, memVars
<1>10. GoroutineTypes'
  BY <1>1 DEF Inductive, TypeOK, GoroutineTypes, Holding
<1>11. \A b \in Client \ {c} : pc[b] \notin Holding /\ pc'[b] = pc[b]
  BY <1>1, OthersAreOutside DEF Inductive, TypeOK, GoroutineTypes, Holding
<1>12. pc'[c] = "committed" /\ Proven(dbRevision + 1)'
  BY <1>1, <1>4 DEF Inductive, TypeOK, GoroutineTypes, Proven, dbVars
<1>13. GateIsExclusive' /\ HolderIsCurrent'
  BY <1>1, <1>11, <1>12 DEF Inductive, GoroutineInv, GateIsExclusive, HolderIsCurrent,
                            Holding, dbVars, memVars
<1>14. CallbackMatchesProof' /\ FreezeIsJournalled'
  BY <1>1, <1>11, <1>12 DEF CallbackMatchesProof, FreezeIsJournalled, Holding, dbVars
<1>15. \A p \in proofs' \ proofs : p.token = dbToken
  BY <1>1, <1>4
<1> QED
  BY <1>5, <1>6, <1>7, <1>8, <1>9, <1>10, <1>13, <1>14, <1>15
     DEF Inductive, TypeOK, DatabaseInv, GoroutineInv

\* The callback's transaction rolls back.
LEMMA ApplyAbortStep ==
  ASSUME Inductive, NEW c \in Client, ApplyAbort(c)
  PROVE  Inductive'
<1>1. /\ up = "serving" /\ pc[c] = "applying" /\ loc[c].op = "write"
      /\ pc' = [pc EXCEPT ![c] = "aborted"]
      /\ UNCHANGED <<dbVars, proofs, up, target, memVars, gate, loc>>
  BY DEF ApplyAbort
<1>2. GoroutineTypes'
  BY <1>1 DEF Inductive, TypeOK, GoroutineTypes, Holding
<1>3. /\ \A b \in Client \ {c} : pc[b] \notin Holding /\ pc'[b] = pc[b]
      /\ pc'[c] = "aborted"
  BY <1>1, OthersAreOutside DEF Inductive, TypeOK, GoroutineTypes, Holding
<1>4. GateIsExclusive' /\ HolderIsCurrent'
  BY <1>1, <1>3 DEF Inductive, GoroutineInv, GateIsExclusive, HolderIsCurrent,
                    Holding, dbVars, memVars
<1>5. CallbackMatchesProof' /\ FreezeIsJournalled'
  BY <1>1, <1>3 DEF Inductive, GoroutineInv, CallbackMatchesProof, FreezeIsJournalled,
                    Holding, dbVars, Proven
<1> QED
  BY <1>1, <1>2, <1>4, <1>5, DatabaseUntouched, ProcessUntouched
     DEF Inductive, TypeOK, GoroutineInv

\* A conflict publication takes up the pending revision.
LEMMA ResumeMutationStep ==
  ASSUME Inductive, NEW c \in Client, ResumeMutation(c)
  PROVE  Inductive'
<1>1. /\ loc[c].token = token
      /\ up = "serving" /\ gate = NoClient /\ loc[c].op = "resume"
      /\ pending = revision + 1
      /\ Enter(c, "applying", pending, sequence)
      /\ UNCHANGED <<dbVars, proofs, up, target, memVars>>
  BY DEF ResumeMutation, Entering, Resumable
<1>2. GoroutineTypes'
  BY <1>1, EnterTypes DEF Inductive, TypeOK, ProcessTypes, Holding
<1>3. /\ GateIsExclusive'
      /\ \A b \in Client : pc'[b] \in Holding => b = c
      /\ pc'[c] = "applying"
      /\ loc'[c] = [op |-> loc[c].op, token |-> token, revision |-> pending,
                    sequence |-> sequence]
  BY <1>1, EnterKeepsGate DEF Holding
<1>4. token = dbToken /\ sequence = dbSequence /\ revision = dbRevision
  BY <1>1 DEF Inductive, ProcessInv, MemoryMirrorsDatabase
<1>5. HolderIsCurrent' /\ CallbackMatchesProof' /\ FreezeIsJournalled'
  BY <1>1, <1>3, <1>4
     DEF HolderIsCurrent, CallbackMatchesProof, FreezeIsJournalled, Holding,
         dbVars, memVars
<1> QED
  BY <1>1, <1>2, <1>3, <1>5, DatabaseUntouched, ProcessUntouched
     DEF Inductive, TypeOK, GoroutineInv

\* Settling the proven tip, by finishMutation or by startup recovery.
LEMMA SettlingKeepsDatabase ==
  ASSUME Inductive, dbRevision + 1 \in Revision, Proven(dbRevision + 1),
         dbRevision' = dbRevision + 1,
         intents' = [intents EXCEPT ![dbRevision + 1] = "committed"],
         UNCHANGED <<dbToken, dbSequence, dbAnchor, captures, proofs>>
  PROVE  /\ DatabaseTypes' /\ DatabaseInv'
         /\ \A r \in Revision : intents'[r] # "prepared"
         /\ ~Proven(dbRevision + 2)
<1>1. /\ dbRevision \in 0..MaxRevision /\ dbAnchor \in SUBSET Revision
      /\ intents \in [Revision -> {"none", "prepared", "committed", "failed"}]
      /\ \A p \in proofs : p.revision \in Revision
  BY ProofFields DEF Inductive, TypeOK, DatabaseTypes
<1>2. DatabaseTypes'
  BY <1>1, BoundAssumption DEF Inductive, TypeOK, DatabaseTypes, Revision
<1>3. RevisionsAreProven'
  BY <1>1, BoundAssumption
     DEF Inductive, DatabaseInv, RevisionsAreProven, Proven, Revision
<1>4. \A r \in Revision : intents'[r] \notin {"prepared", "failed"}
  BY <1>1 DEF Inductive, DatabaseInv, IntentsAtTip
<1>5. IntentsAtTip' /\ CapturesInOrder' /\ CapturesAreExact'
  BY <1>4 DEF Inductive, DatabaseInv, IntentsAtTip, CapturesInOrder, CapturesAreExact
<1>6. \A p \in proofs : p.revision <= dbRevision + 1
  BY <1>1, BoundAssumption DEF Inductive, DatabaseInv, ProofsAtTip, Revision
<1>7. ProofsAtTip' /\ ~Proven(dbRevision + 2)
  BY <1>1, <1>6, BoundAssumption DEF ProofsAtTip, Proven, Revision
<1>8. AnchorIsSettled'
  BY <1>1, BoundAssumption DEF Inductive, DatabaseInv, AnchorIsSettled, Revision
<1> QED
  BY <1>2, <1>3, <1>4, <1>5, <1>7, <1>8 DEF DatabaseInv

\* Declaring the tip failed, when no store holds a proof of it.
LEMMA FailingKeepsDatabase ==
  ASSUME Inductive, dbRevision + 1 \in Revision, ~Proven(dbRevision + 1),
         intents[dbRevision + 1] = "prepared",
         intents' = [intents EXCEPT ![dbRevision + 1] = "failed"],
         UNCHANGED <<dbToken, dbRevision, dbSequence, dbAnchor, captures, proofs>>
  PROVE  DatabaseTypes' /\ DatabaseInv'
<1>1. /\ dbRevision \in 0..MaxRevision
      /\ intents \in [Revision -> {"none", "prepared", "committed", "failed"}]
  BY DEF Inductive, TypeOK, DatabaseTypes
<1>2. DatabaseTypes'
  BY <1>1 DEF Inductive, TypeOK, DatabaseTypes
<1>3. RevisionsAreProven' /\ IntentsAtTip'
  BY <1>1, BoundAssumption
     DEF Inductive, DatabaseInv, RevisionsAreProven, IntentsAtTip, Proven, Revision
<1>4. ProofsAtTip'
  BY DEF Inductive, DatabaseInv, ProofsAtTip, Proven
<1>5. CapturesInOrder' /\ CapturesAreExact' /\ AnchorIsSettled'
  BY DEF Inductive, DatabaseInv, CapturesInOrder, CapturesAreExact, AnchorIsSettled
<1> QED
  BY <1>2, <1>3, <1>4, <1>5 DEF DatabaseInv

\* A gate holder whose callback is over works on the revision after the
\* settled ones.
LEMMA HolderAtTip ==
  ASSUME Inductive, NEW c \in Client, pc[c] \in {"applying", "committed", "aborted"}
  PROVE  /\ loc[c].revision = dbRevision + 1 /\ pending = dbRevision + 1
         /\ dbRevision + 1 \in Revision
  BY BoundAssumption
     DEF Inductive, TypeOK, DatabaseTypes, ProcessTypes, GoroutineInv, HolderIsCurrent,
         Revision

\* The proven tip is settled in database and memory.
LEMMA FinishMutationStep ==
  ASSUME Inductive, NEW c \in Client, FinishMutation(c)
  PROVE  Inductive'
<1>1. /\ up = "serving" /\ pc[c] = "committed" /\ dbRevision' = loc[c].revision
      /\ intents' = [intents EXCEPT ![loc[c].revision] = "committed"]
      /\ revision' = loc[c].revision /\ pending' = 0 /\ Return(c)
      /\ UNCHANGED <<dbToken, dbSequence, dbAnchor, captures, proofs, up, target,
                     token, sequence>>
  BY DEF FinishMutation
<1>2. loc[c].revision = dbRevision + 1 /\ dbRevision + 1 \in Revision
  BY <1>1, HolderAtTip
<1>3. Proven(dbRevision + 1)
  BY <1>1 DEF Inductive, GoroutineInv, CallbackMatchesProof
<1>4. DatabaseTypes' /\ DatabaseInv' /\ ~Proven(dbRevision + 2)
  BY <1>1, <1>2, <1>3, SettlingKeepsDatabase
<1>5. ProcessTypes'
  BY <1>1, <1>2, BoundAssumption DEF Inductive, TypeOK, ProcessTypes, Revision
<1>6. ProcessInv'
  <2>1. dbRevision' + 1 = dbRevision + 2
    BY <1>1, <1>2, BoundAssumption DEF Revision, Inductive, TypeOK, DatabaseTypes
  <2> QED
    BY <1>1, <1>2, <1>4, <2>1
     DEF Inductive, ProcessInv, MemoryMirrorsDatabase, PendingIsUndecided, Proven
<1>7. GoroutineTypes' /\ GoroutineInv'
  BY <1>1, ReturnKeepsGoroutines DEF Holding
<1> QED
  BY <1>4, <1>5, <1>6, <1>7 DEF Inductive, TypeOK

\* A mutation without proof is declared failed.
LEMMA AbortMutationStep ==
  ASSUME Inductive, NEW c \in Client, AbortMutation(c)
  PROVE  Inductive'
<1>1. /\ up = "serving" /\ pc[c] = "aborted" /\ intents[loc[c].revision] = "prepared"
      /\ intents' = [intents EXCEPT ![loc[c].revision] = "failed"]
      /\ pending' = 0 /\ Return(c)
      /\ UNCHANGED <<dbToken, dbRevision, dbSequence, dbAnchor, captures, proofs, up,
                     target, token, revision, sequence>>
  BY DEF AbortMutation
<1>2. loc[c].revision = dbRevision + 1 /\ dbRevision + 1 \in Revision
  BY <1>1, HolderAtTip
<1>3. ~Proven(dbRevision + 1)
  BY <1>1 DEF Inductive, GoroutineInv, CallbackMatchesProof
<1>4. DatabaseTypes' /\ DatabaseInv'
  BY <1>1, <1>2, <1>3, FailingKeepsDatabase
<1>5. ProcessTypes' /\ ProcessInv'
  BY <1>1, <1>3, BoundAssumption
     DEF Inductive, TypeOK, ProcessTypes, ProcessInv, MemoryMirrorsDatabase,
         PendingIsUndecided, Proven
<1>6. GoroutineTypes' /\ GoroutineInv'
  BY <1>1, ReturnKeepsGoroutines DEF Holding
<1> QED
  BY <1>4, <1>5, <1>6 DEF Inductive, TypeOK

\* Capture journals its sequence number.
LEMMA PrepareCaptureStep ==
  ASSUME Inductive, NEW c \in Client, PrepareCapture(c)
  PROVE  Inductive'
<1> DEFINE k == [state |-> "prepared", revision |-> revision, view |-> {}]
<1>1. /\ loc[c].token = token
      /\ up = "serving" /\ gate = NoClient /\ pending = 0 /\ loc[c].op = "capture"
      /\ sequence # MaxSequence
      /\ dbToken = token /\ dbRevision = revision /\ dbSequence = sequence
      /\ dbSequence' = sequence + 1 /\ sequence' = sequence + 1
      /\ captures' = [captures EXCEPT ![sequence + 1] = k]
      /\ Enter(c, "freezing", revision, sequence + 1)
      /\ UNCHANGED <<dbToken, dbRevision, dbAnchor, intents, proofs, up, target,
                     token, revision, pending>>
  BY DEF PrepareCapture, Entering, Admitted, Exhausted
<1>2. /\ sequence \in 0..MaxSequence /\ revision \in 0..MaxRevision
      /\ sequence + 1 \in Sequence /\ sequence + 1 \in 0..MaxSequence
      /\ captures \in [Sequence -> Capture]
  BY <1>1, BoundAssumption DEF Inductive, TypeOK, DatabaseTypes, ProcessTypes, Sequence
<1>3. k \in Capture /\ k.state = "prepared" /\ k.revision = revision
  BY <1>2, CaptureRecords
<1> HIDE DEF k
<1>4. DatabaseTypes'
  BY <1>1, <1>2, <1>3 DEF Inductive, TypeOK, DatabaseTypes
<1>5. CapturesInOrder' /\ CapturesAreExact'
  BY <1>1, <1>2, <1>3, BoundAssumption
     DEF Inductive, DatabaseInv, CapturesInOrder, CapturesAreExact, Sequence
<1>6. RevisionsAreProven' /\ IntentsAtTip' /\ ProofsAtTip' /\ AnchorIsSettled'
  BY <1>1 DEF Inductive, DatabaseInv, RevisionsAreProven, IntentsAtTip, ProofsAtTip,
              AnchorIsSettled, Proven
<1>7. ProcessTypes' /\ ProcessInv'
  BY <1>1, <1>2 DEF Inductive, TypeOK, ProcessTypes, ProcessInv, MemoryMirrorsDatabase,
                    PendingIsUndecided, Proven
<1>8. GoroutineTypes'
  BY <1>1, <1>2, EnterTypes DEF Inductive, TypeOK, Holding
<1>9. /\ GateIsExclusive'
      /\ \A b \in Client : pc'[b] \in Holding => b = c
      /\ pc'[c] = "freezing"
      /\ loc'[c] = [op |-> loc[c].op, token |-> token, revision |-> revision,
                    sequence |-> sequence + 1]
  BY <1>1, EnterKeepsGate DEF Holding
<1>10. HolderIsCurrent' /\ CallbackMatchesProof' /\ FreezeIsJournalled'
  BY <1>1, <1>2, <1>3, <1>9
     DEF HolderIsCurrent, CallbackMatchesProof, FreezeIsJournalled, Holding
<1> QED
  BY <1>4, <1>5, <1>6, <1>7, <1>8, <1>9, <1>10
     DEF Inductive, TypeOK, DatabaseInv, GoroutineInv

\* With nothing pending the stores hold exactly the settled mutations: what a
\* freeze or a drain reads is the prefix its label names.
LEMMA EffectsAreSettled ==
  ASSUME Inductive, up = "serving", pending = 0
  PROVE  Effects = 1..dbRevision
<1>1. dbRevision \in 0..MaxRevision /\ \A p \in proofs : p.revision \in Revision
  BY ProofFields DEF Inductive, TypeOK, DatabaseTypes
<1>2. ~Proven(dbRevision + 1)
  BY DEF Inductive, ProcessInv, PendingIsUndecided
<1>3. \A r \in Revision : Proven(r) => r <= dbRevision
  BY <1>2 DEF Inductive, DatabaseInv, ProofsAtTip, Proven
<1>4. \A r \in Revision : r <= dbRevision => Proven(r)
  BY DEF Inductive, DatabaseInv, RevisionsAreProven
<1> QED
  BY <1>1, <1>3, <1>4, BoundAssumption DEF Effects, Revision

\* The freeze callback has returned and the capture is recorded.
LEMMA FinishCaptureStep ==
  ASSUME Inductive, NEW c \in Client, FinishCapture(c)
  PROVE  Inductive'
<1>1. PICK outcome \in {"captured", "failed"} :
        captures' = [captures EXCEPT ![loc[c].sequence] =
           [state |-> outcome, revision |-> loc[c].revision,
            view |-> IF outcome = "captured" THEN Effects ELSE {}]]
  BY DEF FinishCapture
<1> DEFINE k == [state |-> outcome, revision |-> loc[c].revision,
                 view |-> IF outcome = "captured" THEN Effects ELSE {}]
<1>2. /\ up = "serving" /\ pc[c] = "freezing" /\ Return(c)
      /\ UNCHANGED <<dbToken, dbRevision, dbSequence, dbAnchor, intents, proofs,
                     up, target, memVars>>
  BY DEF FinishCapture
<1>3. /\ loc[c].revision = dbRevision /\ loc[c].sequence = dbSequence /\ pending = 0
      /\ dbSequence \in Sequence /\ dbRevision \in 0..MaxRevision
      /\ captures \in [Sequence -> Capture]
  BY <1>2 DEF Inductive, TypeOK, DatabaseTypes, GoroutineInv, HolderIsCurrent,
              FreezeIsJournalled, Holding
<1>4. Effects = 1..dbRevision /\ Effects \in SUBSET Revision
  BY <1>2, <1>3, EffectsAreSettled DEF Effects
<1>5. /\ k \in Capture /\ k.state = outcome
      /\ outcome = "captured" => k.view = 1..k.revision
  BY <1>3, <1>4, CaptureRecords
<1>6. captures' = [captures EXCEPT ![dbSequence] = k]
  BY <1>1, <1>3
<1> HIDE DEF k
<1>7. DatabaseTypes'
  BY <1>2, <1>3, <1>5, <1>6 DEF Inductive, TypeOK, DatabaseTypes
<1>8. CapturesInOrder' /\ CapturesAreExact'
  BY <1>2, <1>3, <1>5, <1>6, BoundAssumption
     DEF Inductive, DatabaseInv, CapturesInOrder, CapturesAreExact, Sequence
<1>9. RevisionsAreProven' /\ IntentsAtTip' /\ ProofsAtTip' /\ AnchorIsSettled'
  BY <1>2 DEF Inductive, DatabaseInv, RevisionsAreProven, IntentsAtTip, ProofsAtTip,
              AnchorIsSettled, Proven
<1>10. ProcessTypes' /\ ProcessInv'
  BY <1>2 DEF Inductive, TypeOK, ProcessTypes, ProcessInv, MemoryMirrorsDatabase,
              PendingIsUndecided, Proven, memVars
<1>11. GoroutineTypes' /\ GoroutineInv'
  BY <1>2, ReturnKeepsGoroutines DEF Holding
<1> QED
  BY <1>7, <1>8, <1>9, <1>10, <1>11 DEF Inductive, TypeOK, DatabaseInv

\* Drain reads the counters.
LEMMA BeginDrainStep ==
  ASSUME Inductive, NEW c \in Client, BeginDrain(c)
  PROVE  Inductive'
<1>1. /\ loc[c].token = token
      /\ up = "serving" /\ gate = NoClient /\ pending = 0
      /\ Enter(c, "draining", revision, sequence)
      /\ UNCHANGED <<dbVars, proofs, up, target, memVars>>
  BY DEF BeginDrain, Entering, Admitted
<1>2. GoroutineTypes'
  BY <1>1, EnterTypes DEF Inductive, TypeOK, ProcessTypes, Holding
<1>3. /\ GateIsExclusive'
      /\ \A b \in Client : pc'[b] \in Holding => b = c
      /\ pc'[c] = "draining"
      /\ loc'[c] = [op |-> loc[c].op, token |-> token, revision |-> revision,
                    sequence |-> sequence]
  BY <1>1, EnterKeepsGate DEF Holding
<1>4. token = dbToken /\ sequence = dbSequence /\ revision = dbRevision
  BY <1>1 DEF Inductive, ProcessInv, MemoryMirrorsDatabase
<1>5. HolderIsCurrent' /\ CallbackMatchesProof' /\ FreezeIsJournalled'
  BY <1>1, <1>3, <1>4
     DEF HolderIsCurrent, CallbackMatchesProof, FreezeIsJournalled, Holding,
         dbVars, memVars
<1> QED
  BY <1>1, <1>2, <1>3, <1>5, DatabaseUntouched, ProcessUntouched
     DEF Inductive, TypeOK, GoroutineInv

\* Drain writes back the counters it read: nothing has moved since.
LEMMA FinishDrainStep ==
  ASSUME Inductive, NEW c \in Client, FinishDrain(c)
  PROVE  Inductive' /\ UNCHANGED <<dbToken, dbRevision, dbSequence>>
<1>1. /\ up = "serving" /\ pc[c] = "draining" /\ Return(c)
      /\ dbToken' = loc[c].token /\ dbRevision' = loc[c].revision
      /\ dbSequence' = loc[c].sequence /\ dbAnchor' = Effects
      /\ UNCHANGED <<intents, captures, proofs, up, target, memVars>>
  BY DEF FinishDrain
<1>2. /\ loc[c].revision = dbRevision /\ loc[c].sequence = dbSequence /\ pending = 0
      /\ loc[c].token = dbToken
  BY <1>1 DEF Inductive, GoroutineInv, HolderIsCurrent, Holding
<1>3. UNCHANGED <<dbToken, dbRevision, dbSequence>>
  BY <1>1, <1>2
<1>4. Effects = 1..dbRevision /\ Effects \in SUBSET Revision
  BY <1>1, <1>2, EffectsAreSettled DEF Effects
<1>5. DatabaseTypes'
  BY <1>1, <1>3, <1>4 DEF Inductive, TypeOK, DatabaseTypes
<1>6. DatabaseInv'
  <2>1. AnchorIsSettled'
    BY <1>1, <1>3, <1>4 DEF AnchorIsSettled
  <2>2. RevisionsAreProven' /\ IntentsAtTip' /\ ProofsAtTip'
    BY <1>1, <1>3
       DEF Inductive, DatabaseInv, RevisionsAreProven, IntentsAtTip, ProofsAtTip, Proven
  <2>3. CapturesInOrder' /\ CapturesAreExact'
    BY <1>1, <1>3 DEF Inductive, DatabaseInv, CapturesInOrder, CapturesAreExact
  <2> QED
    BY <2>1, <2>2, <2>3 DEF DatabaseInv
<1>7. ProcessTypes' /\ ProcessInv'
  BY <1>1, <1>3 DEF Inductive, TypeOK, ProcessTypes, ProcessInv, MemoryMirrorsDatabase,
                    PendingIsUndecided, Proven, memVars
<1>8. GoroutineTypes' /\ GoroutineInv'
  BY <1>1, ReturnKeepsGoroutines DEF Holding
<1> QED
  BY <1>3, <1>5, <1>6, <1>7, <1>8 DEF Inductive, TypeOK

\* A new token is safe when no proof waits at the tip: the proofs recovery may
\* have to find carry the durable token.
LEMMA NewTokenKeepsDatabase ==
  ASSUME Inductive, ~Proven(dbRevision + 1), dbToken' \in Token,
         UNCHANGED <<dbRevision, dbSequence, dbAnchor, intents, captures, proofs>>
  PROVE  DatabaseTypes' /\ DatabaseInv'
<1>1. ProofsAtTip'
  BY DEF Inductive, DatabaseInv, ProofsAtTip, Proven
<1> QED
  BY <1>1 DEF Inductive, TypeOK, DatabaseTypes, DatabaseInv, RevisionsAreProven,
              IntentsAtTip, CapturesInOrder, CapturesAreExact, AnchorIsSettled, Proven

\* The fence epoch moves while nobody is inside the gate.
LEMMA TransferFenceStep ==
  ASSUME Inductive, NEW c \in Client, TransferFence(c)
  PROVE  /\ Inductive' /\ UNCHANGED <<dbRevision, dbSequence>>
         /\ dbToken'.session >= dbToken.session /\ dbToken'.fence >= dbToken.fence
<1> DEFINE next == [session |-> token.session, fence |-> token.fence + 1]
<1>1. /\ up = "serving" /\ gate = NoClient /\ pending = 0 /\ token.fence # MaxFence
      /\ dbToken' = next /\ token' = next
      /\ dbRevision' = revision /\ dbSequence' = sequence /\ Return(c)
      /\ UNCHANGED <<dbAnchor, intents, captures, proofs, up, target, revision,
                     sequence, pending>>
  BY DEF TransferFence, Entering, Admitted, Exhausted
<1>2. token = dbToken /\ revision = dbRevision /\ sequence = dbSequence
  BY <1>1 DEF Inductive, ProcessInv, MemoryMirrorsDatabase
<1>3. /\ next \in Token /\ next.session >= token.session /\ next.fence >= token.fence
  BY <1>1, BoundAssumption DEF Inductive, TypeOK, ProcessTypes, Token
<1> HIDE DEF next
<1>4. ~Proven(dbRevision + 1)
  BY <1>1 DEF Inductive, ProcessInv, PendingIsUndecided
<1>5. DatabaseTypes' /\ DatabaseInv'
  BY <1>1, <1>2, <1>3, <1>4, NewTokenKeepsDatabase
<1>6. ProcessTypes' /\ ProcessInv'
  BY <1>1, <1>2, <1>3
     DEF Inductive, TypeOK, ProcessTypes, ProcessInv, MemoryMirrorsDatabase,
         PendingIsUndecided, Proven
<1>7. GoroutineTypes' /\ GoroutineInv'
  BY <1>1, ReturnKeepsGoroutines
<1> QED
  BY <1>1, <1>2, <1>3, <1>5, <1>6, <1>7 DEF Inductive, TypeOK

-----------------------------------------------------------------------------
(* Crash and startup                                                       *)

\* A process that ends leaves its database and the proofs.
LEMMA ForgetStep ==
  ASSUME Inductive, Forget, UNCHANGED <<dbVars, proofs>>
  PROVE  Inductive'
<1>1. /\ up' = "down" /\ target' = 1 /\ token' = FirstToken /\ revision' = 0
      /\ sequence' = 0 /\ pending' = 0 /\ gate' = NoClient
      /\ pc' = [c \in Client |-> "idle"] /\ loc' = [c \in Client |-> NoLocal]
  BY DEF Forget
<1>2. ProcessTypes' /\ GoroutineTypes'
  BY <1>1, InitialRecords, BoundAssumption DEF ProcessTypes, GoroutineTypes
<1>3. ProcessInv'
  BY <1>1 DEF ProcessInv, MemoryMirrorsDatabase, PendingIsUndecided
<1>4. GoroutineInv'
  BY <1>1, ClientAssumption
     DEF GoroutineInv, GateIsExclusive, HolderIsCurrent, CallbackMatchesProof,
         FreezeIsJournalled, Holding
<1> QED
  BY <1>2, <1>3, <1>4, DatabaseUntouched DEF Inductive, TypeOK

\* Until it serves, no goroutine is inside the gate.
LEMMA StartupKeepsGoroutines ==
  ASSUME Inductive, up # "serving", UNCHANGED <<gate, pc, loc>>
  PROVE  GoroutineTypes' /\ GoroutineInv'
<1>1. \A c \in Client : pc'[c] = "idle"
  BY DEF Inductive, GoroutineInv, GateIsExclusive
<1> QED
  BY <1>1 DEF Inductive, TypeOK, GoroutineTypes, GoroutineInv, GateIsExclusive,
              HolderIsCurrent, CallbackMatchesProof, FreezeIsJournalled, Holding

\* OpenPersistent loads what the database holds.
LEMMA LaunchStep ==
  ASSUME Inductive, NEW s \in 1..MaxSession, Launch(s)
  PROVE  Inductive'
<1> DEFINE Largest(r) == /\ intents[r] = "prepared"
                         /\ \A q \in Revision : intents[q] = "prepared" => q <= r
           abandon(q) == [state |-> "abandoned", revision |-> captures[q].revision,
                          view |-> {}]
<1>1. /\ up = "down" /\ up' = "recovering" /\ target' = s
      /\ token' = dbToken /\ revision' = dbRevision /\ sequence' = dbSequence
      /\ pending' = IF \E r \in Revision : intents[r] = "prepared"
                    THEN CHOOSE r \in Revision : Largest(r) ELSE 0
      /\ captures' = [q \in Sequence |-> IF captures[q].state = "prepared"
                                         THEN abandon(q) ELSE captures[q]]
      /\ UNCHANGED <<dbToken, dbRevision, dbSequence, dbAnchor, intents, proofs,
                     gate, pc, loc>>
  BY DEF Launch
<1>2. captures \in [Sequence -> Capture]
  BY DEF Inductive, TypeOK, DatabaseTypes
<1>3. \A q \in Sequence : abandon(q) \in Capture /\ abandon(q).state = "abandoned"
  BY <1>2, CaptureRecords, CaptureFields
<1> HIDE DEF abandon
<1>4. DatabaseTypes'
  BY <1>1, <1>2, <1>3 DEF Inductive, TypeOK, DatabaseTypes
<1>5. CapturesInOrder' /\ CapturesAreExact'
  BY <1>1, <1>3 DEF Inductive, DatabaseInv, CapturesInOrder, CapturesAreExact
<1>6. RevisionsAreProven' /\ IntentsAtTip' /\ ProofsAtTip' /\ AnchorIsSettled'
  BY <1>1 DEF Inductive, DatabaseInv, RevisionsAreProven, IntentsAtTip, ProofsAtTip,
              AnchorIsSettled, Proven
<1>7. CASE \E r \in Revision : intents[r] = "prepared"
  <2>1. PICK r \in Revision : intents[r] = "prepared"
    BY <1>7
  <2>2. \A q \in Revision : intents[q] = "prepared" => q = dbRevision + 1
    BY DEF Inductive, DatabaseInv, IntentsAtTip
  <2>3. Largest(r)
    BY <2>1, <2>2, BoundAssumption DEF Revision
  <2>4. pending' \in Revision /\ Largest(pending')
    BY <1>1, <1>7, <2>1, <2>3
  <2>5. pending' \in Revision /\ pending' = dbRevision + 1 /\ intents[pending'] = "prepared"
    BY <2>2, <2>4
  <2>6. pending' # 0 /\ pending' \in 0..MaxRevision
    BY <2>5, BoundAssumption DEF Revision
  <2> QED
    BY <1>1, <1>4, <1>5, <1>6, <2>5, <2>6, StartupKeepsGoroutines
       DEF Inductive, TypeOK, DatabaseTypes, ProcessTypes, DatabaseInv, ProcessInv,
           MemoryMirrorsDatabase, PendingIsUndecided
<1>8. CASE ~\E r \in Revision : intents[r] = "prepared"
  <2>1. pending' = 0 /\ \A r \in Revision : intents'[r] # "prepared"
    BY <1>1, <1>8
  <2> QED
    BY <1>1, <1>4, <1>5, <1>6, <2>1, StartupKeepsGoroutines, BoundAssumption
       DEF Inductive, TypeOK, DatabaseTypes, ProcessTypes, DatabaseInv, ProcessInv,
           MemoryMirrorsDatabase, PendingIsUndecided
<1> QED
  BY <1>7, <1>8

\* Recovery decides by the proofs, and the proofs cannot deceive it: the tip
\* is observed if and only if it committed.
LEMMA RecoverStep ==
  ASSUME Inductive, Recover
  PROVE  Inductive' /\ dbRevision' >= dbRevision
<1>1. /\ up = "recovering" /\ pending # 0 /\ pending' = 0 /\ up' = "rotating"
      /\ UNCHANGED <<dbToken, dbSequence, dbAnchor, captures, proofs, target,
                     token, sequence, gate, pc, loc>>
  BY DEF Recover
<1>2. /\ token = dbToken /\ revision = dbRevision /\ sequence = dbSequence
      /\ pending = dbRevision + 1 /\ intents[pending] = "prepared"
      /\ dbRevision \in 0..MaxRevision /\ pending \in 0..MaxRevision
  BY <1>1 DEF Inductive, TypeOK, DatabaseTypes, ProcessTypes, ProcessInv,
              MemoryMirrorsDatabase, PendingIsUndecided
<1>3. dbRevision + 1 \in Revision
  BY <1>2, BoundAssumption DEF Revision
<1>4. Observed # {} <=> Proven(dbRevision + 1)
  <2>1. \A p \in proofs : p.revision = dbRevision + 1 => p.token = token
    BY <1>2 DEF Inductive, DatabaseInv, ProofsAtTip
  <2> QED
    BY <1>2, <2>1 DEF Observed, Visible, Proven
<1>5. GoroutineTypes' /\ GoroutineInv'
  BY <1>1, StartupKeepsGoroutines
<1>6. CASE Observed # {}
  <2>1. /\ dbRevision' = dbRevision + 1 /\ revision' = dbRevision + 1
        /\ intents' = [intents EXCEPT ![dbRevision + 1] = "committed"]
    BY <1>2, <1>6, BoundAssumption DEF Recover
  <2>2. DatabaseTypes' /\ DatabaseInv' /\ ~Proven(dbRevision + 2)
    BY <1>1, <1>3, <1>4, <1>6, <2>1, SettlingKeepsDatabase
  <2>3. ProcessTypes'
    BY <1>1, <1>2, <2>1, BoundAssumption DEF Inductive, TypeOK, ProcessTypes
  <2>4. dbRevision' + 1 = dbRevision + 2
    BY <1>2, <2>1, BoundAssumption
  <2>5. ProcessInv'
    BY <1>1, <1>2, <2>1, <2>2, <2>4
       DEF ProcessInv, MemoryMirrorsDatabase, PendingIsUndecided, Proven
  <2> QED
    BY <1>2, <1>5, <2>1, <2>2, <2>3, <2>5, BoundAssumption DEF Inductive, TypeOK
<1>7. CASE Observed = {}
  <2>1. /\ UNCHANGED <<dbRevision, revision>>
        /\ intents' = [intents EXCEPT ![dbRevision + 1] = "failed"]
    BY <1>2, <1>7 DEF Recover
  <2>2. DatabaseTypes' /\ DatabaseInv'
    BY <1>1, <1>2, <1>3, <1>4, <1>7, <2>1, FailingKeepsDatabase
  <2>3. ProcessTypes' /\ ProcessInv'
    BY <1>1, <1>2, <1>4, <1>7, <2>1, BoundAssumption
       DEF Inductive, TypeOK, ProcessTypes, ProcessInv, MemoryMirrorsDatabase,
           PendingIsUndecided, Proven
  <2> QED
    BY <1>2, <1>5, <2>1, <2>2, <2>3, BoundAssumption DEF Inductive, TypeOK
<1> QED
  BY <1>6, <1>7

\* No intent is undecided at launch.
LEMMA RecoverNothingStep ==
  ASSUME Inductive, RecoverNothing
  PROVE  Inductive'
<1>1. /\ up = "recovering" /\ pending = 0 /\ up' = "rotating"
      /\ UNCHANGED <<dbVars, proofs, target, memVars, gate, pc, loc>>
  BY DEF RecoverNothing
<1>2. \A r \in Revision : intents[r] # "prepared"
  BY <1>1 DEF Inductive, ProcessInv, PendingIsUndecided
<1>3. ~Proven(dbRevision + 1)
  <2>1. dbRevision \in 0..MaxRevision /\ \A p \in proofs : p.revision \in Revision
    BY ProofFields DEF Inductive, TypeOK, DatabaseTypes
  <2>2. \A p \in proofs : p.revision <= dbRevision
    BY <1>2, <2>1 DEF Inductive, DatabaseInv, ProofsAtTip
  <2> QED
    BY <2>1, <2>2, BoundAssumption DEF Proven, Revision
<1>4. ProcessTypes' /\ ProcessInv'
  BY <1>1, <1>3 DEF Inductive, TypeOK, ProcessTypes, ProcessInv, MemoryMirrorsDatabase,
                    PendingIsUndecided, Proven, dbVars, memVars
<1> QED
  BY <1>1, <1>4, DatabaseUntouched, StartupKeepsGoroutines DEF Inductive, TypeOK

\* The session epoch moves one step towards that of the launch.
LEMMA RotateSessionStep ==
  ASSUME Inductive, RotateSession
  PROVE  /\ Inductive' /\ UNCHANGED <<dbRevision, dbSequence>>
         /\ dbToken'.session >= dbToken.session /\ dbToken'.fence >= dbToken.fence
<1> DEFINE next == [session |-> token.session + 1, fence |-> token.fence]
<1>1. /\ up = "rotating" /\ pending = 0 /\ token.session < target
      /\ dbToken' = next /\ token' = next
      /\ dbRevision' = revision /\ dbSequence' = sequence
      /\ UNCHANGED <<dbAnchor, intents, captures, proofs, up, target, revision,
                     sequence, pending, gate, pc, loc>>
  BY DEF RotateSession
<1>2. token = dbToken /\ revision = dbRevision /\ sequence = dbSequence
  BY <1>1 DEF Inductive, ProcessInv, MemoryMirrorsDatabase
<1>3. next \in Token /\ next.session >= token.session /\ next.fence >= token.fence
  BY <1>1, BoundAssumption DEF Inductive, TypeOK, ProcessTypes, Token
<1> HIDE DEF next
<1>4. ~Proven(dbRevision + 1)
  BY <1>1 DEF Inductive, ProcessInv, PendingIsUndecided
<1>5. DatabaseTypes' /\ DatabaseInv'
  BY <1>1, <1>2, <1>3, <1>4, NewTokenKeepsDatabase
<1>6. ProcessTypes' /\ ProcessInv'
  BY <1>1, <1>2, <1>3
     DEF Inductive, TypeOK, ProcessTypes, ProcessInv, MemoryMirrorsDatabase,
         PendingIsUndecided, Proven
<1> QED
  BY <1>1, <1>2, <1>3, <1>5, <1>6, StartupKeepsGoroutines DEF Inductive, TypeOK

\* The launch has reached the session epoch of the host.
LEMMA ServeStep ==
  ASSUME Inductive, Serve
  PROVE  Inductive'
<1>1. /\ up = "rotating" /\ up' = "serving"
      /\ UNCHANGED <<dbVars, proofs, target, memVars, gate, pc, loc>>
  BY DEF Serve
<1>2. ProcessTypes' /\ ProcessInv'
  BY <1>1 DEF Inductive, TypeOK, ProcessTypes, ProcessInv, MemoryMirrorsDatabase,
              PendingIsUndecided, Proven, dbVars, memVars
<1> QED
  BY <1>1, <1>2, DatabaseUntouched, StartupKeepsGoroutines DEF Inductive, TypeOK

-----------------------------------------------------------------------------
(* The theorems                                                            *)

\* The initial state.
LEMMA InitInductive ==
  ASSUME Init
  PROVE  Inductive
<1>1. /\ dbToken = FirstToken /\ dbRevision = 0 /\ dbSequence = 0 /\ dbAnchor = {}
      /\ intents = [r \in Revision |-> "none"]
      /\ captures = [s \in Sequence |-> NoCapture] /\ proofs = {}
      /\ up = "down" /\ target = 1 /\ token = FirstToken /\ revision = 0
      /\ sequence = 0 /\ pending = 0 /\ gate = NoClient
      /\ pc = [c \in Client |-> "idle"] /\ loc = [c \in Client |-> NoLocal]
  BY DEF Init
<1>2. TypeOK
  BY <1>1, InitialRecords, BoundAssumption
     DEF TypeOK, DatabaseTypes, ProcessTypes, GoroutineTypes
<1>3. NoCapture.state = "none"
  BY DEF NoCapture
<1>4. DatabaseInv
  BY <1>1, <1>3, BoundAssumption
     DEF DatabaseInv, RevisionsAreProven, IntentsAtTip, ProofsAtTip, CapturesInOrder,
         CapturesAreExact, AnchorIsSettled, Revision, Sequence
<1>5. ProcessInv
  BY <1>1 DEF ProcessInv, MemoryMirrorsDatabase, PendingIsUndecided
<1>6. GoroutineInv
  BY <1>1, ClientAssumption
     DEF GoroutineInv, GateIsExclusive, HolderIsCurrent, CallbackMatchesProof,
         FreezeIsJournalled, Holding
<1> QED
  BY <1>2, <1>4, <1>5, <1>6 DEF Inductive

\* Every step preserves the invariant.
LEMMA NextInductive ==
  ASSUME Inductive, [Next]_vars
  PROVE  Inductive'
<1>1. CASE UNCHANGED vars
  <2>1. UNCHANGED <<dbVars, proofs, up, target, memVars, gate, pc, loc>>
    BY <1>1 DEF vars
  <2>2. GoroutineTypes' /\ GoroutineInv'
    BY <2>1 DEF Inductive, TypeOK, GoroutineTypes, GoroutineInv, GateIsExclusive,
                HolderIsCurrent, CallbackMatchesProof, FreezeIsJournalled, Proven,
                dbVars, memVars
  <2> QED
    BY <2>1, <2>2, DatabaseUntouched, ProcessUntouched DEF Inductive, TypeOK
<1>2. CASE \E c \in Client : Step(c) \/ Cancel(c) \/ \E op \in Op : Call(c, op)
  <2>1. PICK c \in Client : Step(c) \/ Cancel(c) \/ \E op \in Op : Call(c, op)
    BY <1>2
  <2>2. CASE Cancel(c) \/ \E op \in Op : Call(c, op)
    BY <2>2, CancelStep, CallStep
  <2>3. CASE Step(c)
    BY <2>3, ReturnStep, PrepareMutationStep, PrepareMutationLostStep, ApplyCommitStep,
       ApplyAbortStep, FinishMutationStep, AbortMutationStep, ResumeMutationStep,
       PrepareCaptureStep, FinishCaptureStep, BeginDrainStep, FinishDrainStep,
       TransferFenceStep DEF Step
  <2> QED
    BY <2>1, <2>2, <2>3
<1>3. CASE Startup \/ Crash
  BY <1>3, ForgetStep, RecoverStep, RecoverNothingStep, RotateSessionStep, ServeStep
     DEF Startup, Crash, RecoverAmbiguous
<1>4. CASE \E s \in 1..MaxSession : Launch(s)
  BY <1>4, LaunchStep
<1> QED
  BY <1>1, <1>2, <1>3, <1>4 DEF Next

\* The inductive invariant holds in every reachable state of the coordinator.
THEOREM InductiveInvariant == Spec => []Inductive
  BY InitInductive, NextInductive, PTL DEF Spec

\* The variables keep their types: no counter passes its limit.
THEOREM TypeCorrect == Spec => []TypeOK
<1>1. Inductive => TypeOK
  BY DEF Inductive
<1> QED
  BY <1>1, InductiveInvariant, PTL

\* A committed mutation is never journalled as failed, whatever fails between
\* its commit and finishMutation.
THEOREM CommitsSurvive == Spec => []NoCommitLost
<1>1. Inductive => NoCommitLost
  <2> SUFFICES ASSUME Inductive, NEW p \in proofs
               PROVE  intents[p.revision] \in {"prepared", "committed"}
    BY DEF NoCommitLost
  <2>1. p.revision \in Revision
    BY ProofFields DEF Inductive, TypeOK, DatabaseTypes
  <2> QED
    BY <2>1 DEF Inductive, DatabaseInv, ProofsAtTip, RevisionsAreProven
<1> QED
  BY <1>1, InductiveInvariant, PTL

\* The journal, the durable revision and the proofs agree.
THEOREM RevisionsSound == Spec => []RevisionsAreProven
<1>1. Inductive => RevisionsAreProven
  BY DEF Inductive, DatabaseInv
<1> QED
  BY <1>1, InductiveInvariant, PTL

\* A captured snapshot holds exactly the mutations up to its revision.
THEOREM SnapshotsExact == Spec => []CapturesAreExact
<1>1. Inductive => CapturesAreExact
  BY DEF Inductive, DatabaseInv
<1> QED
  BY <1>1, InductiveInvariant, PTL

\* The audit high-watermark never covers an unsettled mutation.
THEOREM AnchorSound == Spec => []AnchorIsSettled
<1>1. Inductive => AnchorIsSettled
  BY DEF Inductive, DatabaseInv
<1> QED
  BY <1>1, InductiveInvariant, PTL

\* Every step keeps or raises the durable counters and epochs.
LEMMA NextNeverRegresses ==
  ASSUME Inductive, [Next]_vars
  PROVE  /\ dbRevision' >= dbRevision /\ dbSequence' >= dbSequence
         /\ dbToken'.session >= dbToken.session /\ dbToken'.fence >= dbToken.fence
<1> DEFINE Goal == /\ dbRevision' >= dbRevision /\ dbSequence' >= dbSequence
                   /\ dbToken'.session >= dbToken.session
                   /\ dbToken'.fence >= dbToken.fence
           Same == UNCHANGED <<dbToken, dbRevision, dbSequence>>
<1>1. /\ dbRevision \in Int /\ dbSequence \in Int
      /\ dbToken.session \in Int /\ dbToken.fence \in Int
  BY BoundAssumption DEF Inductive, TypeOK, DatabaseTypes, Token
<1>2. Same => Goal
  BY <1>1
<1>3. CASE UNCHANGED vars
  BY <1>2, <1>3 DEF vars, dbVars
<1>4. ASSUME NEW c \in Client, Step(c) \/ Cancel(c) \/ \E op \in Op : Call(c, op)
      PROVE  Goal
  <2>1. CASE \/ Cancel(c) \/ \E op \in Op : Call(c, op)
             \/ Refuse(c) \/ PrepareMutation(c) \/ PrepareMutationLost(c)
             \/ \E d \in Domain : ApplyCommit(c, d)
             \/ ApplyAbort(c) \/ ReturnExternalCommitted(c)
             \/ AbortMutation(c) \/ FinishMutationFails(c) \/ ResumeMutation(c)
             \/ FinishCapture(c) \/ FinishCaptureFails(c)
             \/ BeginDrain(c) \/ FinishDrain(c) \/ DrainFails(c)
    <3>1. Same
      BY <2>1, FinishDrainStep
         DEF Cancel, Call, Refuse, PrepareMutation, PrepareMutationLost, ApplyCommit,
             ApplyAbort, ReturnExternalCommitted, AbortMutation, FinishMutationFails,
             ResumeMutation, FinishCapture, FinishCaptureFails, BeginDrain, DrainFails,
             dbVars
    <3> QED
      BY <1>2, <3>1
  <2>2. CASE FinishMutation(c)
    <3>1. dbRevision' = loc[c].revision /\ UNCHANGED <<dbToken, dbSequence>>
      BY <2>2 DEF FinishMutation
    <3>2. loc[c].revision = dbRevision + 1
      BY <2>2, HolderAtTip DEF FinishMutation
    <3> QED
      BY <1>1, <3>1, <3>2
  <2>3. CASE PrepareCapture(c)
    <3>1. dbSequence' = dbSequence + 1 /\ UNCHANGED <<dbToken, dbRevision>>
      BY <2>3 DEF PrepareCapture
    <3> QED
      BY <1>1, <3>1
  <2>4. CASE TransferFence(c)
    BY <1>1, <2>4, TransferFenceStep
  <2> QED
    BY <1>4, <2>1, <2>2, <2>3, <2>4 DEF Step
<1>5. CASE Startup \/ Crash
  <2>1. CASE Recover
    BY <1>1, <2>1, RecoverStep DEF Recover
  <2>2. CASE RotateSession
    BY <1>1, <2>2, RotateSessionStep
  <2>3. CASE RecoverNothing \/ RecoverAmbiguous \/ Serve \/ Crash
    BY <1>2, <2>3 DEF RecoverNothing, RecoverAmbiguous, Serve, Crash, dbVars
  <2> QED
    BY <1>5, <2>1, <2>2, <2>3 DEF Startup
<1>6. CASE \E s \in 1..MaxSession : Launch(s)
  BY <1>2, <1>6 DEF Launch
<1> QED
  BY <1>3, <1>4, <1>5, <1>6 DEF Next

\* Revisions, sequences, session and fence epochs in the database never go
\* back, not even through the operations that write back what they read.
THEOREM DurableMonotone == Spec => DurableNeverRegresses
<1>1. Inductive /\ [Next]_vars =>
        [/\ dbRevision' >= dbRevision /\ dbSequence' >= dbSequence
         /\ dbToken'.session >= dbToken.session
         /\ dbToken'.fence >= dbToken.fence]_vars
  BY NextNeverRegresses
<1> QED
  BY <1>1, InductiveInvariant, PTL DEF Spec, DurableNeverRegresses

\* Every new proof carries the token of the database.
LEMMA NextCommitsUnderDurableToken ==
  ASSUME Inductive, [Next]_vars
  PROVE  \A p \in proofs' \ proofs : p.token = dbToken
<1>1. CASE \E c \in Client, d \in Domain : ApplyCommit(c, d)
  BY <1>1, ApplyCommitStep
<1>2. CASE ~\E c \in Client, d \in Domain : ApplyCommit(c, d)
  <2>1. proofs' = proofs
    BY <1>2 DEF Next, vars, Step, Startup, Cancel, Call, Refuse, PrepareMutation,
         PrepareMutationLost, ApplyAbort, ReturnExternalCommitted, FinishMutation,
         AbortMutation, FinishMutationFails, ResumeMutation, PrepareCapture,
         FinishCapture, FinishCaptureFails, BeginDrain, FinishDrain, DrainFails,
         TransferFence, Crash, Launch, Recover, RecoverNothing, RecoverAmbiguous,
         RotateSession, Serve
  <2> QED
    BY <2>1
<1> QED
  BY <1>1, <1>2

\* Whoever commits holds the token that is durable at that moment: a fence
\* transfer or session rotation shuts out every earlier caller.
THEOREM StaleTokensShutOut == Spec => NoCommitUnderStaleToken
<1>1. Inductive /\ [Next]_vars => [\A p \in proofs' \ proofs : p.token = dbToken]_vars
  BY NextCommitsUnderDurableToken
<1> QED
  BY <1>1, InductiveInvariant, PTL DEF Spec, NoCommitUnderStaleToken

-----------------------------------------------------------------------------
(* Refinement of the mutation log                                          *)

\* The log ends at the settled revision or, with a proof, one after it.
LEMMA LengthIsTip ==
  ASSUME Inductive
  PROVE  /\ LogLength = IF Proven(dbRevision + 1) THEN dbRevision + 1 ELSE dbRevision
         /\ dbRevision \in Nat
  BY BoundAssumption DEF LogLength, Proven, Inductive, TypeOK, DatabaseTypes

\* Steps that leave the proofs, the settled revision and the captured
\* snapshots alone are invisible in the log.
LEMMA Invisible ==
  ASSUME Inductive, UNCHANGED <<dbRevision, proofs>>,
         \A s \in Sequence :
            /\ captures'[s].state = "captured" <=> captures[s].state = "captured"
            /\ captures[s].state = "captured" => captures'[s] = captures[s]
  PROVE  UNCHANGED <<LogLength, dbRevision, Snapshots>>
<1>1. LogLength' = LogLength
  BY DEF LogLength
<1>2. {q \in Sequence : captures[q].state = "captured"}' =
      {q \in Sequence : captures[q].state = "captured"}
  OBVIOUS
<1>3. Snapshots' = Snapshots
  BY <1>2 DEF Snapshots
<1> QED
  BY <1>1, <1>3

\* The commit of a callback appends to the log, unless it repeats one.
LEMMA ApplyCommitAppends ==
  ASSUME Inductive, Inductive', NEW c \in Client, NEW d \in Domain, ApplyCommit(c, d)
  PROVE  Log!Append \/ UNCHANGED <<LogLength, dbRevision, Snapshots>>
<1> DEFINE new == [domain |-> d, by |-> IF c \in Resolver THEN "conflict" ELSE "write",
                   revision |-> loc[c].revision, token |-> loc[c].token]
<1>1. pc[c] = "applying" /\ UNCHANGED dbVars /\ proofs' = proofs \cup {new}
  BY DEF ApplyCommit
<1>2. loc[c].revision = dbRevision + 1
  BY <1>1, HolderAtTip
<1>3. Proven(dbRevision + 1)'
  <2>1. new.revision = dbRevision + 1
    BY <1>2
  <2> HIDE DEF new
  <2> QED
    BY <1>1, <2>1 DEF Proven, dbVars
<1>4. LogLength' = dbRevision + 1 /\ dbRevision' = dbRevision
  BY <1>1, <1>3, LengthIsTip DEF LogLength, Proven, dbVars
<1>5. Snapshots' = Snapshots
  BY <1>1 DEF Snapshots, dbVars
<1> QED
  BY <1>4, <1>5, LengthIsTip DEF Log!Append

\* Settling raises the durable revision to the proven tip.
LEMMA SettlingSettles ==
  ASSUME Inductive, Proven(dbRevision + 1), ~Proven(dbRevision + 2),
         dbRevision' = dbRevision + 1, UNCHANGED <<captures, proofs>>
  PROVE  Log!Settle
<1>1. dbRevision \in Nat /\ LogLength = dbRevision + 1
  BY LengthIsTip
<1>2. LogLength' = dbRevision + 1
  <2>1. dbRevision' + 1 = dbRevision + 2
    BY <1>1
  <2> QED
    BY <2>1 DEF LogLength, Proven
<1>3. Snapshots' = Snapshots
  BY DEF Snapshots
<1> QED
  BY <1>1, <1>2, <1>3 DEF Log!Settle

\* No proof is two revisions ahead of the settled ones.
LEMMA TipIsLast ==
  ASSUME Inductive
  PROVE  ~Proven(dbRevision + 2)
<1>1. dbRevision \in 0..MaxRevision /\ \A p \in proofs : p.revision \in Revision
  BY ProofFields DEF Inductive, TypeOK, DatabaseTypes
<1> QED
  BY <1>1, BoundAssumption DEF Inductive, DatabaseInv, ProofsAtTip, Proven, Revision

\* A captured snapshot is taken of a settled log.
LEMMA FinishCaptureTakes ==
  ASSUME Inductive, NEW c \in Client, FinishCapture(c)
  PROVE  \/ \E s \in Sequence : Log!Take(s)
         \/ UNCHANGED <<LogLength, dbRevision, Snapshots>>
<1>1. PICK outcome \in {"captured", "failed"} :
        captures' = [captures EXCEPT ![loc[c].sequence] =
           [state |-> outcome, revision |-> loc[c].revision,
            view |-> IF outcome = "captured" THEN Effects ELSE {}]]
  BY DEF FinishCapture
<1>2. up = "serving" /\ pc[c] = "freezing" /\ UNCHANGED <<dbRevision, proofs>>
  BY DEF FinishCapture
<1>3. /\ loc[c].revision = dbRevision /\ loc[c].sequence = dbSequence /\ pending = 0
      /\ dbSequence \in Sequence /\ captures[dbSequence].state = "prepared"
      /\ captures \in [Sequence -> Capture]
  BY <1>2 DEF Inductive, TypeOK, DatabaseTypes, GoroutineInv, HolderIsCurrent,
              FreezeIsJournalled, Holding
<1>4. Effects = 1..dbRevision /\ ~Proven(dbRevision + 1)
  BY <1>2, <1>3, EffectsAreSettled DEF Inductive, ProcessInv, PendingIsUndecided
<1>5. /\ \A s \in Sequence \ {dbSequence} : captures'[s] = captures[s]
      /\ captures'[dbSequence].state = outcome
      /\ captures'[dbSequence].revision = dbRevision
      /\ outcome = "captured" => captures'[dbSequence].view = 1..dbRevision
  BY <1>1, <1>3, <1>4
<1>6. CASE outcome = "failed"
  <2>1. \A s \in Sequence :
            /\ captures'[s].state = "captured" <=> captures[s].state = "captured"
            /\ captures[s].state = "captured" => captures'[s] = captures[s]
    BY <1>3, <1>5, <1>6
  <2> QED
    BY <1>2, <2>1, Invisible
<1>7. CASE outcome = "captured"
  <2>1. LogLength = dbRevision /\ LogLength' = LogLength
    BY <1>2, <1>4, LengthIsTip DEF LogLength
  <2>2. \A t \in Snapshots : t.sequence < dbSequence
    <3> SUFFICES ASSUME NEW s \in Sequence, captures[s].state = "captured"
                 PROVE  s < dbSequence
      BY DEF Snapshots
    <3>1. s <= dbSequence /\ s # dbSequence
      BY <1>3, BoundAssumption
         DEF Inductive, TypeOK, DatabaseTypes, DatabaseInv, CapturesInOrder, Sequence
    <3> QED
      BY <1>3, <3>1, BoundAssumption DEF Sequence
  <2>3. {q \in Sequence : captures'[q].state = "captured"} =
        {q \in Sequence : captures[q].state = "captured"} \cup {dbSequence}
    BY <1>3, <1>5, <1>7
  <2>4. Snapshots' = Snapshots \cup
          {[sequence |-> dbSequence, revision |-> dbRevision, view |-> 1..dbRevision]}
    BY <1>3, <1>5, <1>7, <2>3 DEF Snapshots
  <2>5. Log!Take(dbSequence)
    BY <1>2, <2>1, <2>2, <2>4 DEF Log!Take
  <2> QED
    BY <1>3, <2>5
<1> QED
  BY <1>6, <1>7

\* Every step is a step of the mutation log or invisible in it.
LEMMA NextRefines ==
  ASSUME Inductive, Inductive', [Next]_vars
  PROVE  [Log!Next]_(Log!logVars)
<1> DEFINE Stutter == UNCHANGED <<LogLength, dbRevision, Snapshots>>
           Quiet == /\ UNCHANGED <<dbRevision, proofs>>
                    /\ \A s \in Sequence :
                         /\ captures'[s].state = "captured" <=> captures[s].state = "captured"
                         /\ captures[s].state = "captured" => captures'[s] = captures[s]
<1>1. SUFFICES Log!Next \/ Stutter
  BY DEF Log!logVars
<1>2. Quiet => Stutter
  BY Invisible
<1>3. UNCHANGED <<dbRevision, proofs, captures>> => Quiet
  OBVIOUS
<1>4. CASE UNCHANGED vars
  BY <1>2, <1>3, <1>4 DEF vars, dbVars
<1>5. ASSUME NEW c \in Client, Step(c) \/ Cancel(c) \/ \E op \in Op : Call(c, op)
      PROVE  Log!Next \/ Stutter
  <2>1. CASE \/ Cancel(c) \/ \E op \in Op : Call(c, op)
             \/ Refuse(c) \/ PrepareMutation(c) \/ PrepareMutationLost(c)
             \/ ApplyAbort(c) \/ ReturnExternalCommitted(c)
             \/ AbortMutation(c) \/ FinishMutationFails(c) \/ ResumeMutation(c)
             \/ FinishCaptureFails(c)
             \/ BeginDrain(c) \/ FinishDrain(c) \/ DrainFails(c) \/ TransferFence(c)
    <3>1. UNCHANGED <<dbRevision, proofs, captures>>
      BY <2>1, FinishDrainStep, TransferFenceStep
         DEF Cancel, Call, Refuse, PrepareMutation, PrepareMutationLost,
             ApplyAbort, ReturnExternalCommitted, AbortMutation, FinishMutationFails,
             ResumeMutation, FinishCaptureFails, BeginDrain, FinishDrain, DrainFails,
             TransferFence, dbVars
    <3> QED
      BY <1>2, <1>3, <3>1
  <2>2. CASE \E d \in Domain : ApplyCommit(c, d)
    BY <2>2, ApplyCommitAppends DEF Log!Next
  <2>3. CASE FinishMutation(c)
    <3>1. /\ pc[c] = "committed" /\ dbRevision' = loc[c].revision
          /\ UNCHANGED <<captures, proofs>>
      BY <2>3 DEF FinishMutation
    <3>2. loc[c].revision = dbRevision + 1 /\ Proven(dbRevision + 1)
      BY <3>1, HolderAtTip DEF Inductive, GoroutineInv, CallbackMatchesProof
    <3> QED
      BY <3>1, <3>2, TipIsLast, SettlingSettles DEF Log!Next
  <2>4. CASE PrepareCapture(c)
    <3>1. /\ captures' = [captures EXCEPT ![sequence + 1] =
                [state |-> "prepared", revision |-> revision, view |-> {}]]
          /\ dbSequence = sequence /\ UNCHANGED <<dbRevision, proofs>>
      BY <2>4 DEF PrepareCapture
    <3>2. \A s \in Sequence : s = sequence + 1 => captures[s].state = "none"
      BY <3>1, BoundAssumption
         DEF Inductive, TypeOK, DatabaseTypes, DatabaseInv, CapturesInOrder, Sequence
    <3>3. Quiet
      BY <3>1, <3>2 DEF Inductive, TypeOK, DatabaseTypes
    <3> QED
      BY <1>2, <3>3
  <2>5. CASE FinishCapture(c)
    BY <2>5, FinishCaptureTakes DEF Log!Next
  <2> QED
    BY <1>5, <2>1, <2>2, <2>3, <2>4, <2>5 DEF Step
<1>6. CASE Recover
  <2>1. CASE dbRevision' = dbRevision
    BY <1>2, <1>3, <1>6, <2>1 DEF Recover
  <2>2. CASE dbRevision' # dbRevision
    <3>1. /\ Observed # {} /\ dbRevision' = pending /\ pending # 0
          /\ UNCHANGED <<captures, proofs>>
      BY <1>6, <2>2 DEF Recover
    <3>2. pending = dbRevision + 1
      BY <3>1 DEF Inductive, ProcessInv, PendingIsUndecided
    <3>3. Proven(dbRevision + 1)
      BY <3>1, <3>2 DEF Observed, Visible, Proven
    <3> QED
      BY <3>1, <3>2, <3>3, TipIsLast, SettlingSettles DEF Log!Next
  <2> QED
    BY <2>1, <2>2
<1>7. CASE RecoverNothing \/ RecoverAmbiguous \/ Serve \/ Crash \/ RotateSession
  <2>1. UNCHANGED <<dbRevision, proofs, captures>>
    BY <1>7, RotateSessionStep
       DEF RecoverNothing, RecoverAmbiguous, Serve, Crash, RotateSession, dbVars
  <2> QED
    BY <1>2, <1>3, <2>1
<1>8. CASE \E s \in 1..MaxSession : Launch(s)
  <2>1. /\ captures' = [q \in Sequence |-> IF captures[q].state = "prepared"
              THEN [state |-> "abandoned", revision |-> captures[q].revision, view |-> {}]
              ELSE captures[q]]
        /\ UNCHANGED <<dbRevision, proofs>>
    BY <1>8 DEF Launch
  <2>2. Quiet
    BY <2>1
  <2> QED
    BY <1>2, <2>2
<1> QED
  BY <1>4, <1>5, <1>6, <1>7, <1>8 DEF Next, Startup

\* The write coordinator implements the mutation log.
THEOREM Refinement == Spec => ImplementsMutationLog
<1>1. Init => Log!Init
  <2> SUFFICES ASSUME Init PROVE Log!Init
    OBVIOUS
  <2>1. dbRevision = 0 /\ proofs = {} /\ \A s \in Sequence : captures[s].state = "none"
    BY DEF Init, NoCapture
  <2>2. LogLength = 0
    BY <2>1 DEF LogLength
  <2>3. Snapshots = {}
    BY <2>1 DEF Snapshots
  <2> QED
    BY <2>1, <2>2, <2>3 DEF Log!Init
<1>2. Inductive /\ Inductive' /\ [Next]_vars => [Log!Next]_(Log!logVars)
  BY NextRefines
<1> QED
  BY <1>1, <1>2, InductiveInvariant, PTL DEF Spec, ImplementsMutationLog, Log!Spec

-----------------------------------------------------------------------------
(* One mutation per revision                                               *)

\* Who runs a callback, and that only conflict publications resume.
CallersKnown ==
    \A c \in Client :
        /\ pc[c] = "applying" => loc[c].op \in {"write", "resume"}
        /\ loc[c].op = "resume" => c \in Resolver

\* Every step keeps what is known of who calls what.
LEMMA NextCallersKnown ==
  ASSUME Inductive, CallersKnown, [Next]_vars
  PROVE  CallersKnown'
<1>1. /\ pc \in [Client -> Holding \cup {"idle", "waiting"}] /\ loc \in [Client -> Local]
      /\ NoLocal.op = "none"
  BY DEF Inductive, TypeOK, GoroutineTypes, NoLocal
<1>2. ASSUME NEW c \in Client, Return(c)
      PROVE  CallersKnown'
  BY <1>1, <1>2 DEF Return, CallersKnown
<1>3. ASSUME NEW c \in Client, NEW state, NEW r, NEW q, Enter(c, state, r, q),
             state = "applying" => loc[c].op \in {"write", "resume"}
      PROVE  CallersKnown'
  BY <1>1, <1>3 DEF Enter, CallersKnown
<1>4. ASSUME NEW c \in Client, Step(c)
      PROVE  CallersKnown'
  <2>1. CASE \/ Refuse(c) \/ PrepareMutationLost(c) \/ ReturnExternalCommitted(c)
             \/ FinishMutation(c) \/ AbortMutation(c) \/ FinishMutationFails(c)
             \/ FinishCapture(c) \/ FinishCaptureFails(c) \/ FinishDrain(c)
             \/ DrainFails(c) \/ TransferFence(c)
    <3>1. Return(c)
      BY <2>1 DEF Refuse, PrepareMutationLost, ReturnExternalCommitted, FinishMutation,
           AbortMutation, FinishMutationFails, FinishCapture, FinishCaptureFails,
           FinishDrain, DrainFails, TransferFence
    <3> QED
      BY <1>2, <3>1
  <2>2. CASE PrepareMutation(c)
    BY <1>3, <2>2 DEF PrepareMutation, Entering
  <2>3. CASE ResumeMutation(c)
    BY <1>3, <2>3 DEF ResumeMutation, Entering
  <2>4. CASE PrepareCapture(c)
    BY <1>3, <2>4 DEF PrepareCapture
  <2>5. CASE BeginDrain(c)
    BY <1>3, <2>5 DEF BeginDrain
  <2>6. CASE ApplyAbort(c) \/ \E d \in Domain : ApplyCommit(c, d)
    BY <1>1, <2>6 DEF ApplyAbort, ApplyCommit, CallersKnown
  <2> QED
    BY <1>4, <2>1, <2>2, <2>3, <2>4, <2>5, <2>6 DEF Step
<1>5. ASSUME NEW c \in Client, Cancel(c) \/ \E op \in Op : Call(c, op)
      PROVE  CallersKnown'
  BY <1>1, <1>5 DEF Cancel, Call, CallersKnown, Op
<1>6. CASE Startup \/ Crash \/ \E s \in 1..MaxSession : Launch(s)
  BY <1>1, <1>6 DEF Startup, Crash, Launch, Recover, RecoverNothing, RecoverAmbiguous,
       RotateSession, Serve, Forget, CallersKnown
<1>7. CASE UNCHANGED vars
  BY <1>7 DEF vars, CallersKnown
<1> QED
  BY <1>4, <1>5, <1>6, <1>7 DEF Next

\* Without conflict publications no step gives a revision a second mutation.
LEMMA NextKeepsIdentity ==
  ASSUME Resolver = {}, Inductive, CallersKnown, RevisionNamesOneMutation, [Next]_vars
  PROVE  RevisionNamesOneMutation'
<1>1. CASE \E c \in Client, d \in Domain : ApplyCommit(c, d)
  <2>1. PICK c \in Client, d \in Domain : ApplyCommit(c, d)
    BY <1>1
  <2> DEFINE new == [domain |-> d, by |-> IF c \in Resolver THEN "conflict" ELSE "write",
                     revision |-> loc[c].revision, token |-> loc[c].token]
  <2>2. pc[c] = "applying" /\ proofs' = proofs \cup {new}
    BY <2>1 DEF ApplyCommit
  <2>3. new.revision = dbRevision + 1
    BY <2>2, HolderAtTip
  <2>4. ~Proven(dbRevision + 1)
    BY <2>2 DEF CallersKnown, Inductive, GoroutineInv, CallbackMatchesProof
  <2> HIDE DEF new
  <2> QED
    BY <2>2, <2>3, <2>4 DEF RevisionNamesOneMutation, Proven
<1>2. CASE ~\E c \in Client, d \in Domain : ApplyCommit(c, d)
  <2>1. proofs' = proofs
    BY <1>2 DEF Next, vars, Step, Startup, Cancel, Call, Refuse, PrepareMutation,
         PrepareMutationLost, ApplyAbort, ReturnExternalCommitted, FinishMutation,
         AbortMutation, FinishMutationFails, ResumeMutation, PrepareCapture,
         FinishCapture, FinishCaptureFails, BeginDrain, FinishDrain, DrainFails,
         TransferFence, Crash, Launch, Recover, RecoverNothing, RecoverAmbiguous,
         RotateSession, Serve
  <2> QED
    BY <2>1 DEF RevisionNamesOneMutation
<1> QED
  BY <1>1, <1>2

\* Without file-only conflict publications, which resume whatever revision is
\* pending, a revision names one mutation: Write, its retries after failed
\* intents and startup recovery never attach two commits to one revision.
THEOREM OneMutationPerRevision ==
  ASSUME Resolver = {}
  PROVE  Spec => []RevisionNamesOneMutation
<1> DEFINE J == CallersKnown /\ RevisionNamesOneMutation
<1>1. Init => J
  BY DEF Init, CallersKnown, RevisionNamesOneMutation, NoLocal
<1>2. Inductive /\ J /\ [Next]_vars => J'
  BY NextCallersKnown, NextKeepsIdentity
<1> QED
  BY <1>1, <1>2, InductiveInvariant, PTL DEF Spec
=============================================================================
