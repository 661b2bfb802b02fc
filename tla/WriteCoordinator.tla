-------------------------- MODULE WriteCoordinator --------------------------
(***************************************************************************)
(* The workspace write coordinator of the Go sidecar                       *)
(* (sidecar/internal/writecoordinator) together with the startup sequence  *)
(* of sidecar/internal/workspacev2/runtime.go that reopens it.             *)
(*                                                                         *)
(* Every mutation of a workspace passes one gate (a channel of capacity    *)
(* one).  The coordinator journals the intent "prepared" in its own SQLite *)
(* database, lets the caller commit in the authoritative database of the   *)
(* mutation's domain, and then journals "committed" or "failed".  The two  *)
(* databases share no transaction: after a crash or an I/O error between   *)
(* the steps, startup decides the intent from the proof (the receipt row)  *)
(* that the authoritative transaction left behind.                         *)
(*                                                                         *)
(* Abstractions: the workspace id is fixed; the claim id is a function of  *)
(* the fence epoch (TransferFence always changes both); timestamps and the *)
(* token columns of mutation_intents, which nothing reads, are left out.   *)
(***************************************************************************)
EXTENDS Integers, FiniteSets

CONSTANTS
    Writer,        \* goroutines calling Write, Capture, Drain, TransferFence
    Resolver,      \* goroutines publishing a file-only conflict resolution
    NoClient,      \* the gate is free
    Domain,        \* authoritative stores a mutation can commit in
    MaxRevision,   \* stands for math.MaxUint64 of mutation revisions
    MaxSequence,   \* stands for math.MaxUint64 of snapshot sequences
    MaxSession,    \* stands for math.MaxUint64 of session epochs
    MaxFence       \* stands for math.MaxUint64 of fence epochs

Client == Writer \cup Resolver

ASSUME ClientAssumption == NoClient \notin Client
ASSUME BoundAssumption ==
    /\ MaxRevision \in Nat /\ MaxSequence \in Nat
    /\ MaxSession \in Nat \ {0} /\ MaxFence \in Nat \ {0}
ASSUME DomainAssumption == {"business", "head", "policy"} \subseteq Domain

Revision == 1..MaxRevision
Sequence == 1..MaxSequence
Token == [session : 1..MaxSession, fence : 1..MaxFence]

VARIABLES
    \* write-coordinator.db
    dbToken,       \* coordination_state: session and fence epoch
    dbRevision,    \* coordination_state.mutation_revision
    dbSequence,    \* coordination_state.snapshot_sequence
    dbAnchor,      \* mutations below the published audit high-watermark
    intents,       \* mutation_intents.state by revision
    captures,      \* capture_intents by snapshot sequence
    \* the authoritative databases (PocketBase, file-history head, state store)
    proofs,        \* durable mutation identities
    \* the sidecar process
    up,            \* "down", or the stage of Runtime.Open it has reached
    target,        \* options.SessionEpoch of this launch
    token, revision, sequence, pending,   \* WorkspaceWriteCoordinator fields
    gate,          \* the goroutine inside the gate
    pc, loc        \* the goroutines' control points and local variables

dbVars == <<dbToken, dbRevision, dbSequence, dbAnchor, intents, captures>>
memVars == <<token, revision, sequence, pending>>
vars == <<dbVars, proofs, up, target, memVars, gate, pc, loc>>

Op == {"write", "resume", "capture", "drain", "transfer"}
Holding == {"applying", "committed", "aborted", "freezing", "draining"}

\* What each goroutine remembers: the operation, the token it was called
\* with, and the counters it read after passing the guards.
Local == [op : Op \cup {"none"}, token : Token,
          revision : 0..MaxRevision, sequence : 0..MaxSequence]
FirstToken == [session |-> 1, fence |-> 1]
NoLocal == [op |-> "none", token |-> FirstToken, revision |-> 0, sequence |-> 0]

\* A proof: the receipt row of one mutation in the store of its domain.
Proof == [domain : Domain, by : {"write", "conflict"},
          revision : Revision, token : Token]

Capture == [state : {"none", "prepared", "captured", "failed", "abandoned"},
            revision : 0..MaxRevision, view : SUBSET Revision]
NoCapture == [state |-> "none", revision |-> 0, view |-> {}]

Proven(r) == \E p \in proofs : p.revision = r

\* The mutations whose effects the authoritative stores hold.
Effects == {r \in Revision : Proven(r)}

DatabaseTypes ==
    /\ dbToken \in Token
    /\ dbRevision \in 0..MaxRevision
    /\ dbSequence \in 0..MaxSequence
    /\ dbAnchor \in SUBSET Revision
    /\ intents \in [Revision -> {"none", "prepared", "committed", "failed"}]
    /\ captures \in [Sequence -> Capture]
    /\ proofs \in SUBSET Proof

ProcessTypes ==
    /\ up \in {"down", "recovering", "rotating", "serving"}
    /\ target \in 1..MaxSession
    /\ token \in Token
    /\ revision \in 0..MaxRevision
    /\ sequence \in 0..MaxSequence
    /\ pending \in 0..MaxRevision

GoroutineTypes ==
    /\ gate \in Client \cup {NoClient}
    /\ pc \in [Client -> Holding \cup {"idle", "waiting"}]
    /\ loc \in [Client -> Local]

TypeOK == DatabaseTypes /\ ProcessTypes /\ GoroutineTypes

\* openPersistentStore created the schema and inserted the initial row.
Init ==
    /\ dbToken = FirstToken /\ dbRevision = 0 /\ dbSequence = 0
    /\ dbAnchor = {}
    /\ intents = [r \in Revision |-> "none"]
    /\ captures = [s \in Sequence |-> NoCapture]
    /\ proofs = {}
    /\ up = "down" /\ target = 1
    /\ token = FirstToken /\ revision = 0 /\ sequence = 0 /\ pending = 0
    /\ gate = NoClient
    /\ pc = [c \in Client |-> "idle"]
    /\ loc = [c \in Client |-> NoLocal]

-----------------------------------------------------------------------------
(* The gate                                                                *)

\* Mutant: an error path that leaves without release().
ReturnHoldingGate(c) ==
    /\ gate' = gate
    /\ pc' = [pc EXCEPT ![c] = "idle"]
    /\ loc' = [loc EXCEPT ![c] = NoLocal]

Return(c) ==
    /\ gate' = NoClient
    /\ pc' = [pc EXCEPT ![c] = "idle"]
    /\ loc' = [loc EXCEPT ![c] = NoLocal]

\* Past the guards: c holds the gate and remembers the counters it read.  Its
\* token is the caller's, which tokensEqual has compared with the current one.
Enter(c, state, r, q) ==
    /\ gate' = c
    /\ pc' = [pc EXCEPT ![c] = state]
    /\ loc' = [loc EXCEPT ![c] = [op |-> loc[c].op, token |-> loc[c].token,
                                 revision |-> r, sequence |-> q]]

\* Mutants: the recovery check, or the token check, forgotten.
AdmittedDespitePending(c) == loc[c].token = token
AdmittedStale(c) == pending = 0
\* The guards every operation checks under the mutex once inside the gate.
Admitted(c) == pending = 0 /\ loc[c].token = token

Entering(c, op) ==
    up = "serving" /\ pc[c] = "waiting" /\ loc[c].op = op /\ gate = NoClient

\* A caller reads the token through Current() before it queues at the gate.
\* A conflict publication also reads RecoveryState(): a pending revision makes
\* it resume that revision instead of allocating one.
Call(c, op) ==
    /\ up = "serving" /\ pc[c] = "idle"
    /\ IF c \in Resolver
       THEN op = IF pending = 0 THEN "write" ELSE "resume"
       ELSE op \in Op \ {"resume"}
    /\ pc' = [pc EXCEPT ![c] = "waiting"]
    /\ loc' = [loc EXCEPT ![c] =
         [op |-> op, token |-> token,
          revision |-> IF op = "resume" THEN pending ELSE 0, sequence |-> 0]]
    /\ UNCHANGED <<dbVars, proofs, up, target, memVars, gate>>

\* ctx.Done() while queued, or a database error before anything was written.
Cancel(c) ==
    /\ up = "serving" /\ pc[c] = "waiting"
    /\ pc' = [pc EXCEPT ![c] = "idle"]
    /\ loc' = [loc EXCEPT ![c] = NoLocal]
    /\ UNCHANGED <<dbVars, proofs, up, target, memVars, gate>>

\* ErrRecoveryRequired, ErrStaleToken, or ErrCounterExhausted.
Exhausted(op) ==
    \/ op = "write" /\ revision = MaxRevision
    \/ op = "capture" /\ sequence = MaxSequence
    \/ op = "transfer" /\ token.fence = MaxFence

Resumable(c) ==
    /\ loc[c].token = token
    /\ loc[c].revision # 0 /\ pending = loc[c].revision
    /\ pending = revision + 1

Refuse(c) ==
    /\ \E op \in Op : Entering(c, op)
    /\ IF loc[c].op = "resume" THEN ~Resumable(c)
                               ELSE ~Admitted(c) \/ Exhausted(loc[c].op)
    /\ Return(c)
    /\ UNCHANGED <<dbVars, proofs, up, target, memVars>>

-----------------------------------------------------------------------------
(* Write                                                                   *)

\* INSERT ... ON CONFLICT DO UPDATE ... WHERE state = 'failed'.
PreparedRow(r) ==
    [intents EXCEPT ![r] = IF @ \in {"none", "failed"} THEN "prepared" ELSE @]

PrepareMutation(c) ==
    /\ Entering(c, "write") /\ Admitted(c) /\ ~Exhausted("write")
    /\ intents' = PreparedRow(revision + 1)
    /\ pending' = revision + 1
    /\ Enter(c, "applying", revision + 1, sequence)
    /\ UNCHANGED <<dbToken, dbRevision, dbSequence, dbAnchor, captures, proofs,
                   up, target, token, revision, sequence>>

\* The request context ends while the autocommitted INSERT runs: the row is
\* durable, Write returns the error and never sets pendingMutation.
PrepareMutationLost(c) ==
    /\ Entering(c, "write") /\ Admitted(c) /\ ~Exhausted("write")
    /\ intents' = PreparedRow(revision + 1)
    /\ Return(c)
    /\ UNCHANGED <<dbToken, dbRevision, dbSequence, dbAnchor, captures, proofs,
                   up, target, memVars>>

\* The authoritative transaction commits and leaves its proof.  PocketBase
\* receipts have the revision as primary key; a file-only conflict stage
\* publishes the file-history head.
ApplyCommit(c, d) ==
    /\ up = "serving" /\ pc[c] = "applying"
    /\ c \in Resolver => d = "head"
    /\ d = "business" =>
         ~\E p \in proofs : p.domain = d /\ p.revision = loc[c].revision
    /\ proofs' = proofs \cup
         {[domain |-> d, by |-> IF c \in Resolver THEN "conflict" ELSE "write",
           revision |-> loc[c].revision, token |-> loc[c].token]}
    /\ pc' = [pc EXCEPT ![c] = "committed"]
    /\ UNCHANGED <<dbVars, up, target, memVars, gate, loc>>

\* The callback returned an error and its transaction rolled back.
ApplyAbort(c) ==
    /\ up = "serving" /\ pc[c] = "applying" /\ loc[c].op = "write"
    /\ pc' = [pc EXCEPT ![c] = "aborted"]
    /\ UNCHANGED <<dbVars, proofs, up, target, memVars, gate, loc>>

\* The error is ErrExternalCommitted (the receipt is there, or could not be
\* looked up), or the callback of a resumed intent failed: the intent stays
\* prepared and pending.
ReturnExternalCommitted(c) ==
    /\ up = "serving"
    /\ \/ pc[c] = "committed"
       \/ pc[c] = "applying"
    /\ Return(c)
    /\ UNCHANGED <<dbVars, proofs, up, target, memVars>>

\* The SQL transaction of finishMutation: the rows it requires to match.
FinishMatches(t, r, s) ==
    /\ dbToken = t /\ dbSequence = s /\ dbRevision < r
    /\ intents[r] = "prepared"

FinishMutation(c) ==
    /\ up = "serving" /\ pc[c] = "committed"
    /\ FinishMatches(loc[c].token, loc[c].revision, sequence)
    /\ dbRevision' = loc[c].revision
    /\ intents' = [intents EXCEPT ![loc[c].revision] = "committed"]
    /\ revision' = loc[c].revision
    /\ pending' = 0
    /\ Return(c)
    /\ UNCHANGED <<dbToken, dbSequence, dbAnchor, captures, proofs, up, target,
                   token, sequence>>

AbortMutation(c) ==
    /\ up = "serving" /\ pc[c] = "aborted"
    /\ intents[loc[c].revision] = "prepared"
    /\ intents' = [intents EXCEPT ![loc[c].revision] = "failed"]
    /\ pending' = 0
    /\ Return(c)
    /\ UNCHANGED <<dbToken, dbRevision, dbSequence, dbAnchor, captures, proofs,
                   up, target, token, revision, sequence>>

\* finishMutation returned an error: its transaction rolled back and the
\* revision stays pending in memory.
FinishMutationFails(c) ==
    /\ up = "serving" /\ pc[c] \in {"committed", "aborted"}
    /\ Return(c)
    /\ UNCHANGED <<dbVars, proofs, up, target, memVars>>

\* ResumePreparedMutation enters apply without allocating a revision.
ResumeMutation(c) ==
    /\ Entering(c, "resume") /\ Resumable(c)
    /\ Enter(c, "applying", pending, sequence)
    /\ UNCHANGED <<dbVars, proofs, up, target, memVars>>

-----------------------------------------------------------------------------
(* Capture                                                                 *)

\* The sequence is consumed when the intent is journalled, whatever follows.
PrepareCapture(c) ==
    /\ Entering(c, "capture") /\ Admitted(c) /\ ~Exhausted("capture")
    /\ dbToken = token /\ dbRevision = revision /\ dbSequence = sequence
    /\ dbSequence' = sequence + 1
    /\ captures' = [captures EXCEPT ![sequence + 1] =
         [state |-> "prepared", revision |-> revision, view |-> {}]]
    /\ sequence' = sequence + 1
    /\ Enter(c, "freezing", revision, sequence + 1)
    /\ UNCHANGED <<dbToken, dbRevision, dbAnchor, intents, proofs, up, target,
                   token, revision, pending>>

\* finishCapture: the frozen view is what the authoritative stores hold.
FinishCapture(c) ==
    /\ up = "serving" /\ pc[c] = "freezing"
    /\ captures[loc[c].sequence].state = "prepared"
    /\ captures[loc[c].sequence].revision = loc[c].revision
    /\ \E outcome \in {"captured", "failed"} :
         captures' = [captures EXCEPT ![loc[c].sequence] =
           [state |-> outcome, revision |-> loc[c].revision,
            view |-> IF outcome = "captured" THEN Effects ELSE {}]]
    /\ Return(c)
    /\ UNCHANGED <<dbToken, dbRevision, dbSequence, dbAnchor, intents, proofs,
                   up, target, memVars>>

FinishCaptureFails(c) ==
    /\ up = "serving" /\ pc[c] = "freezing"
    /\ Return(c)
    /\ UNCHANGED <<dbVars, proofs, up, target, memVars>>

-----------------------------------------------------------------------------
(* Drain and TransferFence                                                 *)

\* The counters are read here and written back by FinishDrain.
BeginDrain(c) ==
    /\ Entering(c, "drain") /\ Admitted(c)
    /\ Enter(c, "draining", revision, sequence)
    /\ UNCHANGED <<dbVars, proofs, up, target, memVars>>

FinishDrain(c) ==
    /\ up = "serving" /\ pc[c] = "draining"
    /\ dbToken' = loc[c].token
    /\ dbRevision' = loc[c].revision
    /\ dbSequence' = loc[c].sequence
    /\ dbAnchor' = Effects
    /\ Return(c)
    /\ UNCHANGED <<intents, captures, proofs, up, target, memVars>>

DrainFails(c) ==
    /\ up = "serving" /\ pc[c] = "draining"
    /\ Return(c)
    /\ UNCHANGED <<dbVars, proofs, up, target, memVars>>

\* persistState, then the token in memory; all inside one gate passage.
TransferFence(c) ==
    /\ Entering(c, "transfer") /\ Admitted(c) /\ ~Exhausted("transfer")
    /\ dbToken' = [session |-> token.session, fence |-> token.fence + 1]
    /\ dbRevision' = revision /\ dbSequence' = sequence
    /\ token' = dbToken'
    /\ Return(c)
    /\ UNCHANGED <<dbAnchor, intents, captures, proofs, up, target, revision,
                   sequence, pending>>

-----------------------------------------------------------------------------
(* Crash and startup                                                       *)

\* The process dies; only the databases survive.
Forget ==
    /\ up' = "down" /\ target' = 1
    /\ token' = FirstToken /\ revision' = 0 /\ sequence' = 0 /\ pending' = 0
    /\ gate' = NoClient
    /\ pc' = [c \in Client |-> "idle"]
    /\ loc' = [c \in Client |-> NoLocal]

Crash ==
    /\ up # "down"
    /\ Forget
    /\ UNCHANGED <<dbVars, proofs>>

\* openCoordinator and OpenPersistent: the host may not present an older
\* session; captures left prepared are abandoned.
Launch(s) ==
    /\ up = "down" /\ s >= dbToken.session
    /\ up' = "recovering" /\ target' = s
    /\ token' = dbToken /\ revision' = dbRevision /\ sequence' = dbSequence
    /\ pending' = IF \E r \in Revision : intents[r] = "prepared"
                  THEN CHOOSE r \in Revision :
                         /\ intents[r] = "prepared"
                         /\ \A q \in Revision : intents[q] = "prepared" => q <= r
                  ELSE 0
    /\ captures' = [q \in Sequence |->
         IF captures[q].state = "prepared"
         THEN [state |-> "abandoned", revision |-> captures[q].revision, view |-> {}]
         ELSE captures[q]]
    /\ UNCHANGED <<dbToken, dbRevision, dbSequence, dbAnchor, intents, proofs,
                   gate, pc, loc>>

\* Mutant: recovery asks PocketBase only.
VisibleInPocketBase ==
    {p \in proofs : p.revision = pending /\ p.domain = "business" /\ p.token = token}
\* Every store is asked for the pending revision under the loaded token; the
\* retention policy row carries no token.
Visible ==
    {p \in proofs : p.revision = pending /\ (p.domain = "policy" \/ p.token = token)}

\* One observation per store.
Observed == {p.domain : p \in Visible}

Recover ==
    /\ up = "recovering" /\ pending # 0
    /\ Cardinality(Observed) <= 1
    /\ IF Observed # {}
       THEN /\ FinishMatches(token, pending, sequence)
            /\ dbRevision' = pending
            /\ intents' = [intents EXCEPT ![pending] = "committed"]
            /\ revision' = IF pending > revision THEN pending ELSE revision
       ELSE /\ intents[pending] = "prepared"
            /\ intents' = [intents EXCEPT ![pending] = "failed"]
            /\ UNCHANGED <<dbRevision, revision>>
    /\ pending' = 0
    /\ up' = "rotating"
    /\ UNCHANGED <<dbToken, dbSequence, dbAnchor, captures, proofs, target,
                   token, sequence, gate, pc, loc>>

RecoverNothing ==
    /\ up = "recovering" /\ pending = 0
    /\ up' = "rotating"
    /\ UNCHANGED <<dbVars, proofs, target, memVars, gate, pc, loc>>

\* workspace.mutation_recovery_ambiguous: Open fails.
RecoverAmbiguous ==
    /\ up = "recovering" /\ pending # 0
    /\ Cardinality(Observed) > 1
    /\ Forget
    /\ UNCHANGED <<dbVars, proofs>>

\* Mutant: the rotation loop stops one epoch early.
RotateSessionShort ==
    /\ up = "rotating" /\ pending = 0
    /\ token.session + 1 < target
    /\ dbToken' = [session |-> token.session + 1, fence |-> token.fence]
    /\ dbRevision' = revision /\ dbSequence' = sequence
    /\ token' = dbToken'
    /\ UNCHANGED <<dbAnchor, intents, captures, proofs, up, target, revision,
                   sequence, pending, gate, pc, loc>>

\* Runtime.Open rotates until the token carries the launch's session epoch.
RotateSession ==
    /\ up = "rotating" /\ pending = 0
    /\ token.session < target
    /\ dbToken' = [session |-> token.session + 1, fence |-> token.fence]
    /\ dbRevision' = revision /\ dbSequence' = sequence
    /\ token' = dbToken'
    /\ UNCHANGED <<dbAnchor, intents, captures, proofs, up, target, revision,
                   sequence, pending, gate, pc, loc>>

Serve ==
    /\ up = "rotating" /\ token.session = target
    /\ up' = "serving"
    /\ UNCHANGED <<dbVars, proofs, target, memVars, gate, pc, loc>>

-----------------------------------------------------------------------------
Step(c) ==
    \/ Refuse(c)
    \/ PrepareMutation(c) \/ PrepareMutationLost(c)
    \/ \E d \in Domain : ApplyCommit(c, d)
    \/ ApplyAbort(c) \/ ReturnExternalCommitted(c)
    \/ FinishMutation(c) \/ AbortMutation(c) \/ FinishMutationFails(c)
    \/ ResumeMutation(c)
    \/ PrepareCapture(c) \/ FinishCapture(c) \/ FinishCaptureFails(c)
    \/ BeginDrain(c) \/ FinishDrain(c) \/ DrainFails(c)
    \/ TransferFence(c)

Startup == Recover \/ RecoverNothing \/ RecoverAmbiguous \/ RotateSession \/ Serve

Next ==
    \/ \E c \in Client : Step(c) \/ Cancel(c) \/ \E op \in Op : Call(c, op)
    \/ Startup \/ Crash
    \/ \E s \in 1..MaxSession : Launch(s)

Spec == Init /\ [][Next]_vars

\* Startup runs to its end, a gate holder runs to its release (callbacks
\* return: every request context has a deadline), and Go serves the senders
\* blocked on a channel in FIFO order, so a queued caller that finds the gate
\* free again and again is eventually let in.
Fairness == WF_vars(Startup) /\ \A c \in Client : SF_vars(Step(c))

FairSpec == Spec /\ Fairness

-----------------------------------------------------------------------------
(* Properties                                                              *)

\* A mutation whose authoritative transaction committed is never journalled as
\* failed: whatever crash, cancelled context or failed finishMutation comes
\* between, its intent is committed or still waits for recovery.
NoCommitLost ==
    \A p \in proofs : intents[p.revision] \in {"prepared", "committed"}

\* mutationRevision has no holes and no phantoms: the journal says committed
\* exactly up to the durable revision, and each of these revisions has a proof
\* in some authoritative store.
RevisionsAreProven ==
    \A r \in Revision :
        /\ intents[r] = "committed" <=> r <= dbRevision
        /\ r <= dbRevision => Proven(r)

\* A captured snapshot labelled with revision R froze the effects of exactly
\* the mutations 1..R: none missing, and no commit of a later revision whose
\* intent was still undecided.
CapturesAreExact ==
    \A s \in Sequence :
        captures[s].state = "captured" => captures[s].view = 1..captures[s].revision

\* Drain never publishes a high-watermark that covers a mutation the
\* coordinator has not settled.
AnchorIsSettled == dbAnchor \subseteq 1..dbRevision

\* A revision names one mutation: recovery could otherwise not tell whose
\* proof it sees.
RevisionNamesOneMutation ==
    \A p, q \in proofs : p.revision = q.revision => p = q

\* The counters and epochs in the database only grow, also through Drain,
\* RotateSession and TransferFence, which write back values read earlier.
DurableNeverRegresses ==
    [][/\ dbRevision' >= dbRevision /\ dbSequence' >= dbSequence
       /\ dbToken'.session >= dbToken.session
       /\ dbToken'.fence >= dbToken.fence]_vars

\* A caller that read its token before a fence transfer or a session rotation
\* commits nothing after it.
NoCommitUnderStaleToken ==
    [][\A p \in proofs' \ proofs : p.token = dbToken]_vars

\* Nobody queues at the gate forever: every caller is served, refused or
\* dies with the process.
NoStarvation == \A c \in Client : pc[c] = "waiting" ~> pc[c] = "idle"

\* Every launch ends: it gets through recovery and as many session rotations
\* as the host asks for and serves, or it dies; it never hangs on the way.
LaunchReachesServing == up = "recovering" ~> up \in {"serving", "down"}

\* The coordinator implements the log: length counts a proven revision as soon
\* as its transaction commits, settled is the durable mutationRevision.
LogLength == IF \E p \in proofs : p.revision = dbRevision + 1
             THEN dbRevision + 1 ELSE dbRevision

Snapshots ==
    {[sequence |-> s, revision |-> captures[s].revision, view |-> captures[s].view] :
        s \in {q \in Sequence : captures[q].state = "captured"}}

Log == INSTANCE MutationLog
         WITH length <- LogLength, settled <- dbRevision, snapshots <- Snapshots

\* Every step of every goroutine, crash and recovery is a step of the mutation
\* log or invisible in it: no append is undone, none happens while another is
\* unsettled, snapshots appear in sequence order and are complete prefixes.
ImplementsMutationLog == Log!Spec

-----------------------------------------------------------------------------
(* The inductive invariant, as a conjunction of named parts                *)

\* Only the revision after the settled ones may be undecided.
IntentsAtTip ==
    \A r \in Revision : intents[r] \in {"prepared", "failed"} => r = dbRevision + 1

\* A proof is of a settled revision, or of the undecided one; then recovery
\* finds it, because the token has not changed since.
ProofsAtTip ==
    \A p \in proofs :
        \/ p.revision <= dbRevision
        \/ /\ p.revision = dbRevision + 1
           /\ intents[p.revision] = "prepared"
           /\ p.token = dbToken

\* A running process holds the counters of its database.
MemoryMirrorsDatabase ==
    up # "down" => token = dbToken /\ revision = dbRevision /\ sequence = dbSequence

\* pendingMutation is the undecided revision, and once startup recovery is
\* over an undecided revision with a proof is always pending.
PendingIsUndecided ==
    /\ pending # 0 => /\ up # "down" /\ pending = dbRevision + 1
                      /\ intents[pending] = "prepared"
    /\ pending = 0 /\ up = "recovering" =>
         \A r \in Revision : intents[r] # "prepared"
    /\ pending = 0 /\ up \in {"rotating", "serving"} => ~Proven(dbRevision + 1)

GateIsExclusive ==
    /\ \A c \in Client : gate = c <=> pc[c] \in Holding
    /\ up # "serving" => \A c \in Client : pc[c] = "idle"

\* What a goroutine inside the gate read is still what the database says.
HolderIsCurrent ==
    \A c \in Client :
        /\ pc[c] \in Holding => loc[c].token = dbToken /\ loc[c].sequence = dbSequence
        /\ pc[c] \in {"applying", "committed", "aborted"} =>
             loc[c].revision = dbRevision + 1 /\ pending = dbRevision + 1
        /\ pc[c] \in {"freezing", "draining"} =>
             loc[c].revision = dbRevision /\ pending = 0

\* A callback still running or rolled back has left no proof; one that
\* committed has.
CallbackMatchesProof ==
    \A c \in Client :
        /\ pc[c] = "committed" => Proven(dbRevision + 1)
        /\ pc[c] = "aborted" => loc[c].op = "write"
        /\ pc[c] \in {"applying", "aborted"} /\ loc[c].op = "write" =>
             ~Proven(dbRevision + 1)

FreezeIsJournalled ==
    \A c \in Client : pc[c] = "freezing" =>
        /\ dbSequence \in Sequence
        /\ captures[dbSequence].state = "prepared"
        /\ captures[dbSequence].revision = dbRevision

CapturesInOrder ==
    \A s \in Sequence : captures[s].state = "none" <=> s > dbSequence

DatabaseInv ==
    /\ RevisionsAreProven /\ IntentsAtTip /\ ProofsAtTip
    /\ CapturesInOrder /\ CapturesAreExact /\ AnchorIsSettled

ProcessInv == MemoryMirrorsDatabase /\ PendingIsUndecided

GoroutineInv ==
    /\ GateIsExclusive /\ HolderIsCurrent
    /\ CallbackMatchesProof /\ FreezeIsJournalled

\* The inductive invariant: every reachable state satisfies it, and every step
\* of Write, Capture, Drain, TransferFence, crash and startup preserves it.
Inductive == TypeOK /\ DatabaseInv /\ ProcessInv /\ GoroutineInv
=============================================================================
