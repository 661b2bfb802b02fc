------------------------- MODULE ReplicaPublication -------------------------
(***************************************************************************)
(* Several devices publishing snapshots of one workspace to a directory    *)
(* they share: the DAG of immutable publications (replica/publication.go,  *)
(* publishAdvisory and refreshAdvisory of production.go, AppendPublication *)
(* and the conflict branches of filesystem_remote.go), the discovery of    *)
(* forks, and the forced takeover that gives a device a new claim.         *)
(*                                                                         *)
(* No lock is shared between devices.  A publication names the winner it   *)
(* saw as its parent; its file name is its claim and snapshot.  A claim is *)
(* a device and a fence epoch.  The canonical hash is kept as a rank, for  *)
(* its only use is to order heads: a new publication may rank before or    *)
(* after all that exist.  Files become visible to every device at once.    *)
(***************************************************************************)
EXTENDS Integers, FiniteSets

CONSTANTS
    Device,         \* devices that share the replica
    MaxSnapshots,   \* bounds on the snapshots each device captures
    MaxFence,       \* bound on fence epochs
    MaxFaults       \* bounds on each device's crashes, disconnections, clock jumps

ASSUME PublicationAssumption ==
    {MaxSnapshots, MaxFaults} \subseteq [Device -> Nat] /\ MaxFence \in Nat \ {0}

Origin == "origin"      \* the snapshot all devices started from
ASSUME OriginAssumption == Origin \notin Device

VARIABLES
    pubs,       \* publications in the directory
    captured,   \* number of snapshots in a device's catalogue
    verified,   \* snapshots of a device with a receipt (replica_verified)
    work,       \* what the sync worker of a device is doing
    accepted,   \* publications whose provisional revisions became canonical
    conflicts,  \* conflict sets in a device's store
    auth,       \* fence epochs a device has stored, its takeover row (claim,
                \* prepared) and whether a goroutine is carrying it out
    open,       \* the sidecar of a device serves
    online,     \* a device reaches the directory
    faults

vars == <<pubs, captured, verified, work, accepted, conflicts, auth, open, online, faults>>

Id == [dev : Device \cup {Origin}, fence : 0..MaxFence, snap : Nat]
First == [dev |-> Origin, fence |-> 0, snap |-> 0]

\* line: the publication and its ancestors along PreviousPublicationHash.
\* early: CreatedAt lies before that of the parent.
Publication == [id : Id, line : SUBSET Id, rank : Int, early : BOOLEAN]
Nothing == [pc |-> "idle", id |-> First, line |-> {}]

Work == [pc : {"idle", "append", "recheck"}, id : Id, line : SUBSET Id]
Authority == [token : 1..MaxFence, repository : 1..MaxFence, host : 1..MaxFence,
              claim : 1..MaxFence, prepared : BOOLEAN, active : BOOLEAN]

DirectoryTypeOK == pubs \subseteq Publication /\ accepted \subseteq Id
DevicesTypeOK ==
    /\ captured \in [Device -> Nat] /\ verified \in [Device -> SUBSET Nat]
    /\ open \in [Device -> BOOLEAN] /\ online \in [Device -> BOOLEAN]
    /\ faults \in [Device -> Nat]
ConflictsTypeOK == conflicts \in [Device -> SUBSET [base : Id, replica : Id]]
WorkTypeOK == work \in [Device -> Work]
AuthTypeOK == auth \in [Device -> Authority]
TypeOK == DirectoryTypeOK /\ DevicesTypeOK /\ ConflictsTypeOK /\ WorkTypeOK /\ AuthTypeOK

Init ==
    /\ pubs = {[id |-> First, line |-> {First}, rank |-> 0, early |-> FALSE]}
    /\ captured = [d \in Device |-> 0] /\ verified = [d \in Device |-> {}]
    /\ work = [d \in Device |-> Nothing]
    /\ accepted = {} /\ conflicts = [d \in Device |-> {}]
    /\ auth = [d \in Device |-> [token |-> 1, repository |-> 1, host |-> 1,
                                claim |-> 1, prepared |-> FALSE, active |-> FALSE]]
    /\ open = [d \in Device |-> TRUE] /\ online = [d \in Device |-> TRUE]
    /\ faults = [d \in Device |-> 0]

Fault(d) == faults[d] < MaxFaults[d] /\ faults' = [faults EXCEPT ![d] = @ + 1]

-----------------------------------------------------------------------------
(* The DAG                                                                 *)

Heads == {p \in pubs : \A q \in pubs : q # p => p.id \notin q.line}

\* Higher fence first, then lower hash.
Precedes(p, q) ==
    \/ p.id.fence > q.id.fence
    \/ p.id.fence = q.id.fence /\ p.rank <= q.rank

Winner == CHOOSE p \in Heads : \A q \in Heads : Precedes(p, q)

\* PublishContext refuses a publication dated before its parent, and
\* refreshAdvisory with it the whole directory.
Poisoned == \E p \in pubs : p.early

Stored(id) == {p \in pubs : p.id = id}

-----------------------------------------------------------------------------
(* Capturing and publishing                                                *)

Capture(d) ==
    /\ open[d] /\ captured[d] < MaxSnapshots[d]
    /\ captured' = [captured EXCEPT ![d] = @ + 1]
    /\ UNCHANGED <<pubs, verified, work, accepted, conflicts, auth, open, online, faults>>

Serving(d, pc) == open[d] /\ work[d].pc = pc
Reaches(d) == online[d] /\ ~Poisoned

\* Mutant: a publication that is already durable is not looked for.
PlannedFresh(d, id) == [pc |-> "append", id |-> id, line |-> {id} \cup Winner.line]

\* What Sync is about to append: the record found durable under the same
\* name, or a child of the winner.
Planned(d, id) ==
    [pc |-> "append", id |-> id,
     line |-> IF Stored(id) = {} THEN {id} \cup Winner.line
              ELSE (CHOOSE p \in Stored(id) : TRUE).line]

\* Sync of a queued snapshot, up to the sealed publication.  The claim is the
\* one read here, whatever a takeover does meanwhile.
BeginPublish(d) ==
    /\ Serving(d, "idle") /\ Reaches(d)
    /\ \E s \in (1..captured[d]) \ verified[d] :
         work' = [work EXCEPT ![d] =
                    Planned(d, [dev |-> d, fence |-> auth[d].token, snap |-> s])]
    /\ UNCHANGED <<pubs, captured, verified, accepted, conflicts, auth, open, online, faults>>

\* AppendPublication: the file is written once; the same bytes again are no
\* error, other bytes are.  The device's clock may be behind that of the
\* device that wrote the parent.
Append(d) ==
    /\ Serving(d, "append") /\ online[d]
    /\ \/ /\ \E p \in Stored(work[d].id) : p.line = work[d].line
          /\ UNCHANGED <<pubs, faults>>
       \/ /\ Stored(work[d].id) = {}
          /\ \E rank \in {-Cardinality(pubs), Cardinality(pubs)}, early \in BOOLEAN :
               /\ pubs' = pubs \cup {[id |-> work[d].id, line |-> work[d].line,
                                      rank |-> rank, early |-> early]}
               /\ IF early THEN Fault(d) ELSE UNCHANGED faults
    /\ work' = [work EXCEPT ![d].pc = "recheck"]
    /\ UNCHANGED <<captured, verified, accepted, conflicts, auth, open, online>>

\* Sync fails: the directory is away or refuses to be read, or the name is
\* taken by other bytes.  The task goes back to the queue.
PublishFails(d) ==
    /\ open[d] /\ work[d].pc \in {"append", "recheck"}
    /\ \/ ~Reaches(d)
       \/ /\ work[d].pc = "append" /\ Stored(work[d].id) # {}
          /\ \A p \in Stored(work[d].id) : p.line # work[d].line
    /\ work' = [work EXCEPT ![d] = Nothing]
    /\ UNCHANGED <<pubs, captured, verified, accepted, conflicts, auth, open, online, faults>>

\* Mutant: winning is enough, other heads or not.
IsWinner(d) == Winner.id = work[d].id

\* The publication is the only head.
SoleHead(d) == {p.id : p \in Heads} = {work[d].id}

\* After the append the directory is read again; the device's provisional
\* revisions become canonical only when it is alone.  Then the receipt.
Acknowledge(d) ==
    /\ Serving(d, "recheck") /\ Reaches(d)
    /\ accepted' = IF SoleHead(d) THEN accepted \cup {work[d].id} ELSE accepted
    /\ verified' = [verified EXCEPT ![d] = @ \cup {work[d].id.snap}]
    /\ work' = [work EXCEPT ![d] = Nothing]
    /\ UNCHANGED <<pubs, captured, conflicts, auth, open, online, faults>>

-----------------------------------------------------------------------------
(* Discovering forks                                                       *)

\* The publications of the newest local snapshot and their ancestors.
LocalLine(d) ==
    UNION {p.line : p \in {q \in pubs : /\ q.id.snap = captured[d]
                                        /\ q.id.dev = IF captured[d] = 0 THEN Origin ELSE d}}

\* Heads of other lines.
Foreign(d) ==
    {p \in Heads : /\ LocalLine(d) # {} /\ p.id \notin LocalLine(d)
                   /\ <<p.id.dev, p.id.snap>> # <<d, captured[d]>>}

\* Where a foreign head left the local line.
Base(d, p) ==
    CHOOSE b \in p.line \cap LocalLine(d) :
        \A c \in p.line \cap LocalLine(d) :
            Cardinality((CHOOSE q \in Stored(c) : TRUE).line)
                <= Cardinality((CHOOSE q \in Stored(b) : TRUE).line)

\* A base must be in the local catalogue; recovery copies of foreign
\* snapshots have ids of their own and do not count.
Known(d, id) == id.dev \in {d, Origin}

Branches(d) == {p \in Foreign(d) : LET b == Base(d, p)
                                   IN  <<b.dev, b.snap>> # <<p.id.dev, p.id.snap>>}

\* Mutant: only the winner is looked at.
RecordedWinner(d) ==
    {[base |-> Base(d, p), replica |-> p.id] :
        p \in Branches(d) \cap {Winner}}

Recorded(d) ==
    {[base |-> Base(d, p), replica |-> p.id] : p \in Branches(d)}

\* discoverConflicts, at the end of a pass.  It fails and changes nothing when
\* the newest snapshot is not published or a base is unknown.
Discover(d) ==
    /\ Serving(d, "idle") /\ Reaches(d) /\ LocalLine(d) # {}
    /\ \A p \in Branches(d) : Known(d, Base(d, p))
    /\ conflicts' = [conflicts EXCEPT ![d] = @ \cup Recorded(d)]
    /\ UNCHANGED <<pubs, captured, verified, work, accepted, auth, open, online, faults>>

-----------------------------------------------------------------------------
(* Takeover, crash and launch                                              *)

\* forceTakeover is admitted only while the directory is away; the new claim
\* is recorded before anything changes.  Manager.mu is not taken.
PrepareTakeover(d) ==
    /\ open[d] /\ ~online[d] /\ auth[d].token < MaxFence /\ ~auth[d].prepared
    /\ auth' = [auth EXCEPT ![d] = [@ EXCEPT !.claim = auth[d].token + 1,
                                           !.prepared = TRUE, !.active = TRUE]]
    /\ UNCHANGED <<pubs, captured, verified, work, accepted, conflicts, open, online, faults>>

\* recoverTakeover, when the manager is opened again.
RecoverTakeover(d) ==
    /\ open[d] /\ Reaches(d) /\ auth[d].prepared /\ ~auth[d].active
    /\ auth' = [auth EXCEPT ![d].active = TRUE]
    /\ UNCHANGED <<pubs, captured, verified, work, accepted, conflicts, open, online, faults>>

Taking(d) == open[d] /\ auth[d].prepared /\ auth[d].active

\* ApplyReplicaClaim moves the repository first, ...
AcceptAuthority(d) ==
    /\ Taking(d) /\ auth[d].repository < auth[d].claim
    /\ auth' = [auth EXCEPT ![d].repository = auth[d].claim]
    /\ UNCHANGED <<pubs, captured, verified, work, accepted, conflicts, open, online, faults>>

\* ... then the coordinator, ...
TransferFence(d) ==
    /\ Taking(d) /\ auth[d].repository = auth[d].claim /\ auth[d].token < auth[d].claim
    /\ auth' = [auth EXCEPT ![d].token = auth[d].claim]
    /\ UNCHANGED <<pubs, captured, verified, work, accepted, conflicts, open, online, faults>>

\* Mutant: the row is completed as soon as the repository has moved.
CompleteTakeoverEarly(d) ==
    /\ Taking(d) /\ auth[d].repository = auth[d].claim
    /\ auth' = [auth EXCEPT ![d] = [@ EXCEPT !.prepared = FALSE, !.active = FALSE]]
    /\ UNCHANGED <<pubs, captured, verified, work, accepted, conflicts, open, online, faults>>

\* ... and the row is completed.  The authority file of the desktop keeps the
\* claim it was created with.
CompleteTakeover(d) ==
    /\ Taking(d) /\ auth[d].token = auth[d].claim
    /\ auth' = [auth EXCEPT ![d] = [@ EXCEPT !.prepared = FALSE, !.active = FALSE]]
    /\ UNCHANGED <<pubs, captured, verified, work, accepted, conflicts, open, online, faults>>

\* The sidecar ends, however.
Crash(d) ==
    /\ open[d] /\ Fault(d)
    /\ open' = [open EXCEPT ![d] = FALSE] /\ work' = [work EXCEPT ![d] = Nothing]
    /\ auth' = [auth EXCEPT ![d].active = FALSE]
    /\ UNCHANGED <<pubs, captured, verified, accepted, conflicts, online>>

\* Runtime.Open: repository and coordinator must both know the claim that the
\* desktop starts the sidecar with.
Admitted(d) == auth[d].repository = auth[d].host /\ auth[d].token = auth[d].host

Launch(d) ==
    /\ ~open[d] /\ Admitted(d)
    /\ open' = [open EXCEPT ![d] = TRUE]
    /\ UNCHANGED <<pubs, captured, verified, work, accepted, conflicts, auth, online, faults>>

Disconnect(d) ==
    /\ online[d] /\ Fault(d) /\ online' = [online EXCEPT ![d] = FALSE]
    /\ UNCHANGED <<pubs, captured, verified, work, accepted, conflicts, auth, open>>

Reconnect(d) ==
    /\ ~online[d] /\ online' = [online EXCEPT ![d] = TRUE]
    /\ UNCHANGED <<pubs, captured, verified, work, accepted, conflicts, auth, open, faults>>

-----------------------------------------------------------------------------
Step(d) ==
    \/ BeginPublish(d) \/ Append(d) \/ PublishFails(d) \/ Acknowledge(d)
    \/ AcceptAuthority(d) \/ TransferFence(d) \/ CompleteTakeover(d) \/ RecoverTakeover(d)

Next == \E d \in Device :
    \/ Step(d) \/ Discover(d) \/ Capture(d) \/ PrepareTakeover(d)
    \/ Crash(d) \/ Launch(d) \/ Disconnect(d) \/ Reconnect(d)

Spec == Init /\ [][Next]_vars

\* The worker of a device goes on publishing and looks for conflicts after it,
\* the desktop relaunches a sidecar that ended, the directory comes back.
Fairness == \A d \in Device :
    /\ WF_vars(Step(d)) /\ SF_vars(Discover(d))
    /\ WF_vars(Launch(d)) /\ WF_vars(Reconnect(d))

FairSpec == Spec /\ Fairness

-----------------------------------------------------------------------------
(* Properties                                                              *)

\* Provisional file revisions become canonical, with numbers that other
\* devices will trust, on one line of publications only: two devices that
\* publish over the same parent without a lock never both accept.  It rests
\* on publishAdvisory reading the directory again after its append.
AcceptedAreOneLine ==
    \A p, q \in pubs : {p.id, q.id} \subseteq accepted => p.id \in q.line \/ q.id \in p.line

\* A sidecar that serves and has no takeover under way has one authority: the
\* object repository refuses every commit of a coordinator with another.
AuthoritiesAgree ==
    \A d \in Device : open[d] /\ ~auth[d].prepared => auth[d].repository = auth[d].token

\* Every ancestor that a publication names is stored under that one name, with
\* its own ancestors, back to the snapshot all devices started from.
LinesAreClosed ==
    \A p \in pubs :
        /\ {p.id, First} \subseteq p.line
        /\ \A i \in p.line : \E q \in pubs : q.id = i /\ q.line \subseteq p.line
        /\ \A q \in pubs : q.id = p.id => q = p

\* Some head descends from every publication, and one of the heads wins.
HeadsCover ==
    /\ IsFiniteSet(pubs) /\ pubs # {}
    /\ \A p \in pubs : -Cardinality(pubs) <= p.rank /\ \E h \in Heads : p.id \in h.line

\* What a device is about to append names stored ancestors only.
PlansAreClosed ==
    \A d \in Device : work[d].pc # "idle" =>
        /\ {work[d].id, First} \subseteq work[d].line
        /\ \A i \in work[d].line :
             i = work[d].id \/ \E q \in pubs : q.id = i /\ q.line \subseteq work[d].line

\* The fence of a device moves in the order host, coordinator, repository,
\* takeover row.
FencesInOrder ==
    \A d \in Device :
        /\ auth[d].host <= auth[d].token /\ auth[d].token <= auth[d].repository
        /\ auth[d].repository <= auth[d].claim
        /\ auth[d].active => auth[d].prepared
        /\ ~auth[d].prepared => auth[d].token = auth[d].claim

\* The directory is a closed DAG with a winner, which publishing devices only
\* ever extend; a takeover interrupted anywhere can be taken up again from its
\* row, and a serving device has one authority.
Inductive ==
    /\ TypeOK /\ LinesAreClosed /\ HeadsCover /\ PlansAreClosed /\ FencesInOrder
    /\ AuthoritiesAgree

\* Launched with a claim it can no longer be opened with.
ShutOut(d) == ~open[d] /\ ~Admitted(d)

\* Every snapshot is published in the end: a retry after a crash between the
\* append and the receipt finds its own publication, although other devices
\* have moved the winner meanwhile.  Two dead ends exist: a directory with a
\* publication dated before its parent, and a device shut out by a takeover.
SnapshotsArePublished ==
    \A d \in Device :
        []<>(1..captured[d] \subseteq verified[d] \/ Poisoned \/ ShutOut(d))

\* Passes of d that fail for good.
Stuck(d) ==
    \/ Poisoned \/ ShutOut(d)
    \/ \E p \in Branches(d) : ~Known(d, Base(d, p))

\* A fork is shown to the devices it concerns: a head that stays foreign to a
\* device becomes a conflict set there, unless its pass fails for good.
ForksSurface ==
    \A d \in Device :
        <>[](Stuck(d) \/ \A p \in Branches(d) : \E c \in conflicts[d] : c.replica = p.id)
=============================================================================
