---------------------- MODULE ReplicaPublicationProofs ----------------------
(***************************************************************************)
(* The directory of publications stays a closed DAG with a winner, what is *)
(* accepted stays on one line of it, and a serving device has one          *)
(* authority, for any devices, snapshots and fence epochs.                 *)
(***************************************************************************)
EXTENDS ReplicaPublication, FiniteSetTheorems, WellFoundedInduction, TLAPS

-----------------------------------------------------------------------------
(* The DAG                                                                 *)

\* There is a least number in a set of naturals.
LEMMA LeastNumber ==
    ASSUME NEW S, S \subseteq Nat, S # {}
    PROVE  \E least \in S : \A n \in S : least <= n
<1> DEFINE Less == OpToRel(<, Nat)
<1>1. IsWellFoundedOn(Less, Nat)
  BY NatLessThanWellFounded
<1>2. \A n, m \in Nat : n < m => <<n, m>> \in Less
  BY DEF OpToRel
<1> HIDE DEF Less
<1>3. PICK least \in S : \A n \in S : <<n, least>> \notin Less
  BY <1>1, WFMin
<1>4. ASSUME NEW n \in S PROVE least <= n
  <2>1. n \in Nat /\ least \in Nat /\ ~(n < least)
    BY <1>2, <1>3
  <2> QED
    BY <2>1
<1> QED
  BY <1>3, <1>4

\* Of some publications with bounded rank one precedes all others.
LEMMA OnePrecedes ==
    ASSUME DirectoryTypeOK, NEW S, S \subseteq pubs, S # {}, NEW n \in Nat,
           \A p \in S : -n <= p.rank
    PROVE  \E p \in S : \A q \in S : Precedes(p, q)
<1>1. \A p \in S : p.id.fence \in 0..MaxFence /\ p.rank \in Int
  BY DEF DirectoryTypeOK, Publication, Id
<1> DEFINE Fences == {MaxFence - p.id.fence : p \in S}
<1>2. Fences \subseteq Nat /\ Fences # {}
  BY <1>1, PublicationAssumption
<1>3. PICK f \in Fences : \A g \in Fences : f <= g
  <2> HIDE DEF Fences
  <2> QED
    BY <1>2, LeastNumber
<1>4. PICK h \in S : MaxFence - h.id.fence = f
  BY <1>3
<1>5. \A p \in S : p.id.fence <= h.id.fence
  <2> TAKE p \in S
  <2>1. f <= MaxFence - p.id.fence
    BY <1>3
  <2> QED
    BY <1>1, <1>4, <2>1, PublicationAssumption
<1> DEFINE T == {p \in S : p.id.fence = h.id.fence}
           Ranks == {p.rank + n : p \in T}
<1>6. Ranks \subseteq Nat /\ Ranks # {}
  BY <1>1
<1>7. PICK r \in Ranks : \A s \in Ranks : r <= s
  <2> HIDE DEF Ranks
  <2> QED
    BY <1>6, LeastNumber
<1>8. PICK w \in T : w.rank + n = r
  BY <1>7
<1>9. \A p \in T : w.rank <= p.rank
  <2> TAKE p \in T
  <2>1. r <= p.rank + n
    BY <1>7
  <2> QED
    BY <1>1, <1>8, <2>1
<1>10. ASSUME NEW q \in S PROVE Precedes(w, q)
  <2>1. CASE q.id.fence = h.id.fence
    BY <1>8, <1>9, <2>1 DEF Precedes
  <2>2. CASE q.id.fence # h.id.fence
    BY <1>1, <1>5, <1>8, <2>2 DEF Precedes
  <2> QED
    BY <2>1, <2>2
<1> QED
  BY <1>8, <1>10

\* The directory has heads, and one of them wins.
LEMMA WinnerIsHead ==
    ASSUME DirectoryTypeOK, HeadsCover
    PROVE  Winner \in Heads /\ Heads \subseteq pubs
<1>1. Heads \subseteq pubs /\ Heads # {}
  BY DEF HeadsCover, Heads
<1>2. Cardinality(pubs) \in Nat
  BY FS_CardinalityType DEF HeadsCover
<1>3. \E p \in Heads : \A q \in Heads : Precedes(p, q)
  BY <1>1, <1>2, OnePrecedes DEF HeadsCover
<1> QED
  BY <1>1, <1>3 DEF Winner

\* An ancestor is the publication of that name.
LEMMA AncestorIsStored ==
    ASSUME LinesAreClosed, NEW p \in pubs, NEW q \in pubs, q.id \in p.line
    PROVE  q.line \subseteq p.line
  BY DEF LinesAreClosed

\* Two lines meet, and the last publication they share is the base.
LEMMA BaseIsShared ==
    ASSUME DirectoryTypeOK, LinesAreClosed, HeadsCover, NEW d \in Device, NEW p \in pubs,
           LocalLine(d) # {}
    PROVE  Base(d, p) \in Id
<1> DEFINE Shared == p.line \cap LocalLine(d)
           Ids == {q.id : q \in pubs}
           Length(i) == Cardinality((CHOOSE q \in Stored(i) : TRUE).line)
<1>1. IsFiniteSet(Ids) /\ Cardinality(Ids) \in Nat
  <2>1. [q \in pubs |-> q.id] \in Surjection(pubs, Ids)
    BY DEF Surjection
  <2>2. IsFiniteSet(Ids)
    BY <2>1, FS_Surjection DEF HeadsCover
  <2> QED
    BY <2>2, FS_CardinalityType
<1>2. First \in Shared /\ Shared \subseteq Ids /\ Shared \subseteq Id
  BY DEF LocalLine, LinesAreClosed, DirectoryTypeOK, Publication
<1>3. ASSUME NEW i \in Shared PROVE Length(i) \in Nat /\ Length(i) <= Cardinality(Ids)
  <2>1. Stored(i) # {} /\ Stored(i) \subseteq pubs
    BY <1>2 DEF Stored
  <2> DEFINE q == CHOOSE x \in Stored(i) : TRUE
  <2>2. q \in pubs
    BY <2>1
  <2> HIDE DEF q
  <2>3. q.line \subseteq Ids
    BY <2>2 DEF LinesAreClosed
  <2>4. Cardinality(q.line) \in Nat /\ Cardinality(q.line) <= Cardinality(Ids)
    BY <1>1, <2>3, FS_Subset, FS_CardinalityType
  <2> QED
    BY <2>4 DEF q
<1> HIDE DEF Length
<1> DEFINE Rests == {Cardinality(Ids) - Length(i) : i \in Shared}
<1>4. Rests \subseteq Nat /\ Rests # {}
  <2>1. \A i \in Shared : Cardinality(Ids) - Length(i) \in Nat
    <3> HIDE DEF Shared, Ids
    <3> QED
      BY <1>1, <1>3
  <2> HIDE DEF Shared, Ids
  <2> QED
    BY <1>2, <2>1
<1>5. PICK m \in Rests : \A n \in Rests : m <= n
  <2> HIDE DEF Rests
  <2> QED
    BY <1>4, LeastNumber
<1>6. PICK b \in Shared : m = Cardinality(Ids) - Length(b)
  BY <1>5
<1>7. \A c \in Shared : Length(c) <= Length(b)
  <2> TAKE c \in Shared
  <2>1. m <= Cardinality(Ids) - Length(c)
    BY <1>5
  <2> QED
    BY <1>1, <1>3, <1>6, <2>1
<1>8. \E x \in Shared : \A c \in Shared : Length(c) <= Length(x)
  BY <1>6, <1>7
<1>9. Base(d, p) = CHOOSE x \in Shared : \A c \in Shared : Length(c) <= Length(x)
  BY DEF Base, Length
<1>10. Base(d, p) \in Shared
  <2> HIDE DEF Shared
  <2> QED
    BY <1>8, <1>9
<1> QED
  BY <1>2, <1>10

-----------------------------------------------------------------------------
(* One lemma per action that touches the directory or a plan for it        *)

\* The directory and the plans are read, not written.
LEMMA DirectoryUntouched ==
    ASSUME LinesAreClosed, HeadsCover, PlansAreClosed, UNCHANGED pubs,
           \A d \in Device : work'[d] = work[d] \/ work'[d].pc = "idle"
    PROVE  LinesAreClosed' /\ HeadsCover' /\ PlansAreClosed'
<1>1. LinesAreClosed' /\ HeadsCover'
  BY DEF LinesAreClosed, HeadsCover, Heads
<1>2. PlansAreClosed'
  BY DEF PlansAreClosed
<1> QED
  BY <1>1, <1>2

LEMMA CaptureKeeps ==
    ASSUME Inductive, NEW d \in Device, Capture(d)
    PROVE  Inductive'
<1>1. TypeOK'
  BY DEF Inductive, TypeOK, Capture, DirectoryTypeOK, DevicesTypeOK, ConflictsTypeOK,
         WorkTypeOK, AuthTypeOK
<1>2. LinesAreClosed' /\ HeadsCover' /\ PlansAreClosed'
  BY DirectoryUntouched DEF Inductive, Capture
<1>3. FencesInOrder' /\ AuthoritiesAgree'
  BY DEF Inductive, Capture, FencesInOrder, AuthoritiesAgree
<1> QED
  BY <1>1, <1>2, <1>3 DEF Inductive

\* What is planned extends a stored line.
LEMMA PlanIsClosed ==
    ASSUME Inductive, NEW d \in Device, NEW id \in Id
    PROVE  /\ Planned(d, id) \in Work /\ Planned(d, id).id = id
           /\ {id, First} \subseteq Planned(d, id).line
           /\ \A i \in Planned(d, id).line :
                i = id \/ \E q \in pubs : q.id = i /\ q.line \subseteq Planned(d, id).line
<1> DEFINE line == Planned(d, id).line
<1>1. line = IF Stored(id) = {} THEN {id} \cup Winner.line
             ELSE (CHOOSE p \in Stored(id) : TRUE).line
  BY DEF Planned
<1>2. /\ line \subseteq Id /\ {id, First} \subseteq line
      /\ \A i \in line : i = id \/ \E q \in pubs : q.id = i /\ q.line \subseteq line
  <2>1. CASE Stored(id) = {}
    <3>1. Winner \in pubs
      BY WinnerIsHead DEF Inductive, TypeOK
    <3>2. /\ Winner.line \subseteq Id /\ First \in Winner.line
          /\ \A i \in Winner.line : \E q \in pubs : q.id = i /\ q.line \subseteq Winner.line
      BY <3>1 DEF Inductive, TypeOK, LinesAreClosed, DirectoryTypeOK, Publication
    <3> HIDE DEF line
    <3> QED
      BY <1>1, <2>1, <3>2
  <2>2. CASE Stored(id) # {}
    <3> DEFINE p == CHOOSE x \in Stored(id) : TRUE
    <3>1. p \in pubs /\ p.id = id
      BY <2>2 DEF Stored
    <3> HIDE DEF p
    <3>2. /\ p.line \subseteq Id /\ {id, First} \subseteq p.line
          /\ \A i \in p.line : \E q \in pubs : q.id = i /\ q.line \subseteq p.line
      BY <3>1 DEF Inductive, TypeOK, LinesAreClosed, DirectoryTypeOK, Publication
    <3>3. line = p.line
      BY <1>1, <2>2 DEF p
    <3> HIDE DEF line
    <3> QED
      BY <3>2, <3>3
  <2> QED
    BY <2>1, <2>2
<1>3. Planned(d, id) = [pc |-> "append", id |-> id, line |-> line]
  BY DEF Planned
<1> HIDE DEF line
<1>4. [pc |-> "append", id |-> id, line |-> line] \in Work
  BY <1>2 DEF Work
<1> QED
  BY <1>2, <1>3, <1>4 DEF line

LEMMA BeginPublishKeeps ==
    ASSUME Inductive, NEW d \in Device, BeginPublish(d)
    PROVE  Inductive'
<1>1. PICK s \in (1..captured[d]) \ verified[d] :
        work' = [work EXCEPT ![d] = Planned(d, [dev |-> d, fence |-> auth[d].token, snap |-> s])]
  BY DEF BeginPublish
<1> DEFINE id == [dev |-> d, fence |-> auth[d].token, snap |-> s]
           plan == Planned(d, id)
<1>2. id \in Id
  <2>1. auth[d].token \in 0..MaxFence
    BY PublicationAssumption DEF Inductive, TypeOK, AuthTypeOK, Authority
  <2>2. s \in Nat
    BY DEF Inductive, TypeOK, DevicesTypeOK
  <2> QED
    BY <2>1, <2>2 DEF Id
<1> HIDE DEF id
<1>3. /\ plan \in Work /\ plan.id = id /\ {id, First} \subseteq plan.line
      /\ \A i \in plan.line : i = id \/ \E q \in pubs : q.id = i /\ q.line \subseteq plan.line
  BY <1>2, PlanIsClosed
<1>4. work' = [work EXCEPT ![d] = plan]
  BY <1>1 DEF id
<1> HIDE DEF plan
<1>5. UNCHANGED <<pubs, captured, verified, accepted, conflicts, auth, open, online, faults>>
  BY DEF BeginPublish
<1>6. TypeOK'
  BY <1>3, <1>4, <1>5 DEF Inductive, TypeOK, DirectoryTypeOK, DevicesTypeOK, ConflictsTypeOK,
     WorkTypeOK, AuthTypeOK
<1>7. LinesAreClosed' /\ HeadsCover'
  BY <1>5 DEF Inductive, LinesAreClosed, HeadsCover, Heads
<1>8. PlansAreClosed'
  <2>1. \A e \in Device : work'[e] = IF e = d THEN plan ELSE work[e]
    BY <1>4 DEF Inductive, TypeOK, WorkTypeOK
  <2> QED
    BY <1>3, <1>5, <2>1 DEF Inductive, PlansAreClosed
<1>9. FencesInOrder' /\ AuthoritiesAgree'
  BY <1>5 DEF Inductive, FencesInOrder, AuthoritiesAgree
<1> QED
  BY <1>6, <1>7, <1>8, <1>9 DEF Inductive

\* A new file: nobody has named it before, so that it is a head, and a head it
\* descends from leaves it everything it covered.
LEMMA AppendKeepsDirectory ==
    ASSUME Inductive, NEW d \in Device, work[d].pc = "append", Stored(work[d].id) = {},
           NEW rank \in {-Cardinality(pubs), Cardinality(pubs)}, NEW early \in BOOLEAN,
           pubs' = pubs \cup {[id |-> work[d].id, line |-> work[d].line,
                               rank |-> rank, early |-> early]}
    PROVE  /\ pubs' \subseteq Publication /\ LinesAreClosed' /\ HeadsCover'
           /\ pubs \subseteq pubs'
<1> DEFINE x == [id |-> work[d].id, line |-> work[d].line, rank |-> rank, early |-> early]
<1>1. IsFiniteSet(pubs) /\ Cardinality(pubs) \in Nat
  BY FS_CardinalityType DEF Inductive, HeadsCover
<1>2. x \in Publication
  BY <1>1 DEF Inductive, TypeOK, WorkTypeOK, Work, Publication
<1>3. /\ {x.id, First} \subseteq x.line
      /\ \A i \in x.line : i = x.id \/ \E q \in pubs : q.id = i /\ q.line \subseteq x.line
  BY DEF Inductive, PlansAreClosed
<1>4. x.rank = rank /\ x.id = work[d].id
  OBVIOUS
<1>5. pubs' = pubs \cup {x}
  OBVIOUS
<1> HIDE DEF x
<1>6. \A p \in pubs : p.id # x.id
  BY <1>4 DEF Stored
<1>7. \A p \in pubs : x.id \notin p.line
  BY <1>6 DEF Inductive, LinesAreClosed
<1>8. pubs' \subseteq Publication
  BY <1>2, <1>5 DEF Inductive, TypeOK, DirectoryTypeOK
<1>9. LinesAreClosed'
  <2>1. ASSUME NEW p \in pubs'
        PROVE  /\ {p.id, First} \subseteq p.line
               /\ \A i \in p.line : \E q \in pubs' : q.id = i /\ q.line \subseteq p.line
    BY <1>3, <1>5 DEF Inductive, LinesAreClosed
  <2>2. \A p, q \in pubs' : q.id = p.id => q = p
    BY <1>5, <1>6 DEF Inductive, LinesAreClosed
  <2> QED
    BY <2>1, <2>2 DEF LinesAreClosed
<1>10. x \in Heads'
  BY <1>5, <1>7 DEF Heads
<1>11. ASSUME NEW p \in pubs PROVE \E h \in Heads' : p.id \in h.line
  <2>1. PICK h \in Heads : p.id \in h.line
    BY DEF Inductive, HeadsCover
  <2>2. h \in pubs /\ \A q \in pubs : q # h => h.id \notin q.line
    BY <2>1 DEF Heads
  <2>3. CASE h.id \in x.line
    <3>1. PICK q \in pubs : q.id = h.id /\ q.line \subseteq x.line
      BY <1>3, <1>6, <2>2, <2>3
    <3>2. q = h
      BY <2>2, <3>1 DEF Inductive, LinesAreClosed
    <3> QED
      BY <1>10, <2>1, <3>1, <3>2
  <2>4. CASE h.id \notin x.line
    <3>1. h \in Heads'
      BY <1>5, <2>2, <2>4 DEF Heads
    <3> QED
      BY <2>1, <3>1
  <2> QED
    BY <2>3, <2>4
<1>12. IsFiniteSet(pubs') /\ Cardinality(pubs') = Cardinality(pubs) + 1
  BY <1>1, <1>5, <1>6, FS_AddElement
<1>13. \A p \in pubs' : -Cardinality(pubs') <= p.rank
  <2>1. \A p \in pubs : p.rank \in Int /\ -Cardinality(pubs) <= p.rank
    BY DEF Inductive, TypeOK, DirectoryTypeOK, Publication, HeadsCover
  <2>2. -Cardinality(pubs) <= x.rank /\ x.rank \in Int
    BY <1>1, <1>4
  <2> QED
    BY <1>1, <1>5, <1>12, <2>1, <2>2
<1>14. HeadsCover'
  BY <1>3, <1>5, <1>10, <1>11, <1>12, <1>13 DEF HeadsCover
<1> QED
  BY <1>5, <1>8, <1>9, <1>14

LEMMA AppendKeeps ==
    ASSUME Inductive, NEW d \in Device, Append(d)
    PROVE  Inductive'
<1>1. /\ work[d].pc = "append" /\ work' = [work EXCEPT ![d].pc = "recheck"]
      /\ UNCHANGED <<captured, verified, accepted, conflicts, auth, open, online>>
  BY DEF Append, Serving
<1>2. pubs' \subseteq Publication /\ LinesAreClosed' /\ HeadsCover' /\ pubs \subseteq pubs'
  <2>1. CASE UNCHANGED pubs
    BY <2>1 DEF Inductive, TypeOK, DirectoryTypeOK, LinesAreClosed, HeadsCover, Heads
  <2>2. CASE ~UNCHANGED pubs
    <3>1. PICK rank \in {-Cardinality(pubs), Cardinality(pubs)}, early \in BOOLEAN :
            pubs' = pubs \cup {[id |-> work[d].id, line |-> work[d].line,
                                rank |-> rank, early |-> early]}
      BY <2>2 DEF Append
    <3>2. Stored(work[d].id) = {}
      BY <2>2 DEF Append
    <3> QED
      BY <1>1, <3>1, <3>2, AppendKeepsDirectory
  <2> QED
    BY <2>1, <2>2
<1>3. faults' \in [Device -> Nat]
  BY DEF Append, Fault, Inductive, TypeOK, DevicesTypeOK
<1>4. \A e \in Device : work'[e].id = work[e].id /\ work'[e].line = work[e].line
                        /\ (work'[e].pc # "idle" => work[e].pc # "idle")
  BY <1>1 DEF Inductive, TypeOK, WorkTypeOK, Work
<1>5. TypeOK'
  BY <1>1, <1>2, <1>3 DEF Inductive, TypeOK, DirectoryTypeOK, DevicesTypeOK, ConflictsTypeOK,
     WorkTypeOK, Work, AuthTypeOK
<1>6. PlansAreClosed'
  BY <1>2, <1>4 DEF Inductive, PlansAreClosed
<1>7. FencesInOrder' /\ AuthoritiesAgree'
  BY <1>1 DEF Inductive, FencesInOrder, AuthoritiesAgree
<1> QED
  BY <1>2, <1>5, <1>6, <1>7 DEF Inductive

LEMMA PublishFailsKeeps ==
    ASSUME Inductive, NEW d \in Device, PublishFails(d)
    PROVE  Inductive'
<1>1. TypeOK'
  BY PublicationAssumption DEF Inductive, TypeOK, PublishFails, Nothing, First, Work, Id,
     DirectoryTypeOK, DevicesTypeOK, ConflictsTypeOK, WorkTypeOK, AuthTypeOK
<1>2. LinesAreClosed' /\ HeadsCover' /\ PlansAreClosed'
  BY DirectoryUntouched DEF Inductive, TypeOK, WorkTypeOK, PublishFails, Nothing
<1>3. FencesInOrder' /\ AuthoritiesAgree'
  BY DEF Inductive, PublishFails, FencesInOrder, AuthoritiesAgree
<1> QED
  BY <1>1, <1>2, <1>3 DEF Inductive

LEMMA AcknowledgeKeeps ==
    ASSUME Inductive, NEW d \in Device, Acknowledge(d)
    PROVE  Inductive'
<1>1. work[d].id \in Id /\ work[d].id.snap \in Nat
  BY DEF Inductive, TypeOK, WorkTypeOK, Work, Id
<1>2. TypeOK'
  BY <1>1, PublicationAssumption DEF Inductive, TypeOK, Acknowledge, Nothing, First, Work, Id,
     DirectoryTypeOK, DevicesTypeOK, ConflictsTypeOK, WorkTypeOK, AuthTypeOK
<1>3. LinesAreClosed' /\ HeadsCover' /\ PlansAreClosed'
  BY DirectoryUntouched DEF Inductive, TypeOK, WorkTypeOK, Acknowledge, Nothing
<1>4. FencesInOrder' /\ AuthoritiesAgree'
  BY DEF Inductive, Acknowledge, FencesInOrder, AuthoritiesAgree
<1> QED
  BY <1>2, <1>3, <1>4 DEF Inductive

LEMMA DiscoverKeeps ==
    ASSUME Inductive, NEW d \in Device, Discover(d)
    PROVE  Inductive'
<1>1. Recorded(d) \subseteq [base : Id, replica : Id]
  <2>1. Branches(d) \subseteq pubs /\ LocalLine(d) # {}
    BY DEF Branches, Foreign, Heads, Discover
  <2>2. \A p \in Branches(d) : Base(d, p) \in Id /\ p.id \in Id
    BY <2>1, BaseIsShared DEF Inductive, TypeOK, DirectoryTypeOK, Publication
  <2> QED
    BY <2>2 DEF Recorded
<1>2. TypeOK'
  BY <1>1 DEF Inductive, TypeOK, Discover, DirectoryTypeOK, DevicesTypeOK, ConflictsTypeOK,
     WorkTypeOK, AuthTypeOK
<1>3. LinesAreClosed' /\ HeadsCover' /\ PlansAreClosed'
  BY DirectoryUntouched DEF Inductive, Discover
<1>4. FencesInOrder' /\ AuthoritiesAgree'
  BY DEF Inductive, Discover, FencesInOrder, AuthoritiesAgree
<1> QED
  BY <1>2, <1>3, <1>4 DEF Inductive

-----------------------------------------------------------------------------
(* Takeover, crash and launch                                              *)

\* The steps of a takeover.
LEMMA TakeoverKeeps ==
    ASSUME Inductive, NEW d \in Device,
           \/ PrepareTakeover(d) \/ RecoverTakeover(d) \/ AcceptAuthority(d)
           \/ TransferFence(d) \/ CompleteTakeover(d)
    PROVE  Inductive'
<1>1. UNCHANGED <<pubs, captured, verified, work, accepted, conflicts, open, online, faults>>
  BY DEF PrepareTakeover, RecoverTakeover, AcceptAuthority, TransferFence, CompleteTakeover
<1>2. auth \in [Device -> Authority] /\ MaxFence \in Nat
  BY PublicationAssumption DEF Inductive, TypeOK, AuthTypeOK
<1>3. AuthTypeOK' /\ FencesInOrder' /\ AuthoritiesAgree'
  <2>1. CASE PrepareTakeover(d)
    <3>1. /\ \A e \in Device \ {d} : auth'[e] = auth[e]
          /\ auth'[d] = [auth[d] EXCEPT !.claim = auth[d].token + 1, !.prepared = TRUE,
                                        !.active = TRUE]
          /\ DOMAIN auth' = Device /\ auth' = [e \in Device |-> auth'[e]]
      BY <1>2, <2>1 DEF PrepareTakeover
    <3>2. auth[d].token \in 1..MaxFence /\ auth[d].token < MaxFence /\ ~auth[d].prepared
      BY <1>2, <2>1 DEF PrepareTakeover, Authority
    <3>3. auth[d].token + 1 \in 1..MaxFence
      BY <1>2, <3>2
    <3>4. auth'[d] \in Authority
      BY <1>2, <3>1, <3>3 DEF Authority
    <3>5. AuthTypeOK'
      BY <1>2, <3>1, <3>4 DEF AuthTypeOK
    <3>6. /\ auth[d].token = auth[d].claim /\ auth[d].repository = auth[d].token
          /\ auth[d].host <= auth[d].token
      BY <1>2, <3>2 DEF Inductive, FencesInOrder, Authority
    <3>7. /\ auth'[d].host = auth[d].host /\ auth'[d].token = auth[d].token
          /\ auth'[d].repository = auth[d].repository /\ auth'[d].claim = auth[d].token + 1
          /\ auth'[d].prepared /\ auth'[d].active
      BY <1>2, <3>1 DEF Authority
    <3>8. auth[d].token <= auth[d].token + 1
      BY <3>2
    <3>9. /\ auth'[d].host <= auth'[d].token /\ auth'[d].token <= auth'[d].repository
          /\ auth'[d].repository <= auth'[d].claim
      BY <3>2, <3>6, <3>7, <3>8
    <3>10. FencesInOrder'
      BY <3>1, <3>7, <3>9 DEF Inductive, FencesInOrder
    <3>11. AuthoritiesAgree'
      BY <1>1, <3>1, <3>7 DEF Inductive, AuthoritiesAgree
    <3> QED
      BY <3>5, <3>10, <3>11
  <2>2. CASE RecoverTakeover(d)
    BY <1>1, <1>2, <2>2 DEF Inductive, RecoverTakeover, AuthTypeOK, Authority, FencesInOrder,
       AuthoritiesAgree
  <2>3. CASE AcceptAuthority(d)
    BY <1>1, <1>2, <2>3 DEF Inductive, AcceptAuthority, Taking, AuthTypeOK, Authority,
       FencesInOrder, AuthoritiesAgree
  <2>4. CASE TransferFence(d)
    BY <1>1, <1>2, <2>4 DEF Inductive, TransferFence, Taking, AuthTypeOK, Authority,
       FencesInOrder, AuthoritiesAgree
  <2>5. CASE CompleteTakeover(d)
    <3>1. /\ \A e \in Device \ {d} : auth'[e] = auth[e]
          /\ auth'[d] = [auth[d] EXCEPT !.prepared = FALSE, !.active = FALSE]
          /\ auth' = [e \in Device |-> auth'[e]] /\ auth[d].token = auth[d].claim
      BY <1>2, <2>5 DEF CompleteTakeover
    <3>2. AuthTypeOK'
      BY <1>2, <3>1 DEF AuthTypeOK, Authority
    <3>3. /\ auth'[d].host = auth[d].host /\ auth'[d].token = auth[d].token
          /\ auth'[d].repository = auth[d].repository /\ auth'[d].claim = auth[d].claim
          /\ ~auth'[d].prepared /\ ~auth'[d].active
      BY <1>2, <3>1 DEF Authority
    <3>4. auth[d].repository = auth[d].token
      BY <1>2, <3>1 DEF Inductive, FencesInOrder, Authority
    <3>5. FencesInOrder' /\ AuthoritiesAgree'
      BY <1>1, <3>1, <3>3, <3>4 DEF Inductive, FencesInOrder, AuthoritiesAgree
    <3> QED
      BY <3>2, <3>5
  <2> QED
    BY <2>1, <2>2, <2>3, <2>4, <2>5
<1>4. TypeOK'
  BY <1>1, <1>3 DEF Inductive, TypeOK, DirectoryTypeOK, DevicesTypeOK, ConflictsTypeOK, WorkTypeOK
<1>5. LinesAreClosed' /\ HeadsCover' /\ PlansAreClosed'
  BY <1>1, DirectoryUntouched DEF Inductive
<1> QED
  BY <1>3, <1>4, <1>5 DEF Inductive

LEMMA CrashKeeps ==
    ASSUME Inductive, NEW d \in Device, Crash(d)
    PROVE  Inductive'
<1>1. AuthTypeOK' /\ FencesInOrder' /\ AuthoritiesAgree'
  BY DEF Inductive, TypeOK, AuthTypeOK, Authority, DevicesTypeOK, Crash, FencesInOrder,
     AuthoritiesAgree
<1>2. DevicesTypeOK'
  BY DEF Inductive, TypeOK, DevicesTypeOK, Crash, Fault
<1>3. TypeOK'
  BY <1>1, <1>2, PublicationAssumption DEF Inductive, TypeOK, Crash, Nothing, First, Work, Id,
     DirectoryTypeOK, ConflictsTypeOK, WorkTypeOK
<1>4. LinesAreClosed' /\ HeadsCover' /\ PlansAreClosed'
  BY DirectoryUntouched DEF Inductive, TypeOK, WorkTypeOK, Crash, Nothing
<1> QED
  BY <1>1, <1>3, <1>4 DEF Inductive

\* A device that is admitted has one authority; the rest only moves switches.
LEMMA SwitchKeeps ==
    ASSUME Inductive, NEW d \in Device, Launch(d) \/ Disconnect(d) \/ Reconnect(d)
    PROVE  Inductive'
<1>1. UNCHANGED <<pubs, captured, verified, work, accepted, conflicts, auth>>
  BY DEF Launch, Disconnect, Reconnect
<1>2. DevicesTypeOK'
  <2>1. CASE Launch(d)
    BY <1>1, <2>1 DEF Inductive, TypeOK, DevicesTypeOK, Launch
  <2>2. CASE Disconnect(d)
    BY <1>1, <2>2 DEF Inductive, TypeOK, DevicesTypeOK, Disconnect, Fault
  <2>3. CASE Reconnect(d)
    BY <1>1, <2>3 DEF Inductive, TypeOK, DevicesTypeOK, Reconnect
  <2> QED
    BY <2>1, <2>2, <2>3
<1>3. TypeOK'
  BY <1>1, <1>2 DEF Inductive, TypeOK, DirectoryTypeOK, ConflictsTypeOK, WorkTypeOK, AuthTypeOK
<1>4. LinesAreClosed' /\ HeadsCover' /\ PlansAreClosed'
  BY <1>1, DirectoryUntouched DEF Inductive
<1>5. FencesInOrder'
  BY <1>1 DEF Inductive, FencesInOrder
<1>6. AuthoritiesAgree'
  BY <1>1 DEF Inductive, TypeOK, DevicesTypeOK, AuthoritiesAgree, Launch, Admitted, Disconnect,
     Reconnect
<1> QED
  BY <1>3, <1>4, <1>5, <1>6 DEF Inductive

-----------------------------------------------------------------------------
(* The theorems                                                            *)

LEMMA InitHolds == Init => Inductive
<1> SUFFICES ASSUME Init PROVE Inductive
  OBVIOUS
<1>1. First \in Id
  BY PublicationAssumption DEF First, Id
<1> DEFINE x == [id |-> First, line |-> {First}, rank |-> 0, early |-> FALSE]
<1>2. pubs = {x} /\ x.id = First /\ x.line = {First} /\ x.rank = 0 /\ x \in Publication
  BY <1>1 DEF Init, Publication
<1> HIDE DEF x
<1>3. DirectoryTypeOK
  BY <1>2 DEF Init, DirectoryTypeOK
<1>4. DevicesTypeOK /\ ConflictsTypeOK
  BY DEF Init, DevicesTypeOK, ConflictsTypeOK
<1>5. WorkTypeOK
  BY <1>1 DEF Init, WorkTypeOK, Work, Nothing
<1>6. AuthTypeOK
  BY PublicationAssumption DEF Init, AuthTypeOK, Authority
<1>7. LinesAreClosed
  BY <1>2 DEF LinesAreClosed
<1>8. HeadsCover
  <2>1. IsFiniteSet(pubs) /\ Cardinality(pubs) = 1
    BY <1>2, FS_Singleton
  <2>2. x \in Heads
    BY <1>2 DEF Heads
  <2> QED
    BY <1>2, <2>1, <2>2 DEF HeadsCover
<1>9. PlansAreClosed /\ FencesInOrder /\ AuthoritiesAgree
  BY DEF Init, Nothing, PlansAreClosed, FencesInOrder, AuthoritiesAgree
<1> QED
  BY <1>3, <1>4, <1>5, <1>6, <1>7, <1>8, <1>9 DEF Inductive, TypeOK

LEMMA NextHolds ==
    ASSUME Inductive, [Next]_vars
    PROVE  Inductive'
<1>1. CASE UNCHANGED vars
  <2>1. UNCHANGED <<pubs, captured, verified, work, accepted, conflicts, auth, open, online,
                    faults>>
    BY <1>1 DEF vars
  <2>2. TypeOK'
    BY <2>1 DEF Inductive, TypeOK, DirectoryTypeOK, DevicesTypeOK, ConflictsTypeOK, WorkTypeOK,
       AuthTypeOK
  <2>3. LinesAreClosed' /\ HeadsCover' /\ PlansAreClosed'
    BY <2>1, DirectoryUntouched DEF Inductive
  <2>4. FencesInOrder' /\ AuthoritiesAgree'
    BY <2>1 DEF Inductive, FencesInOrder, AuthoritiesAgree
  <2> QED
    BY <2>2, <2>3, <2>4 DEF Inductive
<1>2. CASE \E d \in Device : Step(d) \/ PrepareTakeover(d)
  BY <1>2, BeginPublishKeeps, AppendKeeps, PublishFailsKeeps, AcknowledgeKeeps, TakeoverKeeps
     DEF Step
<1>3. CASE \E d \in Device : \/ Discover(d) \/ Capture(d) \/ Crash(d) \/ Launch(d)
                             \/ Disconnect(d) \/ Reconnect(d)
  BY <1>3, DiscoverKeeps, CaptureKeeps, CrashKeeps, SwitchKeeps
<1> QED
  BY <1>1, <1>2, <1>3 DEF Next

\* The directory is a closed DAG with a winner, plans extend it, and a takeover
\* interrupted anywhere can be taken up again, for any number of devices
\* (publishAdvisory, AppendPublication, ApplyReplicaClaim).
THEOREM DirectoryIsClosed == Spec => []Inductive
<1>1. Inductive /\ [Next]_vars => Inductive'
  BY NextHolds
<1> QED
  BY InitHolds, <1>1, PTL DEF Spec

\* What is accepted is stored, and on one line.
OneLine == AcceptedAreOneLine /\ accepted \subseteq {p.id : p \in pubs}

\* A sole head descends from everything there is.
LEMMA AcceptKeeps ==
    ASSUME Inductive, OneLine, NEW d \in Device, Acknowledge(d)
    PROVE  OneLine'
<1>1. UNCHANGED pubs
  BY DEF Acknowledge
<1>2. CASE accepted' = accepted
  BY <1>1, <1>2 DEF OneLine, AcceptedAreOneLine
<1>3. CASE accepted' # accepted
  <2>1. SoleHead(d) /\ accepted' = accepted \cup {work[d].id}
    BY <1>3 DEF Acknowledge
  <2>2. PICK h \in Heads : h.id = work[d].id
    BY <2>1 DEF SoleHead
  <2>3. h \in pubs /\ \A k \in Heads : k.id = h.id /\ k \in pubs
    BY <2>1, <2>2 DEF SoleHead, Heads
  <2>4. \A p \in pubs : p.id = h.id => p = h
    BY <2>3 DEF Inductive, LinesAreClosed
  <2>5. \A p \in pubs : p.id \in h.line
    BY <2>3, <2>4 DEF Inductive, HeadsCover
  <2>6. \A p, q \in pubs : {p.id, q.id} \subseteq accepted' => p.id \in q.line \/ q.id \in p.line
    BY <2>1, <2>2, <2>4, <2>5 DEF OneLine, AcceptedAreOneLine
  <2> QED
    BY <1>1, <2>1, <2>2, <2>3, <2>6 DEF OneLine, AcceptedAreOneLine
<1> QED
  BY <1>2, <1>3

\* A new publication has a name that nobody has accepted.
LEMMA NewIsNotAccepted ==
    ASSUME Inductive, OneLine, NEW d \in Device, Append(d)
    PROVE  OneLine'
<1>1. UNCHANGED accepted
  BY DEF Append
<1>2. CASE UNCHANGED pubs
  BY <1>1, <1>2 DEF OneLine, AcceptedAreOneLine
<1>3. CASE ~UNCHANGED pubs
  <2>1. PICK x : pubs' = pubs \cup {x} /\ x.id = work[d].id
    <3>1. PICK rank, early :
            pubs' = pubs \cup {[id |-> work[d].id, line |-> work[d].line,
                                rank |-> rank, early |-> early]}
      BY <1>3 DEF Append
    <3> DEFINE new == [id |-> work[d].id, line |-> work[d].line, rank |-> rank,
                       early |-> early]
    <3>2. pubs' = pubs \cup {new} /\ new.id = work[d].id
      BY <3>1
    <3> HIDE DEF new
    <3> QED
      BY <3>2
  <2>2. \A p \in pubs : p.id # x.id
    BY <1>3, <2>1 DEF Append, Stored
  <2>3. x.id \notin accepted
    BY <2>2 DEF OneLine
  <2> QED
    BY <1>1, <2>1, <2>3 DEF OneLine, AcceptedAreOneLine
<1> QED
  BY <1>2, <1>3

\* Two devices that publish over the same parent without a lock never both
\* make their provisional revisions canonical (publishAdvisory reads the
\* directory again after its append).
THEOREM AcceptanceIsLinear == Spec => []AcceptedAreOneLine
<1>1. Init => OneLine
  BY DEF Init, OneLine, AcceptedAreOneLine
<1>2. Inductive /\ OneLine /\ [Next]_vars => OneLine'
  <2> SUFFICES ASSUME Inductive, OneLine, [Next]_vars PROVE OneLine'
    OBVIOUS
  <2>1. CASE \E d \in Device : Append(d) \/ Acknowledge(d)
    BY <2>1, AcceptKeeps, NewIsNotAccepted
  <2>2. CASE UNCHANGED <<pubs, accepted>>
    BY <2>2 DEF OneLine, AcceptedAreOneLine
  <2>3. (\E d \in Device : Append(d) \/ Acknowledge(d)) \/ UNCHANGED <<pubs, accepted>>
    BY DEF Next, Step, vars, BeginPublish, PublishFails, AcceptAuthority, TransferFence,
       CompleteTakeover, RecoverTakeover, Discover, Capture, PrepareTakeover, Crash, Launch,
       Disconnect, Reconnect
  <2> QED
    BY <2>1, <2>2, <2>3
<1>3. OneLine => AcceptedAreOneLine
  BY DEF OneLine
<1> QED
  BY DirectoryIsClosed, <1>1, <1>2, <1>3, PTL DEF Spec
=============================================================================
