----------------------- MODULE AttachmentHistoryProofs -----------------------
(***************************************************************************)
(* What a record or an image of its history names has its bytes, a request *)
(* takes effect once, and a restore replaces what was previewed, for any   *)
(* number of records, contents, goroutines, requests and faults.           *)
(***************************************************************************)
EXTENDS AttachmentHistory, FiniteSetTheorems, SequenceTheorems, TLAPS

-----------------------------------------------------------------------------
(* The inductive invariant                                                 *)

\* From the claim of a token to its last use; under the kernel's gate.
Working == {"claimed", "staged", "queued", "archived", "saved", "complete", "readback"}
Inside == {"archived", "saved", "complete"}

\* Who is where: one goroutine has the gate, one has a token, and what a user
\* asked for stays as it is.
ControlAgrees ==
    /\ \A c \in Client :
         /\ client[c].pc \in {"idle", "claimed"} => client[c].held = {}
         /\ client[c].pc # "idle" => client[c].request \in Request
         /\ client[c].pc \in {"claimed", "readback"} => client[c].request \in Token
         /\ client[c].pc # "idle" /\ client[c].request \in Key => asked[client[c].request] \in Wish
         /\ client[c].pc \in Working /\ client[c].request \in Token =>
              tokens[client[c].request].state = "taken"
         /\ (tx.owner = c) <=> client[c].pc \in Inside
    /\ \A c, d \in Client :
         /\ {client[c].pc, client[d].pc} \subseteq Working
         /\ client[c].request \in Token /\ client[c].request = client[d].request
         => c = d

\* A token holds the bytes of the image that was previewed.
TokensHold ==
    \A t \in Token : tokens[t].state \in {"issued", "taken"} =>
        /\ tokens[t].event \in 1..Len(events)
        /\ tokens[t].record = events[tokens[t].event].record
        /\ DOMAIN tokens[t].items = Image(events[tokens[t].event]).files
        /\ \A n \in DOMAIN tokens[t].items : tokens[t].items[n] = truth[n]
        /\ tokens[t].insert => tokens[t].current = {}

\* Rows and their metadata name the same files.
RowsHold ==
    \A r \in Record :
        /\ {m.name : m \in MetaOf(r)} = rows[r].files
        /\ ~rows[r].exists => rows[r].files = {}

\* All metadata, of transactions under way too, is true, and a place on the disk
\* has one file.
FilesAreTrue ==
    /\ \A m \in meta : Intact(m.record, m.name, m.hash, m.name)
    /\ \A v \in versions \cup tx.archive : Intact("versions", v.blob, v.hash, v.name)
    /\ ~tx.committed => \A u \in tx.uploads : Intact(tx.record, u.name, u.hash, u.name)
    /\ \A o, p \in disk : o.dir = p.dir /\ o.name = p.name => o = p

\* What an image of the history names is in its record or archived.
HistoryIsKept ==
    \A i \in 1..Len(events) : \A n \in events[i].before.files \cup events[i].after.files :
        n \in rows[events[i].record].files \/ VersionsOf(events[i].record, n) # {}

\* Names in use have been drawn.
NamesAreDrawn ==
    /\ \A m \in meta : m.name < next
    /\ \A v \in versions \cup tx.archive : v.name < next /\ v.blob < next
    /\ \A o \in disk : o.name < next
    /\ \A u \in tx.uploads : u.name < next

\* What a transaction has done: its copies and new files have names of their
\* own, and before it commits nothing has changed under it.
Given(files, hash) == Cardinality({u \in files : u.hash = hash})
Ordered(w, hash) == Cardinality({s \in DOMAIN w.upload : w.upload[s] = hash})
Match(hash, w) == Given(tx.uploads, hash) = Ordered(w, hash)
Undecided(q, w) ==
    /\ ~tx.committed /\ q \notin applied
    /\ tx.record = w.record /\ tx.gone = (w.op = "delete")
    /\ tx.files = Removed(w) /\ tx.files \subseteq rows[tx.record].files
    /\ q \in Token => AsPreviewed(q)
    /\ \A n \in tx.files : \E v \in versions \cup tx.archive : v.record = tx.record /\ v.name = n
    /\ client[tx.owner].pc = "archived" =>
         tx.uploads = {} /\ next + Cardinality(DOMAIN w.upload) <= MaxNames + 1
    /\ client[tx.owner].pc = "saved" =>
         /\ \A hash \in Content : Match(hash, w)
         /\ \A u, v \in tx.uploads : u.name = v.name => u = v
         /\ tx.gone => tx.uploads = {}
TxHolds ==
    /\ tx.owner = None => tx = NoTx
    /\ tx.owner # None =>
         /\ tx.record \in Record
         /\ ~tx.committed =>
              /\ \A v \in versions, a \in tx.archive : v.blob # a.blob
              /\ \A u \in tx.uploads : u.name \notin rows[tx.record].files
         /\ tx.committed =>
              /\ tx.files \cap rows[tx.record].files = {}
              /\ tx.gone => rows[tx.record].files = {}
         /\ client[tx.owner].pc \in {"archived", "saved"} =>
              Undecided(client[tx.owner].request, Wanted(client[tx.owner].request))

\* Without a fault nothing is left on the disk that nothing names, but for what
\* the end of the transaction takes away.
NoClutter ==
    faults = 0 => \A o \in disk :
        \/ o.dir # "versions" /\ o.name \in rows[o.dir].files
        \/ o.dir = "versions" /\ \E v \in versions : v.blob = o.name
        \/ tx.owner # None /\ o \in Leftovers

\* A request is applied when it has taken effect.
EffectsAreCounted == \A q \in Request : commits[q] = IF q \in applied THEN 1 ELSE 0

Inductive ==
    /\ TypeOK /\ ControlAgrees /\ TokensHold /\ RowsHold /\ FilesAreTrue /\ HistoryIsKept
    /\ NamesAreDrawn /\ TxHolds /\ NoClutter /\ EffectsAreCounted /\ StagedIsHeld

-----------------------------------------------------------------------------
(* The operators                                                           *)

USE AttachmentAssumption DEF durable, volatile, history, At, Goto, Answer

\* Names drawn in order are different, and within what was drawn.
LEMMA RankIsBelow ==
    ASSUME NEW S, IsFiniteSet(S), S \subseteq Int, NEW x \in S
    PROVE  Rank(S, x) \in Nat /\ Rank(S, x) < Cardinality(S)
<1> DEFINE Before == {y \in S : y < x}
<1>1. Before \subseteq S /\ x \notin Before
  OBVIOUS
<1>2. IsFiniteSet(Before) /\ Cardinality(Before) <= Cardinality(S)
      /\ (Cardinality(Before) = Cardinality(S) => Before = S)
  BY <1>1, FS_Subset
<1>3. Cardinality(Before) \in Nat /\ Cardinality(S) \in Nat
  BY <1>2, FS_CardinalityType
<1> QED
  BY <1>1, <1>2, <1>3 DEF Rank

LEMMA RankOrders ==
    ASSUME NEW S, IsFiniteSet(S), S \subseteq Int, NEW x \in S, NEW y \in S, x < y
    PROVE  Rank(S, x) < Rank(S, y)
<1> DEFINE T == {z \in S : z < y}
<1>1. T \subseteq S /\ T \subseteq Int /\ x \in T
  BY Zenon
<1>2. IsFiniteSet(T)
  BY <1>1, FS_Subset
<1>3. {z \in T : z < x} = {z \in S : z < x}
  <2>1. \A z \in S : z < x => z < y
    OBVIOUS
  <2> QED
    BY <2>1, Zenon
<1>4. Rank(T, x) < Cardinality(T)
  BY <1>1, <1>2, RankIsBelow
<1> QED
  BY <1>3, <1>4 DEF Rank

LEMMA RankIsInjective ==
    ASSUME NEW S, IsFiniteSet(S), S \subseteq Int, NEW x \in S, NEW y \in S, Rank(S, x) = Rank(S, y)
    PROVE  x = y
<1>1. x \in Int /\ y \in Int
  OBVIOUS
<1>2. Rank(S, x) \in Nat
  BY RankIsBelow, Zenon
<1>3. ASSUME x < y PROVE FALSE
  <2>1. Rank(S, x) < Rank(S, y)
    BY <1>3, RankOrders, Zenon
  <2> QED
    BY <1>2, <2>1
<1>4. ASSUME y < x PROVE FALSE
  <2>1. Rank(S, y) < Rank(S, x)
    BY <1>4, RankOrders, Zenon
  <2> QED
    BY <1>2, <2>1
<1> QED
  BY <1>1, <1>3, <1>4

\* A set has the size of what it is mapped to one by one.
LEMMA SameSize ==
    ASSUME NEW S, NEW T, IsFiniteSet(S), NEW f,
           f \in [S -> T], \A x, y \in S : f[x] = f[y] => x = y, \A z \in T : \E x \in S : f[x] = z
    PROVE  IsFiniteSet(T) /\ Cardinality(T) = Cardinality(S)
<1>1. f \in Bijection(S, T)
  BY DEF Bijection, Injection, Surjection, IsInjective
<1> QED
  BY <1>1, FS_Bijection DEF ExistsBijection

LEMMA NamesAreFinite ==
    ASSUME NEW S, S \subseteq Slot
    PROVE  IsFiniteSet(S) /\ Cardinality(S) \in Nat /\ S \subseteq Int
<1>1. IsFiniteSet(Slot)
  BY FS_Interval DEF Slot
<1>2. IsFiniteSet(S)
  BY <1>1, FS_Subset
<1> QED
  BY <1>2, FS_CardinalityType DEF Slot

\* One reference more or less.
LEMMA OneMore ==
    ASSUME NEW S \in SUBSET Client, NEW c \in Client
    PROVE  /\ IsFiniteSet(S) /\ Cardinality(S) \in 0..Cardinality(Client)
           /\ Cardinality(Client) \in Nat
           /\ c \notin S => Cardinality(S \cup {c}) = Cardinality(S) + 1
           /\ c \in S => Cardinality(S \ {c}) = Cardinality(S) - 1 /\ Cardinality(S) > 0
<1>1. IsFiniteSet(S) /\ Cardinality(S) <= Cardinality(Client)
  BY FS_Subset
<1>2. Cardinality(S) \in Nat /\ Cardinality(Client) \in Nat
  BY <1>1, FS_CardinalityType
<1>3. c \notin S => Cardinality(S \cup {c}) = Cardinality(S) + 1
  BY <1>1, FS_AddElement, Zenon
<1>4. c \in S => Cardinality(S \ {c}) = Cardinality(S) - 1
  BY <1>1, FS_RemoveElement, Zenon
<1>5. c \in S => Cardinality(S) # 0
  BY <1>1, FS_EmptySet
<1> QED
  BY <1>1, <1>2, <1>3, <1>4, <1>5

\* What is wanted is well formed.
LEMMA WantedIsTyped ==
    ASSUME MemoryTypeOK, NEW q \in Request,
           q \in Key => asked[q] \in Wish, q \in Token => tokens[q] \in Preview
    PROVE  LET w == Wanted(q) IN
           /\ w.record \in Record /\ w.remove \subseteq Name /\ w.op \in {"set", "insert", "delete"}
           /\ DOMAIN w.upload \subseteq Slot /\ w.upload \in [DOMAIN w.upload -> Content]
           /\ w.op = "delete" => DOMAIN w.upload = {}
           /\ HandlesOf(q) \subseteq Handle
<1>1. CASE q \in Key
  <2>1. Wanted(q) = asked[q] /\ asked[q] \in UserRequest
    BY <1>1 DEF Wanted
  <2>2. {0} \subseteq Slot
    BY DEF Slot
  <2> QED
    BY <2>1, <2>2 DEF UserRequest, HandlesOf, Handle
<1>2. CASE q \in Token
  <2>1. Wanted(q) = Plan(q) /\ tokens[q] \in Preview
    BY <1>2 DEF Wanted
  <2>2. tokens[q].items \in [DOMAIN tokens[q].items -> Content] /\ DOMAIN tokens[q].items \subseteq Name
    BY <2>1 DEF Preview, Items
  <2>3. Name \subseteq Slot
    BY DEF Name, Slot
  <2> QED
    BY <2>1, <2>2, <2>3 DEF Plan, Preview, HandlesOf, Handle
<1> QED
  BY <1>1, <1>2 DEF Request

-----------------------------------------------------------------------------
(* Steps outside the transaction                                           *)

\* A fault is counted within its bound.
LEMMA FaultIsCounted ==
    ASSUME StorageTypeOK, Fault \/ UNCHANGED faults
    PROVE  faults' \in 0..MaxFaults /\ (faults' = 0 => faults = 0)
  BY DEF StorageTypeOK, Fault

\* A step that touches neither tables nor storage, and neither the holder of
\* the gate nor what it was asked for, leaves all there is to say about them.
StoresStay ==
    /\ RowsHold /\ FilesAreTrue /\ HistoryIsKept /\ NamesAreDrawn /\ TxHolds
    /\ NoClutter /\ EffectsAreCounted
StoresTypeOK == TablesTypeOK /\ StorageTypeOK /\ TxTypeOK /\ HistoryTypeOK

LEMMA OutsideStep ==
    ASSUME Inductive, UNCHANGED <<durable, disk, tx, next, history>>, Fault \/ UNCHANGED faults,
           \A c \in Client : tx.owner = c =>
               /\ client'[c] = client[c]
               /\ client[c].request \in Key => asked'[client[c].request] = asked[client[c].request]
               /\ client[c].request \in Token => tokens'[client[c].request] = tokens[client[c].request]
    PROVE  StoresStay' /\ StoresTypeOK'
<1>1. StoresTypeOK'
  BY FaultIsCounted DEF Inductive, TypeOK, StoresTypeOK, TablesTypeOK, StorageTypeOK, TxTypeOK,
     HistoryTypeOK
<1>2. RowsHold' /\ FilesAreTrue' /\ HistoryIsKept' /\ NamesAreDrawn' /\ EffectsAreCounted'
  BY DEF Inductive, RowsHold, FilesAreTrue, HistoryIsKept, NamesAreDrawn, EffectsAreCounted, MetaOf,
     VersionsOf, Intact, Object
<1>3. NoClutter'
  BY FaultIsCounted DEF Inductive, TypeOK, NoClutter, Leftovers
<1>4. TxHolds'
  <2>1. CASE tx.owner = None
    BY <2>1 DEF Inductive, TxHolds
  <2>2. CASE tx.owner # None
    <3>1. PICK c \in Client : c = tx.owner
      BY <2>2 DEF Inductive, TypeOK, TxTypeOK
    <3>2. PICK q \in Request : q = client[c].request
      BY <3>1 DEF Inductive, ControlAgrees, Inside
    <3>3. PICK w : w = Wanted(q)
      OBVIOUS
    <3>4. client'[c] = client[c] /\ tx'.owner = c
      BY <3>1
    <3>5. Wanted(q)' = w
      BY <3>1, <3>2, <3>3 DEF Wanted, Plan, Request
    <3>6. ASSUME Undecided(q, w) PROVE Undecided(q, w)'
      BY <3>1, <3>2, <3>4, <3>6 DEF Undecided, Removed, Match, AsPreviewed
    <3>7. ASSUME client[c].pc \in {"archived", "saved"}
          PROVE Undecided(client[tx.owner].request, Wanted(client[tx.owner].request))'
      <4>1. Undecided(q, w)
        BY <3>1, <3>2, <3>3, <3>7 DEF Inductive, TxHolds
      <4>2. Undecided(q, w)'
        BY <4>1, <3>6
      <4>3. client'[tx'.owner].request = q
        BY <3>2, <3>4
      <4>4. Wanted(client[tx.owner].request)' = w
        BY <3>5, <4>3
      <4> QED
        BY <4>2, <4>3, <4>4
    <3> QED
      BY <2>2, <3>1, <3>4, <3>7 DEF Inductive, TxHolds
  <2> QED
    BY <2>1, <2>2
<1> QED
  BY <1>1, <1>2, <1>3, <1>4 DEF StoresStay

\* The other parts of the invariant are about memory.
MemoryHolds == MemoryTypeOK /\ ControlAgrees /\ TokensHold /\ StagedIsHeld

LEMMA WholeInvariant == Inductive <=> StoresStay /\ StoresTypeOK /\ MemoryHolds
  BY DEF Inductive, StoresStay, StoresTypeOK, MemoryHolds, TypeOK

\* A goroutine that takes a step outside the gate and stays outside.
Steps(c) == /\ client[c].pc \notin Inside /\ client'[c].pc \notin Inside
            /\ \A d \in Client \ {c} : client'[d] = client[d]
LEMMA StepOutside ==
    ASSUME Inductive, NEW c \in Client, Steps(c), UNCHANGED <<durable, disk, tx, next, history>>,
           Fault \/ UNCHANGED faults,
           \A k \in Key : asked[k] # None => asked'[k] = asked[k],
           \A t \in Token : tokens'[t] = tokens[t] \/ tokens[t].state # "taken"
                            \/ (client[c].request = t /\ client[c].pc \in Working)
    PROVE  StoresStay' /\ StoresTypeOK'
<1>1. ASSUME NEW d \in Client, tx.owner = d
      PROVE  /\ client'[d] = client[d]
             /\ client[d].request \in Key => asked'[client[d].request] = asked[client[d].request]
             /\ client[d].request \in Token => tokens'[client[d].request] = tokens[client[d].request]
  <2>1. client[d].pc \in Inside /\ d # c
    BY <1>1 DEF Inductive, ControlAgrees, Steps
  <2>2. client[d].request \in Key => asked[client[d].request] # None
    BY <2>1 DEF Inductive, ControlAgrees, Inside
  <2>3. client[d].request \in Token =>
          tokens[client[d].request].state = "taken"
          /\ ~(client[c].request = client[d].request /\ client[c].pc \in Working)
    BY <2>1 DEF Inductive, ControlAgrees, Inside, Working
  <2> QED
    BY <2>1, <2>2, <2>3 DEF Steps
<1> QED
  BY <1>1, OutsideStep

\* References follow the requests that hold them.
LEMMA StagedStays ==
    ASSUME StagedIsHeld, UNCHANGED staged, \A d \in Client : client'[d].held = client[d].held
    PROVE  StagedIsHeld'
<1>1. \A h \in Handle : {d \in Client : h \in client'[d].held} = {d \in Client : h \in client[d].held}
  OBVIOUS
<1> QED
  BY <1>1 DEF StagedIsHeld

LEMMA StagedMore ==
    ASSUME StagedIsHeld, NEW c \in Client, NEW hs, Stage(hs), client[c].held = {}, client'[c].held = hs,
           \A d \in Client \ {c} : client'[d].held = client[d].held
    PROVE  StagedIsHeld' /\ staged' \in [Handle -> 0..Cardinality(Client)]
<1> DEFINE Before(h) == {d \in Client : h \in client[d].held}
           After(h) == {d \in Client : h \in client'[d].held}
<1>1. ASSUME NEW h \in Handle
      PROVE  staged'[h] = Cardinality(After(h)) /\ staged'[h] \in 0..Cardinality(Client)
  <2>1. staged[h] = Cardinality(Before(h)) /\ Before(h) \in SUBSET Client /\ After(h) \in SUBSET Client
    BY Zenon DEF StagedIsHeld
  <2>2. c \notin Before(h)
    OBVIOUS
  <2>3. CASE h \in hs
    <3>1. After(h) = Before(h) \cup {c}
      BY <2>3
    <3>2. staged'[h] = staged[h] + 1
      BY <2>3 DEF Stage
    <3> HIDE DEF Before, After
    <3>3. Cardinality(After(h)) = Cardinality(Before(h)) + 1
      BY <2>1, <2>2, <3>1, OneMore
    <3>4. Cardinality(After(h)) \in 0..Cardinality(Client)
      BY <2>1, OneMore, Zenon
    <3> QED
      BY <2>1, <3>2, <3>3, <3>4
  <2>4. CASE h \notin hs
    <3>1. After(h) = Before(h)
      BY <2>4
    <3>2. staged'[h] = staged[h] + 0
      BY <2>4 DEF Stage
    <3> HIDE DEF Before, After
    <3>3. Cardinality(Before(h)) \in 0..Cardinality(Client) /\ Cardinality(Client) \in Nat
      BY <2>1, OneMore, Zenon
    <3> QED
      BY <2>1, <3>1, <3>2, <3>3
  <2> QED
    BY <2>3, <2>4
<1>2. staged' = [h \in Handle |-> staged'[h]]
  BY DEF Stage
<1> QED
  BY <1>1, <1>2, Zenon DEF StagedIsHeld

LEMMA StagedLess ==
    ASSUME StagedIsHeld, NEW c \in Client, Drop(client[c].held), client'[c].held = {},
           \A d \in Client \ {c} : client'[d].held = client[d].held
    PROVE  StagedIsHeld' /\ staged' \in [Handle -> 0..Cardinality(Client)]
<1> DEFINE Before(h) == {d \in Client : h \in client[d].held}
           After(h) == {d \in Client : h \in client'[d].held}
<1>1. ASSUME NEW h \in Handle
      PROVE  staged'[h] = Cardinality(After(h)) /\ staged'[h] \in 0..Cardinality(Client)
  <2>1. staged[h] = Cardinality(Before(h)) /\ Before(h) \in SUBSET Client /\ After(h) \in SUBSET Client
    BY DEF StagedIsHeld
  <2>2. staged'[h] = IF h \in client[c].held /\ staged[h] > 0 THEN staged[h] - 1 ELSE staged[h]
    BY DEF Drop
  <2>3. CASE h \in client[c].held
    <3>1. After(h) = Before(h) \ {c} /\ c \in Before(h)
      BY <2>3
    <3> HIDE DEF Before, After
    <3>2. Cardinality(After(h)) = Cardinality(Before(h)) - 1 /\ Cardinality(Before(h)) > 0
      BY <2>1, <3>1, OneMore
    <3> QED
      BY <2>1, <2>2, <2>3, <3>2, OneMore, Zenon
  <2>4. CASE h \notin client[c].held
    <3>1. After(h) = Before(h)
      BY <2>4
    <3> HIDE DEF Before, After
    <3> QED
      BY <2>1, <2>2, <2>4, <3>1, OneMore, Zenon
  <2> QED
    BY <2>3, <2>4
<1>2. staged' = [h \in Handle |-> staged'[h]]
  BY DEF Drop
<1> QED
  BY <1>1, <1>2, Zenon DEF StagedIsHeld

\* Tokens keep what was previewed until they are lost.
TokenStays(t) ==
    \/ tokens'[t] = tokens[t] \/ tokens'[t] = [state |-> "lost"]
    \/ /\ tokens[t].state \in {"issued", "taken"}
       /\ \E s \in {"issued", "taken"} : tokens'[t] = [tokens[t] EXCEPT !.state = s]
LEMMA TokensStay ==
    ASSUME MemoryTypeOK, TokensHold, \A t \in Token : TokenStays(t), tokens' = [s \in Token |-> tokens'[s]],
           Len(events') >= Len(events), \A i \in 1..Len(events) : events'[i] = events[i],
           Len(events) \in Nat, Len(events') \in Nat,
           \A t \in Token : tokens[t].state \in {"issued", "taken"} =>
               \A n \in DOMAIN tokens[t].items : truth'[n] = truth[n]
    PROVE  TokensHold' /\ tokens' \in [Token -> [state : {"none", "lost"}] \cup Preview]
<1>1. ASSUME NEW t \in Token
      PROVE  /\ tokens'[t] \in [state : {"none", "lost"}] \cup Preview
             /\ tokens'[t].state \in {"issued", "taken"} =>
                  /\ tokens[t].state \in {"issued", "taken"} /\ tokens'[t].event = tokens[t].event
                  /\ tokens'[t].record = tokens[t].record /\ tokens'[t].items = tokens[t].items
                  /\ tokens'[t].insert = tokens[t].insert /\ tokens'[t].current = tokens[t].current
  <2>1. tokens[t] \in [state : {"none", "lost"}] \cup Preview
    BY DEF MemoryTypeOK
  <2>2. CASE tokens'[t] = tokens[t]
    BY <2>1, <2>2
  <2>3. CASE tokens'[t] = [state |-> "lost"]
    BY <2>3
  <2>4. CASE /\ tokens[t].state \in {"issued", "taken"}
             /\ \E s \in {"issued", "taken"} : tokens'[t] = [tokens[t] EXCEPT !.state = s]
    BY <2>1, <2>4, Zenon DEF Preview
  <2> QED
    BY <2>2, <2>3, <2>4 DEF TokenStays
<1>2. tokens' \in [Token -> [state : {"none", "lost"}] \cup Preview]
  BY <1>1
<1>3. TokensHold'
  <2> SUFFICES ASSUME NEW t \in Token, tokens'[t].state \in {"issued", "taken"}
               PROVE  /\ tokens'[t].event \in 1..Len(events')
                      /\ tokens'[t].record = events'[tokens'[t].event].record
                      /\ DOMAIN tokens'[t].items = Image(events'[tokens'[t].event]).files
                      /\ \A n \in DOMAIN tokens'[t].items : tokens'[t].items[n] = truth'[n]
                      /\ tokens'[t].insert => tokens'[t].current = {}
    BY DEF TokensHold, Image
  <2>1. /\ tokens[t].event \in 1..Len(events)
        /\ tokens[t].record = events[tokens[t].event].record
        /\ DOMAIN tokens[t].items = Image(events[tokens[t].event]).files
        /\ \A n \in DOMAIN tokens[t].items : tokens[t].items[n] = truth[n]
        /\ tokens[t].insert => tokens[t].current = {}
    BY <1>1 DEF TokensHold
  <2>2. events'[tokens[t].event] = events[tokens[t].event]
    BY <2>1
  <2> QED
    BY <1>1, <2>1, <2>2
<1> QED
  BY <1>2, <1>3

\* One goroutine moves outside the gate, or into and out of it with the
\* transaction; whoever has a token keeps it.
LEMMA ClientMoves ==
    ASSUME Inductive, NEW c \in Client, \A d \in Client \ {c} : client'[d] = client[d],
           \A d \in Client : tx'.owner = d <=> (IF d = c THEN client'[c].pc \in Inside ELSE tx.owner = d),
           client'[c].pc \in {"idle", "claimed"} => client'[c].held = {},
           client'[c].pc # "idle" => client'[c].request \in Request,
           client'[c].pc \in {"claimed", "readback"} => client'[c].request \in Token,
           client'[c].pc # "idle" /\ client'[c].request \in Key => asked'[client'[c].request] \in Wish,
           \A k \in Key : asked[k] \in Wish => asked'[k] = asked[k],
           client'[c].pc \in Working /\ client'[c].request \in Token =>
               /\ tokens'[client'[c].request].state = "taken"
               /\ \/ client[c].pc \in Working /\ client[c].request = client'[c].request
                  \/ tokens[client'[c].request].state # "taken",
           \A t \in Token : tokens[t].state = "taken" =>
               \/ tokens'[t].state = "taken"
               \/ client[c].request = t /\ client[c].pc \in Working
    PROVE  ControlAgrees'
<1>1. ASSUME NEW d \in Client \ {c}
      PROVE  /\ client'[d].pc \in {"idle", "claimed"} => client'[d].held = {}
             /\ client'[d].pc # "idle" => client'[d].request \in Request
             /\ client'[d].pc \in {"claimed", "readback"} => client'[d].request \in Token
             /\ client'[d].pc # "idle" /\ client'[d].request \in Key => asked'[client'[d].request] \in Wish
             /\ client'[d].pc \in Working /\ client'[d].request \in Token =>
                  tokens'[client'[d].request].state = "taken"
             /\ (tx'.owner = d) <=> client'[d].pc \in Inside
  <2>1. client'[d] = client[d] /\ d \in Client /\ d # c
    OBVIOUS
  <2>2. client[d].pc \in Working /\ client[d].request \in Token =>
          /\ tokens[client[d].request].state = "taken"
          /\ ~(client[c].request = client[d].request /\ client[c].pc \in Working)
    BY <2>1 DEF Inductive, ControlAgrees
  <2> QED
    BY <2>1, <2>2 DEF Inductive, ControlAgrees
<1>2. ASSUME NEW d \in Client, NEW e \in Client, {client'[d].pc, client'[e].pc} \subseteq Working,
             client'[d].request \in Token, client'[d].request = client'[e].request
      PROVE  d = e
  <2>1. CASE d # c /\ e # c
    BY <1>2, <2>1 DEF Inductive, ControlAgrees
  <2>2. ASSUME NEW x \in Client \ {c}, client'[x].pc \in Working, client'[c].pc \in Working,
               client'[c].request \in Token, client'[c].request = client'[x].request
        PROVE  FALSE
    <3>1. client[x].pc \in Working /\ client[x].request = client'[c].request /\ x # c /\ x \in Client
      BY <2>2
    <3>2. tokens[client'[c].request].state = "taken"
      BY <2>2, <3>1 DEF Inductive, ControlAgrees
    <3> QED
      BY <2>2, <3>1, <3>2 DEF Inductive, ControlAgrees
  <2>3. CASE d = c /\ e # c
    BY <1>2, <2>3, <2>2
  <2>4. CASE d # c /\ e = c
    BY <1>2, <2>4, <2>2
  <2> QED
    BY <2>1, <2>3, <2>4
<1> QED
  BY <1>1, <1>2 DEF ControlAgrees

LEMMA TokensUntouched ==
    ASSUME TokensHold, UNCHANGED <<tokens, events, truth>>
    PROVE  TokensHold'
  BY DEF TokensHold, Image

\* What is in memory, when a goroutine is known to be outside the gate.
LEMMA OutsideIsNotOwner ==
    ASSUME Inductive, NEW c \in Client, client[c].pc \notin Inside, client'[c].pc \notin Inside,
           UNCHANGED tx
    PROVE  \A d \in Client : tx'.owner = d <=> (IF d = c THEN client'[c].pc \in Inside ELSE tx.owner = d)
  BY DEF Inductive, ControlAgrees

LEMMA SendKeeps ==
    ASSUME Inductive, NEW c \in Client, NEW k \in Key, NEW w \in Wish, Send(c, k, w)
    PROVE  Inductive'
<1> DEFINE hs == {<<k, s>> : s \in DOMAIN w.upload}
<1>1. client[c].pc = "idle" /\ client[c].held = {} /\ client \in [Client -> Serving]
  BY DEF Inductive, TypeOK, MemoryTypeOK, ControlAgrees, Send
<1>2. hs \subseteq Handle /\ k \in Request
  <2>1. DOMAIN w.upload \subseteq {0} /\ {0} \subseteq Slot
    BY DEF UserRequest, Slot
  <2> QED
    BY <2>1 DEF Handle, Request
<1>3. /\ asked' \in [Key -> Wish \cup {None}] /\ asked'[k] \in Wish
      /\ \A j \in Key : asked[j] # None => asked'[j] = asked[j]
  BY DEF Send, Asks, Inductive, TypeOK, MemoryTypeOK
<1>4. /\ \A d \in Client \ {c} : client'[d] = client[d]
      /\ client'[c].request = k /\ client'[c].pc \in {"staged", "answer"}
      /\ client' \in [Client -> Serving]
      /\ \/ Stage(hs) /\ client'[c].held = hs
         \/ UNCHANGED staged /\ client'[c].held = {}
  BY <1>1, <1>2 DEF Send, Serving, Point, Outcome
<1>5. StoresStay' /\ StoresTypeOK'
  BY <1>1, <1>3, <1>4, StepOutside DEF Send, Steps, Inside
<1>6. ControlAgrees'
  <2>1. k \notin Token
    OBVIOUS
  <2> QED
    BY <1>1, <1>2, <1>3, <1>4, <2>1, ClientMoves, OutsideIsNotOwner DEF Send, Inside, Working
<1>7. TokensHold'
  BY TokensUntouched DEF Inductive, Send
<1>8. StagedIsHeld' /\ staged' \in [Handle -> 0..Cardinality(Client)]
  BY <1>1, <1>4, StagedMore, StagedStays, Zenon DEF Inductive, TypeOK, MemoryTypeOK
<1>9. MemoryTypeOK'
  BY <1>3, <1>4, <1>8 DEF MemoryTypeOK, Send, Inductive, TypeOK
<1> QED
  BY <1>5, <1>6, <1>7, <1>8, <1>9, WholeInvariant DEF MemoryHolds, Inductive, StoresStay, StoresTypeOK, TypeOK

\* A goroutine goes on, or has its answer.
LEMMA GotoMoves ==
    ASSUME client \in [Client -> Serving], NEW c \in Client, NEW p \in Point, Goto(c, p)
    PROVE  /\ client' \in [Client -> Serving] /\ \A d \in Client \ {c} : client'[d] = client[d]
           /\ client'[c].pc = p /\ client'[c].request = client[c].request
           /\ client'[c].held = client[c].held
  BY DEF Serving
LEMMA AnswerMoves ==
    ASSUME client \in [Client -> Serving], NEW c \in Client, NEW a \in Outcome, Answer(c, a)
    PROVE  /\ client' \in [Client -> Serving] /\ \A d \in Client \ {c} : client'[d] = client[d]
           /\ client'[c].pc = "answer" /\ client'[c].request = client[c].request
           /\ client'[c].held = client[c].held
<1>1. client[c] \in Serving /\ "answer" \in Point
  BY DEF Point
<1>2. client'[c] = [client[c] EXCEPT !.pc = "answer", !.answer = a]
  OBVIOUS
<1>3. /\ client'[c] \in Serving /\ client'[c].pc = "answer"
      /\ client'[c].request = client[c].request /\ client'[c].held = client[c].held
  BY <1>1, <1>2, Zenon DEF Serving
<1> QED
  BY <1>3

\* A goroutine outside the gate moves and stages nothing.
LEMMA PlainStep ==
    ASSUME Inductive, NEW c \in Client, Steps(c),
           UNCHANGED <<durable, disk, staged, tx, asked, next, history>>,
           Fault \/ UNCHANGED faults, client' \in [Client -> Serving],
           client'[c].held = client[c].held, client'[c].pc # "idle",
           client'[c].pc = "claimed" => client'[c].held = {},
           client'[c].request \in Request,
           client'[c].pc \in {"claimed", "readback"} => client'[c].request \in Token,
           client'[c].request \in Token \/ (client[c].pc # "idle" /\ client'[c].request = client[c].request),
           client'[c].pc \in Working /\ client'[c].request \in Token =>
               /\ tokens'[client'[c].request].state = "taken"
               /\ \/ client[c].pc \in Working /\ client[c].request = client'[c].request
                  \/ tokens[client'[c].request].state # "taken",
           \A t \in Token : TokenStays(t), tokens' = [s \in Token |-> tokens'[s]],
           \A t \in Token : tokens[t].state = "taken" /\ tokens'[t] # tokens[t] =>
               client[c].request = t /\ client[c].pc \in Working
    PROVE  Inductive'
<1>1. \A k \in Key : asked[k] # None => asked'[k] = asked[k]
  OBVIOUS
<1>2. StoresStay' /\ StoresTypeOK'
  BY <1>1, StepOutside
<1>3. client'[c].request \in Key => asked'[client'[c].request] \in Wish
  BY DEF Inductive, ControlAgrees
<1>4. ControlAgrees'
  <2>1. \A d \in Client \ {c} : client'[d] = client[d]
    BY DEF Steps
  <2>2. \A d \in Client : tx'.owner = d <=> (IF d = c THEN client'[c].pc \in Inside ELSE tx.owner = d)
    BY OutsideIsNotOwner DEF Steps
  <2> QED
    BY <1>3, <2>1, <2>2, ClientMoves
<1>5. Len(events) \in Nat
  BY LenProperties DEF Inductive, TypeOK, TablesTypeOK
<1>6. TokensHold' /\ tokens' \in [Token -> [state : {"none", "lost"}] \cup Preview]
  BY <1>5, TokensStay DEF Inductive, TypeOK
<1>7. StagedIsHeld'
  BY StagedStays DEF Inductive, Steps
<1>8. MemoryTypeOK'
  BY <1>6 DEF MemoryTypeOK, Inductive, TypeOK
<1> QED
  BY <1>2, <1>4, <1>6, <1>7, <1>8, WholeInvariant DEF MemoryHolds, Inductive, StoresStay, StoresTypeOK, TypeOK

LEMMA ClaimTokenKeeps ==
    ASSUME Inductive, NEW c \in Client, NEW t \in Token, ClaimToken(c, t)
    PROVE  Inductive'
<1>1. /\ client \in [Client -> Serving] /\ client[c].pc = "idle" /\ client[c].held = {}
      /\ tokens \in [Token -> [state : {"none", "lost"}] \cup Preview]
      /\ tokens[t].state = "issued"
  BY DEF Inductive, TypeOK, MemoryTypeOK, ControlAgrees, ClaimToken
<1>2. /\ tokens' = [tokens EXCEPT ![t].state = "taken"]
      /\ \A d \in Client \ {c} : client'[d] = client[d]
      /\ client'[c].pc \in {"claimed", "answer"} /\ client'[c].request = t /\ client'[c].held = {}
      /\ client' \in [Client -> Serving]
  BY <1>1 DEF ClaimToken, Serving, Point, Outcome, Request
<1>3. \A s \in Token : TokenStays(s) /\ (s # t => tokens'[s] = tokens[s])
  BY <1>1, <1>2 DEF TokenStays
<1>4. tokens'[t].state = "taken"
  BY <1>1, <1>2 DEF Preview
<1>5. tokens' = [s \in Token |-> tokens'[s]]
  BY <1>1, <1>2, Zenon
<1> QED
  BY <1>1, <1>2, <1>3, <1>4, <1>5, PlainStep, Zenon DEF ClaimToken, Steps, Inside, Request

LEMMA StageRestoreKeeps ==
    ASSUME Inductive, NEW c \in Client, StageRestore(c)
    PROVE  Inductive'
<1>1. PICK t \in Token : t = client[c].request
  BY DEF Inductive, ControlAgrees, StageRestore
<1>2. /\ client \in [Client -> Serving] /\ client[c].pc = "claimed" /\ client[c].held = {}
      /\ tokens \in [Token -> [state : {"none", "lost"}] \cup Preview] /\ tokens[t].state = "taken"
  BY <1>1 DEF Inductive, TypeOK, MemoryTypeOK, ControlAgrees, StageRestore, Working
<1>3. HandlesOf(t) \subseteq Handle
  <2>1. tokens[t] \in Preview /\ t \in Request /\ t \notin Key
    BY <1>2 DEF Request
  <2> QED
    BY <2>1, WantedIsTyped DEF Inductive, TypeOK
<1>4. /\ \A d \in Client \ {c} : client'[d] = client[d]
      /\ client'[c].request = t /\ client' \in [Client -> Serving]
      /\ \/ client'[c].pc = "staged" /\ client'[c].held = HandlesOf(t) /\ Stage(HandlesOf(t))
         \/ client'[c].pc = "answer" /\ client'[c].held = {} /\ UNCHANGED staged
  <2>1. CASE client' = [client EXCEPT ![c] = [@ EXCEPT !.pc = "staged", !.held = HandlesOf(t)]]
    <3>1. client[c] \in Serving /\ client'[c] = [client[c] EXCEPT !.pc = "staged", !.held = HandlesOf(t)]
      BY <1>2, <2>1
    <3>2. /\ client'[c] \in Serving /\ client'[c].pc = "staged" /\ client'[c].held = HandlesOf(t)
          /\ client'[c].request = t
      BY <1>1, <1>3, <3>1, Zenon DEF Serving, Point
    <3>3. Stage(HandlesOf(t))
      <4>1. ~Answer(c, "refused")
        BY <1>2, <3>2, AnswerMoves, Zenon DEF Outcome
      <4> QED
        BY <1>1, <4>1 DEF StageRestore
    <3> QED
      BY <1>2, <2>1, <3>2, <3>3
  <2>2. CASE Answer(c, "refused") /\ UNCHANGED staged
    BY <1>1, <1>2, <2>2, AnswerMoves, Zenon DEF Outcome
  <2> QED
    BY <1>1, <2>1, <2>2 DEF StageRestore
<1>5. StoresStay' /\ StoresTypeOK'
  BY <1>2, <1>4, StepOutside DEF StageRestore, Steps, Inside
<1>6. ControlAgrees'
  BY <1>1, <1>2, <1>4, ClientMoves, OutsideIsNotOwner DEF StageRestore, Inside, Working, Request
<1>7. TokensHold'
  BY TokensUntouched DEF Inductive, StageRestore
<1>8. StagedIsHeld' /\ staged' \in [Handle -> 0..Cardinality(Client)]
  BY <1>2, <1>4, StagedMore, StagedStays, Zenon DEF Inductive, TypeOK, MemoryTypeOK
<1>9. MemoryTypeOK'
  BY <1>4, <1>8 DEF MemoryTypeOK, StageRestore, Inductive, TypeOK
<1> QED
  BY <1>5, <1>6, <1>7, <1>8, <1>9 DEF Inductive, StoresStay, StoresTypeOK, TypeOK

LEMMA BeginKeeps ==
    ASSUME Inductive, NEW c \in Client, Begin(c)
    PROVE  Inductive'
<1>1. /\ client \in [Client -> Serving] /\ client[c].pc = "staged" /\ client[c].request \in Request
      /\ client[c].request \in Token => tokens[client[c].request].state = "taken"
      /\ tokens \in [Token -> [state : {"none", "lost"}] \cup Preview]
  BY DEF Inductive, TypeOK, MemoryTypeOK, ControlAgrees, Begin, Working
<1>2. /\ \A d \in Client \ {c} : client'[d] = client[d]
      /\ client'[c].request = client[c].request /\ client'[c].held = client[c].held
      /\ client'[c].pc \in {"queued", "answer"} /\ client' \in [Client -> Serving]
  <2>1. CASE Answer(c, "pending")
    BY <1>1, <2>1, AnswerMoves, Zenon DEF Outcome
  <2>2. CASE Goto(c, "queued")
    BY <1>1, <2>2, GotoMoves, Zenon DEF Point
  <2> QED
    BY <2>1, <2>2 DEF Begin
<1>3. \A t \in Token : TokenStays(t)
  BY DEF Begin, TokenStays
<1> QED
  BY <1>1, <1>2, <1>3, PlainStep DEF Begin, Steps, Inside, Working

LEMMA ReadBackKeeps ==
    ASSUME Inductive, NEW c \in Client, ReadBack(c)
    PROVE  Inductive'
<1>1. PICK t \in Token : t = client[c].request
  BY DEF Inductive, ControlAgrees, ReadBack
<1>2. /\ client \in [Client -> Serving] /\ client[c].pc = "readback" /\ tokens[t].state = "taken"
      /\ tokens \in [Token -> [state : {"none", "lost"}] \cup Preview]
  BY <1>1 DEF Inductive, TypeOK, MemoryTypeOK, ControlAgrees, ReadBack, Working
<1>3. /\ \A d \in Client \ {c} : client'[d] = client[d]
      /\ client'[c].request = t /\ client'[c].held = client[c].held
      /\ client'[c].pc = "answer" /\ client' \in [Client -> Serving]
      /\ UNCHANGED tokens \/ tokens' = [tokens EXCEPT ![t].state = "issued"]
      /\ Fault \/ UNCHANGED faults
  <2>1. \E a \in Outcome : Answer(c, a)
    BY DEF ReadBack, Outcome
  <2>2. /\ UNCHANGED tokens \/ tokens' = [tokens EXCEPT ![t].state = "issued"]
        /\ Fault \/ UNCHANGED faults
    BY <1>1 DEF ReadBack
  <2> QED
    BY <1>1, <1>2, <2>1, <2>2, AnswerMoves, Zenon
<1>4. /\ \A s \in Token : TokenStays(s) /\ (s # t => tokens'[s] = tokens[s])
      /\ tokens' = [s \in Token |-> tokens'[s]]
  BY <1>2, <1>3 DEF TokenStays
<1> QED
  BY <1>1, <1>2, <1>3, <1>4, PlainStep DEF ReadBack, Steps, Inside, Working, Request

LEMMA FinishKeeps ==
    ASSUME Inductive, NEW c \in Client, Finish(c)
    PROVE  Inductive'
<1>1. client \in [Client -> Serving] /\ client[c].pc = "answer"
  BY DEF Inductive, TypeOK, MemoryTypeOK, Finish
<1>2. /\ \A d \in Client \ {c} : client'[d] = client[d]
      /\ client'[c].pc = "idle" /\ client'[c].held = {} /\ client' \in [Client -> Serving]
  BY <1>1 DEF Finish, Idle, Serving, Point, Outcome
<1>3. StoresStay' /\ StoresTypeOK'
  BY <1>1, <1>2, StepOutside DEF Finish, Steps, Inside
<1>4. ControlAgrees'
  BY <1>1, <1>2, ClientMoves, OutsideIsNotOwner DEF Finish, Inside, Working
<1>5. TokensHold'
  BY TokensUntouched DEF Inductive, Finish
<1>6. StagedIsHeld' /\ staged' \in [Handle -> 0..Cardinality(Client)]
  BY <1>2, StagedLess DEF Inductive, Finish
<1>7. MemoryTypeOK'
  BY <1>2, <1>6 DEF MemoryTypeOK, Finish, Inductive, TypeOK
<1> QED
  BY <1>3, <1>4, <1>5, <1>6, <1>7 DEF Inductive, StoresStay, StoresTypeOK, TypeOK

\* A token that nobody has taken changes.
LEMMA TokenStep ==
    ASSUME Inductive, NEW t \in Token, tokens[t].state # "taken",
           UNCHANGED <<durable, disk, staged, client, tx, asked, next, faults, history>>,
           \A s \in Token \ {t} : tokens'[s] = tokens[s]
    PROVE  StoresStay' /\ StoresTypeOK' /\ ControlAgrees' /\ StagedIsHeld'
<1>1. \A c \in Client : client[c].pc \in Working => client[c].request # t
  BY DEF Inductive, ControlAgrees
<1>2. \A c \in Client : tx.owner = c => client[c].request # t
  BY <1>1 DEF Inductive, ControlAgrees, Inside, Working
<1>3. StoresStay' /\ StoresTypeOK'
  BY <1>2, OutsideStep
<1>4. ControlAgrees'
  BY <1>1 DEF Inductive, ControlAgrees
<1>5. StagedIsHeld'
  BY StagedStays DEF Inductive
<1> QED
  BY <1>3, <1>4, <1>5

LEMMA ExpireKeeps ==
    ASSUME Inductive, NEW t \in Token, Expire(t)
    PROVE  Inductive'
<1>1. /\ tokens \in [Token -> [state : {"none", "lost"}] \cup Preview] /\ tokens[t].state = "issued"
      /\ tokens' = [tokens EXCEPT ![t] = [state |-> "lost"]]
  BY DEF Inductive, TypeOK, MemoryTypeOK, Expire
<1>2. /\ \A s \in Token : TokenStays(s) /\ (s # t => tokens'[s] = tokens[s])
      /\ tokens' = [s \in Token |-> tokens'[s]]
  BY <1>1, Zenon DEF TokenStays
<1>3. StoresStay' /\ StoresTypeOK' /\ ControlAgrees' /\ StagedIsHeld'
  BY <1>1, <1>2, TokenStep DEF Expire
<1>4. Len(events) \in Nat
  BY LenProperties DEF Inductive, TypeOK, TablesTypeOK
<1>5. TokensHold' /\ tokens' \in [Token -> [state : {"none", "lost"}] \cup Preview]
  BY <1>2, <1>4, TokensStay DEF Inductive, TypeOK, Expire
<1>6. MemoryTypeOK'
  BY <1>5 DEF MemoryTypeOK, Expire, Inductive, TypeOK
<1> QED
  BY <1>3, <1>5, <1>6 DEF Inductive, StoresStay, StoresTypeOK, TypeOK

\* An item of a restore is bound to the bytes the user gave under its name.
LEMMA ItemsAreTrue ==
    ASSUME Inductive, NEW i \in 1..Len(events), NEW n \in Image(events[i]).files
    PROVE  /\ events[i] \in Event /\ n \in Name
           /\ ItemHash(events[i].record, n) = truth[n] /\ truth[n] \in Content
<1>1. events[i] \in Event
  BY DEF Inductive, TypeOK, TablesTypeOK
<1>2. n \in events[i].before.files \cup events[i].after.files /\ n \in Name /\ events[i].record \in Record
  BY <1>1 DEF Image, Event, Row
<1>3. CASE n \in rows[events[i].record].files
  <2> DEFINE m == CHOOSE x \in meta : x.record = events[i].record /\ x.name = n
  <2>1. \E x \in meta : x.record = events[i].record /\ x.name = n
    BY <1>2, <1>3 DEF Inductive, RowsHold, MetaOf
  <2>2. m \in meta /\ m.record = events[i].record /\ m.name = n
    BY <2>1
  <2>3. m.hash = truth[n] /\ m.hash \in Content
    BY <2>2 DEF Inductive, FilesAreTrue, Intact, TypeOK, TablesTypeOK
  <2> QED
    BY <1>1, <1>2, <1>3, <2>3 DEF ItemHash
<1>4. CASE n \notin rows[events[i].record].files
  <2> DEFINE v == CHOOSE x \in versions : x.record = events[i].record /\ x.name = n
  <2>1. \E x \in versions : x.record = events[i].record /\ x.name = n
    BY <1>2, <1>4 DEF Inductive, HistoryIsKept, VersionsOf
  <2>2. v \in versions /\ v.record = events[i].record /\ v.name = n
    BY <2>1
  <2>3. v.hash = truth[n] /\ v.hash \in Content
    BY <2>2 DEF Inductive, FilesAreTrue, Intact, TypeOK, TablesTypeOK, Version
  <2> QED
    BY <1>1, <1>2, <1>4, <2>3 DEF ItemHash
<1> QED
  BY <1>3, <1>4

LEMMA PreviewRestoreKeeps ==
    ASSUME Inductive, NEW t \in Token, NEW i \in 1..Len(events), PreviewRestore(t, i)
    PROVE  Inductive'
<1> DEFINE r == events[i].record
           target == Image(events[i]).files
           items == [n \in target |-> ItemHash(r, n)]
           preview == [state |-> "issued", event |-> i, record |-> r, insert |-> ~rows[r].exists,
                       current |-> rows[r].files, live |-> target \cap rows[r].files, items |-> items]
<1>1. /\ tokens \in [Token -> [state : {"none", "lost"}] \cup Preview] /\ tokens[t].state = "none"
      /\ tokens' = [tokens EXCEPT ![t] = preview]
  BY DEF Inductive, TypeOK, MemoryTypeOK, PreviewRestore
<1>2. events[i] \in Event /\ Len(events) \in Nat
  BY LenProperties DEF Inductive, TypeOK, TablesTypeOK
<1>3. r \in Record /\ target \subseteq Name /\ rows[r] \in Row
  BY <1>2 DEF Event, Row, Image, Inductive, TypeOK, TablesTypeOK
<1>4. DOMAIN items = target /\ items \in [target -> Content] /\ \A n \in target : items[n] = truth[n]
  BY ItemsAreTrue
<1>5. items \in Items
  BY <1>3, <1>4 DEF Items
<1>6. preview \in Preview
  <2> HIDE DEF items, target, r
  <2> QED
    BY <1>2, <1>3, <1>5 DEF Preview, Row
<1>7. /\ preview.event = i /\ preview.record = r /\ preview.items = items
      /\ preview.insert => preview.current = {}
  <2>1. ~rows[r].exists => rows[r].files = {}
    BY <1>3 DEF Inductive, RowsHold
  <2> HIDE DEF items, target, r
  <2> QED
    BY <2>1, Zenon
<1> HIDE DEF preview, items
<1>8. \A s \in Token : s # t => tokens'[s] = tokens[s]
  BY <1>1
<1>9. tokens'[t] = preview /\ tokens' \in [Token -> [state : {"none", "lost"}] \cup Preview]
  BY <1>1, <1>6
<1>10. StoresStay' /\ StoresTypeOK' /\ ControlAgrees' /\ StagedIsHeld'
  BY <1>1, <1>8, TokenStep DEF PreviewRestore
<1>11. TokensHold'
  <2>1. events' = events /\ truth' = truth
    BY DEF PreviewRestore
  <2>2. \A s \in Token : s # t => tokens'[s] = tokens[s]
    BY <1>8
  <2> QED
    BY <1>4, <1>7, <1>9, <2>1, <2>2 DEF Inductive, TokensHold, Image
<1>12. MemoryTypeOK'
  BY <1>9 DEF MemoryTypeOK, PreviewRestore, Inductive, TypeOK
<1> QED
  BY <1>10, <1>11, <1>12 DEF Inductive, StoresStay, StoresTypeOK, TypeOK

-----------------------------------------------------------------------------
(* The transaction                                                         *)

\* What a goroutine of the kernel works on.
LEMMA WantedIsSound ==
    ASSUME Inductive, NEW c \in Client, client[c].pc \in Working \ {"claimed"}
    PROVE  /\ client[c].request \in Request
           /\ client[c].request \in Key => asked[client[c].request] \in Wish
           /\ client[c].request \in Token =>
                /\ tokens[client[c].request] \in Preview
                /\ tokens[client[c].request].state = "taken"
           /\ LET w == Wanted(client[c].request) IN
              /\ w.record \in Record /\ w.remove \subseteq Name /\ w.op \in {"set", "insert", "delete"}
              /\ DOMAIN w.upload \subseteq Slot /\ w.upload \in [DOMAIN w.upload -> Content]
              /\ w.op = "delete" => DOMAIN w.upload = {}
<1>1. /\ client[c].request \in Request
      /\ client[c].request \in Key => asked[client[c].request] \in Wish
      /\ client[c].request \in Token => tokens[client[c].request].state = "taken"
  BY DEF Inductive, ControlAgrees, Working
<1>2. client[c].request \in Token => tokens[client[c].request] \in Preview
  BY <1>1 DEF Inductive, TypeOK, MemoryTypeOK
<1> QED
  BY <1>1, <1>2, WantedIsTyped DEF Inductive, TypeOK

LEMMA OwnerIsUndecided ==
    ASSUME Inductive, NEW c \in Client, client[c].pc \in {"archived", "saved"},
           NEW q, q = client[c].request, NEW w, w = Wanted(q)
    PROVE  tx.owner = c /\ c # None /\ tx.record \in Record /\ Undecided(q, w)
  BY DEF Inductive, ControlAgrees, Inside, TxHolds

LEMMA UndecidedNext ==
    ASSUME NEW c \in Client, tx'.owner = c, NEW q, client'[c].request = q, NEW w, Wanted(q)' = w,
           Undecided(q, w)'
    PROVE  Undecided(client[tx.owner].request, Wanted(client[tx.owner].request))'
<1>1. client'[tx'.owner].request = q
  OBVIOUS
<1>2. Wanted(client[tx.owner].request)' = w
  BY <1>1
<1> QED
  BY <1>1, <1>2

\* The copies that archiveMetadata makes: true, under names of their own.
LEMMA ArchiveIsTrue ==
    ASSUME Inductive, NEW r \in Record, NEW names, names \subseteq rows[r].files, Archivable(r, names),
           next + Cardinality(names) <= MaxNames + 1, NEW copies, copies = Archive(r, names)
    PROVE  /\ copies \subseteq Version
           /\ Cardinality(copies) \in Nat /\ Cardinality(copies) <= Cardinality(names)
           /\ \A v \in copies : /\ v.record = r /\ v.name \in names /\ v.hash = truth[v.name]
                                /\ v.blob >= next /\ v.blob < next + Cardinality(copies)
                                /\ (CHOOSE o \in disk : o.dir = r /\ o.name = v.name).bytes = v.hash
           /\ \A u, v \in copies : u.blob = v.blob => u = v
           /\ \A n \in names : \E v \in versions \cup copies : v.record = r /\ v.name = n
<1> DEFINE new == {n \in names : VersionsOf(r, n) = {}}
           hash(n) == (CHOOSE m \in meta : m.record = r /\ m.name = n).hash
           row(n) == [record |-> r, name |-> n, hash |-> hash(n), blob |-> next + Rank(new, n)]
<1>1. names \subseteq Name /\ new \subseteq names /\ new \subseteq Slot /\ names \subseteq Slot
      /\ next \in Nat /\ MaxNames \in Nat
  <2>1. names \subseteq Name
    BY DEF Inductive, TypeOK, TablesTypeOK, Row
  <2>2. Name \subseteq Slot
    BY DEF Name, Slot
  <2>3. next \in Nat
    BY DEF Inductive, TypeOK, StorageTypeOK
  <2> QED
    BY <2>1, <2>2, <2>3
<1>2. IsFiniteSet(new) /\ new \subseteq Int /\ IsFiniteSet(names) /\ Cardinality(new) \in Nat
      /\ Cardinality(names) \in Nat /\ Cardinality(new) <= Cardinality(names)
  BY <1>1, NamesAreFinite, FS_Subset
<1>3. copies = {row(n) : n \in new}
  BY DEF Archive
<1>4. ASSUME NEW n \in new
      PROVE  /\ hash(n) = truth[n] /\ truth[n] \in Content /\ Object(r, n, truth[n]) \in disk
             /\ (CHOOSE o \in disk : o.dir = r /\ o.name = n).bytes = truth[n]
  <2>1. PICK m \in meta : m.record = r /\ m.name = n /\ Object(r, n, m.hash) \in disk
    BY DEF Archivable, LiveVerified, Verified, MetaOf
  <2>2. \A x \in meta : x.name = n => x.hash = truth[n] /\ x.hash \in Content
    BY DEF Inductive, FilesAreTrue, Intact, TypeOK, TablesTypeOK
  <2>3. hash(n) = truth[n]
    <3> DEFINE x == CHOOSE y \in meta : y.record = r /\ y.name = n
    <3>1. x \in meta /\ x.name = n
      BY <2>1
    <3> QED
      BY <2>2, <3>1
  <2>4. Object(r, n, truth[n]) \in disk /\ truth[n] \in Content
    BY <2>1, <2>2
  <2>5. (CHOOSE o \in disk : o.dir = r /\ o.name = n).bytes = truth[n]
    <3> DEFINE p == CHOOSE o \in disk : o.dir = r /\ o.name = n
               q == Object(r, n, truth[n])
    <3>1. q.dir = r /\ q.name = n /\ q.bytes = truth[n]
      BY DEF Object
    <3>2. p \in disk /\ p.dir = r /\ p.name = n
      BY <2>4, <3>1
    <3>3. p = q
      BY <2>4, <3>1, <3>2 DEF Inductive, FilesAreTrue
    <3> QED
      BY <3>1, <3>3, Zenon
  <2> QED
    BY <2>3, <2>4, <2>5
<1>5. Cardinality(copies) = Cardinality(new)
  <2> DEFINE f == [n \in new |-> row(n)]
  <2>1. f \in [new -> copies] /\ \A z \in copies : \E x \in new : f[x] = z
    BY <1>3, Zenon
  <2>2. \A x, y \in new : f[x] = f[y] => x = y
    OBVIOUS
  <2> HIDE DEF f, row, new
  <2> QED
    BY <1>2, <2>1, <2>2, SameSize
<1>6. \A n \in new : Rank(new, n) \in Nat /\ Rank(new, n) < Cardinality(new)
  BY <1>2, RankIsBelow
<1>7. \A x, y \in new : Rank(new, x) = Rank(new, y) => x = y
  BY <1>2, RankIsInjective
<1> HIDE DEF hash
<1>8. ASSUME NEW n \in new
      PROVE  /\ row(n).record = r /\ row(n).name = n /\ row(n).hash = truth[n]
             /\ row(n).blob = next + Rank(new, n) /\ row(n) \in Version
  <2>1. next + Rank(new, n) \in Name
    BY <1>1, <1>2, <1>6 DEF Name, Inductive, TypeOK, StorageTypeOK
  <2> QED
    BY <1>1, <1>4, <2>1 DEF Version
<1> HIDE DEF row
<1>9. ASSUME NEW v \in copies
      PROVE  /\ v.record = r /\ v.name \in names /\ v.hash = truth[v.name] /\ v \in Version
             /\ v.blob >= next /\ v.blob < next + Cardinality(copies)
             /\ (CHOOSE o \in disk : o.dir = r /\ o.name = v.name).bytes = v.hash
  <2>1. PICK n \in new : v = row(n)
    BY <1>3
  <2>2. v.record = r /\ v.name = n /\ v.hash = truth[n] /\ v.blob = next + Rank(new, n) /\ v \in Version
    BY <1>8, <2>1, Zenon
  <2>3. v.blob >= next /\ v.blob < next + Cardinality(copies)
    <3> HIDE DEF new
    <3> QED
      BY <1>1, <1>2, <1>5, <1>6, <2>2
  <2> QED
    BY <1>1, <1>4, <2>2, <2>3
<1>10. ASSUME NEW u \in copies, NEW v \in copies, u.blob = v.blob PROVE u = v
  <2>1. PICK x \in new : u = row(x)
    BY <1>3
  <2>2. PICK y \in new : v = row(y)
    BY <1>3
  <2>3. Rank(new, x) = Rank(new, y)
    BY <1>1, <1>6, <1>8, <1>10, <2>1, <2>2
  <2> QED
    BY <1>7, <2>1, <2>2, <2>3
<1>11. ASSUME NEW n \in names PROVE \E v \in versions \cup copies : v.record = r /\ v.name = n
  <2>1. CASE n \in new
    BY <1>3, <1>8, <2>1, Zenon
  <2>2. CASE n \notin new
    BY <2>2 DEF VersionsOf
  <2> QED
    BY <2>1, <2>2
<1> QED
  BY <1>2, <1>5, <1>9, <1>10, <1>11, Zenon

\* A request that passes its guard finds the row as it was previewed.
LEMMA GuardMeansPreviewed ==
    ASSUME Inductive, NEW t \in Token, tokens[t] \in Preview, tokens[t].state = "taken", Guarded(t)
    PROVE  AsPreviewed(t)
<1>1. t \notin Key /\ Wanted(t) = Plan(t)
  BY DEF Wanted
<1>2. tokens[t].record \in Record /\ tokens[t].insert \in BOOLEAN /\ rows[tokens[t].record] \in Row
  BY DEF Preview, Inductive, TypeOK, TablesTypeOK
<1>3. CASE ~tokens[t].insert
  BY <1>1, <1>3 DEF Guarded, Plan
<1>4. CASE tokens[t].insert
  <2>1. ~rows[tokens[t].record].exists
    BY <1>1, <1>4 DEF Guarded, Plan
  <2>2. rows[tokens[t].record].files = {} /\ tokens[t].current = {}
    BY <1>2, <1>4, <2>1 DEF Inductive, RowsHold, TokensHold
  <2> QED
    BY <1>2, <1>4, <2>1, <2>2 DEF AsPreviewed, Row
<1> QED
  BY <1>2, <1>3, <1>4

\* The transaction of request q begins, which wants w and archives these names.
Begins(c, q, w, names, copies) ==
    /\ client[c].pc = "queued" /\ tx.owner = None
    /\ q = client[c].request /\ w = Wanted(q) /\ names = Removed(w) /\ copies = Archive(w.record, names)
    /\ next + Cardinality(names) + Cardinality(DOMAIN w.upload) <= MaxNames + 1
    /\ q \notin applied /\ Guarded(q) /\ Prepared(q) /\ Archivable(w.record, names)
    /\ Goto(c, "archived")
    /\ tx' = [NoTx EXCEPT !.owner = c, !.record = w.record, !.archive = copies,
                          !.gone = (w.op = "delete"), !.files = names]
    /\ disk' = disk \cup
           {Object("versions", v.blob,
                   (CHOOSE o \in disk : o.dir = w.record /\ o.name = v.name).bytes) : v \in copies}
    /\ next' = next + Cardinality(copies)
    /\ UNCHANGED <<durable, staged, tokens, asked, faults, history>>

LEMMA EnterBegins ==
    ASSUME Inductive, NEW c \in Client, NEW q, NEW w, NEW names, NEW copies,
           Begins(c, q, w, names, copies)
    PROVE  Inductive'
<1> DEFINE r == w.record
<1>a. /\ client[c].pc = "queued" /\ tx.owner = None /\ q = client[c].request /\ w = Wanted(q)
      /\ names = Removed(w) /\ copies = Archive(r, names) /\ Goto(c, "archived")
      /\ next + Cardinality(names) + Cardinality(DOMAIN w.upload) <= MaxNames + 1
  BY DEF Begins
<1>b. q \notin applied /\ Guarded(q) /\ Prepared(q) /\ Archivable(r, names)
  BY DEF Begins
<1>c. tx' = [NoTx EXCEPT !.owner = c, !.record = r, !.archive = copies,
                         !.gone = (w.op = "delete"), !.files = names]
  BY DEF Begins
<1>d. next' = next + Cardinality(copies)
  BY DEF Begins
<1>e. /\ UNCHANGED <<rows, meta, versions, events, applied, truth, damaged, commits>>
      /\ UNCHANGED <<staged, tokens, asked, faults>>
  BY DEF Begins
<1>1. /\ q \in Request /\ r \in Record /\ DOMAIN w.upload \subseteq Slot
      /\ (q \in Token => tokens[q] \in Preview /\ tokens[q].state = "taken")
      /\ client \in [Client -> Serving] /\ c # None
  BY <1>a, WantedIsSound DEF Working, Inductive, TypeOK, MemoryTypeOK
<1>2. names \subseteq rows[r].files /\ (w.op = "delete" => names = rows[r].files)
  BY <1>a, <1>b, Zenon DEF Prepared, Removed
<1>3. /\ Cardinality(names) \in Nat /\ Cardinality(DOMAIN w.upload) \in Nat /\ names \subseteq Name
      /\ next \in Nat /\ next >= 1 /\ MaxNames \in Nat
  <2>1. names \subseteq Name
    BY <1>1, <1>2 DEF Inductive, TypeOK, TablesTypeOK, Row
  <2>2. Name \subseteq Slot
    BY DEF Name, Slot
  <2>3. next \in Nat /\ next >= 1
    BY DEF Inductive, TypeOK, StorageTypeOK
  <2> QED
    BY <1>1, <2>1, <2>2, <2>3, NamesAreFinite
<1>4. /\ copies \subseteq Version
      /\ Cardinality(copies) \in Nat /\ Cardinality(copies) <= Cardinality(names)
      /\ \A v \in copies : /\ v.record = r /\ v.name \in names /\ v.hash = truth[v.name]
                           /\ v.blob >= next /\ v.blob < next + Cardinality(copies)
                           /\ (CHOOSE o \in disk : o.dir = r /\ o.name = v.name).bytes = v.hash
      /\ \A u, v \in copies : u.blob = v.blob => u = v
      /\ \A n \in names : \E v \in versions \cup copies : v.record = r /\ v.name = n
  <2>1. next + Cardinality(names) <= MaxNames + 1
    BY <1>a, <1>3
  <2> QED
    BY <1>a, <1>b, <1>1, <1>2, <2>1, ArchiveIsTrue
<1>4a. \A v \in copies : v.blob >= next /\ v.blob \in Nat
  <2>1. \A v \in copies : v.blob \in Nat
    BY <1>4 DEF Version, Name
  <2> QED
    BY <1>4, <2>1
<1>4b. \A u, v \in copies : u.blob = v.blob => u = v
  BY <1>4
<1>4c. \A n \in names : \E v \in versions \cup copies : v.record = r /\ v.name = n
  BY <1>4
<1>5. disk' = disk \cup {Object("versions", v.blob, v.hash) : v \in copies}
  BY <1>4 DEF Begins
<1>6. /\ tx'.owner = c /\ tx'.record = r /\ tx'.files = names /\ tx'.uploads = {}
      /\ tx'.archive = copies /\ tx'.gone = (w.op = "delete") /\ tx'.committed = FALSE
      /\ tx' \in [owner : Client \cup {None}, record : Record \cup {None}, files : SUBSET Name,
                  uploads : SUBSET Files, archive : SUBSET Version, gone : BOOLEAN, committed : BOOLEAN]
  BY <1>c, <1>1, <1>3, <1>4, Zenon DEF NoTx
<1>7. next' \in 1..(MaxNames + 1) /\ next' >= next /\ next' + Cardinality(DOMAIN w.upload) <= MaxNames + 1
  BY <1>a, <1>d, <1>3, <1>4
<1>8. /\ client' \in [Client -> Serving] /\ \A d \in Client \ {c} : client'[d] = client[d]
      /\ client'[c].pc = "archived" /\ client'[c].request = q /\ client'[c].held = client[c].held
  BY <1>a, <1>1, GotoMoves, Zenon DEF Point
<1>9. \A o \in disk' \ disk : \E v \in copies : /\ o = Object("versions", v.blob, v.hash)
                                                /\ o.dir = "versions" /\ o.name = v.blob /\ o.bytes = v.hash
  BY <1>5 DEF Object
<1>9a. \A o \in disk' \ disk : \E v \in copies : o = Object("versions", v.blob, v.hash)
  BY <1>5
<1> HIDE DEF r
<1>10. TypeOK'
  <2>1. TablesTypeOK' /\ HistoryTypeOK'
    BY <1>e DEF Inductive, TypeOK, TablesTypeOK, HistoryTypeOK
  <2>2. StorageTypeOK'
    <3>1. \A v \in copies : Object("versions", v.blob, v.hash)
                           \in [dir : Directory, name : Name, bytes : Content \cup {Bad}]
      BY <1>4 DEF Version, Object, Directory
    <3> QED
      BY <1>e, <1>5, <1>7, <3>1 DEF Inductive, TypeOK, StorageTypeOK
  <2>3. MemoryTypeOK'
    BY <1>e, <1>8 DEF Inductive, TypeOK, MemoryTypeOK
  <2>4. TxTypeOK'
    BY <1>6 DEF TxTypeOK
  <2> QED
    BY <2>1, <2>2, <2>3, <2>4 DEF TypeOK
<1>11. ControlAgrees'
  <2>1. \A d \in Client : tx'.owner = d <=> (IF d = c THEN client'[c].pc \in Inside ELSE tx.owner = d)
    BY <1>a, <1>1, <1>6, <1>8 DEF Inside
  <2>2. q \in Key => asked[q] \in Wish
    BY <1>a, WantedIsSound DEF Working
  <2> QED
    BY <1>a, <1>e, <1>1, <1>8, <2>1, <2>2, ClientMoves DEF Working
<1>12. TokensHold' /\ RowsHold' /\ HistoryIsKept' /\ EffectsAreCounted'
  BY <1>e, TokensUntouched DEF Inductive, RowsHold, HistoryIsKept, EffectsAreCounted, MetaOf, VersionsOf
<1>13. StagedIsHeld'
  BY <1>e, <1>8, StagedStays DEF Inductive
<1>14. NamesAreDrawn'
  <2>1. \A v \in copies : v.name < next'
    <3>1. \A n \in rows[r].files : n < next
      BY <1>1 DEF Inductive, RowsHold, NamesAreDrawn, MetaOf
    <3>2. \A n \in names : n < next /\ n \in Nat
      BY <1>2, <1>3, <3>1 DEF Name
    <3> QED
      BY <1>3, <1>4, <1>7, <3>2
  <2>2. \A v \in copies : v.blob < next'
    BY <1>d, <1>4
  <2>3. \A n \in Name : n < next => n < next'
    BY <1>3, <1>7 DEF Name
  <2>4. \A m \in meta' : m.name < next'
    BY <1>e, <2>3 DEF Inductive, NamesAreDrawn, TypeOK, TablesTypeOK
  <2>5. \A v \in versions : v.name < next' /\ v.blob < next'
    BY <2>3 DEF Inductive, NamesAreDrawn, TypeOK, TablesTypeOK, Version
  <2>6. \A o \in disk : o.name < next'
    BY <2>3 DEF Inductive, NamesAreDrawn, TypeOK, StorageTypeOK
  <2>7. \A o \in disk' : o.name < next'
    BY <1>9, <2>2, <2>6
  <2>8. \A v \in versions' \cup tx'.archive : v.name < next' /\ v.blob < next'
    BY <1>6, <1>e, <2>1, <2>2, <2>5
  <2> QED
    BY <1>6, <2>4, <2>7, <2>8 DEF NamesAreDrawn
<1>15. FilesAreTrue'
  <2>1. disk \subseteq disk' /\ UNCHANGED <<truth, damaged, meta, versions>>
    BY <1>e, <1>5
  <2>2. \A m \in meta' : Intact(m.record, m.name, m.hash, m.name)'
    BY <2>1, Zenon DEF Inductive, FilesAreTrue, Intact, Object
  <2>3. \A v \in versions' : Intact("versions", v.blob, v.hash, v.name)'
    BY <2>1, Zenon DEF Inductive, FilesAreTrue, Intact, Object
  <2>4. \A v \in copies : Intact("versions", v.blob, v.hash, v.name)'
    <3> SUFFICES ASSUME NEW v \in copies PROVE Intact("versions", v.blob, v.hash, v.name)'
      OBVIOUS
    <3>1. Object("versions", v.blob, v.hash) \in disk' /\ v.hash = truth'[v.name]
      BY <1>4, <1>5, <2>1
    <3> QED
      BY <3>1 DEF Intact, Object
  <2>5. ASSUME NEW o \in disk', NEW p \in disk', o.dir = p.dir, o.name = p.name PROVE o = p
    <3>1. \A x \in disk : x.name < next /\ x.name \in Nat
      BY DEF Inductive, NamesAreDrawn, TypeOK, StorageTypeOK, Name
    <3>2. ASSUME NEW x \in disk' \ disk PROVE ~(x.name < next)
      <4>1. PICK v \in copies : x.name = v.blob
        BY <1>9
      <4>2. v.blob >= next /\ v.blob \in Nat
        BY <1>4a
      <4> QED
        BY <1>3, <4>1, <4>2
    <3>3. CASE o \in disk /\ p \in disk
      BY <2>5, <3>3 DEF Inductive, FilesAreTrue
    <3>4. CASE o \in disk' \ disk /\ p \in disk' \ disk
      <4>1. PICK u \in copies : o = Object("versions", u.blob, u.hash)
        BY <1>9a, <3>4
      <4>2. PICK v \in copies : p = Object("versions", v.blob, v.hash)
        BY <1>9a, <3>4
      <4>3. o.name = u.blob /\ p.name = v.blob
        BY <4>1, <4>2 DEF Object
      <4>4. u = v
        BY <1>4b, <2>5, <4>3, Zenon
      <4> QED
        BY <4>1, <4>2, <4>4
    <3> QED
      BY <2>5, <3>1, <3>2, <3>3, <3>4
  <2>6. \A v \in versions' \cup tx'.archive : Intact("versions", v.blob, v.hash, v.name)'
    BY <1>6, <2>3, <2>4
  <2>7. tx'.uploads = {}
    BY <1>6
  <2> QED
    BY <2>2, <2>5, <2>6, <2>7 DEF FilesAreTrue
<1>16. TxHolds'
  <2>1. Wanted(q)' = w
    BY <1>a, <1>e, Zenon DEF Wanted, Plan
  <2>2. q \in Token => AsPreviewed(q)'
    BY <1>b, <1>e, <1>1, GuardMeansPreviewed DEF AsPreviewed
  <2>3. Removed(w)' = names
    BY <1>a, <1>e DEF Removed
  <2>4. Undecided(q, w)'
    <3>1. client'[tx'.owner].pc = "archived"
      BY <1>6, <1>8
    <3>2. \A n \in tx'.files : \E v \in versions' \cup tx'.archive : v.record = tx'.record /\ v.name = n
      BY <1>4c, <1>6, <1>e
    <3>3. tx'.files = Removed(w)' /\ tx'.files \subseteq rows'[tx'.record].files
      BY <1>2, <1>6, <1>e, <2>3
    <3>4. tx'.record = w.record
      BY <1>6 DEF r
    <3> QED
      BY <1>b, <1>e, <1>6, <1>7, <2>2, <3>1, <3>2, <3>3, <3>4 DEF Undecided
  <2>5. \A v \in versions, a \in copies : v.blob # a.blob
    <3>1. \A v \in versions : v.blob < next /\ v.blob \in Nat
      BY DEF Inductive, NamesAreDrawn, TypeOK, TablesTypeOK, Version, Name
    <3> QED
      BY <1>3, <1>4a, <3>1
  <2>6. Undecided(client[tx.owner].request, Wanted(client[tx.owner].request))'
    BY <1>6, <1>8, <2>1, <2>4, UndecidedNext
  <2>7. tx'.owner # None /\ tx'.record \in Record /\ ~tx'.committed /\ tx'.uploads = {}
        /\ \A v \in versions', a \in tx'.archive : v.blob # a.blob
    BY <1>1, <1>6, <1>e, <2>5
  <2> QED
    BY <2>6, <2>7 DEF TxHolds
<1>17. NoClutter'
  <2>1. ASSUME NEW o \in disk' \ disk PROVE o \in Leftovers'
    <3>1. PICK v \in copies : o.dir = "versions" /\ o.name = v.blob
      BY <1>9
    <3>2. ~tx'.committed /\ v \in tx'.archive
      BY <1>6
    <3> QED
      BY <3>1, <3>2 DEF Leftovers
  <2>2. faults = 0 => \A o \in disk : \/ o.dir # "versions" /\ o.name \in rows[o.dir].files
                                      \/ o.dir = "versions" /\ \E v \in versions : v.blob = o.name
    BY <1>a DEF Inductive, NoClutter
  <2>3. tx'.owner # None /\ faults' = faults
    BY <1>e, <1>1, <1>6
  <2> QED
    BY <1>e, <2>1, <2>2, <2>3 DEF NoClutter
<1> QED
  BY <1>10, <1>11, <1>12, <1>13, <1>14, <1>15, <1>16, <1>17 DEF Inductive

\* A token that is given back, and a request that has succeeded.
LEMMA GiveBackStays ==
    ASSUME MemoryTypeOK, NEW q, q \in Token => tokens[q].state = "taken", GiveBack(q) \/ UNCHANGED tokens
    PROVE  /\ \A t \in Token : TokenStays(t) /\ (t # q => tokens'[t] = tokens[t])
           /\ tokens' = [s \in Token |-> tokens'[s]]
<1>1. tokens \in [Token -> [state : {"none", "lost"}] \cup Preview]
  BY DEF MemoryTypeOK
<1>2. UNCHANGED tokens \/ (q \in Token /\ tokens' = [tokens EXCEPT ![q].state = "issued"])
  BY DEF GiveBack
<1> QED
  BY <1>1, <1>2 DEF TokenStays

LEMMA SucceedMoves ==
    ASSUME client \in [Client -> Serving], NEW c \in Client, NEW a \in Outcome, Succeed(c, a)
    PROVE  /\ client' \in [Client -> Serving] /\ \A d \in Client \ {c} : client'[d] = client[d]
           /\ client'[c].pc \in {"readback", "answer"} /\ client'[c].request = client[c].request
           /\ client'[c].held = client[c].held /\ (client'[c].pc = "readback" => client[c].request \in Token)
<1>1. CASE client[c].request \in Token /\ Goto(c, "readback")
  BY <1>1, GotoMoves, Zenon DEF Point
<1>2. CASE Answer(c, a)
  BY <1>2, AnswerMoves, Zenon
<1> QED
  BY <1>1, <1>2 DEF Succeed

LEMMA EnterKeeps ==
    ASSUME Inductive, NEW c \in Client, Enter(c)
    PROVE  Inductive'
<1>1. PICK q : q = client[c].request
  OBVIOUS
<1>2. PICK w : w = Wanted(q)
  OBVIOUS
<1>3. PICK names : names = Removed(w)
  OBVIOUS
<1>3a. PICK copies : copies = Archive(w.record, names)
  OBVIOUS
<1>4. /\ client[c].pc = "queued" /\ client \in [Client -> Serving] /\ q \in Request /\ MemoryTypeOK
      /\ q \in Token => tokens[q].state = "taken"
  BY <1>1, WantedIsSound DEF Enter, Working, Inductive, TypeOK, MemoryTypeOK
<1>5. CASE UNCHANGED <<tx, disk, next>> /\ (GiveBack(q) \/ UNCHANGED tokens)
           /\ ((Succeed(c, "replayed") /\ UNCHANGED tokens) \/ Answer(c, "conflict") \/ Answer(c, "refused"))
  <2>1. /\ \A t \in Token : TokenStays(t) /\ (t # q => tokens'[t] = tokens[t])
        /\ tokens' = [s \in Token |-> tokens'[s]]
    BY <1>4, <1>5, GiveBackStays
  <2>2. /\ client' \in [Client -> Serving] /\ \A d \in Client \ {c} : client'[d] = client[d]
        /\ client'[c].request = q /\ client'[c].held = client[c].held
        /\ \/ client'[c].pc = "answer"
           \/ client'[c].pc = "readback" /\ q \in Token /\ tokens' = tokens
    <3>1. CASE Succeed(c, "replayed") /\ UNCHANGED tokens
      BY <1>1, <1>4, <3>1, SucceedMoves DEF Outcome
    <3>2. CASE Answer(c, "conflict") \/ Answer(c, "refused")
      BY <1>1, <1>4, <3>2, AnswerMoves, Zenon DEF Outcome
    <3> QED
      BY <1>5, <3>1, <3>2
  <2>3. Steps(c)
    BY <1>4, <2>2 DEF Steps, Inside
  <2>4. UNCHANGED <<durable, staged, asked, faults, history>>
    BY DEF Enter
  <2> QED
    BY <1>1, <1>4, <1>5, <2>1, <2>2, <2>3, <2>4, PlainStep DEF Working
<1>6. CASE Begins(c, q, w, names, copies)
  BY <1>6, EnterBegins
<1>7. UNCHANGED <<durable, staged, asked, faults, history>>
  BY DEF Enter
<1> QED
  BY <1>1, <1>2, <1>3, <1>3a, <1>4, <1>5, <1>6, <1>7 DEF Enter, Replayed, GiveBack, Begins

\* The names under which new files are written: fresh, one for each upload.
Uploads(w) == {[name |-> next + Rank(DOMAIN w.upload, s), hash |-> w.upload[s]] : s \in DOMAIN w.upload}
LEMMA UploadsAreDrawn ==
    ASSUME NEW w, DOMAIN w.upload \subseteq Slot, w.upload \in [DOMAIN w.upload -> Content],
           next \in Nat, next >= 1, next + Cardinality(DOMAIN w.upload) <= MaxNames + 1, NEW new,
           new = Uploads(w)
    PROVE  /\ new \subseteq Files /\ Cardinality(DOMAIN w.upload) \in Nat
           /\ \A u \in new : u.name >= next /\ u.name < next + Cardinality(DOMAIN w.upload)
           /\ \A u, v \in new : u.name = v.name => u = v
           /\ DOMAIN w.upload = {} => new = {}
           /\ \A hash \in Content : Given(new, hash) = Ordered(w, hash)
<1> DEFINE slots == DOMAIN w.upload
           file(s) == [name |-> next + Rank(slots, s), hash |-> w.upload[s]]
<1>1. IsFiniteSet(slots) /\ Cardinality(slots) \in Nat /\ slots \subseteq Int
  BY NamesAreFinite
<1>2. \A s \in slots : Rank(slots, s) \in Nat /\ Rank(slots, s) < Cardinality(slots)
  BY <1>1, RankIsBelow
<1>3. \A x, y \in slots : Rank(slots, x) = Rank(slots, y) => x = y
  BY <1>1, RankIsInjective
<1>4. new = {file(s) : s \in slots} /\ \A s \in slots : w.upload[s] \in Content
  BY DEF Uploads
<1>5. next + Cardinality(slots) <= MaxNames + 1
  OBVIOUS
<1>6. \A s \in slots : file(s).name = next + Rank(slots, s) /\ file(s).hash = w.upload[s]
  OBVIOUS
<1>7. \A s \in slots : file(s) \in Files
  <2> SUFFICES ASSUME NEW s \in slots PROVE file(s) \in Files
    OBVIOUS
  <2>1. next + Rank(slots, s) \in Name
    <3> HIDE DEF slots
    <3> QED
      BY <1>1, <1>2, <1>5 DEF Name
  <2> QED
    BY <1>4, <2>1 DEF Files
<1>8. slots = {} => new = {}
  BY <1>4
<1> HIDE DEF slots, file
<1>9. ASSUME NEW u \in new PROVE u \in Files /\ u.name >= next /\ u.name < next + Cardinality(slots)
  <2>1. PICK s \in slots : u = file(s)
    BY <1>4
  <2>2. u.name = next + Rank(slots, s)
    BY <1>6, <2>1
  <2> QED
    BY <1>1, <1>2, <1>7, <2>1, <2>2
<1>10. ASSUME NEW x \in slots, NEW y \in slots, file(x).name = file(y).name PROVE x = y
  <2>1. Rank(slots, x) = Rank(slots, y)
    BY <1>2, <1>6, <1>10
  <2> QED
    BY <1>3, <2>1
<1>11. ASSUME NEW hash \in Content
       PROVE  Given(new, hash) = Ordered(w, hash)
  <2> DEFINE S == {s \in slots : w.upload[s] = hash}
             T == {u \in new : u.hash = hash}
             f == [s \in S |-> file(s)]
  <2>1. IsFiniteSet(S)
    BY <1>1, FS_Subset
  <2>2. f \in [S -> T] /\ \A z \in T : \E x \in S : f[x] = z
    BY <1>4, <1>6
  <2>3. \A x, y \in S : f[x] = f[y] => x = y
    BY <1>10
  <2> HIDE DEF S, T, f
  <2>4. Cardinality(T) = Cardinality(S)
    BY <2>1, <2>2, <2>3, SameSize
  <2> QED
    BY <2>4 DEF S, T, slots, Given, Ordered
<1>12. \A u, v \in new : u.name = v.name => u = v
  BY <1>4, <1>10
<1> QED
  BY <1>1, <1>8, <1>9, <1>11, <1>12 DEF slots

\* Everything that a row, its history or a token names was drawn before.
LEMMA NamesAreOld ==
    ASSUME Inductive
    PROVE  /\ \A r \in Record : \A n \in rows[r].files : n < next /\ n \in Name
           /\ \A t \in Token : tokens[t].state \in {"issued", "taken"} =>
                \A n \in DOMAIN tokens[t].items : n < next /\ n \in Name
<1>1. \A r \in Record : \A n \in rows[r].files : n < next /\ n \in Name
  BY DEF Inductive, RowsHold, NamesAreDrawn, MetaOf, TypeOK, TablesTypeOK, Row
<1>2. ASSUME NEW t \in Token, tokens[t].state \in {"issued", "taken"}, NEW n \in DOMAIN tokens[t].items
      PROVE  n < next /\ n \in Name
  <2>1. PICK i \in 1..Len(events) : i = tokens[t].event
    BY <1>2 DEF Inductive, TokensHold
  <2>2. n \in Image(events[i]).files
    BY <1>2, <2>1 DEF Inductive, TokensHold
  <2>3. events[i] \in Event /\ n \in Name
    BY <2>2, ItemsAreTrue
  <2>4. n \in events[i].before.files \cup events[i].after.files /\ events[i].record \in Record
    BY <2>2, <2>3 DEF Image, Event
  <2>5. n \in rows[events[i].record].files \/ \E v \in versions : v.name = n
    BY <2>4 DEF Inductive, HistoryIsKept, VersionsOf
  <2> QED
    BY <1>1, <2>3, <2>4, <2>5 DEF Inductive, NamesAreDrawn
<1> QED
  BY <1>1, <1>2

LEMMA SaveKeeps ==
    ASSUME Inductive, NEW c \in Client, Save(c)
    PROVE  Inductive'
<1>1. PICK q : q = client[c].request
  OBVIOUS
<1>2. PICK w : w = Wanted(q)
  OBVIOUS
<1>3. PICK r : r = w.record
  OBVIOUS
<1>4. PICK new : new = Uploads(w)
  OBVIOUS
<1>5. PICK size : size = Cardinality(DOMAIN w.upload)
  OBVIOUS
<1>6. /\ client[c].pc = "archived" /\ Goto(c, "saved") /\ tx' = [tx EXCEPT !.uploads = new]
      /\ disk' = disk \cup {Object(r, u.name, u.hash) : u \in new} /\ next' = next + size
      /\ truth' = [n \in Name |-> IF \E u \in new : u.name = n
                                  THEN (CHOOSE u \in new : u.name = n).hash ELSE truth[n]]
  BY <1>1, <1>2, <1>3, <1>4, <1>5 DEF Save, Uploads
<1>7. /\ UNCHANGED <<rows, meta, versions, events, applied>>
      /\ UNCHANGED <<staged, tokens, asked, faults, damaged, commits>>
  BY DEF Save
<1>8. /\ q \in Request /\ r \in Record /\ DOMAIN w.upload \subseteq Slot
      /\ w.upload \in [DOMAIN w.upload -> Content] /\ client \in [Client -> Serving] /\ c # None
      /\ q \in Key => asked[q] \in Wish
      /\ q \in Token => tokens[q].state = "taken"
      /\ w.op = "delete" => DOMAIN w.upload = {}
  BY <1>1, <1>2, <1>3, <1>6, WantedIsSound, Zenon DEF Working, Inductive, TypeOK, MemoryTypeOK
<1>9. tx.owner = c /\ Undecided(q, w)
  BY <1>1, <1>2, <1>6, OwnerIsUndecided
<1>10. /\ ~tx.committed /\ tx.record = r /\ tx.uploads = {} /\ tx.gone = (w.op = "delete")
       /\ next + size <= MaxNames + 1 /\ next \in Nat /\ next >= 1 /\ tx.archive \subseteq Version
  BY <1>3, <1>5, <1>6, <1>9 DEF Undecided, Inductive, TypeOK, StorageTypeOK, TxTypeOK
<1>11. /\ new \subseteq Files /\ size \in Nat
       /\ \A u, v \in new : u.name = v.name => u = v
       /\ DOMAIN w.upload = {} => new = {}
       /\ \A hash \in Content : Given(new, hash) = Ordered(w, hash)
  <2>1. next + Cardinality(DOMAIN w.upload) <= MaxNames + 1 /\ next \in Nat /\ next >= 1
    BY <1>5, <1>10
  <2>2. \A hash \in Content : Given(new, hash) = Ordered(w, hash)
    BY <1>4, <1>8, <2>1, UploadsAreDrawn
  <2>3. \A u, v \in new : u.name = v.name => u = v
    BY <1>4, <1>8, <2>1, UploadsAreDrawn
  <2>4. DOMAIN w.upload = {} => new = {}
    BY <1>4 DEF Uploads
  <2>5. new \subseteq Files
    BY <1>4, <1>8, <2>1, UploadsAreDrawn
  <2>6. size \in Nat
    BY <1>5, <1>8, NamesAreFinite
  <2> QED
    BY <2>2, <2>3, <2>4, <2>5, <2>6
<1>12. \A u \in new : u.name >= next /\ u.name < next' /\ u.name \in Name /\ u.hash \in Content
  <2>1. \A u \in new : u.name >= next /\ u.name < next + size
    BY <1>4, <1>5, <1>8, <1>10, UploadsAreDrawn
  <2> QED
    BY <1>6, <1>11, <2>1 DEF Files
<1>13. next' >= next /\ next' \in 1..(MaxNames + 1)
  BY <1>6, <1>10, <1>11
<1>14. /\ tx'.owner = c /\ tx'.record = r /\ tx'.files = tx.files /\ tx'.uploads = new
       /\ tx'.archive = tx.archive /\ tx'.gone = tx.gone /\ ~tx'.committed
       /\ tx' \in [owner : Client \cup {None}, record : Record \cup {None}, files : SUBSET Name,
                   uploads : SUBSET Files, archive : SUBSET Version, gone : BOOLEAN, committed : BOOLEAN]
  <2>1. tx \in [owner : Client \cup {None}, record : Record \cup {None}, files : SUBSET Name,
                uploads : SUBSET Files, archive : SUBSET Version, gone : BOOLEAN, committed : BOOLEAN]
    BY DEF Inductive, TypeOK, TxTypeOK
  <2> QED
    BY <1>6, <1>9, <1>10, <1>11, <2>1
<1>15. /\ client' \in [Client -> Serving] /\ \A d \in Client \ {c} : client'[d] = client[d]
       /\ client'[c].pc = "saved" /\ client'[c].request = q /\ client'[c].held = client[c].held
  BY <1>1, <1>6, <1>8, GotoMoves, Zenon DEF Point
<1>16. \A n \in Name : n < next => truth'[n] = truth[n] /\ n < next'
  <2> SUFFICES ASSUME NEW n \in Name, n < next PROVE truth'[n] = truth[n] /\ n < next'
    OBVIOUS
  <2>1. n \in Nat /\ n < next'
    BY <1>10, <1>13 DEF Name
  <2>2. ~\E u \in new : u.name = n
    BY <1>10, <1>12, <2>1
  <2> QED
    BY <1>6, <2>1, <2>2
<1>17. \A u \in new : truth'[u.name] = u.hash
  <2> SUFFICES ASSUME NEW u \in new PROVE truth'[u.name] = u.hash
    OBVIOUS
  <2> DEFINE x == CHOOSE v \in new : v.name = u.name
  <2>1. x \in new /\ x.name = u.name
    OBVIOUS
  <2>2. x = u
    BY <1>11, <2>1
  <2>3. truth'[u.name] = x.hash
    BY <1>6, <1>12
  <2> QED
    BY <2>2, <2>3, Zenon
<1>18. TypeOK'
  <2>1. TablesTypeOK'
    BY <1>7 DEF Inductive, TypeOK, TablesTypeOK
  <2>2. HistoryTypeOK'
    <3>1. truth' = [n \in Name |-> truth'[n]]
      BY <1>6
    <3>2. \A n \in Name : truth'[n] \in Content \cup {None}
      <4> SUFFICES ASSUME NEW n \in Name PROVE truth'[n] \in Content \cup {None}
        OBVIOUS
      <4>1. CASE \E u \in new : u.name = n
        BY <1>12, <1>17, <4>1
      <4>2. CASE ~\E u \in new : u.name = n
        BY <1>6, <4>2 DEF Inductive, TypeOK, HistoryTypeOK
      <4> QED
        BY <4>1, <4>2
    <3>3. truth' \in [Name -> Content \cup {None}]
      BY <3>1, <3>2
    <3> QED
      BY <1>7, <3>3 DEF Inductive, TypeOK, HistoryTypeOK
  <2>3. StorageTypeOK'
    <3>1. \A u \in new : Object(r, u.name, u.hash)
                        \in [dir : Directory, name : Name, bytes : Content \cup {Bad}]
      BY <1>8, <1>12 DEF Object, Directory
    <3> QED
      BY <1>6, <1>7, <1>13, <3>1 DEF Inductive, TypeOK, StorageTypeOK
  <2>4. MemoryTypeOK'
    BY <1>7, <1>15 DEF Inductive, TypeOK, MemoryTypeOK
  <2>5. TxTypeOK'
    BY <1>14 DEF TxTypeOK
  <2> QED
    BY <2>1, <2>2, <2>3, <2>4, <2>5 DEF TypeOK
<1>19. ControlAgrees'
  <2>1. \A d \in Client : tx'.owner = d <=> (IF d = c THEN client'[c].pc \in Inside ELSE tx.owner = d)
    BY <1>9, <1>14, <1>15 DEF Inside
  <2> QED
    BY <1>1, <1>6, <1>7, <1>8, <1>15, <2>1, ClientMoves DEF Working
<1>20. TokensHold'
  <2>1. Len(events) \in Nat
    BY LenProperties DEF Inductive, TypeOK, TablesTypeOK
  <2>2. \A t \in Token : TokenStays(t)
    BY <1>7 DEF TokenStays
  <2>3. tokens' = [s \in Token |-> tokens'[s]] /\ MemoryTypeOK /\ TokensHold
    BY <1>7 DEF Inductive, TypeOK, MemoryTypeOK
  <2>4. \A t \in Token : tokens[t].state \in {"issued", "taken"} =>
          \A n \in DOMAIN tokens[t].items : truth'[n] = truth[n]
    BY <1>16, NamesAreOld
  <2> QED
    BY <1>7, <2>1, <2>2, <2>3, <2>4, TokensStay
<1>21. RowsHold' /\ HistoryIsKept' /\ EffectsAreCounted'
  BY <1>7 DEF Inductive, RowsHold, HistoryIsKept, EffectsAreCounted, MetaOf, VersionsOf
<1>22. StagedIsHeld'
  BY <1>7, <1>15, StagedStays DEF Inductive
<1>23. NamesAreDrawn'
  <2>1. \A m \in meta' : m.name < next'
    BY <1>7, <1>16 DEF Inductive, NamesAreDrawn, TypeOK, TablesTypeOK
  <2>2. \A v \in versions' \cup tx'.archive : v.name < next' /\ v.blob < next'
    BY <1>7, <1>10, <1>14, <1>16 DEF Inductive, NamesAreDrawn, TypeOK, TablesTypeOK, Version
  <2>3. \A o \in disk' : o.name < next'
    <3>1. \A o \in disk : o.name < next'
      BY <1>16 DEF Inductive, NamesAreDrawn, TypeOK, StorageTypeOK
    <3>2. \A u \in new : Object(r, u.name, u.hash).name < next'
      BY <1>12 DEF Object
    <3> QED
      BY <1>6, <3>1, <3>2
  <2>4. \A u \in tx'.uploads : u.name < next'
    BY <1>12, <1>14
  <2> QED
    BY <2>1, <2>2, <2>3, <2>4 DEF NamesAreDrawn
<1>24. FilesAreTrue'
  <2>1. disk \subseteq disk' /\ UNCHANGED <<damaged, meta, versions>> /\ tx'.archive = tx.archive
    BY <1>6, <1>7, <1>14
  <2>2. \A m \in meta' : Intact(m.record, m.name, m.hash, m.name)'
    <3> SUFFICES ASSUME NEW m \in meta PROVE Intact(m.record, m.name, m.hash, m.name)'
      BY <2>1
    <3>1. truth'[m.name] = truth[m.name]
      BY <1>16 DEF Inductive, NamesAreDrawn, TypeOK, TablesTypeOK
    <3> QED
      BY <2>1, <3>1 DEF Inductive, FilesAreTrue, Intact, Object
  <2>3. \A v \in versions' \cup tx'.archive : Intact("versions", v.blob, v.hash, v.name)'
    <3> SUFFICES ASSUME NEW v \in versions \cup tx.archive PROVE Intact("versions", v.blob, v.hash, v.name)'
      BY <2>1
    <3>1. truth'[v.name] = truth[v.name]
      BY <1>10, <1>16 DEF Inductive, NamesAreDrawn, TypeOK, TablesTypeOK, Version
    <3> QED
      BY <2>1, <3>1 DEF Inductive, FilesAreTrue, Intact, Object
  <2>4. \A u \in tx'.uploads : Intact(tx.record, u.name, u.hash, u.name)'
    <3> SUFFICES ASSUME NEW u \in new PROVE Intact(tx.record, u.name, u.hash, u.name)'
      BY <1>14
    <3>1. Object(r, u.name, u.hash) \in disk' /\ u.hash = truth'[u.name] /\ tx'.record = r
      BY <1>6, <1>14, <1>17
    <3> QED
      BY <3>1 DEF Intact, Object
  <2>5. ASSUME NEW o \in disk', NEW p \in disk', o.dir = p.dir, o.name = p.name PROVE o = p
    <3>1. \A x \in disk : x.name < next /\ x.name \in Nat
      BY DEF Inductive, NamesAreDrawn, TypeOK, StorageTypeOK, Name
    <3>2. \A x \in disk' \ disk : \E u \in new : x = Object(r, u.name, u.hash) /\ x.name = u.name
      BY <1>6 DEF Object
    <3>3. \A x \in disk' \ disk : ~(x.name < next)
      BY <1>10, <1>12, <3>2 DEF Name
    <3>4. CASE o \in disk /\ p \in disk
      BY <2>5, <3>4 DEF Inductive, FilesAreTrue
    <3>5. CASE o \in disk' \ disk /\ p \in disk' \ disk
      <4>1. PICK u \in new : o = Object(r, u.name, u.hash) /\ o.name = u.name
        BY <3>2, <3>5
      <4>2. PICK v \in new : p = Object(r, v.name, v.hash) /\ p.name = v.name
        BY <3>2, <3>5
      <4>3. u = v
        BY <1>11, <2>5, <4>1, <4>2
      <4> QED
        BY <4>1, <4>2, <4>3
    <3> QED
      BY <2>5, <3>1, <3>3, <3>4, <3>5
  <2> QED
    BY <2>2, <2>3, <2>4, <2>5 DEF FilesAreTrue
<1>25. TxHolds'
  <2>1. Wanted(q)' = w
    BY <1>2, <1>7 DEF Wanted, Plan
  <2>2. q \in Token => AsPreviewed(q)'
    BY <1>7, <1>9 DEF Undecided, AsPreviewed
  <2>3. Removed(w)' = Removed(w)
    BY <1>7 DEF Removed
  <2>4. Undecided(q, w)'
    <3>1. client'[tx'.owner].pc = "saved"
      BY <1>14, <1>15
    <3>2. \A hash \in Content : Match(hash, w)'
      BY <1>11, <1>14 DEF Match
    <3>3. /\ q \notin applied' /\ tx'.record = w.record /\ tx'.gone = (w.op = "delete")
          /\ tx'.files = Removed(w)' /\ tx'.files \subseteq rows'[tx'.record].files
          /\ \A n \in tx'.files : \E v \in versions' \cup tx'.archive : v.record = tx'.record /\ v.name = n
      BY <1>3, <1>7, <1>9, <1>10, <1>14, <2>3 DEF Undecided
    <3>4. tx'.gone => tx'.uploads = {}
      BY <1>8, <1>10, <1>11, <1>14
    <3>5. \A u, v \in tx'.uploads : u.name = v.name => u = v
      BY <1>11, <1>14
    <3> QED
      BY <1>14, <2>2, <3>1, <3>2, <3>3, <3>4, <3>5 DEF Undecided
  <2>5. Undecided(client[tx.owner].request, Wanted(client[tx.owner].request))'
    BY <1>14, <1>15, <2>1, <2>4, UndecidedNext
  <2>6. \A v \in versions', a \in tx'.archive : v.blob # a.blob
    BY <1>7, <1>8, <1>9, <1>10, <1>14 DEF Inductive, TxHolds
  <2>7. \A u \in tx'.uploads : u.name \notin rows'[tx'.record].files
    BY <1>7, <1>8, <1>10, <1>12, <1>14, NamesAreOld DEF Name
  <2> QED
    BY <1>8, <1>14, <2>5, <2>6, <2>7 DEF TxHolds
<1>26. NoClutter'
  <2>1. ASSUME NEW o \in disk' \ disk PROVE o \in Leftovers'
    <3>1. PICK u \in new : o = Object(r, u.name, u.hash)
      BY <1>6, <2>1
    <3>2. o.dir = r /\ o.name = u.name
      BY <3>1 DEF Object
    <3> QED
      BY <1>14, <3>2 DEF Leftovers
  <2>2. ASSUME NEW o \in disk, o \in Leftovers PROVE o \in Leftovers'
    <3>1. o.dir = "versions" /\ \E v \in tx.archive : v.blob = o.name
      BY <1>10, <2>2 DEF Leftovers
    <3> QED
      BY <1>6, <1>14, <3>1 DEF Leftovers
  <2> QED
    BY <1>7, <1>8, <1>14, <2>1, <2>2 DEF Inductive, NoClutter
<1> QED
  BY <1>18, <1>19, <1>20, <1>21, <1>22, <1>23, <1>24, <1>25, <1>26 DEF Inductive

LEMMA RollbackKeeps ==
    ASSUME Inductive, NEW c \in Client, Rollback(c)
    PROVE  Inductive'
<1>1. /\ client[c].pc \in {"archived", "saved"} /\ client \in [Client -> Serving]
      /\ UNCHANGED <<rows, meta, versions, events, applied, disk, staged, tokens, tx, asked, next>>
      /\ UNCHANGED <<truth, damaged, commits>> /\ Fault
  BY DEF Rollback, Inductive, TypeOK, MemoryTypeOK
<1>2. /\ client' \in [Client -> Serving] /\ \A d \in Client \ {c} : client'[d] = client[d]
      /\ client'[c].pc = "complete" /\ client'[c].request = client[c].request
      /\ client'[c].held = client[c].held
  BY <1>1, GotoMoves, Zenon DEF Rollback, Point
<1>3. /\ tx.owner = c /\ client[c].request \in Request
      /\ client[c].request \in Key => asked[client[c].request] \in Wish
      /\ client[c].request \in Token => tokens[client[c].request].state = "taken"
  BY <1>1 DEF Inductive, ControlAgrees, Inside, Working
<1>4. faults' \in 1..MaxFaults
  BY <1>1 DEF Fault, Inductive, TypeOK, StorageTypeOK
<1>5. TypeOK'
  BY <1>1, <1>2, <1>4 DEF Inductive, TypeOK, TablesTypeOK, StorageTypeOK, MemoryTypeOK, TxTypeOK, HistoryTypeOK
<1>6. ControlAgrees'
  <2>1. \A d \in Client : tx'.owner = d <=> (IF d = c THEN client'[c].pc \in Inside ELSE tx.owner = d)
    BY <1>1, <1>2, <1>3 DEF Inside
  <2> QED
    BY <1>1, <1>2, <1>3, <2>1, ClientMoves DEF Working
<1>7. TokensHold' /\ RowsHold' /\ HistoryIsKept' /\ EffectsAreCounted' /\ NamesAreDrawn'
  BY <1>1, TokensUntouched DEF Inductive, RowsHold, HistoryIsKept, EffectsAreCounted, NamesAreDrawn, MetaOf,
     VersionsOf
<1>8. FilesAreTrue'
  BY <1>1 DEF Inductive, FilesAreTrue, Intact, Object
<1>9. NoClutter'
  BY <1>4 DEF NoClutter
<1>10. TxHolds'
  BY <1>1, <1>2, <1>3 DEF Inductive, TxHolds
<1>11. StagedIsHeld'
  BY <1>1, <1>2, StagedStays DEF Inductive
<1> QED
  BY <1>5, <1>6, <1>7, <1>8, <1>9, <1>10, <1>11 DEF Inductive

LEMMA NoTxIsTyped ==
    /\ NoTx.owner = None /\ NoTx.archive = {} /\ NoTx.uploads = {} /\ ~NoTx.committed
    /\ NoTx \in [owner : Client \cup {None}, record : Record \cup {None}, files : SUBSET Name,
                 uploads : SUBSET Files, archive : SUBSET Version, gone : BOOLEAN, committed : BOOLEAN]
  BY DEF NoTx

LEMMA CrashKeeps ==
    ASSUME Inductive, Crash
    PROVE  Inductive'
<1>1. /\ UNCHANGED <<rows, meta, versions, events, applied, disk, asked, next, truth, damaged, commits>>
      /\ tx' = NoTx /\ client' = [c \in Client |-> Idle] /\ staged' = [h \in Handle |-> 0] /\ Fault
      /\ tokens' = [t \in Token |-> IF tokens[t].state = "none" THEN tokens[t] ELSE [state |-> "lost"]]
  BY DEF Crash
<1>2. faults' \in 1..MaxFaults
  BY <1>1 DEF Fault, Inductive, TypeOK, StorageTypeOK
<1>3. /\ \A c \in Client : client'[c].pc = "idle" /\ client'[c].held = {}
      /\ client' \in [Client -> Serving]
  BY <1>1 DEF Idle, Serving, Point, Outcome
<1>4. Cardinality(Client) \in Nat
  BY FS_CardinalityType
<1>5. TokensHold' /\ tokens' \in [Token -> [state : {"none", "lost"}] \cup Preview]
  <2>1. Len(events) \in Nat
    BY LenProperties DEF Inductive, TypeOK, TablesTypeOK
  <2>2. \A t \in Token : TokenStays(t)
    BY <1>1 DEF TokenStays
  <2>3. tokens' = [s \in Token |-> tokens'[s]] /\ MemoryTypeOK /\ TokensHold
    BY <1>1 DEF Inductive, TypeOK
  <2> QED
    BY <1>1, <2>1, <2>2, <2>3, TokensStay
<1>6. TypeOK'
  <2>1. MemoryTypeOK'
    BY <1>1, <1>3, <1>4, <1>5 DEF Inductive, TypeOK, MemoryTypeOK
  <2>2. TxTypeOK'
    BY <1>1, NoTxIsTyped DEF TxTypeOK
  <2>3. StorageTypeOK'
    BY <1>1, <1>2 DEF Inductive, TypeOK, StorageTypeOK
  <2> QED
    BY <1>1, <2>1, <2>2, <2>3 DEF Inductive, TypeOK, TablesTypeOK, HistoryTypeOK
<1>7. ControlAgrees'
  BY <1>1, <1>3, NoTxIsTyped DEF ControlAgrees, Working, Inside
<1>8. RowsHold' /\ HistoryIsKept' /\ EffectsAreCounted'
  BY <1>1 DEF Inductive, RowsHold, HistoryIsKept, EffectsAreCounted, MetaOf, VersionsOf
<1>9. NamesAreDrawn'
  BY <1>1, NoTxIsTyped DEF Inductive, NamesAreDrawn
<1>10. FilesAreTrue'
  BY <1>1, NoTxIsTyped DEF Inductive, FilesAreTrue, Intact, Object
<1>11. TxHolds'
  BY <1>1, NoTxIsTyped DEF TxHolds
<1>12. NoClutter'
  BY <1>2 DEF NoClutter
<1>13. StagedIsHeld'
  <2>1. \A h \in Handle : {c \in Client : h \in client'[c].held} = {}
    BY <1>3
  <2> QED
    BY <1>1, <2>1, FS_EmptySet, Zenon DEF StagedIsHeld
<1> QED
  BY <1>5, <1>6, <1>7, <1>8, <1>9, <1>10, <1>11, <1>12, <1>13 DEF Inductive

LEMMA DamageKeeps ==
    ASSUME Inductive, NEW o \in disk, Damage(o)
    PROVE  Inductive'
<1>1. PICK b : b = [o EXCEPT !.bytes = Bad]
  BY Zenon
<1>2. /\ UNCHANGED <<rows, meta, versions, events, applied, staged, tokens, client, tx, asked, next>>
      /\ UNCHANGED <<truth, commits>> /\ Fault
      /\ disk' = (disk \ {o}) \cup {b} /\ damaged' = damaged \cup {o.name}
  BY <1>1 DEF Damage
<1>3. o \in [dir : Directory, name : Name, bytes : Content \cup {Bad}]
  BY DEF Inductive, TypeOK, StorageTypeOK
<1>4. /\ b \in [dir : Directory, name : Name, bytes : Content \cup {Bad}]
      /\ b.dir = o.dir /\ b.name = o.name
  BY <1>1, <1>3
<1>5. faults' \in 1..MaxFaults
  BY <1>2 DEF Fault, Inductive, TypeOK, StorageTypeOK
<1>6. TypeOK'
  <2>1. StorageTypeOK'
    BY <1>2, <1>4, <1>5 DEF Inductive, TypeOK, StorageTypeOK
  <2>2. HistoryTypeOK'
    BY <1>2, <1>3 DEF Inductive, TypeOK, HistoryTypeOK
  <2> QED
    BY <1>2, <2>1, <2>2 DEF Inductive, TypeOK, TablesTypeOK, MemoryTypeOK, TxTypeOK
<1>7. ControlAgrees' /\ TokensHold' /\ RowsHold' /\ HistoryIsKept' /\ EffectsAreCounted' /\ StagedIsHeld'
  <2>1. ControlAgrees'
    BY <1>2 DEF Inductive, ControlAgrees
  <2>2. StagedIsHeld'
    BY <1>2, StagedStays DEF Inductive
  <2> QED
    BY <1>2, <2>1, <2>2, TokensUntouched DEF Inductive, RowsHold, HistoryIsKept, EffectsAreCounted, MetaOf,
       VersionsOf
<1>8. NamesAreDrawn'
  BY <1>2, <1>4 DEF Inductive, NamesAreDrawn
<1>9. FilesAreTrue'
  <2>1. ASSUME NEW d, NEW n, NEW hash, NEW original, Intact(d, n, hash, original)
        PROVE  Intact(d, n, hash, original)'
    <3>1. CASE Object(d, n, hash) = o
      <4>1. o.name = n
        BY <3>1 DEF Object
      <4> QED
        BY <1>2, <2>1, <4>1 DEF Intact
    <3>2. CASE Object(d, n, hash) # o
      BY <1>2, <2>1, <3>2 DEF Intact, Object
    <3> QED
      BY <3>1, <3>2
  <2>2. \A m \in meta' : Intact(m.record, m.name, m.hash, m.name)'
    <3> SUFFICES ASSUME NEW m \in meta PROVE Intact(m.record, m.name, m.hash, m.name)'
      BY <1>2
    <3>1. Intact(m.record, m.name, m.hash, m.name)
      BY DEF Inductive, FilesAreTrue
    <3> QED
      BY <2>1, <3>1
  <2>3. \A v \in versions' \cup tx'.archive : Intact("versions", v.blob, v.hash, v.name)'
    <3> SUFFICES ASSUME NEW v \in versions \cup tx.archive PROVE Intact("versions", v.blob, v.hash, v.name)'
      BY <1>2
    <3>1. Intact("versions", v.blob, v.hash, v.name)
      BY DEF Inductive, FilesAreTrue
    <3> QED
      BY <2>1, <3>1
  <2>4. ~tx'.committed => \A u \in tx'.uploads : Intact(tx.record, u.name, u.hash, u.name)'
    <3>1. PICK r : r = tx.record
      OBVIOUS
    <3> SUFFICES ASSUME ~tx.committed, NEW u \in tx.uploads PROVE Intact(r, u.name, u.hash, u.name)'
      BY <1>2, <3>1 DEF Intact, Object
    <3>2. Intact(r, u.name, u.hash, u.name)
      BY <3>1 DEF Inductive, FilesAreTrue
    <3> QED
      BY <2>1, <3>2
  <2>5. \A x, y \in disk' : x.dir = y.dir /\ x.name = y.name => x = y
    BY <1>2, <1>4 DEF Inductive, FilesAreTrue
  <2> QED
    BY <2>2, <2>3, <2>4, <2>5 DEF FilesAreTrue
<1>10. TxHolds'
  BY <1>2, Zenon DEF Inductive, TxHolds, Undecided, Wanted, Plan, Removed, AsPreviewed, Match
<1>11. NoClutter'
  BY <1>5 DEF NoClutter
<1> QED
  BY <1>6, <1>7, <1>8, <1>9, <1>10, <1>11 DEF Inductive

\* The end of a transaction takes nothing that anything names.
LEMMA LeftoversAreUnused ==
    ASSUME Inductive, tx.owner # None
    PROVE  /\ \A m \in meta : Object(m.record, m.name, m.hash) \notin Leftovers
           /\ \A v \in versions : Object("versions", v.blob, v.hash) \notin Leftovers
<1>1. /\ tx.record \in Record
      /\ ~tx.committed => /\ \A v \in versions, a \in tx.archive : v.blob # a.blob
                          /\ \A u \in tx.uploads : u.name \notin rows[tx.record].files
      /\ tx.committed => /\ tx.files \cap rows[tx.record].files = {}
                         /\ tx.gone => rows[tx.record].files = {}
  BY DEF Inductive, TxHolds
<1>2. tx.gone \in BOOLEAN /\ tx.committed \in BOOLEAN
  BY DEF Inductive, TypeOK, TxTypeOK
<1>3. ASSUME NEW m \in meta, Object(m.record, m.name, m.hash) \in Leftovers PROVE FALSE
  <2>1. m.record \in Record /\ m.name \in rows[m.record].files
    BY DEF Inductive, RowsHold, MetaOf, TypeOK, TablesTypeOK
  <2>2. PICK o \in Leftovers : o.dir = m.record /\ o.name = m.name
    BY <1>3 DEF Object
  <2>3. o.dir # "versions"
    BY <2>1, <2>2
  <2>4. CASE tx.committed
    BY <1>1, <1>2, <2>1, <2>2, <2>3, <2>4 DEF Leftovers
  <2>5. CASE ~tx.committed
    BY <1>1, <1>2, <2>1, <2>2, <2>3, <2>5 DEF Leftovers
  <2> QED
    BY <2>4, <2>5
<1>4. ASSUME NEW v \in versions, Object("versions", v.blob, v.hash) \in Leftovers PROVE FALSE
  <2>1. PICK o \in Leftovers : o.dir = "versions" /\ o.name = v.blob
    BY <1>4 DEF Object
  <2>2. o.dir # tx.record
    BY <1>1, <2>1
  <2>3. CASE tx.committed
    BY <1>2, <2>1, <2>2, <2>3 DEF Leftovers
  <2>4. CASE ~tx.committed
    BY <1>1, <1>2, <2>1, <2>2, <2>4 DEF Leftovers
  <2> QED
    BY <2>3, <2>4
<1> QED
  BY <1>3, <1>4

LEMMA CompleteKeeps ==
    ASSUME Inductive, NEW c \in Client, Complete(c)
    PROVE  Inductive'
<1>1. PICK q : q = client[c].request
  OBVIOUS
<1>2. /\ client[c].pc = "complete" /\ tx' = NoTx /\ client \in [Client -> Serving]
      /\ UNCHANGED <<rows, meta, versions, events, applied, staged, asked, next>>
      /\ UNCHANGED <<truth, damaged, commits>>
  BY DEF Complete, Inductive, TypeOK, MemoryTypeOK
<1>3. /\ tx.owner = c /\ c # None /\ q \in Request
      /\ q \in Key => asked[q] \in Wish
      /\ q \in Token => tokens[q].state = "taken"
  BY <1>1, <1>2 DEF Inductive, ControlAgrees, Inside, Working
<1>4. /\ client' \in [Client -> Serving] /\ \A d \in Client \ {c} : client'[d] = client[d]
      /\ client'[c].request = q /\ client'[c].held = client[c].held
      /\ \/ client'[c].pc = "answer"
         \/ client'[c].pc = "readback" /\ q \in Token /\ tokens' = tokens
  <2>1. CASE Succeed(c, "committed") /\ UNCHANGED tokens
    BY <1>1, <1>2, <2>1, SucceedMoves DEF Outcome
  <2>2. CASE Answer(c, "failed")
    BY <1>1, <1>2, <2>2, AnswerMoves, Zenon DEF Outcome
  <2> QED
    BY <2>1, <2>2 DEF Complete
<1>5. GiveBack(q) \/ UNCHANGED tokens
  BY <1>1 DEF Complete
<1>6. \/ disk' = disk \ Leftovers /\ UNCHANGED faults
      \/ disk' = disk /\ Fault
  BY DEF Complete
<1>7. disk' \subseteq disk
  BY <1>6
<1>8. MemoryTypeOK /\ TokensHold
  BY DEF Inductive, TypeOK
<1>9. /\ \A t \in Token : TokenStays(t) /\ (t # q => tokens'[t] = tokens[t])
      /\ tokens' = [s \in Token |-> tokens'[s]]
  BY <1>3, <1>5, <1>8, GiveBackStays
<1>10. TokensHold' /\ tokens' \in [Token -> [state : {"none", "lost"}] \cup Preview]
  <2>1. Len(events) \in Nat
    BY LenProperties DEF Inductive, TypeOK, TablesTypeOK
  <2> QED
    BY <1>2, <1>8, <1>9, <2>1, TokensStay
<1>11. TypeOK'
  <2>1. StorageTypeOK'
    BY <1>2, <1>6, <1>7, FaultIsCounted DEF Inductive, TypeOK, StorageTypeOK
  <2>2. MemoryTypeOK'
    BY <1>2, <1>4, <1>8, <1>10 DEF MemoryTypeOK
  <2>3. TxTypeOK'
    BY <1>2, NoTxIsTyped DEF TxTypeOK
  <2> QED
    BY <1>2, <2>1, <2>2, <2>3 DEF Inductive, TypeOK, TablesTypeOK, HistoryTypeOK
<1>12. ControlAgrees'
  <2>1. \A d \in Client : tx'.owner = d <=> (IF d = c THEN client'[c].pc \in Inside ELSE tx.owner = d)
    BY <1>2, <1>3, <1>4, NoTxIsTyped DEF Inside
  <2> QED
    BY <1>1, <1>2, <1>3, <1>4, <1>9, <2>1, ClientMoves DEF Working
<1>13. RowsHold' /\ HistoryIsKept' /\ EffectsAreCounted'
  BY <1>2 DEF Inductive, RowsHold, HistoryIsKept, EffectsAreCounted, MetaOf, VersionsOf
<1>14. NamesAreDrawn'
  BY <1>2, <1>7, NoTxIsTyped DEF Inductive, NamesAreDrawn
<1>15. FilesAreTrue'
  <2>1. ASSUME NEW d, NEW n, NEW hash, NEW original, Intact(d, n, hash, original),
               Object(d, n, hash) \notin Leftovers
        PROVE  Intact(d, n, hash, original)'
    BY <1>2, <1>6, <2>1 DEF Intact, Object
  <2>2. \A m \in meta' : Intact(m.record, m.name, m.hash, m.name)'
    <3> SUFFICES ASSUME NEW m \in meta PROVE Intact(m.record, m.name, m.hash, m.name)'
      BY <1>2
    <3>1. Intact(m.record, m.name, m.hash, m.name)
      BY DEF Inductive, FilesAreTrue
    <3> QED
      BY <1>3, <2>1, <3>1, LeftoversAreUnused
  <2>3. \A v \in versions' \cup tx'.archive : Intact("versions", v.blob, v.hash, v.name)'
    <3> SUFFICES ASSUME NEW v \in versions PROVE Intact("versions", v.blob, v.hash, v.name)'
      BY <1>2, NoTxIsTyped
    <3>1. Intact("versions", v.blob, v.hash, v.name)
      BY DEF Inductive, FilesAreTrue
    <3> QED
      BY <1>3, <2>1, <3>1, LeftoversAreUnused
  <2>4. tx'.uploads = {}
    BY <1>2, NoTxIsTyped
  <2>5. \A x, y \in disk' : x.dir = y.dir /\ x.name = y.name => x = y
    BY <1>7 DEF Inductive, FilesAreTrue
  <2> QED
    BY <2>2, <2>3, <2>4, <2>5 DEF FilesAreTrue
<1>16. TxHolds'
  BY <1>2, NoTxIsTyped DEF TxHolds
<1>17. NoClutter'
  <2>1. CASE disk' = disk \ Leftovers /\ UNCHANGED faults
    BY <1>2, <2>1 DEF Inductive, NoClutter
  <2>2. CASE Fault
    <3>1. faults' # 0
      BY <2>2 DEF Fault, Inductive, TypeOK, StorageTypeOK
    <3> QED
      BY <3>1 DEF NoClutter
  <2> QED
    BY <1>6, <2>1, <2>2
<1>18. StagedIsHeld'
  BY <1>2, <1>4, StagedStays DEF Inductive
<1> QED
  BY <1>10, <1>11, <1>12, <1>13, <1>14, <1>15, <1>16, <1>17, <1>18 DEF Inductive

\* The events of a commit name what the row listed before or lists after.
LEMMA AuditedNames ==
    ASSUME NEW w, w.record \in Record, w.op \in {"set", "insert", "delete"}, NEW before \in Row,
           NEW after \in Row, NEW tail, tail = Audited(w, before, after)
    PROVE  /\ tail \in Seq(Event) /\ Len(tail) \in Nat
           /\ \A j \in 1..Len(tail) :
                /\ tail[j].record = w.record
                /\ tail[j].before.files \cup tail[j].after.files \subseteq before.files \cup after.files
<1> DEFINE event(op, x, y) == [record |-> w.record, op |-> op, before |-> x, after |-> y]
           Fits(e) == /\ e \in Event /\ e.record = w.record
                      /\ e.before.files \cup e.after.files \subseteq before.files \cup after.files
<1>1. PICK empty : empty = [exists |-> TRUE, files |-> {}]
  BY Zenon
<1>2. empty \in Row /\ empty.files = {}
  BY <1>1 DEF Row
<1>3. /\ Fits(event("insert", before, empty)) /\ Fits(event("set", empty, after))
      /\ w.op # "insert" => Fits(event(w.op, before, after))
  BY <1>2 DEF Event, Row
<1>4. \/ \E e \in Event : Fits(e) /\ tail = <<e>>
      \/ \E e, f \in Event : Fits(e) /\ Fits(f) /\ tail = <<e, f>>
  <2>1. CASE w.op = "insert"
    <3>1. tail = <<event("insert", before, empty)>> \o
                 (IF after = empty THEN <<>> ELSE <<event("set", empty, after)>>)
      BY <1>1, <2>1 DEF Audited
    <3>2. PICK e, f : e = event("insert", before, empty) /\ f = event("set", empty, after)
      BY Zenon
    <3>3. tail = IF after = empty THEN <<e>> ELSE <<e, f>>
      BY <3>1, <3>2
    <3> QED
      BY <1>3, <3>2, <3>3
  <2>2. CASE w.op # "insert"
    BY <1>3, <2>2 DEF Audited
  <2> QED
    BY <2>1, <2>2
<1> HIDE DEF event
<1>5. ASSUME NEW e \in Event, Fits(e), tail = <<e>>
      PROVE  tail \in Seq(Event) /\ \A j \in 1..Len(tail) : Fits(tail[j])
  BY <1>5
<1>6. ASSUME NEW e \in Event, NEW f \in Event, Fits(e), Fits(f), tail = <<e, f>>
      PROVE  tail \in Seq(Event) /\ \A j \in 1..Len(tail) : Fits(tail[j])
  BY <1>6
<1>7. tail \in Seq(Event) /\ \A j \in 1..Len(tail) : Fits(tail[j])
  BY <1>4, <1>5, <1>6
<1> QED
  BY <1>7, LenProperties

\* What a commit leaves of the row and its metadata.
Commits(c, q, w, r, after, gone) ==
    /\ client[c].pc = "saved" /\ q = client[c].request /\ w = Wanted(q) /\ r = w.record /\ r = tx.record
    /\ gone = tx.files
    /\ after = IF tx.gone THEN NoRow
               ELSE [exists |-> TRUE, files |-> (rows[r].files \ gone) \cup {u.name : u \in tx.uploads}]

LEMMA CommitFacts ==
    ASSUME Inductive, NEW c \in Client, NEW q, NEW w, NEW r, NEW after, NEW gone,
           Commits(c, q, w, r, after, gone)
    PROVE  /\ tx.owner = c /\ c # None /\ q \in Request /\ q \notin applied /\ ~tx.committed
           /\ r \in Record /\ w.op \in {"set", "insert", "delete"} /\ tx.gone = (w.op = "delete")
           /\ gone = Removed(w) /\ gone \subseteq rows[r].files
           /\ q \in Token => AsPreviewed(q) /\ tokens[q].state = "taken" /\ tokens[q] \in Preview
           /\ q \in Key => asked[q] \in Wish
           /\ \A hash \in Content : Match(hash, w)
           /\ \A u, v \in tx.uploads : u.name = v.name => u = v
           /\ \A n \in gone : \E v \in versions \cup tx.archive : v.record = r /\ v.name = n
           /\ after \in Row /\ rows[r] \in Row /\ tx.uploads \subseteq Files
           /\ after.files = (rows[r].files \ gone) \cup {u.name : u \in tx.uploads}
           /\ (after.exists <=> ~tx.gone) /\ (tx.gone => after.files = {})
           /\ \A u \in tx.uploads : u.name \notin rows[r].files
<1> USE DEF Commits
<1>1. tx.owner = c /\ c # None /\ tx.record \in Record /\ Undecided(q, w)
  BY OwnerIsUndecided
<1>2. /\ q \in Request /\ w.op \in {"set", "insert", "delete"}
      /\ q \in Token => tokens[q].state = "taken" /\ tokens[q] \in Preview
      /\ q \in Key => asked[q] \in Wish
  BY WantedIsSound DEF Working
<1>3. /\ ~tx.committed /\ q \notin applied /\ tx.gone = (w.op = "delete") /\ tx.files = Removed(w)
      /\ tx.files \subseteq rows[r].files /\ (q \in Token => AsPreviewed(q))
      /\ \A n \in gone : \E v \in versions \cup tx.archive : v.record = r /\ v.name = n
      /\ \A hash \in Content : Match(hash, w)
      /\ \A u, v \in tx.uploads : u.name = v.name => u = v
      /\ tx.gone => tx.uploads = {}
  BY <1>1 DEF Undecided
<1>4. rows[r] \in Row /\ tx.uploads \subseteq Files /\ tx.gone \in BOOLEAN
  BY <1>1 DEF Inductive, TypeOK, TablesTypeOK, TxTypeOK
<1>5. tx.gone => gone = rows[r].files /\ tx.uploads = {}
  BY <1>3, Zenon DEF Removed
<1>6. \A u \in tx.uploads : u.name \notin rows[r].files
  BY <1>1, <1>3 DEF Inductive, TxHolds
<1>7. after.files = (rows[r].files \ gone) \cup {u.name : u \in tx.uploads}
  BY <1>5 DEF NoRow
<1>8. (after.exists <=> ~tx.gone) /\ (tx.gone => after.files = {}) /\ after \in Row
  <2>1. {u.name : u \in tx.uploads} \subseteq Name
    BY <1>4 DEF Files
  <2>2. CASE tx.gone
    BY <2>2 DEF NoRow, Row
  <2>3. CASE ~tx.gone
    <3>1. PICK files : files = (rows[r].files \ gone) \cup {u.name : u \in tx.uploads}
      BY Zenon
    <3>2. files \subseteq Name
      BY <1>4, <2>1, <3>1 DEF Row
    <3>3. after = [exists |-> TRUE, files |-> files]
      BY <2>3, <3>1
    <3> QED
      BY <2>3, <3>2, <3>3 DEF Row
  <2> QED
    BY <1>4, <2>2, <2>3
<1> QED
  BY <1>1, <1>2, <1>3, <1>4, <1>6, <1>7, <1>8

LEMMA CommitKeeps ==
    ASSUME Inductive, NEW c \in Client, Commit(c)
    PROVE  Inductive'
<1>1. PICK q : q = client[c].request
  OBVIOUS
<1>2. PICK w : w = Wanted(q)
  OBVIOUS
<1>3. PICK r : r = w.record
  OBVIOUS
<1>4. PICK gone : gone = tx.files
  OBVIOUS
<1>5. PICK after : after = IF tx.gone THEN NoRow
                           ELSE [exists |-> TRUE, files |-> (rows[r].files \ gone) \cup {u.name : u \in tx.uploads}]
  BY Zenon
<1>6. PICK uploads : uploads = tx.uploads
  OBVIOUS
<1>7. PICK tail : tail = Audited(w, rows[r], after)
  OBVIOUS
<1>8. /\ client[c].pc = "saved" /\ Goto(c, "complete") /\ tx' = [tx EXCEPT !.committed = TRUE]
      /\ rows' = [rows EXCEPT ![r] = after]
      /\ meta' = {m \in meta : m.record # r \/ m.name \notin gone}
                 \cup {[record |-> r, name |-> u.name, hash |-> u.hash] : u \in uploads}
      /\ versions' = versions \cup tx.archive /\ events' = events \o tail
      /\ applied' = applied \cup {q} /\ commits' = [commits EXCEPT ![q] = @ + 1]
  BY <1>1, <1>2, <1>3, <1>4, <1>5, <1>6, <1>7, Zenon DEF Commit
<1>9. UNCHANGED <<disk, staged, tokens, asked, next, faults, truth, damaged>>
  BY Zenon DEF Commit
<1>10. Commits(c, q, w, r, after, gone)
  <2>1. tx.record = r
    BY <1>1, <1>2, <1>3, <1>8, OwnerIsUndecided DEF Undecided
  <2> QED
    BY <1>1, <1>2, <1>3, <1>4, <1>5, <1>8, <2>1 DEF Commits
<1>11. /\ tx.owner = c /\ c # None /\ q \in Request /\ q \notin applied /\ ~tx.committed
       /\ r \in Record /\ tx.record = r /\ w.op \in {"set", "insert", "delete"}
       /\ gone \subseteq rows[r].files
       /\ q \in Token => tokens[q].state = "taken"
       /\ q \in Key => asked[q] \in Wish
       /\ after \in Row /\ rows[r] \in Row /\ uploads \subseteq Files
       /\ (after.exists <=> ~tx.gone) /\ (tx.gone => after.files = {})
  <2>1. tx.record = r
    BY <1>10 DEF Commits
  <2>2. /\ tx.owner = c /\ c # None /\ q \in Request /\ q \notin applied /\ ~tx.committed
        /\ r \in Record /\ w.op \in {"set", "insert", "delete"} /\ gone \subseteq rows[r].files
    BY <1>10, CommitFacts
  <2>3. /\ q \in Token => tokens[q].state = "taken"
        /\ q \in Key => asked[q] \in Wish
    BY <1>10, CommitFacts
  <2>4. after \in Row /\ rows[r] \in Row /\ uploads \subseteq Files
    BY <1>6, <1>10, CommitFacts
  <2>5. (after.exists <=> ~tx.gone) /\ (tx.gone => after.files = {})
    BY <1>10, CommitFacts
  <2> QED
    BY <2>1, <2>2, <2>3, <2>4, <2>5
<1>12. /\ after.files = (rows[r].files \ gone) \cup {u.name : u \in uploads}
       /\ \A u \in uploads : u.name \notin rows[r].files
  BY <1>6, <1>10, CommitFacts
<1>13. \A n \in gone : \E v \in versions' : v.record = r /\ v.name = n
  BY <1>8, <1>10, CommitFacts
<1>14. /\ client' \in [Client -> Serving] /\ \A d \in Client \ {c} : client'[d] = client[d]
       /\ client'[c].pc = "complete" /\ client'[c].request = q /\ client'[c].held = client[c].held
  BY <1>1, <1>8, GotoMoves, Zenon DEF Point, Inductive, TypeOK, MemoryTypeOK
<1>15. /\ tx \in [owner : Client \cup {None}, record : Record \cup {None}, files : SUBSET Name,
                  uploads : SUBSET Files, archive : SUBSET Version, gone : BOOLEAN, committed : BOOLEAN]
       /\ rows \in [Record -> Row] /\ events \in Seq(Event) /\ commits \in [Request -> Nat]
  BY DEF Inductive, TypeOK, TablesTypeOK, TxTypeOK, HistoryTypeOK
<1>16. /\ tx'.owner = c /\ tx'.record = r /\ tx'.files = gone /\ tx'.uploads = uploads
       /\ tx'.archive = tx.archive /\ tx'.gone = tx.gone /\ tx'.committed
       /\ tx' \in [owner : Client \cup {None}, record : Record \cup {None}, files : SUBSET Name,
                   uploads : SUBSET Files, archive : SUBSET Version, gone : BOOLEAN, committed : BOOLEAN]
  BY <1>4, <1>6, <1>8, <1>11, <1>15, Zenon
<1>17. rows' \in [Record -> Row] /\ rows'[r] = after /\ \A x \in Record : x # r => rows'[x] = rows[x]
  BY <1>8, <1>11, <1>15
<1>18. /\ tail \in Seq(Event) /\ Len(tail) \in Nat /\ Len(events) \in Nat
       /\ \A j \in 1..Len(tail) :
            /\ tail[j].record = r
            /\ tail[j].before.files \cup tail[j].after.files \subseteq rows[r].files \cup after.files
  BY <1>3, <1>7, <1>11, <1>15, AuditedNames, LenProperties
<1>19. /\ events' \in Seq(Event) /\ Len(events') = Len(events) + Len(tail)
       /\ \A i \in 1..Len(events) : events'[i] = events[i]
       /\ \A i \in 1..Len(events') : i > Len(events) => events'[i] = tail[i - Len(events)]
  <2>1. /\ events \o tail \in Seq(Event) /\ Len(events \o tail) = Len(events) + Len(tail)
        /\ \A i \in 1..(Len(events) + Len(tail)) :
             (events \o tail)[i] = IF i <= Len(events) THEN events[i] ELSE tail[i - Len(events)]
    BY <1>15, <1>18, ConcatProperties
  <2> QED
    BY <1>8, <1>18, <2>1
<1>20. \A m \in meta' : \/ m \in meta /\ (m.record # r \/ m.name \notin gone)
                        \/ \E u \in uploads : m = [record |-> r, name |-> u.name, hash |-> u.hash]
  BY <1>8
<1>21. TypeOK'
  <2>1. meta' \subseteq [record : Record, name : Name, hash : Content]
    BY <1>11, <1>20 DEF Files, Inductive, TypeOK, TablesTypeOK
  <2>2. versions' \subseteq Version /\ applied' \subseteq Request
    BY <1>8, <1>11, <1>15 DEF Inductive, TypeOK, TablesTypeOK
  <2>3. TablesTypeOK'
    BY <1>17, <1>19, <2>1, <2>2 DEF TablesTypeOK
  <2>4. HistoryTypeOK'
    BY <1>8, <1>9, <1>11, <1>15 DEF Inductive, TypeOK, HistoryTypeOK
  <2>5. StorageTypeOK' /\ MemoryTypeOK'
    BY <1>9, <1>14 DEF Inductive, TypeOK, StorageTypeOK, MemoryTypeOK
  <2>6. TxTypeOK'
    BY <1>16 DEF TxTypeOK
  <2> QED
    BY <2>3, <2>4, <2>5, <2>6 DEF TypeOK
<1>22. ControlAgrees'
  <2>1. \A d \in Client : tx'.owner = d <=> (IF d = c THEN client'[c].pc \in Inside ELSE tx.owner = d)
    BY <1>11, <1>14, <1>16 DEF Inside
  <2> QED
    BY <1>1, <1>8, <1>9, <1>11, <1>14, <2>1, ClientMoves DEF Working
<1>23. TokensHold'
  <2>1. \A t \in Token : TokenStays(t)
    BY <1>9 DEF TokenStays
  <2>2. tokens' = [s \in Token |-> tokens'[s]] /\ MemoryTypeOK /\ TokensHold
    BY <1>9 DEF Inductive, TypeOK, MemoryTypeOK
  <2>3. Len(events') >= Len(events) /\ Len(events') \in Nat
    BY <1>18, <1>19
  <2> QED
    BY <1>9, <1>18, <1>19, <2>1, <2>2, <2>3, TokensStay
<1>24. RowsHold'
  <2>1. \A x \in Record : {m.name : m \in {n \in meta : n.record = x}} = rows[x].files
    BY DEF Inductive, RowsHold, MetaOf
  <2>2. {m.name : m \in {n \in meta' : n.record = r}} = after.files
    <3>1. \A m \in meta' : m.record = r => m.name \in after.files
      <4> SUFFICES ASSUME NEW m \in meta', m.record = r PROVE m.name \in after.files
        OBVIOUS
      <4>1. CASE m \in meta /\ m.name \notin gone
        BY <1>11, <1>12, <2>1, <4>1
      <4>2. CASE \E u \in uploads : m = [record |-> r, name |-> u.name, hash |-> u.hash]
        BY <1>12, <4>2
      <4> QED
        BY <1>20, <4>1, <4>2
    <3>2. \A n \in after.files : \E m \in meta' : m.record = r /\ m.name = n
      <4> SUFFICES ASSUME NEW n \in after.files PROVE \E m \in meta' : m.record = r /\ m.name = n
        OBVIOUS
      <4>1. CASE n \in rows[r].files \ gone
        <5>1. PICK m \in meta : m.record = r /\ m.name = n
          BY <1>11, <2>1, <4>1
        <5>2. m \in meta'
          BY <1>8, <4>1, <5>1
        <5> QED
          BY <5>1, <5>2
      <4>2. CASE \E u \in uploads : u.name = n
        <5>1. PICK u \in uploads : u.name = n
          BY <4>2
        <5>2. [record |-> r, name |-> u.name, hash |-> u.hash] \in meta'
          BY <1>8
        <5> QED
          BY <5>1, <5>2
      <4> QED
        BY <1>12, <4>1, <4>2
    <3> QED
      BY <3>1, <3>2
  <2>3. \A x \in Record : x # r => {m.name : m \in {n \in meta' : n.record = x}} = rows[x].files
    <3> SUFFICES ASSUME NEW x \in Record, x # r
                 PROVE  {m.name : m \in {n \in meta' : n.record = x}} = rows[x].files
      OBVIOUS
    <3>1. \A n : n \in meta' /\ n.record = x <=> n \in meta /\ n.record = x
      <4>1. \A n \in meta' : n.record = x => n \in meta
        BY <1>20
      <4>2. \A n \in meta : n.record = x => n \in meta'
        BY <1>8
      <4> QED
        BY <4>1, <4>2
    <3>2. {n \in meta' : n.record = x} = {n \in meta : n.record = x}
      BY <3>1
    <3> QED
      BY <2>1, <3>2
  <2>4. ~after.exists => after.files = {}
    BY <1>11
  <2> QED
    BY <1>17, <2>2, <2>3, <2>4 DEF Inductive, RowsHold, MetaOf
<1>25. FilesAreTrue'
  <2>1. /\ \A m \in meta : Intact(m.record, m.name, m.hash, m.name)
        /\ \A v \in versions \cup tx.archive : Intact("versions", v.blob, v.hash, v.name)
        /\ \A u \in uploads : Intact(r, u.name, u.hash, u.name)
    BY <1>6, <1>11 DEF Inductive, FilesAreTrue
  <2>3. ASSUME NEW m \in meta' PROVE Intact(m.record, m.name, m.hash, m.name)
    <3>1. CASE m \in meta
      BY <2>1, <3>1
    <3>2. CASE \E u \in uploads : m = [record |-> r, name |-> u.name, hash |-> u.hash]
      <4>1. PICK u \in uploads : m = [record |-> r, name |-> u.name, hash |-> u.hash]
        BY <3>2
      <4>2. m.record = r /\ m.name = u.name /\ m.hash = u.hash
        BY <4>1
      <4> QED
        BY <2>1, <4>2
    <3> QED
      BY <1>20, <3>1, <3>2
  <2>4. \A m \in meta' : Intact(m.record, m.name, m.hash, m.name)'
    BY <2>3, <1>9, Zenon DEF Intact, Object
  <2>5. \A v \in versions' \cup tx'.archive : Intact("versions", v.blob, v.hash, v.name)'
    <3>1. versions' \cup tx'.archive = versions \cup tx.archive
      BY <1>8, <1>16
    <3> QED
      BY <1>9, <2>1, <3>1, Zenon DEF Intact, Object
  <2>6. \A x, y \in disk' : x.dir = y.dir /\ x.name = y.name => x = y
    BY <1>9 DEF Inductive, FilesAreTrue
  <2> QED
    BY <1>16, <2>4, <2>5, <2>6 DEF FilesAreTrue
<1>26. HistoryIsKept'
  <2>1. ASSUME NEW n \in rows[r].files \cup after.files
        PROVE  n \in rows'[r].files \/ VersionsOf(r, n)' # {}
    <3>1. CASE n \in gone
      BY <1>13, <3>1 DEF VersionsOf
    <3>2. CASE n \notin gone
      BY <1>12, <1>17, <2>1, <3>2
    <3> QED
      BY <3>1, <3>2
  <2>2. ASSUME NEW x \in Record, NEW n, n \in rows[x].files \/ VersionsOf(x, n) # {}
        PROVE  n \in rows'[x].files \/ VersionsOf(x, n)' # {}
    <3>1. CASE VersionsOf(x, n) # {}
      BY <1>8, <3>1 DEF VersionsOf
    <3>2. CASE n \in rows[x].files
      BY <1>17, <2>1, <3>2
    <3> QED
      BY <2>2, <3>1, <3>2
  <2>3. ASSUME NEW i \in 1..Len(events'), NEW n \in events'[i].before.files \cup events'[i].after.files
        PROVE  n \in rows'[events'[i].record].files \/ VersionsOf(events[i].record, n)' # {}
    <3>1. PICK x : x = events'[i].record
      OBVIOUS
    <3>2. n \in rows'[x].files \/ VersionsOf(x, n)' # {}
      <4>1. CASE i <= Len(events)
        <5>1. i \in 1..Len(events) /\ events'[i] = events[i] /\ events[i] \in Event
          BY <1>15, <1>18, <1>19, <4>1
        <5>2. x \in Record
          BY <3>1, <5>1 DEF Event
        <5>3. n \in rows[x].files \/ VersionsOf(x, n) # {}
          BY <2>3, <3>1, <5>1 DEF Inductive, HistoryIsKept
        <5> QED
          BY <2>2, <5>2, <5>3
      <4>2. CASE ~(i <= Len(events))
        <5>1. PICK j \in 1..Len(tail) : j = i - Len(events)
          BY <1>18, <1>19, <4>2
        <5>2. events'[i] = tail[j]
          BY <1>18, <1>19, <4>2, <5>1
        <5>3. x = r /\ n \in rows[r].files \cup after.files
          BY <1>18, <2>3, <3>1, <5>2
        <5> QED
          BY <2>1, <5>3
      <4> QED
        BY <4>1, <4>2
    <3> QED
      BY <3>1, <3>2 DEF VersionsOf
  <2> QED
    BY <2>3 DEF HistoryIsKept
<1>27. NamesAreDrawn'
  <2>1. \A m \in meta' : m.name < next'
    BY <1>6, <1>9, <1>20 DEF Inductive, NamesAreDrawn
  <2> QED
    BY <1>6, <1>8, <1>9, <1>16, <2>1 DEF Inductive, NamesAreDrawn
<1>28. TxHolds'
  <2>1. gone \cap after.files = {}
    BY <1>11, <1>12
  <2> QED
    BY <1>11, <1>14, <1>16, <1>17, <2>1 DEF TxHolds
<1>29. NoClutter'
  <2> SUFFICES ASSUME faults = 0, NEW o \in disk
               PROVE  \/ o.dir # "versions" /\ o.name \in rows'[o.dir].files
                      \/ o.dir = "versions" /\ \E v \in versions' : v.blob = o.name
                      \/ o \in Leftovers'
    BY <1>9, <1>11, <1>16 DEF NoClutter
  <2>1. o.dir \in Record \cup {"versions"} /\ tx.gone \in BOOLEAN
    BY <1>15 DEF Inductive, TypeOK, StorageTypeOK, Directory
  <2>2. CASE o.dir = r /\ (o.name \in gone \/ tx.gone)
    BY <1>9, <1>16, <2>1, <2>2 DEF Leftovers
  <2>3. CASE o.dir = r /\ o.name \notin gone /\ ~tx.gone /\ o.name \in rows[r].files
    BY <1>11, <1>12, <1>17, <2>3
  <2>4. CASE o.dir \in Record /\ o.dir # r /\ o.name \in rows[o.dir].files
    BY <1>17, <2>4
  <2>5. CASE o.dir = "versions" /\ \E v \in versions : v.blob = o.name
    BY <1>8, <2>5
  <2>6. CASE o \in Leftovers
    <3>1. \/ o.dir = "versions" /\ \E v \in tx.archive : v.blob = o.name
          \/ o.dir = r /\ \E u \in uploads : u.name = o.name
      BY <1>6, <1>11, <2>6 DEF Leftovers
    <3>2. CASE o.dir = "versions" /\ \E v \in tx.archive : v.blob = o.name
      BY <1>8, <3>2
    <3>3. CASE o.dir = r /\ \E u \in uploads : u.name = o.name
      <4>1. o.name \in after.files /\ o.dir # "versions"
        BY <1>11, <1>12, <3>3
      <4> QED
        BY <1>17, <3>3, <4>1
    <3> QED
      BY <3>1, <3>2, <3>3
  <2>7. \/ o.dir # "versions" /\ o.name \in rows[o.dir].files
        \/ o.dir = "versions" /\ \E v \in versions : v.blob = o.name
        \/ o \in Leftovers
    BY DEF Inductive, NoClutter
  <2> QED
    BY <2>1, <2>2, <2>3, <2>4, <2>5, <2>6, <2>7
<1>30. EffectsAreCounted'
  BY <1>8, <1>11, <1>15 DEF Inductive, EffectsAreCounted
<1>31. StagedIsHeld'
  BY <1>9, <1>14, StagedStays DEF Inductive
<1> QED
  BY <1>21, <1>22, <1>23, <1>24, <1>25, <1>26, <1>27, <1>28, <1>29, <1>30, <1>31 DEF Inductive

-----------------------------------------------------------------------------
(* The theorems                                                            *)

LEMMA InitHolds == Init => Inductive
<1> SUFFICES ASSUME Init PROVE Inductive
  OBVIOUS
<1>1. Cardinality(Client) \in Nat /\ MaxNames \in Nat /\ MaxFaults \in Nat
  BY FS_CardinalityType
<1>2. TypeOK
  <2>1. TablesTypeOK
    BY DEF Init, TablesTypeOK, Row
  <2>2. StorageTypeOK /\ HistoryTypeOK
    BY <1>1 DEF Init, StorageTypeOK, HistoryTypeOK
  <2>3. MemoryTypeOK
    BY <1>1 DEF Init, MemoryTypeOK, Idle, Serving, Point, Outcome
  <2>4. TxTypeOK
    BY NoTxIsTyped DEF Init, TxTypeOK
  <2> QED
    BY <2>1, <2>2, <2>3, <2>4 DEF TypeOK
<1>3. ControlAgrees
  BY NoTxIsTyped DEF Init, ControlAgrees, Idle, Working, Inside
<1>4. TokensHold /\ RowsHold /\ EffectsAreCounted
  BY DEF Init, TokensHold, RowsHold, EffectsAreCounted, MetaOf
<1>5. HistoryIsKept
  <2>1. 1..Len(events) = {}
    BY DEF Init
  <2> QED
    BY <2>1 DEF HistoryIsKept
<1>6. FilesAreTrue /\ NamesAreDrawn /\ TxHolds /\ NoClutter
  BY NoTxIsTyped DEF Init, FilesAreTrue, NamesAreDrawn, TxHolds, NoClutter
<1>7. StagedIsHeld
  <2>1. \A h \in Handle : {c \in Client : h \in client[c].held} = {}
    BY DEF Init, Idle
  <2> QED
    BY <2>1, FS_EmptySet, Zenon DEF Init, StagedIsHeld
<1> QED
  BY <1>2, <1>3, <1>4, <1>5, <1>6, <1>7 DEF Inductive

\* A step that changes nothing the model has.
LEMMA StutterKeeps ==
    ASSUME Inductive, UNCHANGED vars
    PROVE  Inductive'
<1>1. /\ UNCHANGED <<durable, disk, tx, next, history>>
      /\ UNCHANGED <<staged, tokens, client, asked, faults>>
  BY DEF vars
<1>2. StoresStay' /\ StoresTypeOK'
  BY <1>1, OutsideStep
<1>3. MemoryTypeOK' /\ ControlAgrees'
  BY <1>1 DEF Inductive, TypeOK, MemoryTypeOK, ControlAgrees
<1>4. TokensHold' /\ StagedIsHeld'
  BY <1>1, TokensUntouched, StagedStays DEF Inductive
<1> QED
  BY <1>2, <1>3, <1>4, WholeInvariant DEF MemoryHolds, Inductive, StoresStay, StoresTypeOK, TypeOK

LEMMA NextKeeps == Inductive /\ [Next]_vars => Inductive'
<1> SUFFICES ASSUME Inductive, [Next]_vars PROVE Inductive'
  OBVIOUS
<1>1. ASSUME NEW c \in Client, NEW k \in Key, NEW w \in Wish, Send(c, k, w) PROVE Inductive'
  BY <1>1, SendKeeps
<1>2. ASSUME NEW c \in Client, NEW t \in Token, ClaimToken(c, t) PROVE Inductive'
  BY <1>2, ClaimTokenKeeps
<1>3. ASSUME NEW c \in Client, StageRestore(c) PROVE Inductive'
  BY <1>3, StageRestoreKeeps
<1>4. ASSUME NEW c \in Client, Begin(c) PROVE Inductive'
  BY <1>4, BeginKeeps
<1>5. ASSUME NEW c \in Client, Enter(c) PROVE Inductive'
  BY <1>5, EnterKeeps
<1>6. ASSUME NEW c \in Client, Save(c) PROVE Inductive'
  BY <1>6, SaveKeeps
<1>7. ASSUME NEW c \in Client, Commit(c) PROVE Inductive'
  BY <1>7, CommitKeeps
<1>8. ASSUME NEW c \in Client, Rollback(c) PROVE Inductive'
  BY <1>8, RollbackKeeps
<1>9. ASSUME NEW c \in Client, Complete(c) PROVE Inductive'
  BY <1>9, CompleteKeeps
<1>10. ASSUME NEW c \in Client, ReadBack(c) PROVE Inductive'
  BY <1>10, ReadBackKeeps
<1>11. ASSUME NEW c \in Client, Finish(c) PROVE Inductive'
  BY <1>11, FinishKeeps
<1>12. ASSUME NEW t \in Token, Expire(t) PROVE Inductive'
  BY <1>12, ExpireKeeps
<1>13. ASSUME NEW t \in Token, NEW i \in 1..Len(events), PreviewRestore(t, i) PROVE Inductive'
  BY <1>13, PreviewRestoreKeeps
<1>14. CASE Crash
  BY <1>14, CrashKeeps
<1>15. ASSUME NEW o \in disk, Damage(o) PROVE Inductive'
  BY <1>15, DamageKeeps
<1>16. CASE UNCHANGED vars
  BY <1>16, StutterKeeps
<1> QED
  BY <1>1, <1>2, <1>3, <1>4, <1>5, <1>6, <1>7, <1>8, <1>9, <1>10, <1>11, <1>12, <1>13, <1>14, <1>15, <1>16
     DEF Next

\* All that the theorems below rest on holds throughout: who has the gate and
\* which token, what the tables name and what is on the disk for it, and what a
\* transaction of Kernel.Apply has done of its work.
THEOREM InductiveInvariant == Spec => []Inductive
<1>1. Init => Inductive
  BY InitHolds
<1>2. Inductive /\ [Next]_vars => Inductive'
  BY NextKeeps
<1> QED
  BY <1>1, <1>2, PTL DEF Spec

LEMMA NamesAreIntact ==
    ASSUME Inductive, NEW r \in Record, NEW n
    PROVE  /\ n \in rows[r].files => LiveIntact(r, n)
           /\ VersionsOf(r, n) # {} => ArchivedIntact(r, n)
<1>1. ASSUME n \in rows[r].files PROVE LiveIntact(r, n)
  <2>1. PICK m \in MetaOf(r) : m.name = n
    BY <1>1 DEF Inductive, RowsHold
  <2>2. m \in meta /\ m.record = r
    BY DEF MetaOf
  <2> QED
    BY <2>1, <2>2 DEF Inductive, FilesAreTrue, LiveIntact
<1>2. ASSUME VersionsOf(r, n) # {} PROVE ArchivedIntact(r, n)
  <2>1. PICK v \in VersionsOf(r, n) : TRUE
    BY <1>2
  <2>2. v \in versions /\ v.name = n
    BY DEF VersionsOf
  <2> QED
    BY <2>1, <2>2 DEF Inductive, FilesAreTrue, ArchivedIntact
<1> QED
  BY <1>1, <1>2

\* Whatever Manager.Prepare, DeleteRecord and the hooks after a transaction did,
\* failed to do or were killed over: what a record lists has its metadata and
\* its bytes, and without a fault nothing else is left on the disk.
THEOREM ReferencesHaveBytes == Spec => []ReferencesAreWhole
<1>1. Inductive => ReferencesAreWhole
  <2> SUFFICES ASSUME Inductive PROVE ReferencesAreWhole
    OBVIOUS
  <2>1. \A r \in Record : /\ {m.name : m \in MetaOf(r)} = rows[r].files
                          /\ \A n \in rows[r].files : LiveIntact(r, n)
    BY NamesAreIntact DEF Inductive, RowsHold
  <2>2. ASSUME faults = 0, tx.owner = None, NEW o \in disk
        PROVE  \/ o.dir # "versions" /\ o.name \in rows[o.dir].files
               \/ \E v \in versions : o.dir = "versions" /\ v.blob = o.name
    BY <2>2 DEF Inductive, NoClutter
  <2> QED
    BY <2>1, <2>2 DEF Inductive, ReferencesAreWhole
<1> QED
  BY <1>1, InductiveInvariant, PTL

\* However often files are removed, records deleted and images restored: what
\* an audit event names is in its record or in the versions that
\* Manager.archiveMetadata keeps, with the bytes the user gave.
THEOREM HistoryStaysRestorable == Spec => []HistoryIsRestorable
<1>1. Inductive => HistoryIsRestorable
  <2> SUFFICES ASSUME Inductive, NEW i \in 1..Len(events),
                      NEW n \in events[i].before.files \cup events[i].after.files
               PROVE  \/ n \in rows[events[i].record].files /\ LiveIntact(events[i].record, n)
                      \/ ArchivedIntact(events[i].record, n)
    BY DEF HistoryIsRestorable
  <2>1. events[i].record \in Record
    <3>1. events[i] \in Event
      BY DEF Inductive, TypeOK, TablesTypeOK
    <3> QED
      BY <3>1 DEF Event
  <2>2. n \in rows[events[i].record].files \/ VersionsOf(events[i].record, n) # {}
    BY DEF Inductive, HistoryIsKept
  <2> QED
    BY <2>1, <2>2, NamesAreIntact
<1> QED
  BY <1>1, InductiveInvariant, PTL

\* A request that is sent twice, sent again after its answer was lost, or sent
\* again after a crash takes effect once (Kernel.replayOrReject), and its
\* uploads live as long as a request that holds them (Manager.stage, Drop).
THEOREM ResendsDoNoHarm == Spec => []ResendsAreHarmless
<1>1. Inductive => ResendsAreHarmless
  BY DEF Inductive, EffectsAreCounted, ResendsAreHarmless
<1> QED
  BY <1>1, InductiveInvariant, PTL

\* A commit of a restore: the row is the one that was previewed, and its new
\* files are those of the image, byte for byte.
LEMMA CommitIsExact ==
    ASSUME Inductive, NEW c \in Client, Commit(c), NEW t \in Token, t = client[c].request
    PROVE  RestoredAsPreviewed(t)
<1>1. PICK w : w = Wanted(t)
  OBVIOUS
<1>2. PICK r : r = w.record
  OBVIOUS
<1>3. PICK gone : gone = tx.files
  OBVIOUS
<1>4. PICK after : after = IF tx.gone THEN NoRow
                           ELSE [exists |-> TRUE, files |-> (rows[r].files \ gone) \cup {u.name : u \in tx.uploads}]
  BY Zenon
<1>5. /\ client[c].pc = "saved" /\ rows' = [rows EXCEPT ![r] = after]
      /\ meta' = {m \in meta : m.record # r \/ m.name \notin gone}
                 \cup {[record |-> r, name |-> u.name, hash |-> u.hash] : u \in tx.uploads}
  BY <1>1, <1>2, <1>3, <1>4, Zenon DEF Commit
<1>6. Commits(c, t, w, r, after, gone)
  <2>1. tx.record = r
    BY <1>1, <1>2, <1>5, OwnerIsUndecided DEF Undecided
  <2> QED
    BY <1>1, <1>2, <1>3, <1>4, <1>5, <2>1 DEF Commits
<1>7. /\ AsPreviewed(t) /\ tokens[t] \in Preview /\ tokens[t].state = "taken" /\ r \in Record
      /\ gone = Removed(w) /\ tx.gone = (w.op = "delete")
  BY <1>6, CommitFacts
<1>8. (after.exists <=> ~tx.gone) /\ tx.uploads \subseteq Files
  BY <1>6, CommitFacts
<1>9. \A u, v \in tx.uploads : u.name = v.name => u = v
  BY <1>6, CommitFacts
<1>10. \A hash \in Content : Given(tx.uploads, hash) = Ordered(w, hash)
  BY <1>6, CommitFacts DEF Match
<1>11. /\ w.record = tokens[t].record /\ w.remove = tokens[t].current /\ w.upload = tokens[t].items
       /\ w.op # "delete"
  BY <1>1 DEF Wanted, Plan
<1>12. rows'[r].exists
  BY <1>5, <1>7, <1>8, <1>11, Zenon DEF Inductive, TypeOK, TablesTypeOK
<1>13. gone = rows[r].files
  BY <1>2, <1>7, <1>11 DEF Removed, AsPreviewed
<1>14. \A m \in meta : m.record = r => m.name \in gone
  BY <1>7, <1>13 DEF Inductive, RowsHold, MetaOf
<1> DEFINE row(u) == [record |-> r, name |-> u.name, hash |-> u.hash]
<1>15. /\ \A m \in meta' : m.record = r => \E u \in tx.uploads : m = row(u)
       /\ \A u \in tx.uploads : /\ row(u) \in meta' /\ row(u).record = r
                               /\ row(u).hash = u.hash /\ row(u).name = u.name
  BY <1>5, <1>14
<1> HIDE DEF row
<1>16. IsFiniteSet(tx.uploads)
  <2> DEFINE names == {u.name : u \in tx.uploads}
             f == [n \in names |-> CHOOSE u \in tx.uploads : u.name = n]
  <2>1. names \subseteq Slot
    <3>1. Name \subseteq Slot
      BY DEF Name, Slot
    <3> QED
      BY <1>8, <3>1 DEF Files
  <2>2. IsFiniteSet(names)
    BY <2>1, NamesAreFinite
  <2>3. \A n \in names : f[n] \in tx.uploads /\ f[n].name = n
    OBVIOUS
  <2>4. f \in [names -> tx.uploads]
    BY <2>3
  <2>5. \A z \in tx.uploads : z.name \in names /\ f[z.name] = z
    BY <1>9, <2>3
  <2>6. \A x, y \in names : f[x] = f[y] => x = y
    <3> HIDE DEF f
    <3> QED
      BY <2>3
  <2> HIDE DEF f, names
  <2>7. \A z \in tx.uploads : \E x \in names : f[x] = z
    BY <2>5
  <2> QED
    BY <2>2, <2>4, <2>6, <2>7, SameSize
<1>17. ASSUME NEW b \in Content
       PROVE  Given(tx.uploads, b) = Cardinality({m \in meta' : m.record = r /\ m.hash = b})
  <2> DEFINE S == {u \in tx.uploads : u.hash = b}
             T == {m \in meta' : m.record = r /\ m.hash = b}
             f == [u \in S |-> row(u)]
  <2>1. IsFiniteSet(S)
    BY <1>16, FS_Subset
  <2>2. f \in [S -> T] /\ \A z \in T : \E x \in S : f[x] = z
    BY <1>15
  <2>3. \A x, y \in S : f[x] = f[y] => x = y
    BY <1>9, <1>15
  <2> HIDE DEF S, T, f
  <2>4. Cardinality(T) = Cardinality(S)
    BY <2>1, <2>2, <2>3, SameSize
  <2> QED
    BY <2>4 DEF S, T, Given
<1>18. /\ DOMAIN tokens[t].items = Image(events[tokens[t].event]).files
       /\ \A n \in DOMAIN tokens[t].items : tokens[t].items[n] = truth[n]
  BY <1>7 DEF Inductive, TokensHold
<1>19. ASSUME NEW b \in Content
       PROVE  Ordered(w, b) = Count(truth, Image(events[tokens[t].event]).files, b)
  <2>1. PICK items, target : items = w.upload /\ target = Image(events[tokens[t].event]).files
    OBVIOUS
  <2>2. DOMAIN items = target /\ \A n \in target : items[n] = truth[n]
    BY <1>11, <1>18, <2>1, Zenon
  <2>3. {s \in DOMAIN items : items[s] = b} = {n \in target : truth[n] = b}
    BY <2>2
  <2> QED
    BY <2>1, <2>3 DEF Ordered, Count
<1>20. ASSUME NEW b \in Content
       PROVE  Count(truth, Image(events[tokens[t].event]).files, b)
              = Cardinality({m \in meta' : m.record = tokens[t].record /\ m.hash = b})
  BY <1>2, <1>10, <1>11, <1>17, <1>19
<1> QED
  BY <1>2, <1>7, <1>11, <1>12, <1>20 DEF RestoredAsPreviewed

\* Service.applyRestore: whatever happened to the row and to its files since the
\* preview, a restore that takes effect finds the row as it was previewed and
\* leaves it with the bytes of the image that was chosen.
THEOREM RestoresAreExact == Spec => RestoreIsExact
<1>1. Inductive /\ [Next]_vars => [\A t \in Token : t \in applied' \ applied => RestoredAsPreviewed(t)]_vars
  <2> SUFFICES ASSUME Inductive, Next, NEW t \in Token, t \in applied' \ applied
               PROVE  RestoredAsPreviewed(t)
    OBVIOUS
  <2>1. PICK c \in Client : Commit(c)
    BY Zenon DEF Next, Send, ClaimToken, StageRestore, Begin, Enter, Save, Rollback, Complete, ReadBack,
       Finish, Expire, PreviewRestore, Crash, Damage
  <2>2. t = client[c].request
    BY <2>1, Zenon DEF Commit
  <2> QED
    BY <2>1, <2>2, CommitIsExact
<1> QED
  BY <1>1, InductiveInvariant, PTL DEF Spec, RestoreIsExact
=============================================================================
