----------------------------- MODULE MutationLog -----------------------------
(***************************************************************************)
(* What the write coordinator promises the rest of the workspace: the      *)
(* mutations form one log.  At most one mutation at a time is durable but  *)
(* not yet settled, nothing that was appended is ever removed, and a       *)
(* snapshot is a prefix of the log taken while the log is settled.         *)
(* Crashes, retries, tokens and the gate are invisible at this level.      *)
(***************************************************************************)
EXTENDS Naturals

CONSTANT Sequence   \* snapshot sequence numbers

VARIABLES
    length,      \* mutations durable in the authoritative stores
    settled,     \* mutations the coordinator acknowledges
    snapshots    \* captured snapshots: [sequence, revision, view]

logVars == <<length, settled, snapshots>>

Init == length = 0 /\ settled = 0 /\ snapshots = {}

Append ==
    /\ length = settled
    /\ length' = length + 1
    /\ UNCHANGED <<settled, snapshots>>

Settle ==
    /\ settled < length
    /\ settled' = length
    /\ UNCHANGED <<length, snapshots>>

\* A snapshot is newer than every other and holds the settled log.
Take(s) ==
    /\ length = settled
    /\ \A t \in snapshots : t.sequence < s
    /\ snapshots' = snapshots \cup
         {[sequence |-> s, revision |-> settled, view |-> 1..settled]}
    /\ UNCHANGED <<length, settled>>

Next == Append \/ Settle \/ \E s \in Sequence : Take(s)

Spec == Init /\ [][Next]_logVars
=============================================================================
