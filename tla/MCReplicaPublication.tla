------------------------ MODULE MCReplicaPublication ------------------------
(* Two devices for TLC with a snapshot each: enough for a fork, for a retry  *)
(* after the winner has moved, and for a takeover between two publications.  *)
EXTENDS ReplicaPublication

CONSTANTS d1, d2
MCDevice == {d1, d2}
MCSnapshots == [d \in MCDevice |-> 1]
MCFaults == [d \in MCDevice |-> IF d = d1 THEN 2 ELSE 0]
=============================================================================
