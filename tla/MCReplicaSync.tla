--------------------------- MODULE MCReplicaSync ---------------------------
(* ReplicaSync for TLC; all bounds are numbers given in the configuration. *)
EXTENDS ReplicaSync
=============================================================================
