------------------------- MODULE MCSnapshotRestore -------------------------
(* The snapshot restore for TLC.                                           *)
EXTENDS SnapshotRestore

\* The snapshot may differ from the live workspace in any way.
AnyDiff == Diff
\* Failures and crashes at every control point.
Anywhere == Points
=============================================================================
