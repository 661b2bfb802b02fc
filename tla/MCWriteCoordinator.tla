------------------------- MODULE MCWriteCoordinator -------------------------
(* The write coordinator on small instances.                               *)
EXTENDS WriteCoordinator, TLC

\* Stores whose proofs differ for recovery: PocketBase receipts and the
\* file-history head carry the token, the retention policy row does not.
MCDomain == {"business", "head", "policy"}

\* Goroutines are interchangeable.
MCSymmetry == Permutations(Writer)
=============================================================================
