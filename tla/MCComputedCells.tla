--------------------------- MODULE MCComputedCells ---------------------------
(* Computed cells: two rows in the middle of the chain, a pool of two.     *)
EXTENDS ComputedCells
=============================================================================
