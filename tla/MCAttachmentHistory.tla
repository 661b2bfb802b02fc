------------------------ MODULE MCAttachmentHistory -------------------------
(* One record with a file or two, for TLC.                                 *)
EXTENDS AttachmentHistory, TLC

CONSTANTS r1, c1, c2, k1, k2, k3, t1, a, b

\* A user adds a file, removes some, or deletes the record; a restore does
\* both at once.
MCWish == {w \in UserRequest : w.remove = {} \/ DOMAIN w.upload = {}}

\* Goroutines, keys and contents are interchangeable.
MCSymmetry == Permutations(Client) \cup Permutations(Key) \cup Permutations(Content)
=============================================================================
