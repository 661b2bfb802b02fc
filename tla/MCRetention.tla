----------------------------- MODULE MCRetention -----------------------------
(* Retention on small instances: two contents are enough for a snapshot to  *)
(* share one object with another and to have one of its own.  One snapshot  *)
(* is published at the start; a capture that fails leaves the other object  *)
(* without a name, which a later snapshot may name again.                   *)
EXTENDS Retention

CONSTANTS a, b
MCObject == {a, b}
MCPublished == <<{a}>>
\* One policy keeps every snapshot, the other only the newest.
MCPolicy == {{}, 1..MaxSnapshots}
=============================================================================
