----------------------------- MODULE MCArcCache -----------------------------
(* Small instances of ArcCache for TLC. *)
EXTENDS ArcCache, TLC

CONSTANTS k1, k2, k3, c1, c2

\* Calls are interchangeable, and so are the keys that are not schedules.
Interchange == {p @@ q : p \in Permutations(Calls), q \in Permutations(Keys \ Schedules)}
=============================================================================
