----------------------------- MODULE MCWebsite ------------------------------
(* A small instance of Website for TLC. *)
EXTENDS Website, TLC

CONSTANTS v1, v2, x, y

\* Visits are interchangeable, and so are channels.
Interchange == {p @@ q : p \in Permutations(Visits), q \in Permutations(Channels)}
=============================================================================
