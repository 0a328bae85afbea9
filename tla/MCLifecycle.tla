----------------------------- MODULE MCLifecycle -----------------------------
(* A small instance of Lifecycle for TLC. *)
EXTENDS Lifecycle

CONSTANTS a, o, alarm

One == {[channels |-> {a}, target |-> 1]}
Two == One \cup {[channels |-> {}, target |-> 1]}
Three == Two \cup {[channels |-> {a}, target |-> 2]}
=============================================================================
