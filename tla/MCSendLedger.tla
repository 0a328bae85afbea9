---------------------------- MODULE MCSendLedger ----------------------------
(* Small instances of SendLedger for TLC. *)
EXTENDS SendLedger, TLC

CONSTANTS c1, c2, a1, p1, p2, ch1

OneAttempt == a1 :> ch1
OneDeadline == a1 :> 2
LateDeadline == a1 :> 3

\* Calls are interchangeable.
Symmetry == Permutations(Calls)
=============================================================================
