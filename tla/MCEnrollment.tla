---------------------------- MODULE MCEnrollment ----------------------------
(* A small instance of Enrollment for TLC. *)
EXTENDS Enrollment, TLC

CONSTANTS a, b, s1, s2, d1, d2, o, k1, k2

Symmetry == Permutations({k1, k2}) \cup Permutations({s1, s2}) \cup Permutations({d1, d2})
=============================================================================
