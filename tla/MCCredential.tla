---------------------------- MODULE MCCredential ----------------------------
(* A small instance of Credential for TLC: the alarm and one more caller. *)
EXTENDS Credential

CONSTANTS c1, c2
=============================================================================
