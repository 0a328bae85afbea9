--------------------------- MODULE MCAccountStorage ---------------------------
(* A small instance of AccountStorage for TLC. *)
EXTENDS AccountStorage

CONSTANTS a, b, s, x
=============================================================================
