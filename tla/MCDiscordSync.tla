---------------------------- MODULE MCDiscordSync ----------------------------
(* A small instance of DiscordSync for TLC. *)
EXTENDS DiscordSync, TLC

CONSTANTS j1, j2, m1, m2

Kinds == j1 :> "release" @@ j2 :> "sync"
Two == j1 :> 1 @@ j2 :> 2
Commands == 1 :> m1 @@ 2 :> m2
=============================================================================
