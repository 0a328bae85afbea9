--------------------------- MODULE MCTenantReply ----------------------------
(* Small instances of TenantReply for TLC. *)
EXTENDS TenantReply, TLC

CONSTANTS m1, m2, r1, r2, r3

TwoInteractions == r1 :> m1 @@ r2 :> m1 @@ r3 :> m2
=============================================================================
