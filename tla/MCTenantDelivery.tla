-------------------------- MODULE MCTenantDelivery --------------------------
(* A small instance of TenantDelivery for TLC. *)
EXTENDS TenantDelivery, TLC

CONSTANTS m1, m2, short, long

Both == short :> 1 @@ long :> 2
SentOnce == m1 :> 0
=============================================================================
