----------------------------- MODULE AppSession -----------------------------
(***************************************************************************)
(* What the users of the Twitch app session rely on: the stored session is *)
(* replaced by one never stored before, or dropped.  A session that was    *)
(* rejected or replaced never comes back, so a call that still holds it    *)
(* finds out by comparing generations (SendLedger's Claim and Complete).   *)
(***************************************************************************)
EXTENDS Naturals

VARIABLES session, \* generation of the stored session, 0 when there is none
          latest   \* the latest generation that was ever stored

SessionInit == session = 0 /\ latest = 0

Renew == session' \in Nat /\ session' > latest /\ latest' = session'

Drop == session' = 0 /\ UNCHANGED latest

SessionSpec == SessionInit /\ [][Renew \/ Drop]_<<session, latest>>
=============================================================================
