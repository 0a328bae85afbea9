------------------------------- MODULE Outbox -------------------------------
(***************************************************************************)
(* What the account's send ledger promises to its callers.  An attempt is  *)
(* one chat message part, named by an attempt id; a print is the           *)
(* fingerprint of the complete dispatch input.  Twitch accepts at most one *)
(* POST for an attempt.  A caller is told "sent" only of an attempt Twitch *)
(* accepted (whichever print: the ledger does not compare fingerprints on  *)
(* every path), and a print a caller was told is "rejected" is never       *)
(* accepted, before or after.  The other answers of dispatch promise       *)
(* nothing and are left out.                                               *)
(***************************************************************************)
CONSTANTS Attempts, Prints, NoPrint

VARIABLES accepted,  \* per attempt, the print Twitch accepted, or NoPrint
          told       \* per attempt and print, the promises made to callers

obVars == <<accepted, told>>

Promises == {"sent", "rejected"}

OutboxTypeOK ==
  /\ accepted \in [Attempts -> Prints \cup {NoPrint}]
  /\ told \in [Attempts -> [Prints -> SUBSET Promises]]

OutboxInit ==
  /\ accepted = [a \in Attempts |-> NoPrint]
  /\ told = [a \in Attempts |-> [p \in Prints |-> {}]]

Accept(a, p) ==
  /\ accepted[a] = NoPrint
  /\ "rejected" \notin told[a][p]
  /\ accepted' = [accepted EXCEPT ![a] = p]
  /\ UNCHANGED told

Tell(a, p, o) ==
  /\ o = "sent" => accepted[a] # NoPrint
  /\ o = "rejected" => accepted[a] # p
  /\ told' = [told EXCEPT ![a][p] = @ \cup {o}]
  /\ UNCHANGED accepted

OutboxNext ==
  \E a \in Attempts, p \in Prints :
    Accept(a, p) \/ \E o \in Promises : Tell(a, p, o)

OutboxSpec == OutboxInit /\ [][OutboxNext]_obVars
=============================================================================
