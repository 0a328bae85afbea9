------------------------------- MODULE MCIngress -------------------------------
(* A small instance of Ingress for TLC. *)
EXTENDS Ingress, TLC

CONSTANTS r1, r2

\* A delivery of Twitch under a subscription, and one of Discord.
FromTwitch(kind, subscription, genuine) ==
  [via |-> "twitch", genuine |-> genuine, sent |-> 1, subscription |-> subscription,
   kind |-> kind]
FromDiscord(kind, sent) ==
  [via |-> "discord", genuine |-> TRUE, sent |-> sent, subscription |-> 0, kind |-> kind]

Samples ==
  <<FromTwitch("command", 1, TRUE), FromTwitch("command", 2, TRUE),
    FromTwitch("command", 1, FALSE), FromTwitch("chat", 1, TRUE),
    FromTwitch("revocation", 1, TRUE), FromTwitch("verification", 2, TRUE),
    FromDiscord("command", 1), FromDiscord("autocomplete", 1), FromDiscord("empty", 2),
    FromDiscord("misused", 1), FromDiscord("ping", 0), FromDiscord("malformed", 1)>>
Numbers == DOMAIN Samples
=============================================================================
