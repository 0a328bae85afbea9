-------------------------------- MODULE Ingress --------------------------------
(***************************************************************************)
(* The signed webhooks of the bot's Worker (apps/bot/src/ingress.ts): what *)
(* Twitch and Discord deliver is read, verified and decoded, and answered  *)
(* after calls of the account and of a tenant.                             *)
(*                                                                         *)
(* Each request runs by itself and may be lost.  A notification of Twitch  *)
(* takes three calls: the account's status, the observation of its         *)
(* subscription, and the admission by the tenant; the channel may leave,   *)
(* come back or get another subscription between them, and Twitch delivers *)
(* again what was not acknowledged.  A command of Discord has one call and *)
(* a time limit that counts from the receipt of its request.               *)
(*                                                                         *)
(* One channel.  The account is seen through its answers (Lifecycle), the  *)
(* tenants through their admissions (TenantDelivery, TenantReply).         *)
(***************************************************************************)
EXTENDS Naturals, FiniteSets

CONSTANTS
  Requests,
  Deliveries, Delivery,  \* what may be delivered: see Contents
  BodyMs, AgeMs, SkewMs, \* ingressPolicy
  AutocompleteMs, RpcMs, \* ingressPolicy, tenantPolicy
  MaxTime, MaxChange     \* bounds of the model

\* The kind of a delivery: "chat" is a notification that carries no command for the
\* bot, "misused" an interaction that is answered at once, "empty" an autocompletion
\* without a choice, and "malformed" whatever does not decode or contradicts itself.
Contents == [via : {"twitch", "discord"}, genuine : BOOLEAN, sent : Nat, subscription : Nat,
             kind : {"command", "chat", "verification", "revocation", "malformed",
                     "ping", "misused", "empty", "autocomplete"}]

\* Subscriptions are numbered from 1.
ASSUME IngressAssumption ==
  /\ Deliveries # {}
  /\ Delivery \in [Deliveries -> Contents]
  /\ \A d \in Deliveries : Delivery[d].via = "twitch" => Delivery[d].subscription # 0
  /\ {BodyMs, AgeMs, SkewMs, AutocompleteMs, RpcMs, MaxTime, MaxChange} \subseteq Nat

VARIABLES
  now,
  account,  \* the channel: its installation and its ready subscription, numbers or 0
  changes,  \* changes of the channel so far
  recorded, \* the tenant: per delivery, the sources it is recorded with, one or none
  request   \* the requests

ingressVars == <<now, account, changes, recorded, request>>

\* seen is a history: the states of the account since the request came.
Waiting == [pc |-> "idle", delivery |-> CHOOSE d \in Deliveries : TRUE, at |-> 0,
            until |-> 0, source |-> {}, reply |-> "none", seen |-> {}]

\* removeChannel.
Removed == [installation |-> 0, subscription |-> 0]

IngressInit ==
  /\ now = 0 /\ changes = 0
  /\ account \in {[installation |-> 1, subscription |-> 1], Removed}
  /\ recorded = [d \in Deliveries |-> {}]
  /\ request = [r \in Requests |-> Waiting]

Content(r) == Delivery[request[r].delivery]
At(r, pc) == request[r].pc = pc
Closed == {"idle", "done"}

Ended(r, status) == [request EXCEPT ![r] = [Waiting EXCEPT !.pc = "done", !.reply = status]]
Reply(r, status) == request' = Ended(r, status)
Proceed(r, pc) == request' = [request EXCEPT ![r] = [@ EXCEPT !.pc = pc]]

-----------------------------------------------------------------------------
(***************************************************************************)
(* Reading and verifying.                                                  *)
(***************************************************************************)
\* Twitch repeats a delivery that was not acknowledged; here, any may come again.
Arrive(r) ==
  /\ At(r, "idle")
  /\ \E d \in Deliveries :
       request' = [request EXCEPT ![r] = [@ EXCEPT !.pc = "body", !.delivery = d, !.at = now,
                                                   !.seen = {account}]]
  /\ UNCHANGED <<now, account, changes, recorded>>

\* readBody.
BodyRead(r) ==
  /\ At(r, "body")
  /\ Proceed(r, "verify")
  /\ UNCHANGED <<now, account, changes, recorded>>

BodyFails(r) ==
  /\ At(r, "body")
  /\ Reply(r, IF now = request[r].at + BodyMs THEN "408" ELSE "400")
  /\ UNCHANGED <<now, account, changes, recorded>>

Fresh(r) ==
  /\ Content(r).sent + AgeMs >= request[r].at
  /\ Content(r).sent <= request[r].at + SkewMs

\* verifyTwitch, verifyDiscord.
Verified(r) == Content(r).genuine /\ Fresh(r)

Reject(r) ==
  /\ At(r, "verify")
  /\ ~Verified(r) \/ Content(r).kind = "malformed"
  /\ Reply(r, IF Verified(r) THEN "400" ELSE "401")
  /\ UNCHANGED <<now, account, changes, recorded>>

Accepts(r, via) ==
  At(r, "verify") /\ Verified(r) /\ Content(r).kind # "malformed" /\ Content(r).via = via

-----------------------------------------------------------------------------
(***************************************************************************)
(* Twitch.                                                                 *)
(***************************************************************************)
Twitch(r) ==
  /\ Accepts(r, "twitch")
  /\ Proceed(r, "status")
  /\ UNCHANGED <<now, account, changes, recorded>>

\* status: the channel is one of the account's.
Status(r) ==
  /\ At(r, "status")
  /\ IF account.installation # 0 THEN Proceed(r, "observe") ELSE Reply(r, "400")
  /\ UNCHANGED <<now, account, changes, recorded>>

\* observeSubscription: the source of a notification is the installation whose
\* subscription it came from, if that is ready.  The mutant does not ask which one.
MutantConfirmed(r) == account.subscription # 0
Confirmed(r) == account.subscription # 0 /\ account.subscription = Content(r).subscription

Observed(r) ==
  IF Confirmed(r)
  THEN {[installation |-> account.installation, subscription |-> account.subscription]}
  ELSE {}

\* Its revocation takes the subscription; a loss of the authorization takes the channel,
\* also by evidence that the account keeps of it (Lifecycle).
Revocations(r) ==
  IF account.subscription = Content(r).subscription /\ account.subscription # 0
  THEN {[account EXCEPT !.subscription = 0], Removed}
  ELSE {account, Removed}

\* What the histories of open requests notice of a new state of the account.
Notice(requests) ==
  request' = [q \in Requests |-> IF requests[q].pc \in Closed THEN requests[q]
                                 ELSE [requests[q] EXCEPT !.seen = @ \cup {account'}]]

Observes(r) ==
  /\ At(r, "observe")
  /\ IF Content(r).kind = "revocation" THEN account' \in Revocations(r) ELSE UNCHANGED account
  /\ UNCHANGED <<now, changes, recorded>>

\* A command goes on with its source; without one, and after any other notification,
\* there is nothing more to do.
Observe(r) ==
  /\ Observes(r)
  /\ CASE Content(r).kind = "verification" -> Notice(Ended(r, "challenge"))
       [] Content(r).kind = "command" /\ Observed(r) # {} ->
            request' = [request EXCEPT ![r] = [@ EXCEPT !.pc = "admit", !.source = Observed(r)]]
       [] OTHER -> Notice(Ended(r, "204"))

ObserveUnanswered(r) == Observes(r) /\ Notice(Ended(r, "503"))

\* acceptTwitch; the tenant refuses a command it has under another source, and one for
\* which it has no room.
Record(r) ==
  recorded' = [recorded EXCEPT ![request[r].delivery] = IF @ = {} THEN request[r].source ELSE @]

Admit(r) ==
  /\ At(r, "admit")
  /\ Record(r)
  /\ Reply(r, IF recorded[request[r].delivery] \in {{}, request[r].source} THEN "204" ELSE "503")
  /\ UNCHANGED <<now, account, changes>>

AdmitUnanswered(r) ==
  /\ At(r, "admit")
  /\ Record(r) /\ Reply(r, "503")
  /\ UNCHANGED <<now, account, changes>>

\* A call of the account or the tenant fails: Twitch is to deliver again.  The mutant
\* acknowledges.
MutantFailing(r) == Reply(r, "204")
Failing(r) == Reply(r, "503")

CallFails(r) ==
  /\ request[r].pc \in {"status", "observe", "admit"}
  /\ Failing(r)
  /\ UNCHANGED <<now, account, changes, recorded>>

-----------------------------------------------------------------------------
(***************************************************************************)
(* Discord.                                                                *)
(***************************************************************************)
\* What is left of the time since the receipt.  The mutant starts to count here.
MutantEnd(r) == now + RpcMs
End(r) == request[r].at + RpcMs

Until(r) ==
  IF Content(r).kind = "autocomplete" /\ now + AutocompleteMs < End(r)
  THEN now + AutocompleteMs ELSE End(r)

\* What a request is answered that is not, or no longer, passed on.
AtOnce(kind) ==
  CASE kind = "ping" -> "pong"
    [] kind \in {"empty", "autocomplete"} -> "choices"
    [] kind = "misused" -> "private"
    [] OTHER -> "fallback"

Discord(r) ==
  /\ Accepts(r, "discord")
  /\ IF Content(r).kind \in {"command", "autocomplete"} /\ now < End(r)
     THEN request' = [request EXCEPT ![r] = [@ EXCEPT !.pc = "respond", !.until = Until(r)]]
     ELSE Reply(r, AtOnce(Content(r).kind))
  /\ UNCHANGED <<now, account, changes, recorded>>

\* respondDiscord or suggest answers; it fails, or not in time.
Respond(r) ==
  /\ At(r, "respond")
  /\ Reply(r, IF Content(r).kind = "command" THEN "answer" ELSE "choices")
  /\ UNCHANGED <<now, account, changes, recorded>>

RespondFails(r) ==
  /\ At(r, "respond")
  /\ Reply(r, AtOnce(Content(r).kind))
  /\ UNCHANGED <<now, account, changes, recorded>>

-----------------------------------------------------------------------------
(***************************************************************************)
(* The Worker, the account and time.                                       *)
(***************************************************************************)
\* The client is gone, or the Worker.
Lose(r) ==
  /\ request[r].pc \notin Closed
  /\ Reply(r, "none")
  /\ UNCHANGED <<now, account, changes, recorded>>

\* The channel leaves, is installed again, or gets another subscription.
Change ==
  /\ changes < MaxChange /\ changes' = changes + 1
  /\ \/ account.installation # 0 /\ account' = Removed
     \/ account.installation = 0 /\ account' = [installation |-> changes + 2, subscription |-> 0]
     \/ account.installation # 0 /\ account' = [account EXCEPT !.subscription = changes + 2]
  /\ Notice(request)
  /\ UNCHANGED <<now, recorded>>

\* The timeouts of the body and of the calls for Discord are kept; no other step is
\* done in any time.
Tick ==
  /\ now < MaxTime /\ now' = now + 1
  /\ \A r \in Requests : /\ At(r, "body") => now < request[r].at + BodyMs
                         /\ At(r, "respond") => now < request[r].until
  /\ UNCHANGED <<account, changes, recorded, request>>

Step(r) ==
  \/ Arrive(r) \/ BodyRead(r) \/ BodyFails(r) \/ Reject(r)
  \/ Twitch(r) \/ Status(r) \/ Observe(r) \/ ObserveUnanswered(r)
  \/ Admit(r) \/ AdmitUnanswered(r) \/ CallFails(r)
  \/ Discord(r) \/ Respond(r) \/ RespondFails(r) \/ Lose(r)

IngressNext == Change \/ Tick \/ \E r \in Requests : Step(r)

IngressSpec == IngressInit /\ [][IngressNext]_ingressVars

-----------------------------------------------------------------------------
(***************************************************************************)
(* Properties.                                                             *)
(***************************************************************************)
\* A command is acknowledged only when the tenant has it, unless its subscription was
\* at some time of the request not the channel's ready one: Twitch does not repeat it.
Acknowledged ==
  [][\A r \in Requests :
       request'[r].reply = "204" /\ ~At(r, "done") /\ Content(r).kind = "command"
         => \/ recorded'[request[r].delivery] # {}
            \/ \E state \in request[r].seen :
                 state.subscription # Content(r).subscription]_ingressVars

\* The tenant gets verified commands only, each for the installation to which its
\* subscription belonged at some time since the request came: no message of an
\* earlier installation is taken for one of the present one.
Attributed ==
  [][\A d \in Deliveries : recorded'[d] # recorded[d]
       => /\ Delivery[d].genuine /\ Delivery[d].kind = "command"
          /\ \E r \in Requests : /\ request[r].delivery = d
                                 /\ recorded'[d] \subseteq request[r].seen
          /\ \A source \in recorded'[d] :
               source.subscription = Delivery[d].subscription]_ingressVars

\* No request of Discord waits for a tenant, or for suggestions, past its time limit,
\* however long its body took.
InTime == \A r \in Requests : At(r, "respond") => now <= request[r].at + RpcMs
=============================================================================
