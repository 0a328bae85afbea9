----------------------------- MODULE Edge_proofs ------------------------------
(***************************************************************************)
(* Proofs about the parts at the system's edges, Ingress, Website and      *)
(* DiscordSync, which share nothing: one part after the other, for any     *)
(* values of its constants.                                                *)
(***************************************************************************)
EXTENDS Ingress, Website, DiscordSync, TLAPS

-----------------------------------------------------------------------------
(***************************************************************************)
(* Ingress, for any deliveries, any number of requests and any bounds.     *)
(* The invariant says what an open request knows: the present state of     *)
(* the account is in its history, the source it takes to the tenant is     *)
(* from that history and has the subscription of its delivery, and a wait  *)
(* for a tenant began before its end.                                      *)
(***************************************************************************)
States == [installation : Nat, subscription : Nat]
ReplyKinds == {"none", "400", "401", "408", "204", "503", "challenge", "pong", "choices",
            "private", "fallback", "answer"}
Records == [pc : {"idle", "body", "verify", "status", "observe", "admit", "respond", "done"},
            delivery : Deliveries, at : Nat, until : Nat, source : SUBSET States,
            reply : ReplyKinds, seen : SUBSET States]

IngressTypes ==
  /\ now \in Nat /\ changes \in Nat /\ account \in States
  /\ recorded \in [Deliveries -> SUBSET States]
  /\ request \in [Requests -> Records]

\* The source of a command that is on its way to the tenant.
Sourced(x) ==
  /\ Delivery[x.delivery].kind = "command"
  /\ x.source # {} /\ x.source \subseteq x.seen
  /\ \A source \in x.source : source.subscription = Delivery[x.delivery].subscription

Sound(x) ==
  /\ x.at <= now
  /\ x.pc \notin Closed => account \in x.seen
  /\ x.pc # "done" => x.reply = "none"
  /\ x.pc \in {"status", "observe", "admit"} =>
       Delivery[x.delivery].genuine /\ Delivery[x.delivery].via = "twitch"
  /\ x.pc = "admit" => Sourced(x)
  /\ x.pc = "respond" => now <= x.until /\ x.until <= x.at + RpcMs

IngressInv == IngressTypes /\ \A r \in Requests : Sound(request[r])

\* The actions of Acknowledged and Attributed.
Receipts ==
  \A r \in Requests : request'[r].reply = "204" /\ ~At(r, "done") /\ Content(r).kind = "command"
    => \/ recorded'[request[r].delivery] # {}
       \/ \E state \in request[r].seen : state.subscription # Content(r).subscription

Attributions ==
  \A d \in Deliveries : recorded'[d] # recorded[d]
    => /\ Delivery[d].genuine /\ Delivery[d].kind = "command"
       /\ \E r \in Requests : /\ request[r].delivery = d
                              /\ recorded'[d] \subseteq request[r].seen
       /\ \A source \in recorded'[d] : source.subscription = Delivery[d].subscription

Outcome == IngressInv' /\ Receipts /\ Attributions

-----------------------------------------------------------------------------
LEMMA Shapes ==
  /\ Waiting \in Records /\ Waiting.pc = "idle" /\ Waiting.reply = "none" /\ Waiting.at = 0
  /\ Removed \in States /\ Removed.subscription = 0
<1>1. (CHOOSE d \in Deliveries : TRUE) \in Deliveries
  BY IngressAssumption
<1> QED BY <1>1 DEF Waiting, Records, ReplyKinds, Removed, States

\* A record that ends, and one that takes its next step.
LEMMA EndedRecord ==
  ASSUME NEW status \in ReplyKinds
  PROVE  /\ [Waiting EXCEPT !.pc = "done", !.reply = status] \in Records
         /\ [Waiting EXCEPT !.pc = "done", !.reply = status].pc = "done"
         /\ [Waiting EXCEPT !.pc = "done", !.reply = status].reply = status
         /\ [Waiting EXCEPT !.pc = "done", !.reply = status].at = 0
BY Shapes DEF Records

LEMMA ContentsKnown ==
  ASSUME IngressTypes, NEW r \in Requests
  PROVE  /\ request[r] \in Records /\ request[r].delivery \in Deliveries
         /\ Content(r) = Delivery[request[r].delivery] /\ Content(r) \in Contents
         /\ Content(r).via = "twitch" => Content(r).subscription # 0
BY IngressAssumption DEF IngressTypes, Records, Content

(***************************************************************************)
(* A step of one request that leaves the account, the tenant and the clock *)
(* alone.                                                                  *)
(***************************************************************************)
LEMMA OneRequest ==
  ASSUME IngressInv, NEW r \in Requests, NEW x \in Records, Sound(x),
         request' = [request EXCEPT ![r] = x], UNCHANGED <<now, account, changes, recorded>>,
         x.reply = "204" => At(r, "done") \/ Content(r).kind # "command"
                            \/ \E state \in request[r].seen :
                                 state.subscription # Content(r).subscription
  PROVE  Outcome
<1>1. IngressTypes'
  BY DEF IngressInv, IngressTypes
<1>2. \A q \in Requests : request'[q] = IF q = r THEN x ELSE request[q]
  BY DEF IngressInv, IngressTypes
<1>3. \A q \in Requests : Sound(request'[q])
  BY <1>2 DEF IngressInv
<1>4. \A q \in Requests : Sound(request[q])'
  BY <1>3 DEF Sound, Sourced
<1>5. Receipts
  <2> SUFFICES ASSUME NEW q \in Requests, request'[q].reply = "204", ~At(q, "done"),
                      Content(q).kind = "command"
               PROVE  \E state \in request[q].seen :
                        state.subscription # Content(q).subscription
    BY DEF Receipts
  <2>1. q = r
    BY <1>2 DEF IngressInv, Sound, At
  <2> QED BY <1>2, <2>1
<1>6. Attributions
  BY DEF Attributions
<1> QED BY <1>1, <1>4, <1>5, <1>6 DEF Outcome, IngressInv

LEMMA Ending ==
  ASSUME IngressInv, NEW r \in Requests, NEW status \in ReplyKinds \ {"204"}, Reply(r, status),
         UNCHANGED <<now, account, changes, recorded>>
  PROVE  Outcome
<1> DEFINE x == [Waiting EXCEPT !.pc = "done", !.reply = status]
<1>1. x \in Records /\ x.pc = "done" /\ x.reply # "204" /\ x.at = 0
  BY EndedRecord
<1>2. request' = [request EXCEPT ![r] = x]
  BY DEF Reply, Ended
<1> HIDE DEF x
<1>3. Sound(x)
  BY <1>1 DEF Sound, Closed, IngressInv, IngressTypes
<1> QED BY <1>1, <1>2, <1>3, OneRequest

LEMMA Proceeding ==
  ASSUME IngressInv, NEW r \in Requests, request[r].pc \notin Closed,
         NEW pc \in {"verify", "status", "observe"}, Proceed(r, pc),
         pc # "verify" => Content(r).genuine /\ Content(r).via = "twitch",
         UNCHANGED <<now, account, changes, recorded>>
  PROVE  Outcome
<1> DEFINE x == [request[r] EXCEPT !.pc = pc]
<1>1. request[r] \in Records /\ Sound(request[r])
  BY DEF IngressInv, IngressTypes
<1>2. /\ x \in Records /\ x.pc = pc
      /\ x.delivery = request[r].delivery /\ x.at = request[r].at
      /\ x.seen = request[r].seen /\ x.reply = request[r].reply
  BY <1>1 DEF Records
<1>3. request' = [request EXCEPT ![r] = x]
  BY DEF Proceed
<1> HIDE DEF x
<1>4. Sound(x) /\ x.reply # "204"
  BY <1>1, <1>2 DEF Sound, Closed, Content
<1> QED BY <1>2, <1>3, <1>4, OneRequest

-----------------------------------------------------------------------------
(***************************************************************************)
(* The steps that read, verify and reject, and those of Discord.           *)
(***************************************************************************)
LEMMA ReadingStep ==
  ASSUME IngressInv, NEW r \in Requests, Arrive(r) \/ BodyRead(r) \/ BodyFails(r) \/ Reject(r)
  PROVE  Outcome
<1>1. ASSUME Arrive(r)
      PROVE  Outcome
  <2>1. PICK d \in Deliveries :
          request' = [request EXCEPT ![r] = [@ EXCEPT !.pc = "body", !.delivery = d, !.at = now,
                                                      !.seen = {account}]]
    BY <1>1 DEF Arrive
  <2> DEFINE x == [request[r] EXCEPT !.pc = "body", !.delivery = d, !.at = now, !.seen = {account}]
  <2>2. request[r] \in Records /\ Sound(request[r]) /\ request[r].pc = "idle"
    BY <1>1 DEF IngressInv, IngressTypes, Arrive, At
  <2>3. /\ x \in Records /\ x.pc = "body" /\ x.at = now /\ x.seen = {account}
        /\ x.reply = request[r].reply
    BY <2>2 DEF Records, IngressInv, IngressTypes
  <2>4. request' = [request EXCEPT ![r] = x]
    BY <2>1
  <2> HIDE DEF x
  <2>5. Sound(x) /\ x.reply # "204"
    BY <2>2, <2>3 DEF Sound, Closed, IngressInv, IngressTypes
  <2>6. UNCHANGED <<now, account, changes, recorded>>
    BY <1>1 DEF Arrive
  <2> QED BY <2>3, <2>4, <2>5, <2>6, OneRequest
<1>2. CASE BodyRead(r)
  BY <1>2, Proceeding DEF BodyRead, At, Closed
<1>3. CASE BodyFails(r)
  <2>1. (IF now = request[r].at + BodyMs THEN "408" ELSE "400") \in ReplyKinds \ {"204"}
    BY DEF ReplyKinds
  <2> QED BY <1>3, <2>1, Ending DEF BodyFails
<1>4. CASE Reject(r)
  <2>1. (IF Verified(r) THEN "400" ELSE "401") \in ReplyKinds \ {"204"}
    BY DEF ReplyKinds
  <2> QED BY <1>4, <2>1, Ending DEF Reject
<1> QED BY <1>1, <1>2, <1>3, <1>4

LEMMA DiscordStep ==
  ASSUME IngressInv, NEW r \in Requests, Discord(r) \/ Respond(r) \/ RespondFails(r) \/ Lose(r)
  PROVE  Outcome
<1>1. \A kind : AtOnce(kind) \in ReplyKinds \ {"204"}
  BY DEF AtOnce, ReplyKinds
<1>2. ASSUME Discord(r)
      PROVE  Outcome
  <2>1. UNCHANGED <<now, account, changes, recorded>> /\ request[r].pc = "verify"
    BY <1>2 DEF Discord, Accepts, At
  <2>2. CASE Reply(r, AtOnce(Content(r).kind))
    BY <1>1, <2>1, <2>2, Ending
  <2>3. ASSUME now < End(r),
               request' = [request EXCEPT ![r] = [@ EXCEPT !.pc = "respond", !.until = Until(r)]]
        PROVE  Outcome
    <3> DEFINE x == [request[r] EXCEPT !.pc = "respond", !.until = Until(r)]
    <3>1. request[r] \in Records /\ Sound(request[r]) /\ request[r].at \in Nat /\ now \in Nat
      BY DEF IngressInv, IngressTypes, Records
    <3>2. Until(r) \in Nat /\ now <= Until(r) /\ Until(r) <= request[r].at + RpcMs
      BY <2>3, <3>1, IngressAssumption DEF Until, End
    <3>3. /\ x \in Records /\ x.pc = "respond" /\ x.at = request[r].at
          /\ x.until = Until(r) /\ x.seen = request[r].seen /\ x.reply = request[r].reply
      BY <3>1, <3>2 DEF Records
    <3>4. request' = [request EXCEPT ![r] = x]
      BY <2>3
    <3> HIDE DEF x
    <3>5. Sound(x) /\ x.reply # "204"
      BY <2>1, <3>1, <3>2, <3>3 DEF Sound, Closed
    <3> QED BY <2>1, <3>3, <3>4, <3>5, OneRequest
  <2> QED BY <1>2, <2>2, <2>3 DEF Discord
<1>3. CASE Respond(r)
  <2>1. (IF Content(r).kind = "command" THEN "answer" ELSE "choices") \in ReplyKinds \ {"204"}
    BY DEF ReplyKinds
  <2> QED BY <1>3, <2>1, Ending DEF Respond
<1>4. CASE RespondFails(r)
  BY <1>1, <1>4, Ending DEF RespondFails
<1>5. CASE Lose(r)
  BY <1>5, Ending DEF Lose, ReplyKinds
<1> QED BY <1>2, <1>3, <1>4, <1>5

-----------------------------------------------------------------------------
(***************************************************************************)
(* The steps of Twitch.                                                    *)
(***************************************************************************)
\* A new state of the account, which every open request notices.
LEMMA Noticing ==
  ASSUME IngressInv, NEW r, NEW rs \in [Requests -> Records],
         \A q \in Requests : \/ rs[q] = request[q]
                             \/ q = r /\ rs[q].pc = "done" /\ rs[q].at = 0,
         \A q \in Requests : rs[q].reply = "204" =>
           At(q, "done") \/ Content(q).kind # "command"
             \/ \E state \in request[q].seen : state.subscription # Content(q).subscription,
         Notice(rs), account' \in States, changes' \in Nat, UNCHANGED <<now, recorded>>
  PROVE  Outcome
<1>1. ASSUME NEW q \in Requests
      PROVE  /\ request'[q] \in Records
             /\ request'[q].seen = IF rs[q].pc \in Closed THEN rs[q].seen
                                   ELSE rs[q].seen \cup {account'}
             /\ request'[q].pc = rs[q].pc /\ request'[q].delivery = rs[q].delivery
             /\ request'[q].at = rs[q].at /\ request'[q].until = rs[q].until
             /\ request'[q].source = rs[q].source /\ request'[q].reply = rs[q].reply
  <2>1. request'[q] = IF rs[q].pc \in Closed THEN rs[q]
                      ELSE [rs[q] EXCEPT !.seen = @ \cup {account'}]
    BY DEF Notice
  <2>2. rs[q] \in Records
    OBVIOUS
  <2> QED BY <2>1, <2>2 DEF Records
<1>2. IngressTypes'
  <2>1. request' \in [Requests -> Records]
    BY <1>1 DEF Notice
  <2> QED BY <2>1 DEF IngressInv, IngressTypes
<1>3. ASSUME NEW q \in Requests
      PROVE  Sound(request[q])'
  <2> DEFINE x == request'[q]
  <2>1. x.pc \notin Closed => account' \in x.seen
    BY <1>1
  <2>2. CASE rs[q] = request[q]
    <3>1. Sound(request[q])
      BY DEF IngressInv
    <3>2. /\ x.pc = request[q].pc /\ x.delivery = request[q].delivery /\ x.at = request[q].at
          /\ x.until = request[q].until /\ x.source = request[q].source
          /\ x.reply = request[q].reply /\ request[q].seen \subseteq x.seen
      BY <1>1, <2>2
    <3> HIDE DEF x
    <3>3. Sourced(request[q]) => Sourced(x)
      BY <3>2 DEF Sourced
    <3>4. /\ x.at <= now
          /\ x.pc # "done" => x.reply = "none"
          /\ x.pc \in {"status", "observe", "admit"} =>
               Delivery[x.delivery].genuine /\ Delivery[x.delivery].via = "twitch"
          /\ x.pc = "admit" => Sourced(x)
          /\ x.pc = "respond" => now <= x.until /\ x.until <= x.at + RpcMs
      BY <3>1, <3>2, <3>3 DEF Sound
    <3> QED BY <2>1, <3>4 DEF Sound, Sourced, x
  <2>3. CASE rs[q].pc = "done" /\ rs[q].at = 0
    <3>1. x.pc = "done" /\ x.at = 0 /\ now \in Nat
      BY <1>1, <2>3 DEF IngressInv, IngressTypes
    <3> QED BY <3>1 DEF Sound, Closed
  <2> QED BY <2>2, <2>3
<1>4. Receipts
  BY <1>1 DEF Receipts
<1>5. Attributions
  BY DEF Attributions
<1> QED BY <1>2, <1>3, <1>4, <1>5 DEF Outcome, IngressInv

LEMMA ChangeStep ==
  ASSUME IngressInv, Change
  PROVE  Outcome
<1>1. request \in [Requests -> Records] /\ account \in States /\ changes \in Nat
  BY DEF IngressInv, IngressTypes
<1>2. account' \in States /\ changes' \in Nat /\ Notice(request) /\ UNCHANGED <<now, recorded>>
  BY <1>1, Shapes DEF Change, States
<1>3. \A q \in Requests : request[q].reply = "204" => At(q, "done")
  BY DEF IngressInv, Sound, At
<1> QED BY <1>1, <1>2, <1>3, Noticing

LEMMA ObservedState ==
  ASSUME IngressInv, NEW r \in Requests, Observes(r)
  PROVE  /\ account' \in States /\ changes' \in Nat /\ UNCHANGED <<now, recorded>>
         /\ request[r].pc = "observe"
<1>1. account \in States /\ changes \in Nat
  BY DEF IngressInv, IngressTypes
<1>2. account' = account \/ account' \in Revocations(r)
  BY DEF Observes
<1>3. Revocations(r) \subseteq States
  BY <1>1, Shapes DEF Revocations, States
<1> QED BY <1>1, <1>2, <1>3 DEF Observes, At

\* The request ends with its observation: without a source it may be acknowledged.
LEMMA ObserveEnds ==
  ASSUME IngressInv, NEW r \in Requests, Observes(r), NEW status \in ReplyKinds, Notice(Ended(r, status)),
         status = "204" => Content(r).kind # "command" \/ Observed(r) = {}
  PROVE  Outcome
<1> DEFINE x == [Waiting EXCEPT !.pc = "done", !.reply = status]
           rs == [request EXCEPT ![r] = x]
<1>1. x \in Records /\ x.pc = "done" /\ x.reply = status /\ x.at = 0
  BY EndedRecord
<1>2. Notice(rs)
  BY DEF Ended
<1>3. /\ account' \in States /\ changes' \in Nat /\ UNCHANGED <<now, recorded>>
      /\ request[r].pc = "observe"
  BY ObservedState
<1> HIDE DEF x
<1>4. rs \in [Requests -> Records] /\ \A q \in Requests : rs[q] = IF q = r THEN x ELSE request[q]
  BY <1>1 DEF IngressInv, IngressTypes
<1> HIDE DEF rs
<1>5. Observed(r) = {} => \E state \in request[r].seen : state.subscription # Content(r).subscription
  <2> SUFFICES ASSUME Observed(r) = {}
               PROVE  account.subscription # Content(r).subscription
    BY <1>3 DEF IngressInv, Sound, Closed
  <2>1. ~Confirmed(r)
    BY DEF Observed
  <2>2. Content(r).subscription # 0
    BY <1>3, ContentsKnown DEF IngressInv, Sound, Content
  <2> QED BY <2>1, <2>2 DEF Confirmed
<1>6. ASSUME NEW q \in Requests, rs[q].reply = "204"
      PROVE  \/ At(q, "done") \/ Content(q).kind # "command"
             \/ \E state \in request[q].seen : state.subscription # Content(q).subscription
  <2>1. CASE q = r
    BY <1>1, <1>4, <1>5, <1>6, <2>1
  <2>2. CASE q # r
    BY <1>4, <1>6, <2>2 DEF IngressInv, Sound, At
  <2> QED BY <2>1, <2>2
<1> QED BY <1>1, <1>2, <1>3, <1>4, <1>6, Noticing

LEMMA ObserveStep ==
  ASSUME IngressInv, NEW r \in Requests, Observe(r) \/ ObserveUnanswered(r)
  PROVE  Outcome
<1>1. CASE ObserveUnanswered(r)
  BY <1>1, ObserveEnds DEF ObserveUnanswered, ReplyKinds
<1>2. ASSUME Observe(r)
      PROVE  Outcome
  <2>1. Observes(r)
    BY <1>2 DEF Observe
  <2>2. CASE Content(r).kind = "verification" /\ Notice(Ended(r, "challenge"))
    BY <2>1, <2>2, ObserveEnds DEF ReplyKinds
  <2>3. ASSUME Notice(Ended(r, "204")), Content(r).kind # "command" \/ Observed(r) = {}
        PROVE  Outcome
    BY <2>1, <2>3, ObserveEnds DEF ReplyKinds
  <2>4. ASSUME Content(r).kind = "command", Observed(r) # {},
               request' = [request EXCEPT ![r] = [@ EXCEPT !.pc = "admit",
                                                           !.source = Observed(r)]]
        PROVE  Outcome
    <3> DEFINE x == [request[r] EXCEPT !.pc = "admit", !.source = Observed(r)]
    <3>1. request[r] \in Records /\ Sound(request[r]) /\ request[r].pc = "observe"
      BY <2>1, ObservedState DEF IngressInv, IngressTypes
    <3>2. UNCHANGED <<now, account, changes, recorded>>
      BY <2>1, <2>4 DEF Observes
    <3>3. account \in States /\ Confirmed(r) /\ Observed(r) = {account}
      <4>1. account \in States
        BY DEF IngressInv, IngressTypes
      <4>2. account = [installation |-> account.installation,
                       subscription |-> account.subscription]
        BY <4>1 DEF States
      <4> QED BY <2>4, <4>1, <4>2 DEF Observed
    <3>4. /\ x \in Records /\ x.pc = "admit" /\ x.source = {account}
          /\ x.delivery = request[r].delivery /\ x.at = request[r].at
          /\ x.seen = request[r].seen /\ x.reply = request[r].reply
      BY <3>1, <3>3 DEF Records
    <3>5. request' = [request EXCEPT ![r] = x]
      BY <2>4
    <3> HIDE DEF x
    <3>6. Sourced(x)
      BY <2>4, <3>1, <3>3, <3>4 DEF Sourced, Sound, Closed, Confirmed, Content
    <3>7. Sound(x) /\ x.reply # "204"
      BY <3>1, <3>4, <3>6 DEF Sound, Closed
    <3> QED BY <3>2, <3>4, <3>5, <3>7, OneRequest
  <2> QED BY <1>2, <2>2, <2>3, <2>4 DEF Observe
<1> QED BY <1>1, <1>2

\* What the tenant records, whether or not its answer arrives.
LEMMA Recording ==
  ASSUME IngressInv, NEW r \in Requests, At(r, "admit"), Record(r), NEW status \in ReplyKinds,
         Reply(r, status), UNCHANGED <<now, account, changes>>
  PROVE  Outcome
<1> DEFINE x == [Waiting EXCEPT !.pc = "done", !.reply = status]
           d == request[r].delivery
<1>1. x \in Records /\ x.pc = "done" /\ x.at = 0
  BY EndedRecord
<1>2. request' = [request EXCEPT ![r] = x]
  BY DEF Reply, Ended
<1> HIDE DEF x
<1>3. request[r] \in Records /\ d \in Deliveries /\ request[r].source \subseteq States
  BY DEF IngressInv, IngressTypes, Records
<1>4. Delivery[d].genuine /\ Sourced(request[r])
  BY DEF IngressInv, Sound, At
<1>5. recorded \in [Deliveries -> SUBSET States]
  BY DEF IngressInv, IngressTypes
<1>6. /\ recorded'[d] = IF recorded[d] = {} THEN request[r].source ELSE recorded[d]
      /\ \A e \in Deliveries \ {d} : recorded'[e] = recorded[e]
      /\ recorded' \in [Deliveries -> SUBSET States]
  BY <1>3, <1>5 DEF Record
<1>7. request' \in [Requests -> Records]
      /\ \A q \in Requests : request'[q] = IF q = r THEN x ELSE request[q]
  BY <1>1, <1>2 DEF IngressInv, IngressTypes
<1>8. IngressTypes'
  BY <1>6, <1>7 DEF IngressInv, IngressTypes
<1>9. ASSUME NEW q \in Requests
      PROVE  Sound(request[q])'
  <2>1. now \in Nat /\ Sound(request[q])
    BY DEF IngressInv, IngressTypes
  <2> QED BY <1>1, <1>7, <2>1 DEF Sound, Sourced, Closed
<1>10. Receipts
  <2> SUFFICES ASSUME NEW q \in Requests, request'[q].reply = "204", ~At(q, "done")
               PROVE  recorded'[request[q].delivery] # {}
    BY DEF Receipts
  <2>1. q = r
    BY <1>7 DEF IngressInv, Sound, At
  <2> QED BY <1>4, <1>6, <2>1 DEF Sourced
<1>11. Attributions
  <2> SUFFICES ASSUME NEW e \in Deliveries, recorded'[e] # recorded[e]
               PROVE  /\ Delivery[e].genuine /\ Delivery[e].kind = "command"
                      /\ \E q \in Requests : /\ request[q].delivery = e
                                             /\ recorded'[e] \subseteq request[q].seen
                      /\ \A source \in recorded'[e] :
                           source.subscription = Delivery[e].subscription
    BY DEF Attributions
  <2>1. e = d /\ recorded'[e] = request[r].source
    BY <1>6
  <2> QED BY <1>4, <2>1 DEF Sourced
<1> QED BY <1>8, <1>9, <1>10, <1>11 DEF Outcome, IngressInv

LEMMA TwitchStep ==
  ASSUME IngressInv, NEW r \in Requests,
         \/ Twitch(r) \/ Status(r) \/ Observe(r) \/ ObserveUnanswered(r)
         \/ Admit(r) \/ AdmitUnanswered(r) \/ CallFails(r)
  PROVE  Outcome
<1>1. {"204", "400", "503"} \subseteq ReplyKinds
  BY DEF ReplyKinds
<1>2. CASE Twitch(r)
  <2>1. /\ request[r].pc = "verify" /\ Content(r).genuine /\ Content(r).via = "twitch"
        /\ Proceed(r, "status") /\ UNCHANGED <<now, account, changes, recorded>>
    BY <1>2 DEF Twitch, Accepts, At, Verified
  <2> QED BY <2>1, Proceeding DEF Closed
<1>3. CASE Status(r)
  <2>1. /\ request[r].pc = "status" /\ Content(r).genuine /\ Content(r).via = "twitch"
        /\ Proceed(r, "observe") \/ Reply(r, "400")
        /\ UNCHANGED <<now, account, changes, recorded>>
    BY <1>3 DEF Status, At, IngressInv, Sound, Content
  <2> QED BY <1>1, <2>1, Proceeding, Ending DEF Closed
<1>4. CASE Observe(r) \/ ObserveUnanswered(r)
  BY <1>4, ObserveStep
<1>5. CASE Admit(r)
  <2>1. (IF recorded[request[r].delivery] \in {{}, request[r].source} THEN "204" ELSE "503")
          \in ReplyKinds
    BY <1>1
  <2> QED BY <1>5, <2>1, Recording DEF Admit
<1>6. CASE AdmitUnanswered(r)
  BY <1>1, <1>6, Recording DEF AdmitUnanswered
<1>7. CASE CallFails(r)
  BY <1>1, <1>7, Ending DEF CallFails, Failing
<1> QED BY <1>2, <1>3, <1>4, <1>5, <1>6, <1>7

LEMMA TickStep ==
  ASSUME IngressInv, Tick
  PROVE  Outcome
<1>1. /\ now \in Nat /\ now' = now + 1 /\ UNCHANGED <<account, changes, recorded, request>>
      /\ \A r \in Requests : At(r, "respond") => now < request[r].until
  BY DEF Tick, IngressInv, IngressTypes
<1>2. IngressTypes'
  BY <1>1 DEF IngressInv, IngressTypes
<1>3. ASSUME NEW r \in Requests
      PROVE  Sound(request[r])'
  <2>1. Sound(request[r]) /\ request[r].at \in Nat /\ request[r].until \in Nat
    BY DEF IngressInv, IngressTypes, Records
  <2>2. request'[r].at <= now' /\ (request[r].pc = "respond" => now' <= request[r].until)
    BY <1>1, <2>1 DEF Sound, At
  <2> QED BY <1>1, <2>1, <2>2 DEF Sound, Sourced
<1>4. Receipts
  BY <1>1 DEF Receipts, IngressInv, Sound, At
<1>5. Attributions
  BY <1>1 DEF Attributions
<1> QED BY <1>2, <1>3, <1>4, <1>5 DEF Outcome, IngressInv

LEMMA StutterStep ==
  ASSUME IngressInv, UNCHANGED ingressVars
  PROVE  Outcome
<1>1. UNCHANGED <<now, account, changes, recorded, request>>
  BY DEF ingressVars
<1>2. IngressInv'
  BY <1>1 DEF IngressInv, IngressTypes, Sound, Sourced
<1>3. Receipts /\ Attributions
  BY <1>1 DEF Receipts, Attributions, IngressInv, Sound, At
<1> QED BY <1>2, <1>3 DEF Outcome

LEMMA Steps ==
  ASSUME IngressInv, [IngressNext]_ingressVars
  PROVE  Outcome
<1>1. ASSUME NEW r \in Requests, Step(r)
      PROVE  Outcome
  BY <1>1, ReadingStep, DiscordStep, TwitchStep DEF Step
<1>2. CASE Change
  BY <1>2, ChangeStep
<1> QED BY <1>1, <1>2, TickStep, StutterStep DEF IngressNext

LEMMA Initial ==
  ASSUME IngressInit
  PROVE  IngressInv
<1>1. IngressTypes
  BY Shapes DEF IngressInit, IngressTypes, States
<1>2. \A r \in Requests : request[r] = Waiting
  BY DEF IngressInit
<1> QED BY <1>1, <1>2, Shapes DEF IngressInv, IngressTypes, Sound, Closed

-----------------------------------------------------------------------------
\* What open requests know of the account, of their delivery and of the time, at every
\* moment (the handlers of ingressHandlers).
THEOREM RequestsSound == IngressSpec => []IngressInv
<1>1. IngressInv /\ [IngressNext]_ingressVars => IngressInv'
  BY Steps DEF Outcome
<1> QED BY <1>1, Initial, PTL DEF IngressSpec

\* For any number of deliveries and requests, changes of the channel and lost answers, a
\* command that Twitch is not to repeat is with the tenant or was not the channel's (twitch).
THEOREM NothingLostInSilence == IngressSpec => Acknowledged
<1>1. IngressInv /\ [IngressNext]_ingressVars =>
        [\A r \in Requests : request'[r].reply = "204" /\ ~At(r, "done") /\ Content(r).kind = "command"
           => \/ recorded'[request[r].delivery] # {}
              \/ \E state \in request[r].seen : state.subscription # Content(r).subscription]_ingressVars
  BY Steps DEF Outcome, Receipts
<1> QED BY <1>1, RequestsSound, PTL DEF IngressSpec, Acknowledged

\* However the channel changes between the calls of a notification, the tenant gets its
\* command for an installation that it belonged to (observeSubscription, acceptTwitch).
THEOREM CommandsAttributed == IngressSpec => Attributed
<1>1. IngressInv /\ [IngressNext]_ingressVars =>
        [\A d \in Deliveries : recorded'[d] # recorded[d]
           => /\ Delivery[d].genuine /\ Delivery[d].kind = "command"
              /\ \E r \in Requests : /\ request[r].delivery = d
                                     /\ recorded'[d] \subseteq request[r].seen
              /\ \A source \in recorded'[d] : source.subscription = Delivery[d].subscription]_ingressVars
  BY Steps DEF Outcome, Attributions
<1> QED BY <1>1, RequestsSound, PTL DEF IngressSpec, Attributed

\* For any policy, no wait of a Discord request lasts longer than the limit since its
\* receipt (discord, respondDiscord and suggest).
THEOREM WaitsEnd == IngressSpec => []InTime
<1>1. IngressInv => InTime
  <2> SUFFICES ASSUME IngressInv, NEW r \in Requests, At(r, "respond")
               PROVE  now <= request[r].at + RpcMs
    BY DEF InTime
  <2>1. /\ Sound(request[r]) /\ now \in Nat /\ request[r].at \in Nat /\ request[r].until \in Nat
    BY DEF IngressInv, IngressTypes, Records
  <2> QED BY <2>1, IngressAssumption DEF Sound, At
<1> QED BY <1>1, RequestsSound, PTL

-----------------------------------------------------------------------------
(***************************************************************************)
(* Website, for any sets of visits and channels and any bounds.  The       *)
(* invariant says what the page's request id stands for: no request of a   *)
(* later id exists, the page waits for one Command at most and only on     *)
(* /connect, and an answer under the current id was given after the page   *)
(* had asked.                                                              *)
(***************************************************************************)
Entries == [phase : {"none", "pending", "member", "left", "failed"},
            channel : Channels \cup {NoChannel}]

DataTypes == [kind : {"idle", "loading", "refreshing", "success", "stale", "failure"},
              data : Statuses]

Pages == [route : {"connect", "home"}, enrollment : DataTypes,
          leave : {"idle", "loading", "success", "failure"},
          requestId : 0..MaxRequest, since : Nat]

RequestTypes == [kind : {"none", "check", "leave"}, session : Visits \cup {NoVisit},
             pc : {"none", "running", "queued", "over"},
             reply : [kind : {"absent", "unavailable", "status"}, status : Statuses]]

VisitTypes == [pc : {"idle", "begin", "begun", "consent", "callback", "over"},
               cookie : Visits \cup {NoVisit}, channel : Channels \cup {NoChannel}]

AccountType ==
  /\ entries \in [Visits -> Entries]
  /\ installed \subseteq Channels
  /\ version \in Nat /\ removals \in Nat
  /\ cookie \in Visits \cup {NoVisit}
  /\ visit \in [Visits -> VisitTypes]

\* The page asks only on /connect, and for one thing at a time.
WaitsOnce(p) ==
  /\ Waits(p) => p.route = "connect" /\ p.requestId > 0
  /\ ~(Pending(p.enrollment) /\ p.leave = "loading")

\* Request ids are handed out in order, and a started request is a check or a leave.
Drawn(p, rs) ==
  \A r \in 1..MaxRequest :
    /\ r > p.requestId => rs[r].pc = "none"
    /\ rs[r].pc \in {"running", "queued"} => rs[r].kind \in {"check", "leave"}

\* OneCommand of any page and requests.
Commands(p, rs) ==
  \A r \in 1..MaxRequest :
    /\ rs[r].pc = "running" => Waits(p) /\ r = p.requestId
    /\ Waits(p) /\ r = p.requestId =>
         /\ rs[r].pc \in {"running", "queued"}
         /\ IF rs[r].kind = "leave" THEN p.leave = "loading" ELSE Pending(p.enrollment)

\* What was answered under the current id was said after the page asked.
AnswersFresh(p, rs) ==
  /\ p.since <= version
  /\ \A r \in 1..MaxRequest :
       r = p.requestId /\ rs[r].pc = "queued" /\ rs[r].reply.kind = "status"
         => rs[r].reply.status.version >= p.since

Consistent(p, rs) ==
  /\ p \in Pages /\ rs \in [1..MaxRequest -> RequestTypes]
  /\ WaitsOnce(p) /\ Drawn(p, rs) /\ Commands(p, rs) /\ AnswersFresh(p, rs)

PageInv ==
  /\ AccountType
  /\ serving \subseteq 1..MaxRequest
  /\ Consistent(page, requests)

-----------------------------------------------------------------------------
(***************************************************************************)
(* The account and the visits: they leave the page alone.                  *)
(***************************************************************************)
Visiting ==
  \/ \E v \in Visits :
       \/ Begin(v) \/ ServeBegin(v) \/ Redirect(v) \/ ServeCallback(v)
       \/ \E c \in Channels \cup {NoChannel} : Consent(v, c)
  \/ \E c \in Channels : Remove(c)
  \/ \E s \in Visits : Expire(s)

LEMMA LeftType ==
  ASSUME AccountType, NEW c \in Channels PROVE Left(c) \in [Visits -> Entries]
  BY DEF AccountType, Left, Entries, InPhase

LEMMA EnrolledType ==
  ASSUME AccountType, NEW s \in Visits, NEW c \in Channels
  PROVE  Enrolled(s, c) \in [Visits -> Entries]
  BY DEF AccountType, Enrolled, Entries, InPhase, NoEntry

LEMMA EndedType ==
  ASSUME AccountType, NEW v \in Visits PROVE EndVisit(v) \in [Visits -> VisitTypes]
  BY DEF AccountType, EndVisit, VisitTypes, Visit

LEMMA VisitingAccount ==
  ASSUME AccountType, Visiting PROVE AccountType' /\ version' >= version
<1>1. ASSUME NEW v \in Visits, Begin(v) PROVE AccountType' /\ version' >= version
  BY <1>1 DEF Begin, AccountType, accountVars, Visit, VisitTypes
<1>2. ASSUME NEW v \in Visits, ServeBegin(v) PROVE AccountType' /\ version' >= version
  <2>1. CASE visit' = EndVisit(v) /\ UNCHANGED <<entries, installed, version>>
    BY <1>2, <2>1, EndedType DEF ServeBegin, AccountType
  <2>2. CASE /\ Changed([s \in Visits |-> IF s = v THEN InPhase("pending", NoChannel)
                                          ELSE IF s = visit[v].cookie THEN NoEntry ELSE entries[s]],
                        installed)
             /\ visit' = [visit EXCEPT ![v].pc = "begun"]
    <3>1. entries' \in [Visits -> Entries]
      BY <2>2 DEF Changed, AccountType, InPhase, NoEntry, Entries
    <3>2. visit' \in [Visits -> VisitTypes]
      BY <2>2 DEF AccountType, VisitTypes
    <3>3. QED
      BY <1>2, <2>2, <3>1, <3>2 DEF ServeBegin, Changed, AccountType
  <2>3. QED
    BY <1>2, <2>1, <2>2 DEF ServeBegin
<1>3. ASSUME NEW v \in Visits, Redirect(v) PROVE AccountType' /\ version' >= version
  <2>1. visit' \in [Visits -> VisitTypes]
    <3>1. CASE visit' = [visit EXCEPT ![v].pc = "consent"]
      BY <3>1 DEF AccountType, VisitTypes
    <3>2. CASE visit' = EndVisit(v)
      BY <3>2, EndedType
    <3>3. QED
      BY <1>3, <3>1, <3>2 DEF Redirect
  <2>2. QED
    BY <1>3, <2>1 DEF Redirect, AccountType, accountVars
<1>4. ASSUME NEW v \in Visits, ServeCallback(v) PROVE AccountType' /\ version' >= version
  <2>1. visit' \in [Visits -> VisitTypes]
    BY <1>4, EndedType DEF ServeCallback
  <2>2. visit[v].cookie \in Visits \cup {NoVisit} /\ visit[v].channel \in Channels \cup {NoChannel}
    BY DEF AccountType, VisitTypes
  <2>3. /\ entries' \in [Visits -> Entries] /\ installed' \subseteq Channels
        /\ version' \in Nat /\ version' >= version
    <3>1. CASE UNCHANGED <<entries, installed, version>>
      BY <3>1 DEF AccountType
    <3>2. CASE Changed([entries EXCEPT ![visit[v].cookie] = InPhase("failed", NoChannel)], installed)
      <4>1. InPhase("failed", NoChannel) \in Entries
        BY DEF Entries, InPhase
      <4>2. entries' \in [Visits -> Entries]
        BY <3>2, <4>1 DEF AccountType, Changed
      <4>3. QED
        BY <3>2, <4>2 DEF AccountType, Changed
    <3>3. CASE /\ visit[v].cookie \in Visits /\ visit[v].channel \in Channels
               /\ Changed(Enrolled(visit[v].cookie, visit[v].channel),
                          installed \cup {visit[v].channel})
      BY <3>3, EnrolledType DEF AccountType, Changed
    <3>4. QED
      BY <1>4, <2>2, <3>1, <3>2, <3>3 DEF ServeCallback
  <2>4. QED
    BY <1>4, <2>1, <2>3 DEF ServeCallback, AccountType
<1>5. ASSUME NEW v \in Visits, NEW c \in Channels \cup {NoChannel}, Consent(v, c)
      PROVE AccountType' /\ version' >= version
  BY <1>5 DEF Consent, AccountType, accountVars, Visit, VisitTypes
<1>6. ASSUME NEW c \in Channels, Remove(c) PROVE AccountType' /\ version' >= version
  BY <1>6, LeftType DEF Remove, AccountType, Changed
<1>7. ASSUME NEW s \in Visits, Expire(s) PROVE AccountType' /\ version' >= version
  <2>1. entries' \in [Visits -> Entries]
    BY <1>7 DEF Expire, Changed, AccountType, Entries, NoEntry
  <2>2. QED
    BY <1>7, <2>1 DEF Expire, AccountType, Changed
<1>8. QED
  BY <1>1, <1>2, <1>3, <1>4, <1>5, <1>6, <1>7 DEF Visiting

LEMMA VisitingInv == ASSUME PageInv, Visiting PROVE PageInv'
<1>1. UNCHANGED browser
  BY DEF Visiting, Begin, ServeBegin, Redirect, ServeCallback, Consent, Remove, Expire
<1>2. AccountType' /\ version' >= version
  BY VisitingAccount DEF PageInv
<1>3. page.since \in Nat /\ version \in Nat /\ version' \in Nat
  BY <1>2 DEF PageInv, Consistent, AccountType, Pages
<1>4. AnswersFresh(page, requests)'
  BY <1>1, <1>2, <1>3 DEF PageInv, Consistent, AnswersFresh, browser
<1>5. QED
  BY <1>1, <1>2, <1>4 DEF PageInv, Consistent, WaitsOnce, Drawn, Commands, browser, Waits, Pending

-----------------------------------------------------------------------------
(***************************************************************************)
(* The page.                                                               *)
(***************************************************************************)
LEMMA DataTyped ==
  ASSUME NEW d \in DataTypes
  PROVE  Revalidated(d) \in DataTypes /\ Settled(d) \in DataTypes /\ Kept(d) \in DataTypes
         /\ GivenUp(d) \in DataTypes
<1>1. NoStatus \in Statuses
  BY DEF NoStatus, Statuses
<1>2. QED
  BY <1>1 DEF DataTypes, Revalidated, Settled, Kept, GivenUp, Data

LEMMA RunningTyped ==
  ASSUME AccountType, NEW kind \in {"check", "leave"} PROVE Running(kind) \in RequestTypes
<1>1. NoStatus \in Statuses
  BY DEF NoStatus, Statuses
<1>2. QED
  BY <1>1 DEF AccountType, RequestTypes, Running, Unavailable

\* A check started on a consistent page leaves a consistent page.
LEMMA StartCheckInv ==
  ASSUME PageInv, NEW p, NEW rs, Consistent(p, rs), p.requestId < MaxRequest,
         StartCheck(p, rs), UNCHANGED <<accountVars, cookie, visit>>
  PROVE  PageInv'
<1>1. AccountType' /\ version' = version /\ version \in Nat
  BY DEF PageInv, AccountType, accountVars
<1>2. CASE ~MayCheck(p)
  BY <1>1, <1>2 DEF StartCheck, PageInv, Consistent, AnswersFresh
<1>3. CASE MayCheck(p)
  <2> DEFINE r == p.requestId + 1
  <2>1. p \in Pages /\ r \in 1..MaxRequest
    BY WebsiteAssumption DEF Consistent, Pages
  <2>2. page' = [p EXCEPT !.enrollment = Revalidated(p.enrollment), !.requestId = r,
                          !.since = version]
    BY <1>3 DEF StartCheck
  <2>3. requests' = [rs EXCEPT ![r] = Running("check")] /\ serving' = serving \cup {r}
    BY <1>3 DEF StartCheck
  <2>4. page' \in Pages
    <3>1. Revalidated(p.enrollment) \in DataTypes
      BY <2>1, DataTyped DEF Pages
    <3>2. r \in 0..MaxRequest
      BY <2>1
    <3>3. page' = [route |-> p.route, enrollment |-> Revalidated(p.enrollment), leave |-> p.leave,
                   requestId |-> r, since |-> version]
      BY <2>1, <2>2 DEF Pages
    <3>4. QED
      BY <1>1, <2>1, <3>1, <3>2, <3>3 DEF Pages
  <2>5. requests' \in [1..MaxRequest -> RequestTypes]
    BY <2>1, <2>3, RunningTyped DEF Consistent, PageInv
  <2>6. /\ Pending(page'.enrollment) /\ page'.leave # "loading" /\ page'.route = "connect"
        /\ page'.requestId = r /\ page'.since = version
    BY <1>3, <2>1, <2>2 DEF Pages, DataTypes, Pending, Revalidated, Data, MayCheck
  <2>7. \A x \in 1..MaxRequest : requests'[x] = IF x = r THEN Running("check") ELSE rs[x]
    BY <2>3 DEF Consistent
  <2>8. ~Waits(p)
    BY <1>3 DEF MayCheck, Waits
  <2>9. WaitsOnce(page)'
    BY <2>1, <2>6 DEF WaitsOnce
  <2>10. Drawn(page, requests)'
    BY <2>1, <2>6, <2>7 DEF Drawn, Consistent, Running, Pages
  <2>11. Commands(page, requests)'
    BY <2>1, <2>6, <2>7, <2>8 DEF Commands, Consistent, Running, Waits
  <2>12. AnswersFresh(page, requests)'
    BY <1>1, <2>1, <2>6, <2>7 DEF AnswersFresh, Running
  <2>13. serving' \subseteq 1..MaxRequest
    BY <2>1, <2>3 DEF PageInv
  <2>14. QED
    BY <1>1, <2>4, <2>5, <2>9, <2>10, <2>11, <2>12, <2>13 DEF PageInv, Consistent
<1>4. QED
  BY <1>2, <1>3

LEMMA CheckInv == ASSUME PageInv, ClickedCheckStatus PROVE PageInv'
  BY StartCheckInv DEF ClickedCheckStatus, PageInv

\* What is left of the requests when the one the page waits for is given up.
LEMMA InterruptedTyped ==
  ASSUME NEW rs \in [1..MaxRequest -> RequestTypes], NEW r \in 1..MaxRequest
  PROVE  /\ Interrupted(rs, r) \in [1..MaxRequest -> RequestTypes]
         /\ \A x \in 1..MaxRequest \ {r} : Interrupted(rs, r)[x] = rs[x]
         /\ Interrupted(rs, r)[r].pc # "running"
         /\ Interrupted(rs, r)[r].pc = "queued" => rs[r].pc = "queued"
         /\ Interrupted(rs, r)[r].kind = rs[r].kind
         /\ Interrupted(rs, r)[r].pc \in {"over", rs[r].pc}
         /\ rs[r].pc # "running" => Interrupted(rs, r) = rs
<1>1. Unavailable \in [kind : {"absent", "unavailable", "status"}, status : Statuses]
  BY DEF Unavailable, NoStatus, Statuses
<1>2. rs[r] \in RequestTypes
  OBVIOUS
<1>3. CASE rs[r].pc = "running"
  <2>1. Interrupted(rs, r) = [rs EXCEPT ![r] = [rs[r] EXCEPT !.pc = "over", !.reply = Unavailable]]
    BY <1>2, <1>3 DEF Interrupted, Over, RequestTypes
  <2>2. [rs[r] EXCEPT !.pc = "over", !.reply = Unavailable] \in RequestTypes
    BY <1>1, <1>2 DEF RequestTypes
  <2>3. QED
    BY <1>2, <1>3, <2>1, <2>2 DEF RequestTypes
<1>4. CASE rs[r].pc # "running"
  BY <1>4 DEF Interrupted
<1>5. QED
  BY <1>3, <1>4

\* The requests once the page has stopped waiting.
LEMMA GivenUpRequests ==
  ASSUME PageInv, NEW rs,
         rs = IF Waits(page) THEN Interrupted(requests, page.requestId) ELSE requests
  PROVE  /\ rs \in [1..MaxRequest -> RequestTypes]
         /\ \A r \in 1..MaxRequest : rs[r].pc # "running"
         /\ Drawn(page, rs)
<1>1. page.requestId \in 0..MaxRequest /\ requests \in [1..MaxRequest -> RequestTypes]
  BY DEF PageInv, Consistent, Pages
<1>2. CASE ~Waits(page)
  BY <1>1, <1>2 DEF PageInv, Consistent, Commands
<1>3. CASE Waits(page)
  <2> DEFINE r == page.requestId
  <2>1. r \in 1..MaxRequest
    BY <1>1, <1>3 DEF PageInv, Consistent, WaitsOnce
  <2>2. rs = Interrupted(requests, r)
    BY <1>3
  <2> DEFINE left == Interrupted(requests, r)
  <2>6. /\ left \in [1..MaxRequest -> RequestTypes]
        /\ \A x \in 1..MaxRequest \ {r} : left[x] = requests[x]
        /\ left[r].pc # "running"
        /\ left[r].pc = "queued" => requests[r].pc = "queued"
        /\ left[r].kind = requests[r].kind
    BY <1>1, <2>1, InterruptedTyped
  <2>3. \A x \in 1..MaxRequest : rs[x].pc # "running"
    <3>1. \A x \in 1..MaxRequest \ {r} : requests[x].pc # "running"
      BY DEF PageInv, Consistent, Commands
    <3>2. rs[r].pc # "running" /\ \A x \in 1..MaxRequest \ {r} : rs[x] = requests[x]
      BY <2>1, <2>2, <2>6
    <3>3. QED
      BY <3>1, <3>2
  <2>4. Drawn(page, rs)
    <3>1. Drawn(page, requests) /\ page.requestId = r
      BY DEF PageInv, Consistent
    <3>2. \A x \in 1..MaxRequest \ {r} : rs[x] = requests[x]
      BY <2>1, <2>2, <2>6
    <3>3. rs[r].kind = requests[r].kind /\ (rs[r].pc = "queued" => requests[r].pc = "queued")
          /\ rs[r].pc # "running"
      BY <2>1, <2>2, <2>6
    <3>4. QED
      BY <2>1, <3>1, <3>2, <3>3 DEF Drawn
  <2>5. QED
    BY <2>2, <2>3, <2>4, <2>6
<1>4. QED
  BY <1>2, <1>3

LEMMA UrlInv ==
  ASSUME PageInv, NEW route \in {"connect", "home"}, ChangedUrl(route) PROVE PageInv'
<1> DEFINE rs == IF Waits(page) THEN Interrupted(requests, page.requestId) ELSE requests
<1>1. page \in Pages /\ page.requestId + 2 <= MaxRequest
  BY DEF PageInv, Consistent, ChangedUrl
<1>a. PICK next : /\ next = [page EXCEPT !.route = route, !.leave = "idle",
                                         !.requestId = page.requestId + 1,
                                         !.enrollment = Kept(page.enrollment)]
                  /\ StartCheck(next, rs)
  BY DEF ChangedUrl
<1>2. next = [route |-> route, enrollment |-> Kept(page.enrollment), leave |-> "idle",
              requestId |-> page.requestId + 1, since |-> page.since]
  BY <1>1, <1>a DEF Pages
<1>3. Kept(page.enrollment) \in DataTypes /\ ~Pending(Kept(page.enrollment))
  BY <1>1, DataTyped DEF Pages, Kept, Data, Pending
<1>4. page.requestId \in Nat /\ page.since \in Nat /\ MaxRequest \in Nat
  BY <1>1, WebsiteAssumption DEF Pages
<1>5. next \in Pages
  <2>1. page.requestId + 1 \in 0..MaxRequest
    BY <1>1, <1>4
  <2>2. QED
    BY <1>2, <1>3, <1>4, <2>1 DEF Pages
<1>6. /\ rs \in [1..MaxRequest -> RequestTypes] /\ Drawn(page, rs)
      /\ \A r \in 1..MaxRequest : rs[r].pc # "running"
  BY GivenUpRequests
<1>7. ~Waits(next) /\ WaitsOnce(next)
  BY <1>2, <1>3 DEF Waits, WaitsOnce
<1>8. \A r \in 1..MaxRequest : r >= next.requestId => rs[r].pc = "none"
  BY <1>2, <1>4, <1>6 DEF Drawn
<1>9. Drawn(next, rs) /\ Commands(next, rs)
  BY <1>2, <1>4, <1>6, <1>7, <1>8 DEF Drawn, Commands
<1>10. AnswersFresh(next, rs)
  <2>1. page.since <= version
    BY DEF PageInv, Consistent, AnswersFresh
  <2>2. QED
    BY <1>2, <1>4, <1>8, <2>1 DEF AnswersFresh
<1>11. StartCheck(next, rs) /\ UNCHANGED <<accountVars, cookie, visit>>
  BY <1>a DEF ChangedUrl
<1>12. next.requestId < MaxRequest
  BY <1>1, <1>2, <1>4
<1> HIDE DEF rs
<1>13. QED
  BY <1>5, <1>6, <1>7, <1>9, <1>10, <1>11, <1>12, StartCheckInv DEF Consistent

LEMMA LeaveInv == ASSUME PageInv, ClickedLeaveChannel PROVE PageInv'
<1> DEFINE r == page.requestId + 1
           rs == IF Waits(page) THEN Interrupted(requests, page.requestId) ELSE requests
<1>1. page \in Pages /\ r \in 1..MaxRequest /\ AccountType
  BY WebsiteAssumption DEF PageInv, Consistent, ClickedLeaveChannel, Pages
<1>2. page.route = "connect" /\ page.leave # "loading"
  BY DEF ClickedLeaveChannel
<1>3. Waits(page) <=> Pending(page.enrollment)
  BY <1>2 DEF Waits
<1>4. page' = [page EXCEPT !.requestId = r, !.leave = "loading",
                           !.enrollment = GivenUp(page.enrollment), !.since = version]
  BY DEF ClickedLeaveChannel
<1>5. requests' = [rs EXCEPT ![r] = Running("leave")] /\ serving' = serving \cup {r}
  BY <1>3 DEF ClickedLeaveChannel
<1>6. AccountType' /\ version' = version /\ version \in Nat
  BY DEF ClickedLeaveChannel, PageInv, AccountType, accountVars
<1>7. page' = [route |-> "connect", enrollment |-> GivenUp(page.enrollment), leave |-> "loading",
               requestId |-> r, since |-> version]
  BY <1>1, <1>2, <1>4 DEF Pages
<1>8. GivenUp(page.enrollment) \in DataTypes /\ ~Pending(GivenUp(page.enrollment))
  BY <1>1, DataTyped DEF Pages, GivenUp, Data, Pending
<1>9. page' \in Pages
  <2>1. r \in 0..MaxRequest
    BY <1>1
  <2>2. QED
    BY <1>6, <1>7, <1>8, <2>1 DEF Pages
<1>10. /\ rs \in [1..MaxRequest -> RequestTypes] /\ Drawn(page, rs)
       /\ \A x \in 1..MaxRequest : rs[x].pc # "running"
  BY GivenUpRequests
<1> HIDE DEF rs
<1>11. requests' \in [1..MaxRequest -> RequestTypes]
  BY <1>1, <1>5, <1>10, RunningTyped
<1>12. \A x \in 1..MaxRequest : requests'[x] = IF x = r THEN Running("leave") ELSE rs[x]
  BY <1>5, <1>10
<1>13. page.requestId \in Nat
  BY <1>1 DEF Pages
<1>14. Drawn(page, requests)'
  BY <1>7, <1>10, <1>12, <1>13 DEF Drawn, Running
<1>15. WaitsOnce(page)' /\ Waits(page)'
  BY <1>7, <1>8, <1>13 DEF WaitsOnce, Waits
<1>16. Commands(page, requests)'
  BY <1>7, <1>10, <1>12, <1>13, <1>15 DEF Commands, Running
<1>17. AnswersFresh(page, requests)'
  BY <1>6, <1>7, <1>12, <1>13 DEF AnswersFresh, Running
<1>18. QED
  BY <1>1, <1>5, <1>6, <1>9, <1>11, <1>14, <1>15, <1>16, <1>17 DEF PageInv, Consistent
-----------------------------------------------------------------------------
(***************************************************************************)
(* The requests: they change one of them, and the account may move on.     *)
(***************************************************************************)
Replies == [kind : {"absent", "unavailable", "status"}, status : Statuses]

\* A reply that may be given now: what it says of the account is of now or later.
GivenNow(reply) == reply.kind = "status" => reply.status.version >= version

LEMMA ReplyTypes ==
  /\ Absent \in Replies /\ Unavailable \in Replies /\ GivenNow(Absent) /\ GivenNow(Unavailable)
  /\ \A status \in Statuses : Success(status) \in Replies
  BY DEF Absent, Unavailable, Success, Replies, GivenNow, NoStatus, Statuses

LEMMA StatusTyped ==
  ASSUME AccountType, NEW s \in Visits
  PROVE  StatusOf(s) \in Statuses /\ GivenNow(Success(StatusOf(s)))
<1>1. entries[s].channel \in Channels \cup {NoChannel} /\ version \in Nat
  BY DEF AccountType, Entries
<1>2. StatusOf(s) \in [kind : {"pending", "ready", "left", "failed"},
                      channel : Channels \cup {NoChannel}, version : {version}]
  BY <1>1 DEF StatusOf, EnrollmentStatus
<1>3. QED
  BY <1>1, <1>2 DEF Statuses, GivenNow, Success

\* An answer that reaches its Command leaves the page consistent.
LEMMA AnsweredInv ==
  ASSUME PageInv, NEW r \in 1..MaxRequest, NEW reply \in Replies, GivenNow(reply),
         Answered(r, reply), UNCHANGED page, AccountType', version' >= version,
         serving' \subseteq serving
  PROVE  PageInv'
<1>1. page \in Pages /\ requests \in [1..MaxRequest -> RequestTypes] /\ version \in Nat /\ version' \in Nat
  BY DEF PageInv, Consistent, AccountType
<1>2. page.since \in Nat /\ page.since <= version
  BY <1>1 DEF PageInv, Consistent, AnswersFresh, Pages
<1>3. CASE requests[r].pc # "running"
  <2>1. requests' = requests
    BY <1>3 DEF Answered
  <2>2. AnswersFresh(page, requests)'
    BY <1>1, <1>2, <2>1 DEF PageInv, Consistent, AnswersFresh
  <2>3. QED
    BY <2>1, <2>2 DEF PageInv, Consistent, WaitsOnce, Drawn, Commands, Waits, Pending
<1>4. CASE requests[r].pc = "running"
  <2> DEFINE q == [requests[r] EXCEPT !.pc = "queued", !.reply = reply]
  <2>1. requests[r] \in RequestTypes
    BY <1>1
  <2>2. /\ q \in RequestTypes /\ q.pc = "queued" /\ q.reply = reply /\ q.kind = requests[r].kind
    BY <2>1 DEF RequestTypes, Replies
  <2>3. requests' = [requests EXCEPT ![r] = q]
    BY <1>4 DEF Answered
  <2> HIDE DEF q
  <2>4. /\ requests' \in [1..MaxRequest -> RequestTypes]
        /\ \A x \in 1..MaxRequest : requests'[x] = IF x = r THEN q ELSE requests[x]
    BY <1>1, <2>2, <2>3
  <2>5. Waits(page) /\ r = page.requestId
    BY <1>4 DEF PageInv, Consistent, Commands
  <2>6. AnswersFresh(page, requests)'
    <3>1. reply.kind = "status" => reply.status.version \in Nat
      BY DEF Replies, Statuses
    <3>2. GivenNow(reply)
      OBVIOUS
    <3>3. q.reply.kind = "status" => q.reply.status.version >= page.since
      BY <1>1, <1>2, <2>2, <3>1, <3>2 DEF GivenNow
    <3>4. QED
      BY <1>1, <1>2, <2>4, <2>5, <3>3 DEF AnswersFresh
  <2>7. Drawn(page, requests)'
    BY <1>4, <2>2, <2>4 DEF PageInv, Consistent, Drawn
  <2>8. Commands(page, requests)'
    BY <1>4, <2>2, <2>4, <2>5 DEF PageInv, Consistent, Commands, Waits, Pending
  <2>9. QED
    BY <2>4, <2>6, <2>7, <2>8 DEF PageInv, Consistent, WaitsOnce, Waits, Pending
<1>5. QED
  BY <1>3, <1>4

LEMMA TimesOutInv ==
  ASSUME PageInv, NEW r \in 1..MaxRequest, TimesOut(r) PROVE PageInv'
<1>1. AccountType' /\ version' >= version
  BY DEF PageInv, AccountType, TimesOut, accountVars
<1>2. QED
  BY <1>1, AnsweredInv, ReplyTypes DEF TimesOut

LEMMA ServeCheckInv ==
  ASSUME PageInv, NEW r \in 1..MaxRequest, ServeCheck(r) PROVE PageInv'
<1>1. AccountType' /\ version' >= version
  BY DEF PageInv, AccountType, ServeCheck, accountVars
<1>2. requests[r].session \in Visits \cup {NoVisit}
  BY DEF PageInv, Consistent, RequestTypes
<1>3. PICK reply \in Replies : GivenNow(reply) /\ Answered(r, reply)
  BY <1>2, ReplyTypes, StatusTyped DEF ServeCheck, PageInv
<1>4. QED
  BY <1>1, <1>3, AnsweredInv DEF ServeCheck

LEMMA ServeLeaveInv ==
  ASSUME PageInv, NEW r \in 1..MaxRequest, ServeLeave(r) PROVE PageInv'
<1> DEFINE s == requests[r].session
<1>1. s \in Visits \cup {NoVisit} /\ AccountType /\ version \in Nat
  BY DEF PageInv, Consistent, RequestTypes, AccountType
<1>2. CASE Answered(r, Absent) /\ UNCHANGED <<entries, installed, version>>
  <2>1. AccountType' /\ version' >= version
    BY <1>1, <1>2 DEF AccountType, ServeLeave
  <2>2. QED
    BY <1>2, <2>1, AnsweredInv, ReplyTypes DEF ServeLeave
<1>3. CASE s # NoVisit /\ Answered(r, Success(StatusOf(s))) /\ UNCHANGED <<entries, installed, version>>
  <2>1. AccountType' /\ version' >= version
    BY <1>1, <1>3 DEF AccountType, ServeLeave
  <2>2. Success(StatusOf(s)) \in Replies /\ GivenNow(Success(StatusOf(s)))
    BY <1>1, <1>3, StatusTyped, ReplyTypes
  <2>3. QED
    BY <1>3, <2>1, <2>2, AnsweredInv DEF ServeLeave
<1>4. CASE /\ s # NoVisit /\ StatusOf(s).kind = "ready"
           /\ Changed(Left(entries[s].channel), installed \ {entries[s].channel})
           /\ Answered(r, Success([kind |-> "left", channel |-> entries[s].channel,
                                   version |-> version + 1]))
  <2>1. entries[s].channel \in Channels \cup {NoChannel}
    BY <1>1, <1>4 DEF AccountType, Entries
  <2>2. Left(entries[s].channel) \in [Visits -> Entries]
    BY <1>1, <2>1 DEF Left, AccountType, Entries, InPhase
  <2>3. AccountType' /\ version' >= version
    BY <1>1, <1>4, <2>2 DEF AccountType, ServeLeave, Changed
  <2> DEFINE status == [kind |-> "left", channel |-> entries[s].channel, version |-> version + 1]
  <2>4. status \in Statuses /\ status.version >= version
    BY <1>1, <2>1 DEF Statuses
  <2> HIDE DEF status
  <2>5. Success(status) \in Replies /\ GivenNow(Success(status))
    BY <2>4, ReplyTypes DEF GivenNow, Success
  <2>6. Answered(r, Success(status))
    BY <1>4 DEF status
  <2>7. QED
    BY <2>3, <2>5, <2>6, AnsweredInv DEF ServeLeave
<1>5. QED
  BY <1>2, <1>3, <1>4 DEF ServeLeave
-----------------------------------------------------------------------------
(***************************************************************************)
(* A message of a finished Command.                                        *)
(***************************************************************************)
\* Once its message is handled, the page waits no longer.
LEMMA HandledPage ==
  ASSUME PageInv, NEW r \in 1..MaxRequest, Handle(r)
  PROVE  /\ page' \in Pages /\ page'.requestId = page.requestId /\ page'.since = page.since
         /\ \/ page' = page /\ ~(Waits(page) /\ r = page.requestId)
            \/ ~Waits(page)' /\ r = page.requestId
<1> DEFINE q == requests[r]
<1>1. page \in Pages /\ q \in RequestTypes /\ q.pc = "queued" /\ q.kind \in {"check", "leave"}
  BY DEF PageInv, Consistent, Drawn, Handle
<1>2. q.reply.status \in Statuses
  BY <1>1 DEF RequestTypes
<1>3. NoStatus \in Statuses /\ Settled(page.enrollment) \in DataTypes
  BY <1>1, DataTyped DEF Pages, NoStatus, Statuses
<1>4. \A kind \in {"success", "failure"}, d \in Statuses :
        Data(kind, d) \in DataTypes /\ ~Pending(Data(kind, d))
  BY DEF Data, DataTypes, Pending
<1>5. ~Pending(Settled(page.enrollment))
  BY DEF Settled, Data, Pending
<1>6. CASE q.kind = "check" /\ Current(r) /\ Pending(page.enrollment)
  <2>1. page' = AfterCheck(q.reply)
    BY <1>6 DEF Handle
  <2>2. page.leave # "loading" /\ r = page.requestId
    BY <1>6 DEF PageInv, Consistent, WaitsOnce, Current
  <2>3. PICK d \in DataTypes : ~Pending(d) /\ page' = [page EXCEPT !.enrollment = d]
    BY <1>2, <1>3, <1>4, <1>5, <2>1 DEF AfterCheck
  <2>4. page' = [route |-> page.route, enrollment |-> d, leave |-> page.leave,
                 requestId |-> page.requestId, since |-> page.since]
    BY <1>1, <2>3 DEF Pages
  <2>5. QED
    BY <1>1, <2>2, <2>3, <2>4 DEF Pages, Waits
<1>7. CASE q.kind = "leave" /\ Current(r) /\ page.leave = "loading"
  <2>1. page' = AfterLeave(q.reply)
    BY <1>7 DEF Handle
  <2>2. ~Pending(page.enrollment) /\ r = page.requestId /\ page.enrollment \in DataTypes
    BY <1>1, <1>7 DEF PageInv, Consistent, WaitsOnce, Current, Pages
  <2>3. PICK d \in DataTypes, l \in {"success", "failure"} :
          ~Pending(d) /\ page' = [page EXCEPT !.leave = l, !.enrollment = d]
    <3>1. CASE q.reply.kind = "status"
      BY <1>2, <1>4, <2>1, <3>1 DEF AfterLeave
    <3>2. CASE q.reply.kind = "absent"
      BY <1>3, <1>4, <2>1, <3>2 DEF AfterLeave
    <3>3. CASE q.reply.kind \notin {"status", "absent"}
      <4>1. page' = [page EXCEPT !.leave = "failure"]
        BY <2>1, <3>3 DEF AfterLeave
      <4>2. page' = [page EXCEPT !.leave = "failure", !.enrollment = page.enrollment]
        BY <1>1, <4>1 DEF Pages
      <4>3. QED
        BY <2>2, <4>2
    <3>4. QED
      BY <3>1, <3>2, <3>3
  <2>4. page' = [route |-> page.route, enrollment |-> d, leave |-> l,
                 requestId |-> page.requestId, since |-> page.since]
    BY <1>1, <2>3 DEF Pages
  <2>5. QED
    BY <1>1, <2>2, <2>3, <2>4 DEF Pages, Waits
<1>8. CASE /\ ~(q.kind = "check" /\ Current(r) /\ Pending(page.enrollment))
           /\ ~(q.kind = "leave" /\ Current(r) /\ page.leave = "loading")
  <2>1. page' = page
    BY <1>8 DEF Handle
  <2>2. ~(Waits(page) /\ r = page.requestId)
    BY <1>1, <1>8 DEF PageInv, Consistent, WaitsOnce, Commands, Current
  <2>3. QED
    BY <1>1, <2>1, <2>2
<1>9. QED
  BY <1>6, <1>7, <1>8

LEMMA HandleInv == ASSUME PageInv, NEW r \in 1..MaxRequest, Handle(r) PROVE PageInv'
<1> DEFINE done == [requests[r] EXCEPT !.pc = "over", !.reply = Unavailable]
<1>1. requests[r] \in RequestTypes /\ requests \in [1..MaxRequest -> RequestTypes]
  BY DEF PageInv, Consistent
<1>2. done \in RequestTypes /\ done.pc = "over"
  BY <1>1, ReplyTypes DEF RequestTypes, Replies
<1>3. requests' = [requests EXCEPT ![r] = done]
  BY <1>1 DEF Handle, Over
<1> HIDE DEF done
<1>4. /\ requests' \in [1..MaxRequest -> RequestTypes]
      /\ \A x \in 1..MaxRequest : requests'[x] = IF x = r THEN done ELSE requests[x]
  BY <1>1, <1>2, <1>3
<1>5. /\ page' \in Pages /\ page'.requestId = page.requestId /\ page'.since = page.since
      /\ \/ page' = page /\ ~(Waits(page) /\ r = page.requestId)
         \/ ~Waits(page)' /\ r = page.requestId
  BY HandledPage
<1>6. WaitsOnce(page)'
  BY <1>5 DEF PageInv, Consistent, WaitsOnce, Waits
<1>7. requests[r].pc = "queued"
  BY DEF Handle
<1>8. Drawn(page, requests)'
  BY <1>2, <1>4, <1>5, <1>7 DEF PageInv, Consistent, Drawn
<1>9. Commands(page, requests)'
  <2>1. \A x \in 1..MaxRequest : requests'[x].pc = "running" => x # r /\ requests[x].pc = "running"
    BY <1>2, <1>4
  <2>2. CASE page' = page /\ ~(Waits(page) /\ r = page.requestId)
    BY <1>4, <2>1, <2>2 DEF PageInv, Consistent, Commands, Waits, Pending
  <2>3. CASE ~Waits(page)' /\ r = page.requestId
    BY <2>1, <2>3 DEF PageInv, Consistent, Commands
  <2>4. QED
    BY <1>5, <2>2, <2>3
<1>10. AnswersFresh(page, requests)' /\ AccountType' /\ (serving \subseteq 1..MaxRequest)'
  BY <1>2, <1>4, <1>5 DEF PageInv, Consistent, AnswersFresh, Handle, accountVars, AccountType
<1>11. QED
  BY <1>4, <1>5, <1>6, <1>8, <1>9, <1>10 DEF PageInv, Consistent
-----------------------------------------------------------------------------
(***************************************************************************)
(* The invariant and what follows from it.                                 *)
(***************************************************************************)
LEMMA InitAccount == WebsiteInit => AccountType
<1> SUFFICES ASSUME WebsiteInit PROVE AccountType
  OBVIOUS
<1>1. NoEntry \in Entries /\ \A c \in Channels : InPhase("member", c) \in Entries
  BY DEF NoEntry, InPhase, Entries
<1>2. entries \in [Visits -> Entries] /\ installed \subseteq Channels
  BY <1>1 DEF WebsiteInit
<1>3. Visit("idle", NoVisit, NoChannel) \in VisitTypes /\ Visit("over", NoVisit, NoChannel) \in VisitTypes
  BY DEF Visit, VisitTypes
<1>4. visit \in [Visits -> VisitTypes]
  BY <1>3 DEF WebsiteInit
<1>5. QED
  BY <1>2, <1>4 DEF WebsiteInit, AccountType

LEMMA InitInv == WebsiteInit => PageInv
<1> SUFFICES ASSUME WebsiteInit PROVE PageInv
  OBVIOUS
<1>1. AccountType
  BY InitAccount
<1>2. PICK checking \in BOOLEAN :
        /\ page = [route |-> IF checking THEN "connect" ELSE "home",
                   enrollment |-> Data(IF checking THEN "loading" ELSE "idle", NoStatus),
                   leave |-> "idle", requestId |-> IF checking THEN 1 ELSE 0, since |-> 0]
        /\ requests = [r \in 1..MaxRequest |->
                          IF checking /\ r = 1 THEN Running("check") ELSE NoRequest]
        /\ serving = IF checking THEN {1} ELSE {}
  BY DEF WebsiteInit
<1>3. 1 \in 1..MaxRequest /\ 0 \in 0..MaxRequest /\ 1 \in 0..MaxRequest
  BY WebsiteAssumption
<1>4. Running("check") \in RequestTypes /\ NoRequest \in RequestTypes
  <2>1. NoRequest \in RequestTypes
    BY ReplyTypes DEF NoRequest, RequestTypes, Replies
  <2>2. QED
    BY <1>1, <2>1, RunningTyped
<1>5. requests \in [1..MaxRequest -> RequestTypes] /\ serving \subseteq 1..MaxRequest
  BY <1>2, <1>3, <1>4
<1>6. page \in Pages
  <2>1. NoStatus \in Statuses
    BY DEF NoStatus, Statuses
  <2>2. QED
    BY <1>2, <1>3, <2>1 DEF Pages, Data, DataTypes
<1>7. version = 0
  BY DEF WebsiteInit
<1>8. CASE checking
  <2>1. /\ Pending(page.enrollment) /\ page.leave = "idle" /\ page.route = "connect"
        /\ page.requestId = 1 /\ page.since = 0
    BY <1>2, <1>8 DEF Data, Pending
  <2>2. \A r \in 1..MaxRequest : requests[r] = IF r = 1 THEN Running("check") ELSE NoRequest
    BY <1>2, <1>8
  <2>3. QED
    BY <1>1, <1>5, <1>6, <1>7, <2>1, <2>2
       DEF PageInv, Consistent, WaitsOnce, Drawn, Commands, AnswersFresh, Waits, Running, NoRequest
<1>9. CASE ~checking
  <2>1. ~Waits(page) /\ page.requestId = 0 /\ page.since = 0
    BY <1>2, <1>9 DEF Data, Pending, Waits
  <2>2. \A r \in 1..MaxRequest : requests[r] = NoRequest
    BY <1>2, <1>9
  <2>3. QED
    BY <1>1, <1>5, <1>6, <1>7, <2>1, <2>2
       DEF PageInv, Consistent, WaitsOnce, Drawn, Commands, AnswersFresh, Waits, NoRequest
<1>10. QED
  BY <1>8, <1>9

LEMMA StepInv == PageInv /\ [WebsiteNext]_websiteVars => PageInv'
<1> SUFFICES ASSUME PageInv, [WebsiteNext]_websiteVars PROVE PageInv'
  OBVIOUS
<1>1. CASE UNCHANGED websiteVars
  BY <1>1 DEF websiteVars, PageInv, AccountType, Consistent, WaitsOnce, Drawn, Commands, AnswersFresh,
              Waits, Pending
<1>2. CASE ClickedCheckStatus
  BY <1>2, CheckInv
<1>3. CASE ClickedLeaveChannel
  BY <1>3, LeaveInv
<1>4. CASE \E route \in {"connect", "home"} : ChangedUrl(route)
  BY <1>4, UrlInv
<1>5. CASE \E r \in 1..MaxRequest : Handle(r) \/ ServeCheck(r) \/ ServeLeave(r) \/ TimesOut(r)
  BY <1>5, HandleInv, ServeCheckInv, ServeLeaveInv, TimesOutInv
<1>6. CASE Visiting
  BY <1>6, VisitingInv
<1>7. QED
  BY <1>1, <1>2, <1>3, <1>4, <1>5, <1>6 DEF WebsiteNext, Visiting

\* The invariant of the page: its request id stands for the only Command it waits
\* for, and what comes back under it is fresh.
THEOREM PageConsistent == WebsiteSpec => []PageInv
<1>1. WebsiteInit => PageInv
  BY InitInv
<1>2. PageInv /\ [WebsiteNext]_websiteVars => PageInv'
  BY StepInv
<1>3. QED
  BY <1>1, <1>2, PTL DEF WebsiteSpec

\* The page never runs a second Command, and never waits without one.
THEOREM WaitsForOneCommand == WebsiteSpec => []OneCommand
<1>1. PageInv => OneCommand
  BY DEF PageInv, Consistent, Commands, OneCommand
<1>2. QED
  BY <1>1, PageConsistent, PTL

\* The page takes over nothing that was said before it asked.
THEOREM NothingStaleTaken == WebsiteSpec => AnswersCurrent
<1> DEFINE New == HasData(page'.enrollment) /\ page'.enrollment.data # page.enrollment.data
                      => page'.enrollment.data.version >= page.since
<1>1. ASSUME PageInv, [WebsiteNext]_websiteVars PROVE [New]_websiteVars
  <2>1. page \in Pages /\ page.enrollment \in DataTypes
    BY <1>1 DEF PageInv, Consistent, Pages
  <2>2. ASSUME NEW p \in Pages, NEW rs, StartCheck(p, rs),
               p.enrollment.data = page.enrollment.data
        PROVE  page'.enrollment.data = page.enrollment.data
    <3>1. CASE page' = p
      BY <2>2, <3>1
    <3>2. CASE page' = [p EXCEPT !.enrollment = Revalidated(p.enrollment),
                                 !.requestId = p.requestId + 1, !.since = version]
      <4>1. Revalidated(p.enrollment).data = p.enrollment.data
        BY DEF Revalidated, Data, HasData
      <4>2. page'.enrollment = Revalidated(p.enrollment)
        BY <2>2, <3>2 DEF Pages
      <4>3. QED
        BY <2>2, <4>1, <4>2
    <3>3. QED
      BY <2>2, <3>1, <3>2 DEF StartCheck
  <2>3. CASE ClickedCheckStatus
    BY <2>1, <2>2, <2>3 DEF ClickedCheckStatus
  <2>4. CASE ClickedLeaveChannel
    <3>1. page'.enrollment = GivenUp(page.enrollment)
      BY <2>1, <2>4 DEF ClickedLeaveChannel, Pages
    <3>2. QED
      BY <3>1 DEF GivenUp, Data
  <2>5. ASSUME NEW route \in {"connect", "home"}, ChangedUrl(route) PROVE New
    <3>1. PICK next, rs :
            /\ next = [page EXCEPT !.route = route, !.leave = "idle",
                                   !.requestId = page.requestId + 1,
                                   !.enrollment = Kept(page.enrollment)]
            /\ StartCheck(next, rs) /\ page.requestId + 2 <= MaxRequest
      BY <2>5 DEF ChangedUrl
    <3>2. next = [route |-> route, enrollment |-> Kept(page.enrollment), leave |-> "idle",
                  requestId |-> page.requestId + 1, since |-> page.since]
      BY <2>1, <3>1 DEF Pages
    <3>3. Kept(page.enrollment) \in DataTypes /\ Kept(page.enrollment).data = page.enrollment.data
      BY <2>1, DataTyped DEF Kept, Data, HasData
    <3>4. page.requestId + 1 \in 0..MaxRequest
      BY <2>1, <3>1, WebsiteAssumption DEF Pages
    <3>5. next \in Pages
      BY <2>1, <3>2, <3>3, <3>4 DEF Pages
    <3>6. QED
      BY <2>2, <3>1, <3>2, <3>3, <3>5
  <2>6. ASSUME NEW r \in 1..MaxRequest, Handle(r) PROVE New
    <3> DEFINE q == requests[r]
    <3>1. CASE q.kind = "check" /\ Current(r) /\ Pending(page.enrollment)
      <4>1. page' = AfterCheck(q.reply) /\ r = page.requestId /\ q.pc = "queued"
        BY <2>6, <3>1 DEF Handle, Current
      <4>2. CASE q.reply.kind = "status"
        <5>1. page'.enrollment = Data("success", q.reply.status)
          BY <2>1, <4>1, <4>2 DEF AfterCheck, Pages
        <5>2. QED
          BY <1>1, <4>1, <4>2, <5>1 DEF PageInv, Consistent, AnswersFresh, Data
      <4>3. CASE q.reply.kind = "absent"
        <5>1. page'.enrollment = Data("failure", NoStatus)
          BY <2>1, <4>1, <4>3 DEF AfterCheck, Pages
        <5>2. QED
          BY <5>1 DEF Data, HasData
      <4>4. CASE q.reply.kind \notin {"status", "absent"}
        <5>1. page'.enrollment = Settled(page.enrollment)
          BY <2>1, <4>1, <4>4 DEF AfterCheck, Pages
        <5>2. QED
          BY <5>1 DEF Settled, Data, HasData
      <4>5. QED
        BY <4>2, <4>3, <4>4
    <3>2. CASE /\ ~(q.kind = "check" /\ Current(r) /\ Pending(page.enrollment))
               /\ q.kind = "leave" /\ Current(r) /\ page.leave = "loading"
      <4>1. page' = AfterLeave(q.reply) /\ r = page.requestId /\ q.pc = "queued"
        BY <2>6, <3>2 DEF Handle, Current
      <4>2. CASE q.reply.kind = "status"
        <5>1. page'.enrollment = Data("success", q.reply.status)
          BY <2>1, <4>1, <4>2 DEF AfterLeave, Pages
        <5>2. QED
          BY <1>1, <4>1, <4>2, <5>1 DEF PageInv, Consistent, AnswersFresh, Data
      <4>3. CASE q.reply.kind = "absent"
        <5>1. page'.enrollment = Data("failure", NoStatus)
          BY <2>1, <4>1, <4>3 DEF AfterLeave, Pages
        <5>2. QED
          BY <5>1 DEF Data, HasData
      <4>4. CASE q.reply.kind \notin {"status", "absent"}
        BY <2>1, <4>1, <4>4 DEF AfterLeave, Pages
      <4>5. QED
        BY <4>2, <4>3, <4>4
    <3>3. CASE /\ ~(q.kind = "check" /\ Current(r) /\ Pending(page.enrollment))
               /\ ~(q.kind = "leave" /\ Current(r) /\ page.leave = "loading")
      BY <2>6, <3>3 DEF Handle
    <3>4. QED
      BY <3>1, <3>2, <3>3
  <2>7. ASSUME NEW r \in 1..MaxRequest, ServeCheck(r) \/ ServeLeave(r) \/ TimesOut(r) PROVE New
    BY <2>7 DEF ServeCheck, ServeLeave, TimesOut
  <2>8. CASE Visiting
    BY <2>8 DEF Visiting, Begin, ServeBegin, Redirect, ServeCallback, Consent, Remove, Expire, browser
  <2>9. QED
    BY <1>1, <2>3, <2>4, <2>5, <2>6, <2>7, <2>8 DEF WebsiteNext, Visiting
<1>2. QED
  BY <1>1, PageConsistent, PTL DEF WebsiteSpec, AnswersCurrent

\* Whatever tabs share the cookie, a session gets a channel only by the consent of
\* the visit that began it.
THEOREM ConsentOfOwnVisit == WebsiteSpec => ConsentMatches
<1> DEFINE Own == \A s \in Visits :
              entries[s].phase # "member" /\ entries'[s].phase = "member"
                => visit[s].pc = "callback" /\ visit[s].channel = entries'[s].channel
<1>1. ASSUME PageInv, [WebsiteNext]_websiteVars PROVE [Own]_websiteVars
  <2>1. entries \in [Visits -> Entries]
    BY <1>1 DEF PageInv, AccountType
  <2>2. CASE UNCHANGED entries
    BY <2>2
  <2>3. ASSUME NEW c, entries' = Left(c) PROVE Own
    BY <2>1, <2>3 DEF Left, InPhase
  <2>4. ASSUME NEW v \in Visits, ServeBegin(v) PROVE Own
    BY <2>1, <2>4 DEF ServeBegin, Changed, InPhase, NoEntry
  <2>5. ASSUME NEW v \in Visits, ServeCallback(v) PROVE Own
    <3> DEFINE s == visit[v].cookie
               c == visit[v].channel
    <3>1. visit[v].pc = "callback"
      BY <2>5 DEF ServeCallback
    <3>2. CASE entries' = [entries EXCEPT ![s] = InPhase("failed", NoChannel)]
      BY <2>1, <3>2 DEF InPhase
    <3>3. CASE v = s /\ entries' = Enrolled(s, c)
      BY <3>1, <3>3 DEF Enrolled, InPhase, NoEntry
    <3>4. QED
      BY <2>2, <2>5, <3>2, <3>3 DEF ServeCallback, Bound, Changed
  <2>6. ASSUME NEW s \in Visits, Expire(s) PROVE Own
    BY <2>1, <2>6 DEF Expire, Changed, NoEntry
  <2>7. ASSUME NEW r \in 1..MaxRequest, ServeLeave(r) PROVE Own
    BY <2>2, <2>3, <2>7 DEF ServeLeave, Changed
  <2>8. ASSUME NEW c \in Channels, Remove(c) PROVE Own
    BY <2>3, <2>8 DEF Remove, Changed
  <2>9. CASE \/ UNCHANGED websiteVars
             \/ ClickedCheckStatus \/ ClickedLeaveChannel
             \/ \E route \in {"connect", "home"} : ChangedUrl(route)
             \/ \E r \in 1..MaxRequest : Handle(r) \/ ServeCheck(r) \/ TimesOut(r)
             \/ \E v \in Visits : \/ Begin(v) \/ Redirect(v)
                                  \/ \E c \in Channels \cup {NoChannel} : Consent(v, c)
    BY <2>2, <2>9 DEF websiteVars, accountVars, ClickedCheckStatus, ClickedLeaveChannel, ChangedUrl, Handle,
                      ServeCheck, TimesOut, Begin, Redirect, Consent
  <2>10. QED
    BY <1>1, <2>4, <2>5, <2>6, <2>7, <2>8, <2>9 DEF WebsiteNext
<1>2. QED
  BY <1>1, PageConsistent, PTL DEF WebsiteSpec, ConsentMatches

-----------------------------------------------------------------------------
(***************************************************************************)
(* DiscordSync, for any jobs, revisions, commands and bounds.  The         *)
(* invariant says that only the job that ran last may be under way, that a *)
(* job on its way to an overwrite says it changes the commands, what its   *)
(* attempt has seen, and, as long as nobody else registers commands, what  *)
(* is registered.  An overwrite that is still under way may be late: then  *)
(* it registers the manifest, or what was registered before was not it.    *)
(***************************************************************************)
Stages == {"read", "overwrite", "readback", "final"}
JobPcs == OverPcs \cup Asking \cup {"preflight", "deploy", "wait", "sleep"}
JobRecords == [pc : JobPcs, stage : Stages, attempt : Nat, spent : Nat, until : Nat,
               changed : BOOLEAN]
Notes == [differed : BOOLEAN, live : BOOLEAN]

SyncTypes ==
  /\ last \in Jobs /\ touched \in BOOLEAN
  /\ job \in [Jobs -> JobRecords] /\ put \in [Jobs -> {"none", "sent", "reached"}]
  /\ seen \in [Jobs -> Notes]

InAttempt(x) == x.pc \in Asking \cup {"sleep"}

\* Only the last job is under way, or has an overwrite under way.
OneAtATime ==
  \A j \in Jobs : j # last => job[j].pc \in OverPcs /\ put[j] # "sent"

\* A job that is over has no stage; one that wrote or is about to write says so.
Says ==
  \A j \in Jobs :
    /\ job[j].pc \in OverPcs => job[j].stage = "read"
    /\ job[j].stage = "overwrite" \/ put[j] # "none" \/ j \in wrote => job[j].changed

\* What an attempt has seen.
Saw ==
  \A j \in Jobs :
    /\ job[j].stage = "overwrite" => seen[j].differed
    /\ InAttempt(job[j]) => /\ Live(j) => seen[j].live
                            /\ remote # Desired(j) => seen[j].differed

\* What is registered while the last job runs and afterwards.
Holding ==
  ~touched =>
    /\ put[last] = "sent" \/ job[last].stage = "overwrite"
         => remote # Desired(last) \/ RevisionOf[last] \in kept
    /\ job[last].stage = "final" \/ job[last].pc = "done" => remote = Desired(last)

SyncInv == SyncTypes /\ OneAtATime /\ Says /\ Saw /\ Holding

\* The action of WritesJustified.
Justified ==
  \A j \in Jobs : put[j] # "sent" /\ put'[j] = "sent" => seen[j].differed /\ seen[j].live

(***************************************************************************)
(* The steps of a job's record.                                            *)
(***************************************************************************)
LEMMA FinishedGives ==
  ASSUME NEW state \in JobRecords, NEW pc \in OverPcs
  PROVE  LET x == Finished(state, pc)
         IN  /\ x \in JobRecords /\ x.pc = pc /\ x.stage = "read"
             /\ x.changed = state.changed
  BY DEF Finished, NoJob, JobRecords, JobPcs, Stages, OverPcs, Asking

LEMMA UntilTyped ==
  ASSUME NEW spent \in Nat
  PROVE  RequestUntil(spent) \in Nat
  BY SyncAssumption DEF RequestUntil, SyncAssumption

LEMMA RequestGives ==
  ASSUME NEW state \in JobRecords, NEW pc \in Asking, NEW stage \in Stages
  PROVE  LET x == Request(state, pc, stage)
         IN  /\ x \in JobRecords /\ x.changed = state.changed
             /\ \/ x.pc = "failed" /\ x.stage = "read"
                \/ x.pc = pc /\ x.stage = stage
<1>1. CASE state.spent >= Budget
  <2>1. Request(state, pc, stage) = Finished(state, "failed")
    BY <1>1 DEF Request
  <2>2. "failed" \in OverPcs
    BY DEF OverPcs
  <2> QED
    BY <2>1, <2>2, FinishedGives
<1>2. CASE ~(state.spent >= Budget)
  <2> DEFINE until == RequestUntil(state.spent)
  <2>1. until \in Nat
    BY UntilTyped DEF JobRecords
  <2>2. Request(state, pc, stage)
        = [state EXCEPT !.pc = pc, !.stage = stage, !.until = until]
    BY <1>2 DEF Request
  <2>3. pc \in JobPcs
    BY DEF JobPcs
  <2> HIDE DEF until
  <2> QED
    BY <2>1, <2>2, <2>3 DEF JobRecords
<1> QED
  BY <1>1, <1>2

\* A new attempt reads, unless there is no time for it.
LEMMA AttemptGives ==
  ASSUME NEW state \in JobRecords
  PROVE  LET x == Attempt(state)
         IN  /\ x \in JobRecords /\ x.changed = state.changed /\ x.stage = "read"
             /\ x.pc \in {"failed", "health"}
<1> DEFINE next == [state EXCEPT !.attempt = @ + 1]
<1>1. next \in JobRecords /\ next.changed = state.changed
  BY DEF JobRecords
<1>2. Attempt(state) = Request(next, "health", "read")
  BY DEF Attempt
<1>3. "health" \in Asking /\ "read" \in Stages
  BY DEF Asking, Stages
<1> HIDE DEF next
<1> QED
  BY <1>1, <1>2, <1>3, RequestGives

(***************************************************************************)
(* The steps of a job that change only its record, and those of the bot's  *)
(* health that send an overwrite as well.                                  *)
(***************************************************************************)
JobMoves(j) ==
  /\ job' \in [Jobs -> JobRecords] /\ \A i \in Jobs \ {j} : job'[i] = job[i]
  /\ job[j].changed => job'[j].changed
  /\ job'[j].pc \in OverPcs => job'[j].stage = "read"
  /\ job'[j].pc \notin OverPcs => job[j].pc \notin OverPcs
  /\ InAttempt(job'[j]) => InAttempt(job[j])
  /\ job'[j].stage = "overwrite" => \/ job[j].stage = "overwrite"
                                    \/ /\ InAttempt(job[j]) /\ job'[j].changed
                                       /\ remote # Desired(j)
  /\ job'[j].stage = "final" => job[j].stage = "final" \/ remote = Desired(j)
  /\ job'[j].pc = "done" => job[j].stage = "final" \/ job[j].pc = "done"

Sends(j) ==
  /\ InAttempt(job[j]) /\ job[j].stage = "overwrite" /\ Live(j)
  /\ put' = [put EXCEPT ![j] = "sent"]

Quietly(j) ==
  /\ JobMoves(j) /\ (put' = put \/ Sends(j))
  /\ UNCHANGED <<deployed, remote, kept, last, touched, wrote, seen>>

LEMMA FailedMoves ==
  ASSUME SyncTypes, NEW j \in Jobs, Failed(j), job[j].pc \notin OverPcs
  PROVE  JobMoves(j)
<1>1. job[j] \in JobRecords /\ "failed" \in OverPcs
  BY DEF SyncTypes, OverPcs
<1> DEFINE x == Finished(job[j], "failed")
<1>2. x \in JobRecords /\ x.pc = "failed" /\ x.stage = "read" /\ x.changed = job[j].changed
  BY <1>1, FinishedGives
<1>3. job' = [job EXCEPT ![j] = x]
  BY DEF Failed
<1>4. job' \in [Jobs -> JobRecords] /\ job'[j] = x /\ \A i \in Jobs \ {j} : job'[i] = job[i]
  BY <1>2, <1>3 DEF SyncTypes
<1>5. ~InAttempt(x)
  BY <1>2 DEF InAttempt, Asking
<1> HIDE DEF x
<1> QED
  BY <1>1, <1>2, <1>4, <1>5 DEF JobMoves

LEMMA AgainMoves ==
  ASSUME SyncTypes, NEW j \in Jobs, NEW pause \in Nat, Again(j, pause), job[j].pc \in Asking
  PROVE  JobMoves(j)
<1>1. job[j].pc \notin OverPcs
  BY DEF Asking, OverPcs
<1>2. CASE Failed(j)
  BY <1>1, <1>2, FailedMoves
<1>3. CASE ~Failed(j)
  <2> DEFINE until == job[j].spent + pause
             x == [job[j] EXCEPT !.pc = "sleep", !.until = until]
  <2>1. job[j] \in JobRecords /\ until \in Nat
    BY DEF SyncTypes, JobRecords
  <2>2. job' = [job EXCEPT ![j].pc = "sleep", ![j].until = until]
    BY <1>3 DEF Again
  <2>3. job' = [job EXCEPT ![j] = x]
    BY <2>2 DEF SyncTypes
  <2>4. "sleep" \in JobPcs /\ "sleep" \notin OverPcs
    BY DEF JobPcs, OverPcs, Asking
  <2> HIDE DEF until
  <2>5. /\ x \in JobRecords /\ x.pc = "sleep" /\ x.stage = job[j].stage
        /\ x.changed = job[j].changed
    BY <2>1, <2>4 DEF JobRecords
  <2> HIDE DEF x
  <2>6. job' \in [Jobs -> JobRecords] /\ job'[j] = x /\ \A i \in Jobs \ {j} : job'[i] = job[i]
    BY <2>3, <2>5 DEF SyncTypes
  <2>7. InAttempt(job[j])
    BY DEF InAttempt
  <2> QED
    BY <1>1, <2>4, <2>5, <2>6, <2>7 DEF JobMoves
<1> QED
  BY <1>2, <1>3

\* The next request of an attempt that is not over.
LEMMA RequestMoves ==
  ASSUME SyncTypes, NEW j \in Jobs, InAttempt(job[j]), NEW from \in JobRecords,
         NEW pc \in Asking, NEW stage \in Stages,
         job' = [job EXCEPT ![j] = Request(from, pc, stage)],
         job[j].changed => from.changed,
         stage = "overwrite" => \/ job[j].stage = "overwrite"
                                \/ from.changed /\ remote # Desired(j),
         stage = "final" => job[j].stage = "final" \/ remote = Desired(j)
  PROVE  JobMoves(j)
<1> DEFINE x == Request(from, pc, stage)
<1>1. /\ x \in JobRecords /\ x.changed = from.changed
      /\ \/ x.pc = "failed" /\ x.stage = "read"
         \/ x.pc = pc /\ x.stage = stage
  BY RequestGives
<1> HIDE DEF x
<1>2. job' \in [Jobs -> JobRecords] /\ job'[j] = x /\ \A i \in Jobs \ {j} : job'[i] = job[i]
  BY <1>1 DEF SyncTypes, x
<1>3. job[j].pc \notin OverPcs /\ pc \notin OverPcs
  BY DEF InAttempt, Asking, OverPcs
<1>4. "failed" \in OverPcs /\ pc # "done" /\ "done" # "failed"
  BY DEF OverPcs, Asking
<1>5. x.pc \in OverPcs => x.pc = "failed" /\ x.stage = "read"
  BY <1>1, <1>3
<1> QED
  BY <1>1, <1>2, <1>3, <1>4, <1>5 DEF JobMoves

LEMMA PreflightMoves ==
  ASSUME SyncTypes, NEW j \in Jobs, Preflight(j)
  PROVE  Quietly(j)
<1>1. job[j].pc = "preflight" /\ job[j].pc \notin OverPcs
  BY DEF Preflight, OverPcs
<1>2. CASE job' = [job EXCEPT ![j].pc = "deploy"]
  <2> DEFINE x == [job[j] EXCEPT !.pc = "deploy"]
  <2>1. job[j] \in JobRecords /\ "deploy" \in JobPcs /\ "deploy" \notin OverPcs
    BY DEF SyncTypes, JobPcs, OverPcs
  <2>2. job' = [job EXCEPT ![j] = x]
    BY <1>2 DEF SyncTypes
  <2>3. /\ x \in JobRecords /\ x.pc = "deploy" /\ x.stage = job[j].stage
        /\ x.changed = job[j].changed
    BY <2>1 DEF JobRecords
  <2> HIDE DEF x
  <2>4. job' \in [Jobs -> JobRecords] /\ job'[j] = x /\ \A i \in Jobs \ {j} : job'[i] = job[i]
    BY <2>2, <2>3 DEF SyncTypes
  <2>5. ~InAttempt(x)
    BY <2>3 DEF InAttempt, Asking
  <2>6. JobMoves(j)
    BY <1>1, <2>1, <2>3, <2>4, <2>5 DEF JobMoves
  <2> QED
    BY <2>6 DEF Quietly, Preflight
<1>3. CASE Failed(j)
  BY <1>1, <1>3, FailedMoves DEF Quietly, Preflight
<1> QED
  BY <1>2, <1>3 DEF Preflight

LEMMA HealthMoves ==
  ASSUME SyncTypes, NEW j \in Jobs, Health(j)
  PROVE  Quietly(j)
<1>1. /\ job[j] \in JobRecords /\ job[j].stage \in Stages
      /\ job[j].pc = "health" /\ "health" \in Asking /\ "call" \in Asking
  BY DEF SyncTypes, JobRecords, Health, Asking
<1>2. InAttempt(job[j]) /\ job[j].pc \notin OverPcs
  BY <1>1 DEF InAttempt, OverPcs
<1>3. CASE ~Live(j)
  <2>1. Failed(j)
    BY <1>3 DEF Health
  <2>2. JobMoves(j)
    BY <1>2, <2>1, FailedMoves
  <2>3. job'[j] = Finished(job[j], "failed")
    BY <2>1 DEF Failed, SyncTypes
  <2>4. job'[j].pc = "failed"
    BY <1>1, <2>3, FinishedGives DEF OverPcs
  <2>5. put' = [put EXCEPT ![j] = put[j]]
    BY <2>4 DEF Health
  <2> QED
    BY <2>2, <2>5 DEF Quietly, Health, SyncTypes
<1>4. CASE Live(j) /\ job[j].stage = "final"
  <2> DEFINE x == Finished(job[j], "done")
  <2>1. job' = [job EXCEPT ![j] = x]
    BY <1>4 DEF Health
  <2>2. "done" \in OverPcs
    BY DEF OverPcs
  <2>3. x \in JobRecords /\ x.pc = "done" /\ x.stage = "read" /\ x.changed = job[j].changed
    BY <1>1, <2>2, FinishedGives
  <2> HIDE DEF x
  <2>4. job' \in [Jobs -> JobRecords] /\ job'[j] = x /\ \A i \in Jobs \ {j} : job'[i] = job[i]
    BY <2>1, <2>3 DEF SyncTypes
  <2>5. ~InAttempt(x)
    BY <2>3 DEF InAttempt, Asking
  <2>6. JobMoves(j)
    BY <1>4, <2>2, <2>3, <2>4, <2>5 DEF JobMoves
  <2>7. put' = [put EXCEPT ![j] = put[j]]
    BY <2>3, <2>4 DEF Health
  <2> QED
    BY <2>6, <2>7 DEF Quietly, Health, SyncTypes
<1>5. CASE Live(j) /\ job[j].stage # "final"
  <2>1. job' = [job EXCEPT ![j] = Request(job[j], "call", job[j].stage)]
    BY <1>5 DEF Health
  <2>2. JobMoves(j)
    BY <1>1, <1>2, <1>5, <2>1, RequestMoves
  <2>3. CASE job'[j].pc = "call" /\ job[j].stage = "overwrite"
    <3>1. put' = [put EXCEPT ![j] = "sent"]
      BY <2>3 DEF Health
    <3> QED
      BY <1>2, <1>5, <2>2, <2>3, <3>1 DEF Quietly, Sends, Health
  <2>4. CASE ~(job'[j].pc = "call" /\ job[j].stage = "overwrite")
    <3>1. put' = [put EXCEPT ![j] = put[j]]
      BY <2>4 DEF Health
    <3> QED
      BY <2>2, <3>1 DEF Quietly, Health, SyncTypes
  <2> QED
    BY <2>3, <2>4
<1> QED
  BY <1>3, <1>4, <1>5

LEMMA ReadMoves ==
  ASSUME SyncTypes, NEW j \in Jobs, Read(j)
  PROVE  Quietly(j)
<1>1. /\ job[j] \in JobRecords /\ "health" \in Asking
      /\ "overwrite" \in Stages /\ "final" \in Stages
  BY DEF SyncTypes, Asking, Stages
<1>2. InAttempt(job[j])
  BY DEF Read, InAttempt, Asking
<1>3. CASE remote # Desired(j)
  <2> DEFINE from == [job[j] EXCEPT !.changed = TRUE]
  <2>1. from \in JobRecords /\ from.changed
    BY <1>1 DEF JobRecords
  <2>2. job' = [job EXCEPT ![j] = Request(from, "health", "overwrite")]
    BY <1>3 DEF Read, SyncTypes
  <2> HIDE DEF from
  <2>3. JobMoves(j)
    BY <1>1, <1>2, <1>3, <2>1, <2>2, RequestMoves
  <2> QED
    BY <2>3 DEF Quietly, Read
<1>4. CASE remote = Desired(j)
  <2>1. job' = [job EXCEPT ![j] = Request(job[j], "health", "final")]
    BY <1>4 DEF Read, SyncTypes
  <2>2. JobMoves(j)
    BY <1>1, <1>2, <1>4, <2>1, RequestMoves
  <2> QED
    BY <2>2 DEF Quietly, Read
<1> QED
  BY <1>3, <1>4

LEMMA OverwriteMoves ==
  ASSUME SyncTypes, NEW j \in Jobs, Overwrite(j)
  PROVE  Quietly(j)
<1>1. job[j] \in JobRecords /\ "health" \in Asking /\ "readback" \in Stages
  BY DEF SyncTypes, Asking, Stages
<1>2. InAttempt(job[j])
  BY DEF Overwrite, InAttempt, Asking
<1>3. job' = [job EXCEPT ![j] = Request(job[j], "health", "readback")]
  BY DEF Overwrite, SyncTypes
<1>4. JobMoves(j)
  BY <1>1, <1>2, <1>3, RequestMoves
<1> QED
  BY <1>4 DEF Quietly, Overwrite

LEMMA ReadbackMoves ==
  ASSUME SyncTypes, NEW j \in Jobs, Readback(j)
  PROVE  Quietly(j)
<1>1. job[j] \in JobRecords /\ "health" \in Asking /\ "final" \in Stages
  BY DEF SyncTypes, Asking, Stages
<1>2. InAttempt(job[j]) /\ job[j].pc \notin OverPcs
  BY DEF Readback, InAttempt, Asking, OverPcs
<1>3. CASE Agrees(j)
  <2>1. job' = [job EXCEPT ![j] = Request(job[j], "health", "final")]
    BY <1>3 DEF Readback, SyncTypes
  <2>2. remote = Desired(j)
    BY <1>3 DEF Agrees
  <2>3. JobMoves(j)
    BY <1>1, <1>2, <2>1, <2>2, RequestMoves
  <2> QED
    BY <2>3 DEF Quietly, Readback
<1>4. CASE ~Agrees(j)
  <2>1. Failed(j)
    BY <1>4 DEF Readback
  <2> QED
    BY <1>2, <2>1, FailedMoves DEF Quietly, Readback
<1> QED
  BY <1>3, <1>4

\* What ends a request otherwise, and time.
LEMMA TroubleMoves ==
  ASSUME SyncTypes, NEW j \in Jobs, Transient(j) \/ Refused(j) \/ CallTimesOut(j)
  PROVE  Quietly(j)
<1>1. job[j].pc \in Asking /\ job[j].pc \notin OverPcs
  BY DEF Transient, Refused, CallTimesOut, Asking, OverPcs
<1>2. Delays \cup {Backoff} \subseteq Nat
  BY SyncAssumption DEF SyncAssumption
<1>3. CASE Transient(j)
  <2>1. PICK pause \in Delays \cup {Backoff} : Again(j, pause)
    BY <1>3 DEF Transient
  <2>2. JobMoves(j)
    BY <1>1, <1>2, <2>1, AgainMoves
  <2> QED
    BY <1>3, <2>2 DEF Quietly, Transient
<1>4. CASE Refused(j)
  BY <1>1, <1>4, FailedMoves DEF Quietly, Refused
<1>5. CASE CallTimesOut(j)
  <2>1. JobMoves(j)
    BY <1>1, <1>2, <1>5, AgainMoves DEF CallTimesOut
  <2> QED
    BY <1>5, <2>1 DEF Quietly, CallTimesOut
<1> QED
  BY <1>3, <1>4, <1>5

LEMMA NoReleaseMoves ==
  ASSUME SyncTypes, NEW j \in Jobs, NoRelease(j)
  PROVE  Quietly(j)
<1>1. job[j].pc \notin OverPcs
  BY DEF NoRelease, OverPcs
<1> QED
  BY <1>1, FailedMoves DEF Quietly, NoRelease

LEMMA TickMoves ==
  ASSUME SyncTypes, NEW j \in Jobs, JobTick(j)
  PROVE  Quietly(j)
<1> DEFINE later == job[j].spent + 1
           x == [job[j] EXCEPT !.spent = later]
<1>1. job[j] \in JobRecords /\ later \in Nat
  BY DEF SyncTypes, JobRecords
<1>2. job' = [job EXCEPT ![j] = x]
  BY DEF JobTick, SyncTypes
<1> HIDE DEF later
<1>3. /\ x \in JobRecords /\ x.pc = job[j].pc /\ x.stage = job[j].stage
      /\ x.changed = job[j].changed
  BY <1>1 DEF JobRecords
<1> HIDE DEF x
<1>4. job' \in [Jobs -> JobRecords] /\ job'[j] = x /\ \A i \in Jobs \ {j} : job'[i] = job[i]
  BY <1>2, <1>3 DEF SyncTypes
<1>5. job[j].pc \notin OverPcs
  BY DEF JobTick, Asking, OverPcs
<1>6. InAttempt(x) <=> InAttempt(job[j])
  BY <1>3 DEF InAttempt
<1>7. JobMoves(j)
  BY <1>3, <1>4, <1>5, <1>6 DEF JobMoves
<1> QED
  BY <1>7 DEF Quietly, JobTick

LEMMA QuietlyKeeps ==
  ASSUME SyncInv, NEW j \in Jobs, Quietly(j)
  PROVE  SyncInv' /\ Justified
<1> USE DEF Quietly
<1>1. SyncTypes'
  BY DEF SyncInv, SyncTypes, JobMoves, Sends
<1>2. OneAtATime'
  <2>1. InAttempt(job[j]) => j = last
    BY DEF SyncInv, OneAtATime, InAttempt, Asking, OverPcs
  <2>2. ASSUME NEW i \in Jobs, i # last
        PROVE  job'[i].pc \in OverPcs /\ put'[i] # "sent"
    BY <2>1, <2>2 DEF SyncInv, SyncTypes, OneAtATime, JobMoves, Sends
  <2> QED
    BY <2>2 DEF OneAtATime
<1>3. Says'
  <2> SUFFICES ASSUME NEW i \in Jobs
               PROVE  /\ job'[i].pc \in OverPcs => job'[i].stage = "read"
                      /\ job'[i].stage = "overwrite" \/ put'[i] # "none" \/ i \in wrote'
                           => job'[i].changed
    BY DEF Says
  <2>1. put'[i] # "none" => put[i] # "none" \/ (i = j /\ job[j].stage = "overwrite")
    BY DEF SyncInv, SyncTypes, Sends
  <2> QED
    BY <2>1 DEF SyncInv, Says, JobMoves
<1>4. Saw'
  <2> SUFFICES ASSUME NEW i \in Jobs
               PROVE  /\ job'[i].stage = "overwrite" => seen'[i].differed
                      /\ InAttempt(job[i])' =>
                           /\ Live(i)' => seen'[i].live
                           /\ remote' # Desired(i)' => seen'[i].differed
    BY DEF Saw
  <2>1. (Live(i)' <=> Live(i)) /\ Desired(i)' = Desired(i) /\ remote' = remote /\ seen' = seen
    BY DEF Live, Desired
  <2>2. InAttempt(job[i])' => InAttempt(job[i])
    BY DEF JobMoves, InAttempt
  <2>3. job'[i].stage = "overwrite" => seen[i].differed
    BY DEF SyncInv, Saw, JobMoves
  <2> QED
    BY <2>1, <2>2, <2>3 DEF SyncInv, Saw
<1>5. Holding'
  <2>1. /\ put'[last] = "sent" => put[last] = "sent" \/ job[last].stage = "overwrite"
        /\ job'[last].stage = "overwrite" => \/ job[last].stage = "overwrite"
                                             \/ remote # Desired(last)
        /\ job'[last].stage = "final" \/ job'[last].pc = "done"
             => \/ job[last].stage = "final" \/ job[last].pc = "done"
                \/ remote = Desired(last)
    BY DEF SyncInv, SyncTypes, JobMoves, Sends
  <2> QED
    BY <2>1 DEF SyncInv, Holding, Desired
<1>6. Justified
  <2> SUFFICES ASSUME NEW i \in Jobs, put[i] # "sent", put'[i] = "sent"
               PROVE  seen[i].differed /\ seen[i].live
    BY DEF Justified
  <2>1. i = j /\ Sends(j)
    BY DEF SyncInv, SyncTypes, Sends
  <2> QED
    BY <2>1 DEF Sends, SyncInv, Saw
<1> QED
  BY <1>1, <1>2, <1>3, <1>4, <1>5, <1>6 DEF SyncInv

(***************************************************************************)
(* The other steps.                                                        *)
(***************************************************************************)
\* What the invariant says of the histories after a change that they notice.
LEMMA Noticed ==
  ASSUME SyncInv, NoticeChange,
         \A i \in Jobs : /\ job'[i].stage = "overwrite" => job[i].stage = "overwrite"
                         /\ InAttempt(job'[i]) => InAttempt(job[i])
  PROVE  seen' \in [Jobs -> Notes] /\ Saw'
<1>1. /\ seen' \in [Jobs -> Notes]
      /\ \A i \in Jobs : /\ seen'[i].differed = (seen[i].differed \/ remote' # Desired(i))
                         /\ seen'[i].live = (seen[i].live \/ deployed' = RevisionOf[i])
  <2>1. \A i \in Jobs : seen[i] \in Notes
    BY DEF SyncInv, SyncTypes
  <2> QED
    BY <2>1 DEF NoticeChange, Notes
<1>2. SUFFICES ASSUME NEW i \in Jobs
               PROVE  /\ job'[i].stage = "overwrite" => seen'[i].differed
                      /\ InAttempt(job[i])' =>
                           /\ Live(i)' => seen'[i].live
                           /\ remote' # Desired(i)' => seen'[i].differed
  BY <1>1 DEF Saw
<1>3. (Live(i)' <=> deployed' = RevisionOf[i]) /\ Desired(i)' = Desired(i)
  BY DEF Live, Desired
<1>4. job'[i].stage = "overwrite" => seen[i].differed
  BY DEF SyncInv, Saw
<1> QED
  BY <1>1, <1>3, <1>4

LEMMA NothingSent ==
  ASSUME \A i \in Jobs : put'[i] = "sent" => put[i] = "sent"
  PROVE  Justified
  BY DEF Justified

LEMMA StartKeeps ==
  ASSUME SyncInv, NEW j \in Jobs, Start(j)
  PROVE  SyncInv' /\ Justified
<1> DEFINE pc == IF Kind[j] = "release" THEN "preflight" ELSE "wait"
           x == [job[j] EXCEPT !.pc = pc]
<1>1. job[j] \in JobRecords /\ pc \in {"preflight", "wait"}
  BY DEF SyncInv, SyncTypes
<1>2. pc \in JobPcs /\ pc \notin OverPcs /\ pc # "done" /\ pc \notin Asking \cup {"sleep"}
  BY <1>1 DEF JobPcs, OverPcs, Asking
<1>3. job' = [job EXCEPT ![j] = x]
  BY DEF Start, SyncInv, SyncTypes
<1> HIDE DEF pc
<1>4. /\ x \in JobRecords /\ x.pc = pc /\ x.stage = job[j].stage
      /\ x.changed = job[j].changed
  BY <1>1, <1>2 DEF JobRecords
<1> HIDE DEF x
<1>5. job' \in [Jobs -> JobRecords] /\ job'[j] = x /\ \A i \in Jobs \ {j} : job'[i] = job[i]
  BY <1>3, <1>4 DEF SyncInv, SyncTypes
<1>6. /\ last' = j /\ touched' = FALSE
      /\ \A i \in Jobs : job[i].pc \in OverPcs /\ put[i] # "sent"
      /\ UNCHANGED <<deployed, remote, put, kept, wrote, seen>>
  BY DEF Start
<1>7. x.stage = "read"
  BY <1>4, <1>6 DEF SyncInv, Says
<1>8. SyncTypes' /\ OneAtATime'
  BY <1>5, <1>6 DEF SyncInv, SyncTypes, OneAtATime
<1>9. Says'
  BY <1>2, <1>4, <1>5, <1>6 DEF SyncInv, Says
<1>10. Saw'
  <2> SUFFICES ASSUME NEW i \in Jobs
               PROVE  /\ job'[i].stage = "overwrite" => seen'[i].differed
                      /\ InAttempt(job[i])' =>
                           /\ Live(i)' => seen'[i].live
                           /\ remote' # Desired(i)' => seen'[i].differed
    BY DEF Saw
  <2>1. (Live(i)' <=> Live(i)) /\ Desired(i)' = Desired(i) /\ remote' = remote /\ seen' = seen
    BY <1>6 DEF Live, Desired
  <2>2. InAttempt(job[i])' => InAttempt(job[i])
    BY <1>2, <1>4, <1>5 DEF InAttempt
  <2>3. job'[i].stage = "overwrite" => seen[i].differed
    BY <1>4, <1>5 DEF SyncInv, Saw
  <2> QED
    BY <2>1, <2>2, <2>3 DEF SyncInv, Saw
<1>11. Holding'
  BY <1>2, <1>4, <1>5, <1>6, <1>7 DEF Holding
<1>12. Justified
  BY <1>6, NothingSent
<1> QED
  BY <1>8, <1>9, <1>10, <1>11, <1>12 DEF SyncInv

LEMMA DeployKeeps ==
  ASSUME SyncInv, NEW j \in Jobs, Deploy(j)
  PROVE  SyncInv' /\ Justified
<1>1. /\ job[j].pc = "deploy" /\ job[j].pc \notin OverPcs
      /\ UNCHANGED <<remote, put, kept, last, touched, wrote>> /\ NoticeChange
  BY DEF Deploy, OverPcs
<1>2. JobMoves(j)
  <2>1. CASE job' = [job EXCEPT ![j].pc = "wait"]
    <3> DEFINE x == [job[j] EXCEPT !.pc = "wait"]
    <3>1. job[j] \in JobRecords /\ "wait" \in JobPcs /\ "wait" \notin OverPcs
      BY DEF SyncInv, SyncTypes, JobPcs, OverPcs
    <3>2. job' = [job EXCEPT ![j] = x]
      BY <2>1 DEF SyncInv, SyncTypes
    <3>3. /\ x \in JobRecords /\ x.pc = "wait" /\ x.stage = job[j].stage
          /\ x.changed = job[j].changed
      BY <3>1 DEF JobRecords
    <3> HIDE DEF x
    <3>4. job' \in [Jobs -> JobRecords] /\ job'[j] = x /\ \A i \in Jobs \ {j} : job'[i] = job[i]
      BY <3>2, <3>3 DEF SyncInv, SyncTypes
    <3>5. ~InAttempt(x)
      BY <3>3 DEF InAttempt, Asking
    <3> QED
      BY <1>1, <3>1, <3>3, <3>4, <3>5 DEF JobMoves
  <2>2. CASE Failed(j)
    BY <1>1, <2>2, FailedMoves DEF SyncInv
  <2> QED
    BY <2>1, <2>2 DEF Deploy
<1>3. ~InAttempt(job[j]) /\ ~InAttempt(job'[j])
  BY <1>1, <1>2 DEF JobMoves, InAttempt, Asking
<1>4. job'[j].stage = "overwrite" => job[j].stage = "overwrite"
  BY <1>2, <1>3 DEF JobMoves
<1>5. seen' \in [Jobs -> Notes] /\ Saw'
  <2>1. \A i \in Jobs : /\ job'[i].stage = "overwrite" => job[i].stage = "overwrite"
                        /\ InAttempt(job'[i]) => InAttempt(job[i])
    BY <1>2, <1>3, <1>4 DEF JobMoves
  <2> QED
    BY <1>1, <2>1, Noticed
<1>6. SyncTypes' /\ OneAtATime' /\ Says'
  BY <1>1, <1>2, <1>4, <1>5 DEF SyncInv, SyncTypes, OneAtATime, Says, JobMoves
<1>7. Holding'
  <2>1. /\ job'[last].stage = "overwrite" => job[last].stage = "overwrite"
        /\ job'[last].stage = "final" \/ job'[last].pc = "done"
             => \/ job[last].stage = "final" \/ job[last].pc = "done"
                \/ remote = Desired(last)
    BY <1>2, <1>4 DEF SyncInv, SyncTypes, JobMoves
  <2> QED
    BY <1>1, <2>1 DEF SyncInv, Holding, Desired
<1>8. Justified
  BY <1>1, NothingSent
<1> QED
  BY <1>5, <1>6, <1>7, <1>8 DEF SyncInv

\* The first attempt, and the next one after a pause.
LEMMA AttemptKeeps ==
  ASSUME SyncInv, NEW j \in Jobs, WaitForRelease(j) \/ Wake(j)
  PROVE  SyncInv' /\ Justified
<1>1. /\ job[j].pc \in {"wait", "sleep"} /\ job[j].pc \notin OverPcs
      /\ Attempts(j) /\ UNCHANGED <<deployed, remote, put, kept, last, touched, wrote>>
  BY DEF WaitForRelease, Wake, OverPcs
<1> DEFINE x == Attempt(job[j])
<1>2. /\ x \in JobRecords /\ x.changed = job[j].changed /\ x.stage = "read"
      /\ x.pc \in {"failed", "health"}
  BY AttemptGives DEF SyncInv, SyncTypes
<1>3. job' = [job EXCEPT ![j] = x]
  BY <1>1 DEF Attempts, SyncInv, SyncTypes
<1> HIDE DEF x
<1>4. job' \in [Jobs -> JobRecords] /\ job'[j] = x /\ \A i \in Jobs \ {j} : job'[i] = job[i]
  BY <1>2, <1>3 DEF SyncInv, SyncTypes
<1>5. /\ seen' \in [Jobs -> Notes] /\ \A i \in Jobs \ {j} : seen'[i] = seen[i]
      /\ seen'[j].differed = (remote # Desired(j)) /\ seen'[j].live = Live(j)
  <2> DEFINE note == [differed |-> remote # Desired(j), live |-> Live(j)]
  <2>1. Live(j) \in BOOLEAN
    BY DEF Live
  <2>2. note \in Notes
    BY <2>1 DEF Notes
  <2>3. seen' = [seen EXCEPT ![j] = note]
    BY <1>1 DEF Attempts
  <2>4. note.differed = (remote # Desired(j)) /\ note.live = Live(j)
    OBVIOUS
  <2> HIDE DEF note
  <2> QED
    BY <2>2, <2>3, <2>4 DEF SyncInv, SyncTypes
<1>6. j = last
  BY <1>1 DEF SyncInv, OneAtATime
<1>7. SyncTypes' /\ OneAtATime' /\ Says'
  BY <1>1, <1>2, <1>4, <1>5, <1>6 DEF SyncInv, SyncTypes, OneAtATime, Says
<1>8. Saw'
  <2> SUFFICES ASSUME NEW i \in Jobs
               PROVE  /\ job'[i].stage = "overwrite" => seen'[i].differed
                      /\ InAttempt(job[i])' =>
                           /\ Live(i)' => seen'[i].live
                           /\ remote' # Desired(i)' => seen'[i].differed
    BY DEF Saw
  <2>1. (Live(i)' <=> Live(i)) /\ Desired(i)' = Desired(i) /\ remote' = remote
    BY <1>1 DEF Live, Desired
  <2>2. CASE i = j
    BY <1>2, <1>4, <1>5, <2>1, <2>2
  <2>3. CASE i # j
    <3>1. InAttempt(job[i])' <=> InAttempt(job[i])
      BY <1>4, <2>3 DEF InAttempt
    <3> QED
      BY <1>4, <1>5, <2>1, <2>3, <3>1 DEF SyncInv, Saw
  <2> QED
    BY <2>2, <2>3
<1>9. Holding'
  BY <1>1, <1>2, <1>4, <1>6 DEF SyncInv, Holding, Desired
<1>10. Justified
  BY <1>1, NothingSent
<1> QED
  BY <1>5, <1>7, <1>8, <1>9, <1>10 DEF SyncInv

LEMMA ReachesKeeps ==
  ASSUME SyncInv, NEW j \in Jobs, Reaches(j)
  PROVE  SyncInv' /\ Justified
<1>1. /\ put[j] = "sent" /\ put' = [put EXCEPT ![j] = "reached"]
      /\ remote' = (IF RevisionOf[j] \in kept THEN Desired(j) ELSE Other)
      /\ wrote' = wrote \cup {j} /\ job' = job
      /\ UNCHANGED <<deployed, kept, last, touched>> /\ NoticeChange
  BY DEF Reaches
<1>2. j = last
  BY <1>1 DEF SyncInv, OneAtATime
<1>3. put' \in [Jobs -> {"none", "sent", "reached"}] /\ put'[j] = "reached"
      /\ \A i \in Jobs \ {j} : put'[i] = put[i]
  BY <1>1 DEF SyncInv, SyncTypes
<1>4. seen' \in [Jobs -> Notes] /\ Saw'
  BY <1>1, Noticed
<1>5. SyncTypes' /\ OneAtATime'
  BY <1>1, <1>3, <1>4 DEF SyncInv, SyncTypes, OneAtATime
<1>6. Says'
  BY <1>1, <1>3 DEF SyncInv, Says
<1>7. Holding'
  <2>1. RevisionOf[j] \in Revisions
    BY SyncAssumption DEF SyncAssumption
  <2>2. Desired(j) # Other
    BY <2>1, SyncAssumption DEF SyncAssumption, Desired
  <2>3. /\ RevisionOf[last] \in kept => remote' = Desired(last)
        /\ RevisionOf[last] \notin kept => remote' # Desired(last)
    BY <1>1, <1>2, <2>2
  <2>4. Desired(last)' = Desired(last)
    BY <1>1 DEF Desired
  <2>5. ~touched => (job[last].stage = "final" \/ job[last].pc = "done"
                       => RevisionOf[last] \in kept)
    BY <1>1, <1>2 DEF SyncInv, Holding
  <2> QED
    BY <1>1, <2>3, <2>4, <2>5 DEF Holding
<1>8. Justified
  BY <1>3, NothingSent
<1> QED
  BY <1>4, <1>5, <1>6, <1>7, <1>8 DEF SyncInv

LEMMA DropsKeeps ==
  ASSUME SyncInv, NEW j \in Jobs, Drops(j)
  PROVE  SyncInv' /\ Justified
<1>1. put' \in [Jobs -> {"none", "sent", "reached"}] /\ put'[j] = "none"
      /\ \A i \in Jobs \ {j} : put'[i] = put[i]
  BY DEF Drops, SyncInv, SyncTypes
<1>2. UNCHANGED <<deployed, remote, job, kept, last, touched, wrote, seen>>
  BY DEF Drops
<1>3. SyncTypes' /\ OneAtATime' /\ Says'
  BY <1>1, <1>2 DEF SyncInv, SyncTypes, OneAtATime, Says
<1>4. Saw'
  BY <1>2 DEF SyncInv, Saw, InAttempt, Live, Desired
<1>5. Holding'
  BY <1>1, <1>2 DEF SyncInv, SyncTypes, Holding, Desired
<1>6. Justified
  BY <1>1, NothingSent
<1> QED
  BY <1>3, <1>4, <1>5, <1>6 DEF SyncInv

LEMMA AlienKeeps ==
  ASSUME SyncInv, Alien
  PROVE  SyncInv' /\ Justified
<1>1. UNCHANGED <<job, put, kept, last, wrote>> /\ NoticeChange
  BY DEF Alien
<1>2. /\ touched' \in BOOLEAN
      /\ ~touched' => ~touched /\ remote' = remote
  <2>1. touched \in BOOLEAN
    BY DEF SyncInv, SyncTypes
  <2>2. CASE UNCHANGED <<remote, touched>>
    BY <2>1, <2>2
  <2>3. CASE touched' = TRUE
    BY <2>3
  <2> QED
    BY <2>2, <2>3 DEF Alien
<1>3. seen' \in [Jobs -> Notes] /\ Saw'
  BY <1>1, Noticed
<1>4. SyncTypes' /\ OneAtATime' /\ Says'
  BY <1>1, <1>2, <1>3 DEF SyncInv, SyncTypes, OneAtATime, Says
<1>5. Holding'
  BY <1>1, <1>2 DEF SyncInv, Holding, Desired
<1>6. Justified
  BY <1>1, NothingSent
<1> QED
  BY <1>3, <1>4, <1>5, <1>6 DEF SyncInv

-----------------------------------------------------------------------------
(***************************************************************************)
(* The invariant of the registration, and what follows from it.            *)
(***************************************************************************)
LEMMA SyncBegins == SyncInit => SyncInv
<1> SUFFICES ASSUME SyncInit
             PROVE  SyncInv
  OBVIOUS
<1>1. last \in Jobs
  BY SyncAssumption DEF SyncInit, SyncAssumption
<1>2. NoJob \in JobRecords /\ NoJob.pc = "idle" /\ NoJob.stage = "read"
  BY DEF NoJob, JobRecords, JobPcs, Stages, OverPcs
<1>3. [differed |-> FALSE, live |-> FALSE] \in Notes
  BY DEF Notes
<1>4. job = [j \in Jobs |-> NoJob]
  BY DEF SyncInit
<1> HIDE DEF NoJob
<1>5. job \in [Jobs -> JobRecords] /\ \A j \in Jobs : job[j] = NoJob
  BY <1>2, <1>4
<1>6. \A j \in Jobs : ~InAttempt(job[j]) /\ job[j].pc \in OverPcs
  BY <1>2, <1>5 DEF InAttempt, OverPcs, Asking
<1>7. seen \in [Jobs -> Notes]
  BY <1>3 DEF SyncInit
<1>8. /\ put \in [Jobs -> {"none", "sent", "reached"}]
      /\ \A j \in Jobs : put[j] = "none"
      /\ wrote = {} /\ touched = FALSE
  BY DEF SyncInit
<1> QED
  BY <1>1, <1>2, <1>5, <1>6, <1>7, <1>8
     DEF SyncInv, SyncTypes, OneAtATime, Says, Saw, Holding

LEMMA SyncKeeps ==
  SyncInv /\ [SyncNext]_syncVars => SyncInv' /\ (Justified \/ UNCHANGED syncVars)
<1> SUFFICES ASSUME SyncInv, [SyncNext]_syncVars
             PROVE  SyncInv' /\ (Justified \/ UNCHANGED syncVars)
  OBVIOUS
<1>1. ASSUME NEW j \in Jobs, JobStep(j)
      PROVE  SyncInv' /\ Justified
  <2>1. CASE Deploy(j)
    BY <2>1, DeployKeeps
  <2>2. CASE WaitForRelease(j) \/ Wake(j)
    BY <2>2, AttemptKeeps
  <2>3. CASE Preflight(j) \/ NoRelease(j) \/ Health(j)
    BY <2>3, PreflightMoves, NoReleaseMoves, HealthMoves, QuietlyKeeps DEF SyncInv
  <2>4. CASE Read(j) \/ Overwrite(j) \/ Readback(j)
    BY <2>4, ReadMoves, OverwriteMoves, ReadbackMoves, QuietlyKeeps DEF SyncInv
  <2>5. CASE Transient(j) \/ Refused(j) \/ CallTimesOut(j)
    BY <2>5, TroubleMoves, QuietlyKeeps DEF SyncInv
  <2> QED
    BY <1>1, <2>1, <2>2, <2>3, <2>4, <2>5 DEF JobStep
<1>2. ASSUME NEW j \in Jobs, JobTick(j)
      PROVE  SyncInv' /\ Justified
  BY <1>2, TickMoves, QuietlyKeeps DEF SyncInv
<1>3. CASE UNCHANGED syncVars
  BY <1>3 DEF syncVars, SyncInv, SyncTypes, OneAtATime, Says, Saw, Holding,
              InAttempt, Live, Desired
<1> QED
  BY <1>1, <1>2, <1>3, StartKeeps, ReachesKeeps, DropsKeeps, AlienKeeps DEF SyncNext

\* Every state the registration reaches satisfies the invariant: one job at a time,
\* what a job says of its change, what its attempt saw and what is registered
\* (syncCommands).
THEOREM RegistrationKept == SyncSpec => []SyncInv
  BY SyncBegins, SyncKeeps, PTL DEF SyncSpec

\* A job that reports no change never had an overwrite of its own reach Discord, in
\* whatever attempt it was sent.
THEOREM ChangesTold == SyncSpec => []ChangeReported
<1>1. SyncInv => ChangeReported
  BY DEF SyncInv, Says, ChangeReported
<1> QED
  BY <1>1, RegistrationKept, PTL

\* What a successful job read back stays registered, whatever overwrite of an earlier
\* attempt is still under way, until the next job or somebody else changes it.
THEOREM ManifestStands == SyncSpec => []Registered
<1>1. SyncInv => Registered
  BY DEF SyncInv, Holding, Registered
<1> QED
  BY <1>1, RegistrationKept, PTL

\* An overwrite is sent only by an attempt during which the registered commands were at
\* some time not the job's own and its revision was at some time deployed.
THEOREM OverwritesJustified == SyncSpec => WritesJustified
<1>1. SyncSpec => [][Justified]_syncVars
  BY RegistrationKept, SyncKeeps, PTL DEF SyncSpec
<1> QED
  BY <1>1 DEF WritesJustified, Justified
==============================================================================
