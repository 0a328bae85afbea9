---------------------------- MODULE TenantReply -----------------------------
(***************************************************************************)
(* The Tenant Durable Object of one Discord server: how an interaction is  *)
(* answered inside its HTTP request (apps/bot/src/tenant.ts, admit and     *)
(* respondDiscord).  The first request of an interaction computes; every   *)
(* other request of it polls the stored record.  The stored response is    *)
(* the only one: the fiber that computes, a poller that sees the claim end *)
(* and an admission that finds an interrupted computation all try to write *)
(* it.  Requests are processes; the object may be lost under them.         *)
(***************************************************************************)
EXTENDS TenantStorage, FiniteSetsExt

CONSTANTS
  Requests,                \* HTTP requests
  MessageOf,               \* the interaction a request carries
  Budget, Compute,         \* 3_000 ms, and tenantPolicy.computeMs
  Retention,               \* tenantPolicy.retentionMs
  Reads, Spacing,          \* the 100 reads of a poller, 25 ms apart
  Retained, Active,        \* tenantPolicy.retained, active
  MaxStale,                \* how old a clock reading gets before its transaction commits
  LastReceipt, MaxTime, MaxActivation \* bounds of the model

ASSUME TenantReplyAssumption ==
  /\ MessageOf \in [Requests -> Messages]
  /\ {Budget, Compute, Retention, Reads, Spacing, Retained, Active, MaxStale, LastReceipt,
      MaxTime, MaxActivation} \subseteq Nat
  /\ NoAlarm > MaxTime

\* A record outlasts the repetitions of its interaction: it is kept for retentionMs, and
\* the Worker takes no signature older than discordAgeMs, which is half of that.
ASSUME RetentionAssumption == LastReceipt + MaxStale <= Retention

VARIABLES
  activation, \* the current activation
  request,    \* one record per request
  computed    \* history: per interaction, how many requests computed it

vars == <<now, works, generation, alarm, wiping, activation, request, computed>>

\* A response is the computed reply, or the private failure.
Responses == {"reply", "failure"}
Claims == [generation : Nat, activation : Nat, until : Nat]
NoClaim == [generation |-> 0, activation |-> 0, until |-> 0]
Works == [kind : {"none", "computing", "terminal"}, received : Nat, claim : Claims,
          response : Responses]
NoWork == [kind |-> "none", received |-> 0, claim |-> NoClaim, response |-> "failure"]

RetainUntil(w) == w.received + Budget + Retention
NextAlarm(ws) == Min({RetainUntil(ws[m]) : m \in Held(ws)})
Commit(ws, gen) == Update(ws, gen, NextAlarm(ws))

\* stopDiscord: only the response is kept.
Stop(w, r) == [NoWork EXCEPT !.kind = "terminal", !.received = w.received, !.response = r]

\* The claim of an interrupted activation, or one past its time, no longer counts.
Stale(w, t) == w.claim.activation # activation \/ t >= w.claim.until

(***************************************************************************)
(* Requests.  `received` is the Worker's stamp, `at` the clock reading in  *)
(* use, `claim` the one captured at admission, `reads` how often a poller  *)
(* has read.  A request ends answered: "committed" with the stored         *)
(* response, "uncommitted" when it found no record or ran out of reads,    *)
(* "refused" with an error, or lost with its instance.                     *)
(***************************************************************************)
Phases == {"idle", "sent", "admit", "compute", "commit", "poll", "settle", "sleep", "committed",
           "missing", "limit", "refused", "lost"}
RequestRecords == [pc : Phases, received : Nat, at : Nat, claim : Claims, reads : Nat,
                   response : Responses]
NoRequest == [pc |-> "idle", received |-> 0, at |-> 0, claim |-> NoClaim, reads |-> 0,
              response |-> "failure"]
Ended == {"idle", "committed", "missing", "limit", "refused", "lost"}

Msg(r) == MessageOf[r]
Work(r) == works[Msg(r)]

\* matches: the stored work still carries the captured claim.  The mutant only
\* asks whether there is one.
MutantMatches(r) == Work(r).kind # "none"
Matches(r) == Work(r).kind = "computing" /\ Work(r).claim = request[r].claim

Set(r, rec) == request' = [request EXCEPT ![r] = rec]
Goto(r, pc) == Set(r, [request[r] EXCEPT !.pc = pc, !.at = now])
End(r, pc, resp) ==
  Set(r, [NoRequest EXCEPT !.pc = pc, !.received = request[r].received, !.response = resp])

Init ==
  /\ now = 0
  /\ works = [m \in Messages |-> NoWork]
  /\ generation = 0
  /\ alarm = NoAlarm
  /\ wiping = FALSE
  /\ activation = 1
  /\ request = [r \in Requests |-> NoRequest]
  /\ computed = [m \in Messages |-> 0]

-----------------------------------------------------------------------------
\* The Worker stamps the request and calls the tenant, which reads its own clock when
\* the call arrives, at any time.
Receive(r) ==
  /\ request[r].pc = "idle" /\ now <= LastReceipt
  /\ Set(r, [NoRequest EXCEPT !.pc = "sent", !.received = now])
  /\ UNCHANGED <<now, stored, activation, computed>>

Arrive(r) ==
  /\ request[r].pc = "sent"
  /\ Goto(r, "admit")
  /\ UNCHANGED <<now, stored, activation, computed>>

(***************************************************************************)
(* admit: reclaim, settle every interrupted or overdue computation of the  *)
(* tenant, then find the interaction or store it.                          *)
(***************************************************************************)
\* The mutant drops an interrupted computation instead of settling it.
MutantSettled(t) ==
  [m \in Messages |->
     IF \/ RetainUntil(works[m]) <= t
        \/ works[m].kind = "computing" /\ Stale(works[m], t)
     THEN NoWork ELSE works[m]]
Settled(t) ==
  [m \in Messages |->
     IF RetainUntil(works[m]) <= t THEN NoWork
     ELSE IF works[m].kind = "computing" /\ Stale(works[m], t) THEN Stop(works[m], "failure")
     ELSE works[m]]

Fits(ws) ==
  /\ Cardinality(Held(ws)) <= Retained
  /\ Cardinality({m \in Messages : ws[m].kind = "computing"}) <= Active

Admit(r) ==
  LET t == request[r].at
      m == Msg(r)
      ws == Settled(t)
      at == request[r].received
      claim == [generation |-> generation + 1, activation |-> activation,
                until |-> Min({at + Compute, t + Compute})]
      new == [ws EXCEPT ![m] = [NoWork EXCEPT !.kind = "computing", !.received = at,
                                              !.claim = claim]]
      late == t >= at + Budget
  IN  /\ request[r].pc = "admit"
      /\ \/ /\ ws[m].kind = "terminal"
            /\ Commit(ws, generation)
            /\ End(r, "committed", ws[m].response)
            /\ UNCHANGED computed
         \/ /\ ws[m].kind = "computing"
            /\ Commit(ws, generation)
            /\ Goto(r, "poll")
            /\ UNCHANGED computed
         \/ /\ ws[m].kind = "none" /\ late
            /\ Commit(ws, generation)
            /\ End(r, "refused", "failure")
            /\ UNCHANGED computed
         \/ /\ ws[m].kind = "none" /\ ~late /\ ~Fits(new)
            /\ Commit(ws, generation + 1)
            /\ End(r, "refused", "failure")
            /\ UNCHANGED computed
         \/ /\ ws[m].kind = "none" /\ ~late /\ Fits(new)
            /\ Commit(new, generation + 1)
            /\ Set(r, [request[r] EXCEPT !.pc = "compute", !.claim = claim])
            /\ computed' = [computed EXCEPT ![m] = @ + 1]
      /\ UNCHANGED <<now, activation>>

\* computeText ends, in time or not.
EndCompute(r) ==
  /\ request[r].pc = "compute"
  /\ Goto(r, "commit")
  /\ UNCHANGED <<now, stored, activation, computed>>

\* The transaction after the computation: a recorded response wins, a result
\* after the claim's end is replaced by the failure.
CommitReply(r) ==
  LET t == request[r].at
      resp == IF t >= request[r].claim.until THEN "failure" ELSE "reply"
  IN  /\ request[r].pc = "commit"
      /\ \/ /\ Work(r).kind = "terminal"
            /\ Commit(works, generation)
            /\ End(r, "committed", Work(r).response)
         \/ /\ Matches(r)
            /\ Commit([works EXCEPT ![Msg(r)] = Stop(Work(r), resp)], generation)
            /\ End(r, "committed", resp)
         \/ /\ Work(r).kind # "terminal" /\ ~Matches(r)
            /\ Commit(works, generation)
            /\ Goto(r, "poll")
      /\ UNCHANGED <<now, activation, computed>>

\* One read of the polling loop.
Poll(r) ==
  LET w == Work(r)
      stale == w.kind = "computing" /\ Stale(w, request[r].at)
  IN  /\ request[r].pc = "poll"
      /\ \/ request[r].reads = Reads /\ End(r, "limit", "failure")
         \/ /\ request[r].reads < Reads
            /\ \/ w.kind = "none" /\ End(r, "missing", "failure")
               \/ w.kind = "terminal" /\ End(r, "committed", w.response)
               \/ stale /\ Set(r, [request[r] EXCEPT !.pc = "settle"])
               \/ /\ w.kind = "computing" /\ ~stale
                  /\ Set(r, [request[r] EXCEPT !.pc = "sleep", !.at = now])
      /\ UNCHANGED <<now, stored, activation, computed>>

\* The poller's transaction: unless someone else settled it, or claimed it
\* again, commit the failure.
SettleStale(r) ==
  LET w == Work(r)
      failed == Stop(w, "failure")
  IN  /\ request[r].pc = "settle"
      /\ \/ /\ w.kind = "none"
            /\ Commit(works, generation)
            /\ End(r, "missing", "failure")
         \/ /\ w.kind = "terminal"
            /\ Commit(works, generation)
            /\ End(r, "committed", w.response)
         \/ /\ w.kind = "computing" /\ ~Stale(w, request[r].at)
            /\ Commit(works, generation)
            /\ Set(r, [request[r] EXCEPT !.pc = "sleep", !.at = now])
         \/ /\ w.kind = "computing" /\ Stale(w, request[r].at)
            /\ Commit([works EXCEPT ![Msg(r)] = failed], generation)
            /\ End(r, "committed", "failure")
      /\ UNCHANGED <<now, activation, computed>>

Wake(r) ==
  /\ request[r].pc = "sleep"
  /\ now >= request[r].at + Spacing
  /\ Set(r, [request[r] EXCEPT !.pc = "poll", !.at = now, !.reads = @ + 1])
  /\ UNCHANGED <<now, stored, activation, computed>>

\* recover only reclaims here: Discord work is never taken up again.
Reclaim ==
  /\ alarm <= now
  /\ Commit([m \in Messages |-> IF RetainUntil(works[m]) <= now THEN NoWork ELSE works[m]],
            generation)
  /\ UNCHANGED <<now, activation, request, computed>>

Wipe ==
  /\ DeleteAll([m \in Messages |-> NoWork])
  /\ UNCHANGED <<now, activation, request, computed>>

Crash ==
  /\ activation < MaxActivation
  /\ activation' = activation + 1
  /\ LoseStorageCall
  /\ request' = [r \in Requests |->
       IF request[r].pc \in Ended \cup {"sent"} THEN request[r]
       ELSE [NoRequest EXCEPT !.pc = "lost", !.received = request[r].received]]
  /\ UNCHANGED <<now, computed>>

\* Transactions are not delayed for ever, and a command gives up at its deadline,
\* the end of the claim.
Prompt(r) ==
  /\ request[r].pc \in {"admit", "commit", "poll", "settle"} => now < request[r].at + MaxStale
  /\ request[r].pc = "compute" => now < request[r].claim.until + MaxStale
  /\ request[r].pc = "sleep" => now < request[r].at + Spacing + MaxStale

Tick ==
  /\ now < MaxTime
  /\ \A r \in Requests : Prompt(r)
  /\ now' = now + 1
  /\ UNCHANGED <<stored, activation, request, computed>>

Respond(r) ==
  Admit(r) \/ EndCompute(r) \/ CommitReply(r) \/ Poll(r) \/ SettleStale(r) \/ Wake(r)

Next ==
  \/ \E r \in Requests : Receive(r) \/ Arrive(r) \/ Respond(r)
  \/ Reclaim \/ Wipe \/ Crash \/ Tick

Spec == Init /\ [][Next]_vars

\* Storage answers, commands end, timers fire, time passes.
FairSpec == Spec /\ \A r \in Requests : WF_vars(Respond(r)) /\ WF_vars(Wipe) /\ WF_vars(Tick)

-----------------------------------------------------------------------------
(***************************************************************************)
(* Properties.                                                             *)
(***************************************************************************)
\* The stored record and the requests keep their shape, and a claim is stored
\* exactly while a computation is pending.
TypeOK ==
  /\ {now, generation, alarm, activation} \subseteq Nat
  /\ works \in [Messages -> Works]
  /\ \A m \in Messages : (works[m].claim # NoClaim) = (works[m].kind = "computing")
  /\ wiping \in BOOLEAN
  /\ request \in [Requests -> RequestRecords]
  /\ computed \in [Messages -> Nat]

\* Every committed answer to an interaction is the same one, whichever of its
\* requests computed, polled, timed out or met another activation.
OneAnswer ==
  \A r, q \in Requests :
    request[r].pc = "committed" /\ request[q].pc = "committed" /\ Msg(r) = Msg(q)
      => request[r].response = request[q].response

\* An interrupted computation is settled, never started again.
ComputedOnce ==
  \A m \in Messages : computed[m] <= 1

\* Every request is answered.
EveryRequestEnds ==
  \A r \in Requests : request[r].pc = "admit" ~> request[r].pc \in Ended
=============================================================================
