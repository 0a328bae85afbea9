--------------------------- MODULE TenantDelivery ---------------------------
(***************************************************************************)
(* The Tenant Durable Object of one Twitch channel: how an admitted chat   *)
(* command is computed, planned as message parts and delivered part by     *)
(* part through the account (apps/bot/src/tenant.ts, tenant-state.ts, and  *)
(* the freshness check of ingress.ts that decides what reaches it).        *)
(*                                                                         *)
(* All state is one stored record, changed by `update`: one transaction at *)
(* a time, each reading the clock BEFORE it and using that reading inside. *)
(* Between transactions computation and account calls run as fibers, here  *)
(* tasks: the fiber of an admission ("launch") and the fiber that the      *)
(* alarm handler runs for a message ("recover").  The object may be lost   *)
(* at any point and reconstructed over its storage under a new activation  *)
(* id.  The account is seen through what its ledger promises (Outbox).     *)
(***************************************************************************)
EXTENDS TenantStorage, FiniteSetsExt

CONSTANTS
  Plans, NoPlan,             \* replies a command can compute to, as plans of parts
  PartsOf,                   \* number of parts of a plan
  Budget,                    \* twitch deadline: 10_000 ms from the receipt
  Lease, DeliveryLease,      \* tenantPolicy.leaseMs, deliveryLeaseMs
  FailureLease,              \* the 250 ms a failed account call keeps its claim
  Retention,                 \* tenantPolicy.retentionMs
  RetryDelays,               \* how far ahead a retryable answer's retryAt may be
  Active, Retained,          \* tenantPolicy.active, retained
  MaxAge, FutureSkew,        \* ingressPolicy.twitchAgeMs, futureSkewMs
  SentAt,                    \* EventSub timestamp of a message
  MaxDelay,                  \* how late the call of an admission reads its clock
  MaxStale,                  \* how old that reading may get before it commits
  LastReceipt, MaxTime, MaxActivation, MaxRefused \* bounds of the model

ASSUME TenantDeliveryAssumption ==
  /\ PartsOf \in [Plans -> Nat \ {0}]
  /\ SentAt \in [Messages -> Nat]
  /\ RetryDelays \subseteq Nat
  /\ {Budget, Lease, DeliveryLease, FailureLease, Retention, Active, Retained,
      MaxAge, FutureSkew, MaxDelay, MaxStale, LastReceipt, MaxTime, MaxActivation,
      MaxRefused} \subseteq Nat
  /\ NoPlan \notin Plans
  /\ \E p \in Plans : \A q \in Plans : PartsOf[q] <= PartsOf[p]
  /\ NoAlarm > MaxTime

\* A record outlasts the redeliveries that are still fresh.  In the code MaxAge is
\* Retention, so what the sender's clock is ahead, a call's delay and a transaction's
\* together have to stay below the delivery budget.
ASSUME RetentionAssumption == FutureSkew + MaxAge + MaxDelay + MaxStale < Budget + Retention

VARIABLES
  activation, \* the current activation, a number instead of a UUID
  handler,    \* the alarm handler
  task,       \* the fibers
  inFlight,   \* in memory: generation of the delivery registered for a message, or 0
  issued,     \* history: per attempt, the plans dispatched to the account
  accepted, told, \* the account (Outbox)
  receipts    \* history: per message, the receipt times it was admitted with

vars == <<now, activation, works, generation, alarm, wiping, handler, task, inFlight,
          issued, accepted, told, receipts>>

Parts == 1..Max({PartsOf[p] : p \in Plans})
Attempts == Messages \X Parts
Account == INSTANCE Outbox WITH Prints <- Plans, NoPrint <- NoPlan

(***************************************************************************)
(* Stored records.  retryAt is a claim-less work's due time; outcome only  *)
(* means something on a terminal work.                                     *)
(***************************************************************************)
Outcomes == {"none", "sent", "rejected", "ambiguous", "expired"}
Claims == [generation : Nat, activation : Nat, until : Nat]
NoClaim == [generation |-> 0, activation |-> 0, until |-> 0]
Works == [kind : {"none", "computing", "ready", "delivering", "terminal"}, received : Nat,
          plan : Plans \cup {NoPlan}, cursor : Nat, retryAt : Nat, claim : Claims,
          outcome : Outcomes]
NoWork == [kind |-> "none", received |-> 0, plan |-> NoPlan, cursor |-> 0, retryAt |-> 0,
           claim |-> NoClaim, outcome |-> "none"]

DeadlineOf(w) == w.received + Budget
RetainUntil(w) == DeadlineOf(w) + Retention
Pending(w) == w.kind \in {"computing", "ready", "delivering"}
DueAt(w) == IF w.kind = "ready" THEN w.retryAt ELSE w.claim.until

\* stopTwitch: only the disposition is kept.
Stop(w, o) == [NoWork EXCEPT !.kind = "terminal", !.received = w.received, !.outcome = o]
Ready(w, p, k, t) ==
  [NoWork EXCEPT !.kind = "ready", !.received = w.received, !.plan = p, !.cursor = k,
                 !.retryAt = t]
Claimed(w, kind, c) == [w EXCEPT !.kind = kind, !.claim = c, !.retryAt = 0]

\* reclaim.  The mutant forgets the retention.
MutantReclaimedWorks(t) ==
  [m \in Messages |-> IF DeadlineOf(works[m]) <= t THEN NoWork ELSE works[m]]
ReclaimedWorks(t) ==
  [m \in Messages |-> IF RetainUntil(works[m]) <= t THEN NoWork ELSE works[m]]

\* nextAlarm.  The mutant trusts claimed work to end by itself and sets none for it.
MutantNextAlarm(ws) ==
  Min({NoAlarm} \cup {RetainUntil(ws[m]) : m \in {n \in Held(ws) : ws[n].kind = "terminal"}}
                \cup {DueAt(ws[m]) : m \in {n \in Held(ws) : ws[n].kind = "ready"}})
NextAlarm(ws) ==
  Min({RetainUntil(ws[m]) : m \in Held(ws)}
      \cup UNION {{DueAt(ws[m]), DeadlineOf(ws[m])} : m \in {n \in Held(ws) : Pending(ws[n])}})

Commit(ws, gen) == Update(ws, gen, NextAlarm(ws))

NewClaim(gen, until) == [generation |-> gen, activation |-> activation, until |-> until]

(***************************************************************************)
(* Tasks.  `at` is the clock reading a task holds, `work` the work record  *)
(* it captured when it claimed, `reply` and `retryAt` the account's answer,*)
(* `open` the generations whose deferred the task has not completed yet:   *)
(* a nested run completes before the delivery that started it.             *)
(***************************************************************************)
Slots == Messages \X {"launch", "recover"}
Phases == {"idle", "compute", "plan", "run", "late", "calling", "answered", "join"}
Answers == {"sent", "rejected", "ambiguous", "expired", "retryable", "failed"}
Tasks == [pc : Phases, at : Nat, work : Works, plan : Plans \cup {NoPlan}, reply : Answers,
          retryAt : Nat, open : SUBSET Nat]
NoTask == [pc |-> "idle", at |-> 0, work |-> NoWork, plan |-> NoPlan, reply |-> "failed",
           retryAt |-> 0, open |-> {}]

Msg(s) == s[1]
Work(s) == works[Msg(s)]
Captured(s) == task[s].work
Attempt(w, m) == <<m, w.cursor>>

\* matches: the stored work still carries the captured claim.  The mutant only
\* asks whether there is one.
MutantMatches(s) == Work(s).kind \in {"computing", "delivering"}
Matches(s) == /\ Work(s).kind \in {"computing", "delivering"}
              /\ Work(s).claim = Captured(s).claim

\* A task ends: its open deferreds complete, and the registration they left is
\* removed.
Finish(s) ==
  /\ task' = [task EXCEPT ![s] = NoTask]
  /\ inFlight' = [inFlight EXCEPT ![Msg(s)] = IF @ \in task[s].open THEN 0 ELSE @]
Enter(s, pc) ==
  /\ task' = [task EXCEPT ![s] = [NoTask EXCEPT !.pc = pc, !.at = now, !.open = task[s].open]]
  /\ UNCHANGED inFlight

Init ==
  /\ now = 0
  /\ activation = 1
  /\ works = [m \in Messages |-> NoWork]
  /\ generation = 0
  /\ alarm = NoAlarm
  /\ wiping = FALSE
  /\ handler = [pc |-> "idle", at |-> 0]
  /\ task = [s \in Slots |-> NoTask]
  /\ inFlight = [m \in Messages |-> 0]
  /\ issued = [a \in Attempts |-> {}]
  /\ Account!OutboxInit
  /\ receipts = [m \in Messages |-> {}]

accountVars == <<accepted, told>>
histories == <<issued, receipts>>

-----------------------------------------------------------------------------
(***************************************************************************)
(* A signed notification stamped at `at` by the Worker reaches the tenant. *)
(* Twitch may deliver it several times; each delivery is stamped anew.     *)
(***************************************************************************)
Fresh(m, at) == at <= SentAt[m] + MaxAge /\ SentAt[m] <= at + FutureSkew

Admitted(m, at, t, gen) ==
  [NoWork EXCEPT !.kind = "computing", !.received = at,
                 !.claim = NewClaim(gen, Min({at + Budget, t + Lease}))]

Fits(ws) ==
  /\ Cardinality(Held(ws)) <= Retained
  /\ Cardinality({m \in Messages : Pending(ws[m])}) <= Active

\* acceptTwitch and admit, with the clock reading t: an already known message is
\* a duplicate, whatever became of it; a new one is stored as computing and
\* computed in the background.  Re-admission waits for the message's old fiber,
\* which ends with its deadline, to be gone.  A refusal consumes a generation too
\* (MaxRefused bounds how many).  A call may arrive at any time; one that arrives
\* within its deadline arrives within MaxDelay.
Receive(m, at, t) ==
  LET ws == ReclaimedWorks(t)
      new == [ws EXCEPT ![m] = Admitted(m, at, t, generation + 1)]
      unknown == ws[m].kind = "none" /\ t < at + Budget
      launch == <<m, "launch">>
  IN  /\ at <= t /\ t <= now /\ now <= t + MaxStale /\ Fresh(m, at)
      /\ \/ /\ ~(unknown /\ Fits(new))
            /\ unknown => generation < MaxRefused
            /\ Commit(ws, IF unknown THEN generation + 1 ELSE generation)
            /\ UNCHANGED <<task, receipts>>
         \/ /\ unknown /\ Fits(new) /\ at <= LastReceipt /\ t <= at + MaxDelay
            /\ task[launch].pc = "idle"
            /\ Commit(new, generation + 1)
            /\ task' = [task EXCEPT ![launch] = [NoTask EXCEPT !.pc = "compute",
                                                               !.work = new[m]]]
            /\ receipts' = [receipts EXCEPT ![m] = @ \cup {at}]
      /\ UNCHANGED <<now, activation, handler, inFlight, issued, accountVars>>

\* computeText: the command answers, with a result, an error message or the
\* friendly failure; each is a plan.
Compute(s) ==
  /\ task[s].pc = "compute"
  /\ \E p \in Plans :
       task' = [task EXCEPT ![s] = [@ EXCEPT !.pc = "plan", !.at = now, !.plan = p]]
  /\ UNCHANGED <<now, activation, stored, handler, inFlight, accountVars, histories>>

\* computeTwitch's transaction: freeze the plan, if the claim still stands.
CommitPlan(s) ==
  LET m == Msg(s)
      w == Captured(s)
      t == task[s].at
      late == t >= DeadlineOf(w)
      ws == [works EXCEPT ![m] = IF late THEN Stop(w, "expired")
                                 ELSE Ready(w, task[s].plan, 1, t)]
  IN  /\ task[s].pc = "plan"
      /\ \/ /\ Matches(s) /\ late
            /\ Commit(ws, generation)
            /\ Finish(s)
         \/ /\ Matches(s) /\ ~late /\ t < w.claim.until
            /\ Commit(ws, generation)
            /\ Enter(s, "run")
         \/ /\ ~Matches(s) \/ (~late /\ t >= w.claim.until)
            /\ Commit(works, generation)
            /\ Finish(s)
      /\ UNCHANGED <<now, activation, handler, accountVars, histories>>

(***************************************************************************)
(* run: claim the next step of a message, or do nothing, or wait for the   *)
(* delivery of this activation that is still in flight.                    *)
(***************************************************************************)
\* Is the stored delivery one this activation registered in memory?  The mutant
\* never looks.
MutantRegistered(m) == FALSE
Registered(m) ==
  /\ inFlight[m] # 0 /\ inFlight[m] = works[m].claim.generation
  /\ works[m].claim.activation = activation

\* A claim of this activation that has not expired.
Mine(w, t) == w.claim.activation = activation /\ t < w.claim.until

Run(s) ==
  LET m == Msg(s)
      w == Work(s)
      t == task[s].at
      over == Pending(w) /\ t >= DeadlineOf(w)
      busy == w.kind \in {"computing", "delivering"} /\ Mine(w, t)
      open == Pending(w) /\ ~over /\ ~busy
      joins == w.kind = "delivering" /\ Registered(m)
      length == IF w.kind = "computing" THEN Lease ELSE DeliveryLease
      claim == NewClaim(generation + 1, Min({DeadlineOf(w), t + length}))
      next == Claimed(w, IF w.kind = "computing" THEN "computing" ELSE "delivering", claim)
      ws == [works EXCEPT ![m] = next]
  IN  /\ task[s].pc = "run"
      /\ \/ /\ ~Pending(w) \/ (~over /\ (busy \/ (w.kind = "ready" /\ t < w.retryAt)))
            /\ Commit(works, generation)
            /\ Finish(s)
            /\ UNCHANGED issued
         \/ /\ over
            /\ Commit([works EXCEPT ![m] = Stop(w, "expired")], generation)
            /\ Finish(s)
            /\ UNCHANGED issued
         \/ /\ open /\ w.kind = "computing"
            /\ Commit(ws, generation + 1)
            /\ task' = [task EXCEPT ![s] = [@ EXCEPT !.pc = "compute", !.work = next]]
            /\ UNCHANGED <<inFlight, issued>>
         \/ /\ open /\ joins
            /\ Commit(works, generation)
            /\ task' = [task EXCEPT ![s] = [@ EXCEPT !.pc = "join", !.work = w]]
            /\ UNCHANGED <<inFlight, issued>>
         \/ /\ open /\ ~joins /\ (w.kind = "delivering" \/ (w.kind = "ready" /\ t >= w.retryAt))
            /\ Commit(ws, generation + 1)
            /\ inFlight' = [inFlight EXCEPT ![m] = generation + 1]
            /\ task' = [task EXCEPT ![s] =
                 [@ EXCEPT !.pc = IF now >= DeadlineOf(w) THEN "late" ELSE "calling",
                           !.at = now, !.work = next,
                           !.open = task[s].open \cup {generation + 1}]]
            /\ issued' = IF now >= DeadlineOf(w) THEN issued
                         ELSE [issued EXCEPT ![Attempt(w, m)] = @ \cup {w.plan}]
      /\ UNCHANGED <<now, activation, handler, accountVars, receipts>>

\* dispatchWork before the call: the deadline has passed.
ExpireDelivery(s) ==
  /\ task[s].pc = "late"
  /\ Commit(IF Matches(s) THEN [works EXCEPT ![Msg(s)] = Stop(Captured(s), "expired")]
                          ELSE works, generation)
  /\ Finish(s)
  /\ UNCHANGED <<now, activation, handler, accountVars, histories>>

\* A run that joined goes on when the delivery it waits for completed, or at
\* the deadline.
Joined(s) ==
  /\ task[s].pc = "join"
  /\ \/ now >= DeadlineOf(Captured(s))
     \/ \A r \in Slots : Msg(r) = Msg(s) /\ r # s
          => Captured(s).claim.generation \notin task[r].open
  /\ Enter(s, "run")
  /\ UNCHANGED <<now, activation, stored, handler, accountVars, histories>>

(***************************************************************************)
(* The account.  It may post an attempt as soon as its dispatch was issued *)
(* and long after the tenant stopped waiting for it.                       *)
(***************************************************************************)
AccountAccepts(a) ==
  /\ \E p \in issued[a] : Account!Accept(a, p)
  /\ UNCHANGED <<now, activation, stored, handler, task, inFlight, histories>>

Answered(s, o, retryAt) ==
  task' = [task EXCEPT ![s] = [@ EXCEPT !.pc = "answered", !.at = now, !.reply = o,
                                        !.retryAt = retryAt]]

AccountAnswers(s) ==
  LET w == Captured(s)
      a == Attempt(w, Msg(s))
  IN  /\ task[s].pc = "calling"
      /\ \/ \E o \in {"sent", "rejected"} : Account!Tell(a, w.plan, o) /\ Answered(s, o, 0)
         \/ /\ \E o \in {"ambiguous", "expired", "failed"} : Answered(s, o, 0)
            /\ UNCHANGED accountVars
         \/ /\ \E d \in RetryDelays : now + d < DeadlineOf(w) /\ Answered(s, "retryable", now + d)
            /\ UNCHANGED accountVars
      /\ UNCHANGED <<now, activation, stored, handler, inFlight, histories>>

\* Does an answer let the next part go?  The mutant also goes on after an
\* ambiguous one.
MutantAdvances(o) == o \in {"sent", "ambiguous"}
Advances(o) == o = "sent"

\* The last part of a plan.
IsLast(w) == w.cursor = PartsOf[w.plan]

\* dispatchWork after the call: what the work becomes.
AfterAnswer(w, o, t, retryAt) ==
  LET late == t >= DeadlineOf(w)
      again == o = "retryable" /\ ~late /\ retryAt < DeadlineOf(w)
  IN  CASE Advances(o) /\ ~IsLast(w) /\ ~late -> Ready(w, w.plan, w.cursor + 1, t)
        [] Advances(o) /\ ~IsLast(w) /\ late -> Stop(w, "expired")
        [] again -> Ready(w, w.plan, w.cursor, Max({t, retryAt}))
        [] o = "failed" /\ ~late ->
             [w EXCEPT !.claim = [@ EXCEPT !.until = Min({DeadlineOf(w), t + FailureLease})]]
        [] o = "retryable" /\ ~again -> Stop(w, "expired")
        [] o = "failed" /\ late -> Stop(w, "expired")
        [] OTHER -> Stop(w, o)

Settle(s) ==
  LET m == Msg(s)
      w == Captured(s)
      next == AfterAnswer(w, task[s].reply, task[s].at, task[s].retryAt)
  IN  /\ task[s].pc = "answered"
      /\ \/ /\ Matches(s) /\ next.kind = "ready" /\ next.cursor > w.cursor
            /\ Commit([works EXCEPT ![m] = next], generation)
            /\ Enter(s, "run")
         \/ /\ Matches(s) /\ ~(next.kind = "ready" /\ next.cursor > w.cursor)
            /\ Commit([works EXCEPT ![m] = next], generation)
            /\ Finish(s)
         \/ /\ ~Matches(s)
            /\ Commit(works, generation)
            /\ Finish(s)
      /\ UNCHANGED <<now, activation, handler, accountVars, histories>>

-----------------------------------------------------------------------------
(***************************************************************************)
(* The alarm.  The platform runs one handler at a time, clears the alarm   *)
(* when it starts it and starts it again if the object was lost meanwhile. *)
(***************************************************************************)
AlarmFires ==
  /\ handler.pc = "retry" \/ (handler.pc = "idle" /\ alarm <= now)
  /\ handler' = [pc |-> "reclaim", at |-> now]
  /\ alarm' = IF handler.pc = "retry" THEN alarm ELSE NoAlarm
  /\ UNCHANGED <<now, activation, works, generation, wiping, task, inFlight, accountVars,
                 histories>>

\* recover: reclaim, then run every message that is due.
Recover ==
  LET t == handler.at
      ws == ReclaimedWorks(t)
      due == {m \in Messages :
                /\ Pending(ws[m])
                /\ \/ t >= DeadlineOf(ws[m])
                   \/ ws[m].kind = "ready" /\ t >= ws[m].retryAt
                   \/ ws[m].kind \in {"computing", "delivering"} /\ ~Mine(ws[m], t)}
  IN  /\ handler.pc = "reclaim"
      /\ Commit(ws, generation)
      /\ task' = [s \in Slots |-> IF s[2] = "recover" /\ Msg(s) \in due
                                  THEN [NoTask EXCEPT !.pc = "run", !.at = now] ELSE task[s]]
      /\ handler' = [handler EXCEPT !.pc = "run", !.at = 0]
      /\ UNCHANGED <<now, activation, inFlight, accountVars, histories>>

HandlerEnds ==
  /\ handler.pc = "run"
  /\ \A m \in Messages : task[<<m, "recover">>].pc = "idle"
  /\ handler' = [pc |-> "idle", at |-> 0]
  /\ UNCHANGED <<now, activation, stored, task, inFlight, accountVars, histories>>

\* deleteAll, the second half of an update that left no work; it deletes the
\* alarm too.
Wipe ==
  /\ DeleteAll([m \in Messages |-> NoWork])
  /\ UNCHANGED <<now, activation, handler, task, inFlight, accountVars, histories>>

\* The object is lost and reconstructed: memory and fibers go, storage stays.
Crash ==
  /\ activation < MaxActivation
  /\ activation' = activation + 1
  /\ LoseStorageCall
  /\ handler' = [pc |-> IF handler.pc = "idle" THEN "idle" ELSE "retry", at |-> 0]
  /\ task' = [s \in Slots |-> NoTask]
  /\ inFlight' = [m \in Messages |-> 0]
  /\ UNCHANGED <<now, accountVars, histories>>

Tick ==
  /\ now < MaxTime
  /\ now' = now + 1
  /\ UNCHANGED <<activation, stored, handler, task, inFlight, accountVars, histories>>

Step(s) ==
  \/ Compute(s) \/ CommitPlan(s) \/ Run(s) \/ ExpireDelivery(s) \/ Joined(s)
  \/ AccountAnswers(s) \/ Settle(s)

Next ==
  \/ \E m \in Messages, at, t \in 0..MaxTime : Receive(m, at, t)
  \/ \E s \in Slots : Step(s)
  \/ \E a \in Attempts : AccountAccepts(a)
  \/ AlarmFires \/ Recover \/ HandlerEnds \/ Wipe \/ Crash \/ Tick

Spec == Init /\ [][Next]_vars

\* Fibers and transactions go on, the platform fires a due alarm, time passes.
FairSpec ==
  /\ Spec
  /\ \A s \in Slots : WF_vars(Step(s))
  /\ WF_vars(AlarmFires) /\ WF_vars(Recover) /\ WF_vars(HandlerEnds) /\ WF_vars(Wipe)
  /\ WF_vars(Tick)

-----------------------------------------------------------------------------
(***************************************************************************)
(* Properties.                                                             *)
(***************************************************************************)
\* The stored record, the fibers and the histories keep their shape: a work has a
\* claim, a plan and a cursor exactly in the states that need them.
WorkOK(w) ==
  /\ (w.claim # NoClaim) = (w.kind \in {"computing", "delivering"})
  /\ (w.plan # NoPlan) = (w.kind \in {"ready", "delivering"})
  /\ w.plan # NoPlan => w.cursor \in 1..PartsOf[w.plan]
  /\ (w.outcome # "none") = (w.kind = "terminal")

TypeOK ==
  /\ {now, activation, generation, alarm, handler.at} \subseteq Nat
  /\ works \in [Messages -> Works]
  /\ \A m \in Messages : WorkOK(works[m])
  /\ wiping \in BOOLEAN
  /\ handler.pc \in {"idle", "retry", "reclaim", "run"}
  /\ task \in [Slots -> Tasks]
  /\ inFlight \in [Messages -> Nat]
  /\ issued \in [Attempts -> SUBSET Plans]
  /\ receipts \in [Messages -> SUBSET Nat]
  /\ Account!OutboxTypeOK

\* A part is dispatched only after Twitch accepted the part before it.
PartsInOrder ==
  \A m \in Messages, k \in Parts :
    k > 1 /\ issued[<<m, k>>] # {} => accepted[<<m, k - 1>>] # NoPlan

\* Whatever was recomputed after crashes and expired leases, every dispatch of
\* a message, in every part and every retry, carries one frozen plan.
OnePlan ==
  \A m \in Messages : Cardinality(UNION {issued[<<m, k>>] : k \in Parts}) <= 1

\* At most one fiber at a time calls the account for a message, although claims
\* expire while calls are still running.
SingleCaller ==
  \A s, r \in Slots :
    task[s].pc = "calling" /\ task[r].pc = "calling" /\ Msg(s) = Msg(r) => s = r

\* docs/cloudflare-migration-plan.md: "Duplicate requests use the original
\* timestamp and recorded response or disposition; they never extend a deadline."
\* A message is admitted with one receipt time, so it has one deadline.  This needs
\* the RetentionAssumption.
DeadlineNeverExtended ==
  \A m \in Messages : Cardinality(receipts[m]) <= 1

\* Every admitted message is disposed of, at last forgotten and its storage deleted,
\* through expired leases, lost answers and reconstructions, even when the object is
\* lost between the last transaction and the deletion.
Forgotten ==
  (\E m \in Messages : works[m].kind # "none") ~> (\A m \in Messages : works[m].kind = "none")
=============================================================================
