----------------------------- MODULE SendLedger -----------------------------
(***************************************************************************)
(* TwitchAccount.dispatch: the durable ledger through which every chat     *)
(* POST of the Twitch account goes (packages/twitch/src/account.ts,        *)
(* state.ts, provider.ts).  A call of dispatch is a process of several     *)
(* storage transactions with awaits between them; calls for one channel    *)
(* queue on the channel's gate only from the claim on.  The Durable Object *)
(* may be lost at any await and a new instance constructed over the same   *)
(* storage; a deployment may construct the next revision's instance while  *)
(* calls of the previous one still run.  Twitch may process a POST long    *)
(* after the call that made it stopped waiting, or never.                  *)
(*                                                                         *)
(* One tick of `now` is the coarsest unit the code's durations share.  A   *)
(* call keeps the clock value it read before a transaction and uses it     *)
(* inside the transaction, as the code does.                               *)
(***************************************************************************)
EXTENDS Naturals, Sequences, FiniteSets, FiniteSetsExt

CONSTANTS
  Attempts, Channels, Calls, Prints, \* attempt ids, broadcasters, dispatch calls, fingerprints
  NoPrint, NoCall,                   \* absent values
  ChannelOf, Deadline,               \* the channel and the deadline of an attempt
  Retention,                         \* policy.retentionMs
  GlobalWindow, GlobalMessages,      \* policy.globalWindowMs, globalMessages
  ChannelSpacing,                    \* policy.channelMs
  MaxAttempts,                       \* policy.maxAttempts
  TokenRetry, AuthRetry, LimitRetry, \* the 1_000, 100 and 1_000 ms of the retryable answers
  Resets,                            \* offsets of Twitch's rate-limit reset headers
  StaleClock,                        \* may time pass between a clock read and its transaction?
  Overlap,                           \* may calls of a superseded revision still run?
  MaxTime, MaxInstance, MaxSession   \* bounds of the model

ASSUME SendLedgerAssumption ==
  /\ ChannelOf \in [Attempts -> Channels]
  /\ Deadline \in [Attempts -> Nat]
  /\ {Retention, GlobalWindow, GlobalMessages, ChannelSpacing, MaxAttempts,
      TokenRetry, AuthRetry, LimitRetry, MaxTime, MaxInstance, MaxSession} \subseteq Nat
  /\ GlobalWindow > 0 /\ GlobalMessages > 0 /\ ChannelSpacing > 0
  /\ Resets \subseteq Nat
  /\ StaleClock \in BOOLEAN
  /\ Overlap \in BOOLEAN
  /\ NoPrint \notin Prints
  /\ NoCall \notin Calls

VARIABLES
  now,          \* the clock
  instance,     \* the Durable Object instance that was constructed last
  eligible,     \* per channel: installed, subscribed from the attempt's source and ready
  session,      \* generation of the stored app session, 0 when there is none
  minted,       \* sessions minted so far
  attempts,     \* the ledger: one row per attempt
  reservations, \* send reservations in the order they were made
  blockedUntil, \* apiBlockedUntil
  call,         \* one record per dispatch call
  wire,         \* calls whose POST Twitch has not processed yet
  posted        \* history: per attempt, the calls whose POST Twitch accepted

vars == <<now, instance, eligible, session, minted, attempts, reservations,
          blockedUntil, call, wire, posted>>

Outcomes == {"sent", "rejected", "ambiguous", "expired", "retryable"}
Verdicts == {"sent", "rejected", "ambiguous", "expired"}   \* what a terminal row records
Replies == Verdicts \cup {"limited", "unauthorized"}       \* SendResult of the provider

(***************************************************************************)
(* Ledger rows.  `owner` and `instance` are those of the claim that put    *)
(* the row in "sending"; `verdict` is the outcome of a terminal row.  The  *)
(* row's retainUntil is a function of its attempt.                         *)
(***************************************************************************)
Kinds == {"none", "waiting", "sending", "terminal"}
Rows == [kind : Kinds, print : Prints \cup {NoPrint}, owner : Calls \cup {NoCall},
         instance : Nat, verdict : Verdicts]

NoRow == [kind |-> "none", print |-> NoPrint, owner |-> NoCall, instance |-> 0,
          verdict |-> "expired"]
Waiting(p) == [NoRow EXCEPT !.kind = "waiting", !.print = p]
Terminal(p, v) == [NoRow EXCEPT !.kind = "terminal", !.print = p, !.verdict = v]
Sending(p, c, i) == [NoRow EXCEPT !.kind = "sending", !.print = p, !.owner = c, !.instance = i]

RetainUntil(a) == Deadline[a] + Retention

\* reclaimSend: rows past their retention and reservations past the window go.
ReclaimedRows(t) ==
  [a \in Attempts |-> IF RetainUntil(a) <= t THEN NoRow ELSE attempts[a]]
InWindow(t) == {i \in DOMAIN reservations : reservations[i].at + GlobalWindow > t}
Nth(S, k) == CHOOSE i \in S : Cardinality({j \in S : j <= i}) = k
Recent(t) == [k \in 1..Cardinality(InWindow(t)) |-> reservations[Nth(InWindow(t), k)]]

\* Is the global window used up?  The mutant lets one send too many through.
MutantFull(recent) == Len(recent) > GlobalMessages
Full(recent) == Len(recent) >= GlobalMessages

\* reserveAt: the earliest time at which channel ch may send, seen from t.
ReserveAt(ch, t) ==
  LET recent == Recent(t)
      mine == {i \in 1..Len(recent) : recent[i].channel = ch}
  IN  Max({t, blockedUntil}
          \cup {recent[i].at + GlobalWindow :
                  i \in IF Full(recent) THEN {Len(recent) + 1 - GlobalMessages} ELSE {}}
          \cup {recent[i].at + ChannelSpacing :
                  i \in {j \in mine : \A k \in mine : k <= j}})

(***************************************************************************)
(* Calls.  `at` is the clock value the call holds, `token` the generation  *)
(* of the session it sends with, `reply` the provider's result and `reset` *)
(* the time up to which that result blocks the API (0 when it does not).   *)
(***************************************************************************)
Phases == {"idle", "read", "usable", "refuse", "token", "gate", "claim", "send",
           "posting", "complete", "done", "lost"}
CallRecords ==
  [pc : Phases, attempt : Attempts, print : Prints, instance : Nat, at : Nat, token : Nat,
   reply : Replies, reset : Nat, answer : Outcomes]

Att(c) == call[c].attempt
Row(c) == attempts[Att(c)]
Due(c) == Deadline[Att(c)]
Ch(c) == ChannelOf[Att(c)]

Goto(c, pc) == call' = [call EXCEPT ![c].pc = pc]
Reading(c, pc) == call' = [call EXCEPT ![c].pc = pc, ![c].at = now]
Answer(c, o) == call' = [call EXCEPT ![c].pc = "done", ![c].answer = o]

\* `current`: the stored revision is the one this call's instance was configured with.
Current(c) == call[c].instance = instance

\* The lifecycle, subscription and readiness checks; decideChannel is "ready"
\* only under the current revision.
Usable(c) == eligible[Ch(c)] /\ Current(c)

\* gated: the channel's in-memory semaphore of one instance.  The mutant never
\* releases it.
MutantHoldsGate(c) == call[c].pc \in {"claim", "send", "posting", "complete", "done"}
HoldsGate(c) == call[c].pc \in {"claim", "send", "posting", "complete"}
GateFree(c) ==
  \A d \in Calls : ~(HoldsGate(d) /\ Ch(d) = Ch(c) /\ call[d].instance = call[c].instance)

\* A retryable answer is given only for a time before the deadline.
RetryOrExpire(c, t) == IF t < Due(c) THEN "retryable" ELSE "expired"

Init ==
  /\ now = 0
  /\ instance = 1
  /\ eligible = [ch \in Channels |-> TRUE]
  /\ session = 0
  /\ minted = 0
  /\ attempts = [a \in Attempts |-> NoRow]
  /\ reservations = <<>>
  /\ blockedUntil = 0
  /\ call \in [Calls -> {[pc |-> "idle", attempt |-> a, print |-> p, instance |-> 1, at |-> 0,
                          token |-> 0, reply |-> "expired", reset |-> 0, answer |-> "expired"] :
                            a \in Attempts, p \in Prints}]
  /\ wire = {}
  /\ posted = [a \in Attempts |-> {}]

envVars == <<eligible, session, minted>>
sendVars == <<reservations, blockedUntil>>
twitchVars == <<wire, posted>>

-----------------------------------------------------------------------------
(***************************************************************************)
(* dispatch: decode the input, compute its fingerprint, read the clock.    *)
(***************************************************************************)
Start(c) ==
  /\ call[c].pc = "idle"
  /\ call' = [call EXCEPT ![c].pc = "read", ![c].at = now, ![c].instance = instance]
  /\ UNCHANGED <<now, instance, envVars, attempts, sendVars, twitchVars>>

\* What a row of this attempt already says; a waiting or absent row says nothing.
\* The mutant takes an interrupted send for one that failed.
MutantRejects(row, c) ==
  IF row.kind # "none" /\ row.print # call[c].print THEN {"rejected"}
  ELSE CASE row.kind = "terminal" -> {row.verdict}
         [] row.kind = "sending" -> {"rejected"}
         [] OTHER -> {}
Recorded(row, c) ==
  IF row.kind # "none" /\ row.print # call[c].print THEN {"rejected"}
  ELSE CASE row.kind = "terminal" -> {row.verdict}
         [] row.kind = "sending" -> {"ambiguous"}
         [] OTHER -> {}

\* The first transaction: reclaim, then answer from the ledger if it can.  A
\* send that another instance left, or that outlived its deadline, is settled
\* as ambiguous.
ReadLedger(c) ==
  LET t == call[c].at
      rows == ReclaimedRows(t)
      row == rows[Att(c)]
      interrupted == /\ row.kind = "sending" /\ row.print = call[c].print
                     /\ row.instance # call[c].instance \/ t >= Due(c)
  IN  /\ call[c].pc = "read"
      /\ reservations' = Recent(t)
      /\ attempts' = IF interrupted
                     THEN [rows EXCEPT ![Att(c)] = Terminal(row.print, "ambiguous")]
                     ELSE rows
      /\ \/ \E o \in Recorded(row, c) : Answer(c, o)
         \/ Recorded(row, c) = {} /\ t >= Due(c) /\ Answer(c, "expired")
         \/ Recorded(row, c) = {} /\ t < Due(c) /\ ~Current(c) /\ Answer(c, "rejected")
         \/ Recorded(row, c) = {} /\ t < Due(c) /\ Current(c) /\ Goto(c, "usable")
      /\ UNCHANGED <<now, instance, envVars, blockedUntil, twitchVars>>

\* channelDispatch: is the channel still usable from the attempt's source?
CheckUsable(c) ==
  /\ call[c].pc = "usable"
  /\ Goto(c, IF Usable(c) THEN "token" ELSE "refuse")
  /\ UNCHANGED <<now, instance, envVars, attempts, sendVars, twitchVars>>

\* The transaction of an unusable channel: a send in progress or a recorded
\* outcome wins over the refusal.
Refuse(c) ==
  LET row == Row(c)
  IN  /\ call[c].pc = "refuse"
      /\ \/ row.kind = "sending" /\ Answer(c, "ambiguous") /\ UNCHANGED attempts
         \/ row.kind = "terminal" /\ Answer(c, row.verdict) /\ UNCHANGED attempts
         \/ /\ row.kind \in {"none", "waiting"}
            /\ attempts' = [attempts EXCEPT ![Att(c)] = Terminal(call[c].print, "rejected")]
            /\ Answer(c, "rejected")
      /\ UNCHANGED <<now, instance, envVars, sendVars, twitchVars>>

\* appToken, whole: the stored session, a freshly minted one, or a failure,
\* which drops the session when this call held the token lease.
TakeToken(c) ==
  /\ call[c].pc = "token"
  /\ \/ /\ Current(c) /\ session # 0
        /\ call' = [call EXCEPT ![c].pc = "gate", ![c].token = session]
        /\ UNCHANGED <<session, minted>>
     \/ /\ Current(c) /\ minted < MaxSession
        /\ minted' = minted + 1
        /\ session' = minted + 1
        /\ call' = [call EXCEPT ![c].pc = "gate", ![c].token = minted + 1]
     \/ /\ session' \in IF Current(c) THEN {session, 0} ELSE {session}
        /\ Answer(c, RetryOrExpire(c, now + TokenRetry))
        /\ UNCHANGED minted
  /\ UNCHANGED <<now, instance, eligible, attempts, sendVars, twitchVars>>

\* gated: enter the channel's critical section and read the clock.
EnterGate(c) ==
  /\ call[c].pc = "gate"
  /\ GateFree(c)
  /\ Reading(c, "claim")
  /\ UNCHANGED <<now, instance, envVars, attempts, sendVars, twitchVars>>

(***************************************************************************)
(* The claim: one transaction under the gate that answers, or reserves the *)
(* send and records it as "sending" before anything is posted.             *)
(***************************************************************************)
Claim(c) ==
  LET t == call[c].at
      rows == ReclaimedRows(t)
      row == rows[Att(c)]
      p == call[c].print
      held == {a \in Attempts : rows[a].kind # "none"}
      full == row.kind = "none" /\ Cardinality(held) >= MaxAttempts
      open == Recorded(row, c) = {} /\ t < Due(c)
      valid == open /\ ~full /\ Usable(c)
      ready == valid /\ session = call[c].token
      retryAt == ReserveAt(Ch(c), t)
      Record(new) == attempts' = [rows EXCEPT ![Att(c)] = new]
      Reply(o) == Answer(c, o) /\ reservations' = Recent(t)
  IN  /\ call[c].pc = "claim"
      /\ \/ \E o \in Recorded(row, c) : Reply(o) /\ attempts' = rows
         \/ Recorded(row, c) = {} /\ t >= Due(c) /\ Reply("expired") /\ attempts' = rows
         \/ /\ open /\ full
            /\ Reply(RetryOrExpire(c, Min({RetainUntil(a) : a \in held})))
            /\ attempts' = rows
         \/ /\ open /\ ~full /\ ~Usable(c)
            /\ Reply("rejected")
            /\ Record(Terminal(p, "rejected"))
         \/ /\ valid /\ ~ready
            /\ Reply(RetryOrExpire(c, t + AuthRetry))
            /\ attempts' = rows
         \/ /\ ready /\ retryAt > t /\ retryAt >= Due(c)
            /\ Reply("expired")
            /\ Record(Terminal(p, "expired"))
         \/ /\ ready /\ retryAt > t /\ retryAt < Due(c)
            /\ Reply("retryable")
            /\ Record(Waiting(p))
         \/ /\ ready /\ retryAt = t
            /\ reservations' = Append(Recent(t), [channel |-> Ch(c), at |-> t])
            /\ Record(Sending(p, c, call[c].instance))
            /\ Goto(c, "send")
      /\ UNCHANGED <<now, instance, envVars, blockedUntil, twitchVars>>

\* provider.send reads the clock again: a claim that is too late by now posts
\* nothing.
Send(c) ==
  /\ call[c].pc = "send"
  /\ \/ /\ now >= Due(c)
        /\ call' = [call EXCEPT ![c].pc = "complete", ![c].at = now,
                                ![c].reply = "expired", ![c].reset = 0]
        /\ UNCHANGED wire
     \/ /\ now < Due(c)
        /\ Goto(c, "posting")
        /\ wire' = wire \cup {c}
  /\ UNCHANGED <<now, instance, envVars, attempts, sendVars, posted>>

\* The provider's result reaches the call, which reads the clock.
Receive(c, r, until) ==
  call' = [call EXCEPT ![c].pc = "complete", ![c].at = now, ![c].reply = r, ![c].reset = until]

\* The rate-limit reset a response may carry; a 429 always blocks, for at
\* least LimitRetry.
ResetTimes == {0} \cup {now + k : k \in Resets}

\* Twitch processes a POST.  An acceptance may reach the call as "sent", or as
\* "ambiguous" when the response is unreadable; a call that has stopped waiting
\* hears nothing.
TwitchAccepts(c) ==
  /\ c \in wire
  /\ wire' = wire \ {c}
  /\ posted' = [posted EXCEPT ![Att(c)] = @ \cup {c}]
  /\ IF call[c].pc = "posting"
     THEN \/ \E until \in ResetTimes : Receive(c, "sent", until)
          \/ Receive(c, "ambiguous", 0)
     ELSE UNCHANGED call
  /\ UNCHANGED <<now, instance, envVars, attempts, sendVars>>

\* Twitch refuses a POST: 400, 403, 422, is_sent false, 401, 429 or a server
\* error.
TwitchRefuses(c) ==
  /\ c \in wire
  /\ wire' = wire \ {c}
  /\ IF call[c].pc = "posting"
     THEN \/ \E r \in {"rejected", "unauthorized"}, until \in ResetTimes : Receive(c, r, until)
          \/ \E until \in ResetTimes : Receive(c, "limited", Max({now + LimitRetry, until}))
          \/ Receive(c, "ambiguous", 0)
     ELSE UNCHANGED call
  /\ UNCHANGED <<now, instance, envVars, attempts, sendVars, posted>>

\* The request times out or its connection fails while the POST may still be
\* on its way.
LoseResponse(c) ==
  /\ call[c].pc = "posting"
  /\ Receive(c, "ambiguous", 0)
  /\ UNCHANGED <<now, instance, envVars, attempts, sendVars, twitchVars>>

(***************************************************************************)
(* The completion transaction, and the end of the gated section.  It only  *)
(* touches a row this very call put in "sending".                          *)
(***************************************************************************)
\* The mutant completes whatever row there is.
MutantOwns(c) == Row(c).print = call[c].print
Owns(c) == Row(c).kind = "sending" /\ Row(c).owner = c

\* The replies after which Twitch certainly accepted nothing and may be asked
\* again; the mutant also repeats ambiguous sends.
MutantRepeatable == {"limited", "unauthorized", "ambiguous"}
Repeatable == {"limited", "unauthorized"}

\* The outcome of a reply that is not repeated.
VerdictOf(reply) == IF reply \in Verdicts THEN reply ELSE "expired"

Complete(c) ==
  LET reply == call[c].reply
      retryAt == IF reply = "limited" THEN call[c].reset ELSE call[c].at + AuthRetry
      again == reply \in Repeatable /\ retryAt < Due(c)
  IN  /\ call[c].pc = "complete"
      /\ session' = IF reply = "unauthorized" /\ Current(c) /\ session = call[c].token
                    THEN 0 ELSE session
      /\ \/ ~Owns(c) /\ Answer(c, "ambiguous") /\ UNCHANGED <<attempts, blockedUntil>>
         \/ /\ Owns(c)
            /\ blockedUntil' = Max({blockedUntil, call[c].reset})
            /\ \/ /\ again
                  /\ attempts' = [attempts EXCEPT ![Att(c)] = Waiting(call[c].print)]
                  /\ Answer(c, "retryable")
               \/ /\ ~again
                  /\ attempts' = [attempts EXCEPT
                                    ![Att(c)] = Terminal(call[c].print, VerdictOf(reply))]
                  /\ Answer(c, VerdictOf(reply))
      /\ UNCHANGED <<now, instance, eligible, minted, reservations, twitchVars>>

-----------------------------------------------------------------------------
(***************************************************************************)
(* The surroundings of dispatch.                                           *)
(***************************************************************************)
\* Status, enrollment, observation and reconciliation change what a channel may do.
ChangeChannel(ch) ==
  /\ eligible' = [eligible EXCEPT ![ch] = ~@]
  /\ UNCHANGED <<now, instance, session, minted, attempts, sendVars, call, twitchVars>>

\* removeChannel: a revoked authorization or a removal by the owner also settles
\* what waits for the channel.
RemoveChannel(ch) ==
  /\ eligible' = [eligible EXCEPT ![ch] = FALSE]
  /\ attempts' = [a \in Attempts |->
                    IF ChannelOf[a] = ch /\ attempts[a].kind = "waiting"
                    THEN Terminal(attempts[a].print, "rejected") ELSE attempts[a]]
  /\ UNCHANGED <<now, instance, session, minted, sendVars, call, twitchVars>>

\* appToken, called by the alarm, the status and the reconciliation.
Renew ==
  /\ minted < MaxSession
  /\ minted' = minted + 1
  /\ session' = minted + 1
  /\ UNCHANGED <<now, instance, eligible, attempts, sendVars, call, twitchVars>>

\* invalidate: another caller of the app token saw a 401.
Invalidate ==
  /\ session # 0
  /\ session' = 0
  /\ UNCHANGED <<now, instance, eligible, minted, attempts, sendVars, call, twitchVars>>

\* The alarm and every status call reclaim too.
Reclaim ==
  /\ attempts' = ReclaimedRows(now)
  /\ reservations' = Recent(now)
  /\ UNCHANGED <<now, instance, envVars, blockedUntil, call, twitchVars>>

\* The object is lost: its calls never answer, their POSTs may still arrive.
Crash ==
  /\ instance < MaxInstance
  /\ instance' = instance + 1
  /\ call' = [c \in Calls |-> IF call[c].pc \in {"idle", "done"} THEN call[c]
                              ELSE [call[c] EXCEPT !.pc = "lost"]]
  /\ UNCHANGED <<now, envVars, attempts, sendVars, twitchVars>>

\* A deployment constructs an instance of the next revision while calls of the
\* previous one still run.  The new revision starts without sender, channels,
\* grants and session.
Deploy ==
  /\ Overlap
  /\ instance < MaxInstance
  /\ instance' = instance + 1
  /\ eligible' = [ch \in Channels |-> FALSE]
  /\ session' = 0
  /\ UNCHANGED <<now, minted, attempts, sendVars, call, twitchVars>>

Tick ==
  /\ now < MaxTime
  /\ StaleClock \/ \A c \in Calls : call[c].pc \notin {"read", "claim", "send", "complete"}
  /\ now' = now + 1
  /\ UNCHANGED <<instance, envVars, attempts, sendVars, call, twitchVars>>

Dispatch(c) ==
  \/ ReadLedger(c) \/ CheckUsable(c) \/ Refuse(c) \/ TakeToken(c) \/ EnterGate(c)
  \/ Claim(c) \/ Send(c) \/ LoseResponse(c) \/ Complete(c)

Next ==
  \/ \E c \in Calls : Start(c) \/ Dispatch(c) \/ TwitchAccepts(c) \/ TwitchRefuses(c)
  \/ \E ch \in Channels : ChangeChannel(ch) \/ RemoveChannel(ch)
  \/ Renew \/ Invalidate \/ Reclaim \/ Crash \/ Deploy \/ Tick

Spec == Init /\ [][Next]_vars

\* Every await of a call ends: storage answers, the request times out, gates
\* are handed on.
FairSpec == Spec /\ \A c \in Calls : WF_vars(Dispatch(c))

-----------------------------------------------------------------------------
(***************************************************************************)
(* Properties.                                                             *)
(***************************************************************************)
Reservations == Seq([channel : Channels, at : Nat])

\* The ledger, the calls and the wire keep their shape.
TypeOK ==
  /\ now \in Nat /\ instance \in Nat /\ session \in Nat /\ minted \in Nat
  /\ eligible \in [Channels -> BOOLEAN]
  /\ attempts \in [Attempts -> Rows]
  /\ reservations \in Reservations
  /\ blockedUntil \in Nat
  /\ call \in [Calls -> CallRecords]
  /\ wire \in SUBSET Calls
  /\ posted \in [Attempts -> SUBSET Calls]

\* dispatch posts a message at most once with success, whatever crashes,
\* redeliveries, late responses and reclaimed rows come between: no two calls
\* have a POST of one attempt accepted.
AtMostOnce ==
  \A a \in Attempts : \A c, d \in posted[a] : c = d

\* An attempt whose POST may still be accepted, or was, is never free to be
\* claimed again: while its deadline lasts, its row says so.
NoSecondChance ==
  \A c \in Calls :
    (c \in wire \/ c \in posted[Att(c)]) /\ now < Due(c)
      => Row(c).kind \in {"sending", "terminal"} /\ Row(c).print = call[c].print

\* reserveAt holds the account to GlobalMessages sends in any GlobalWindow and
\* each channel to one per ChannelSpacing, over all channels, instances and calls,
\* although the clock was read before the transaction that uses it.
RateLimit ==
  \A i \in DOMAIN reservations :
    LET r == reservations[i]
        window == {j \in DOMAIN reservations :
                     reservations[j].at <= r.at /\ r.at < reservations[j].at + GlobalWindow}
        near == {j \in window : /\ reservations[j].channel = r.channel
                                /\ r.at < reservations[j].at + ChannelSpacing}
    IN  /\ Cardinality(window) <= GlobalMessages
        /\ near = {i}

\* A recorded outcome is final: no late completion, refusal or other instance
\* changes a terminal row; it only disappears, after its retention.
SettledStays ==
  [][\A a \in Attempts : attempts[a].kind = "terminal" =>
       \/ attempts'[a] = attempts[a]
       \/ attempts'[a] = NoRow /\ RetainUntil(a) <= now]_vars

\* dispatch implements the promise of Outbox.
Told(a, p) ==
  {call[c].answer : c \in {d \in Calls : /\ call[d].pc = "done" /\ call[d].attempt = a
                                         /\ call[d].print = p}}
    \cap {"sent", "rejected"}
AcceptedPrint(a) ==
  IF posted[a] = {} THEN NoPrint ELSE call[CHOOSE c \in posted[a] : TRUE].print

Promise == INSTANCE Outbox WITH
  accepted <- [a \in Attempts |-> AcceptedPrint(a)],
  told <- [a \in Attempts |-> [p \in Prints |-> Told(a, p)]]

KeepsPromise == Promise!OutboxSpec

\* Every dispatch is answered, or its instance is lost: no path through the
\* ledger, the gate and the provider leaves a caller waiting.
EveryCallAnswered ==
  \A c \in Calls : call[c].pc = "read" ~> call[c].pc \in {"done", "lost"}
=============================================================================
