----------------------------- MODULE Credential -----------------------------
(***************************************************************************)
(* The app session of the Twitch account: appToken, invalidate and the     *)
(* credential part of the object's alarm (packages/twitch/src/account.ts), *)
(* with the alarm that every storage transaction sets (cloudflare.ts).     *)
(*                                                                         *)
(* A call of appToken asks the storage, may fetch a token and a validation *)
(* from Twitch, and stores the result in a second transaction; one call at *)
(* a time runs in an instance (tokenLock).  The stored lease stands for a  *)
(* call that another instance may have left.  Callers use the session as   *)
(* long as they like and report a 401 whenever it comes.  The object may   *)
(* be lost at any await and is constructed again when something needs it.  *)
(***************************************************************************)
EXTENDS Naturals, FiniteSetsExt

CONSTANTS
  Calls, Alarm, NoCall, \* calls of appToken; the one the alarm makes; an owner that is gone
  Hour, LeaseLength,    \* policy.hourlyMs, tokenLeaseMs
  Early,                \* the 5_000 ms a session is given up before it expires
  RetryDelay,           \* the 5_000 ms of tokenRetryAt
  CheckDelay,           \* the 60_000 ms to the next check after a failure
  MaxFailures,          \* the 3 failures after which the alarm gives up
  Lifetimes,            \* what Twitch may say a token has left
  Never,                \* later than any time
  LastCall,             \* no call, rejection or loss begins later
  MaxTime, MaxInstance, MaxToken \* bounds of the model

ASSUME CredentialAssumption ==
  /\ Alarm \in Calls /\ NoCall \notin Calls
  /\ {Hour, LeaseLength, Early, RetryDelay, CheckDelay, MaxFailures, Never, LastCall,
      MaxTime, MaxInstance, MaxToken} \subseteq Nat
  /\ MaxFailures > 0
  /\ \A d \in {1, Hour, LeaseLength} : Never > MaxTime + d
  /\ Lifetimes \subseteq Nat
  /\ \A k \in Lifetimes : k > Early

VARIABLES
  now, instance,    \* the clock; the revision and instance constructed last
  up,               \* is there an instance?
  session,          \* stored: the session, or NoSession
  lease,            \* stored: tokenLease, or NoLease
  retryAt,          \* stored: tokenRetryAt
  failures,         \* stored: credentialFailures
  nextCheck,        \* stored: nextCredentialCheck, or Never
  alarm,            \* stored: the object's alarm, or Never
  handler,          \* the alarm handler
  validated,        \* in memory: validatedGeneration, 0 for none
  call,             \* the calls of appToken and their callers
  minted,           \* tokens Twitch has minted
  checked,          \* history: generations validated for the current instance
  latest            \* history: the latest generation stored

vars == <<now, instance, up, session, lease, retryAt, failures, nextCheck, alarm, handler,
          validated, call, minted, checked, latest>>

\* A token and its generation are one number: the generation only changes with
\* the token.
Sessions == [generation : Nat, expiresAt : Nat, validatedAt : Nat]
NoSession == [generation |-> 0, expiresAt |-> 0, validatedAt |-> 0]
Leases == [owner : Calls \cup {NoCall}, until : Nat]
NoLease == [owner |-> NoCall, until |-> 0]

Phases == {"idle", "queued", "ask", "mint", "validate", "accept", "adopt", "fail",
           "got", "error"}
CallRecords ==
  [pc : Phases, instance : Nat, at : Nat, completed : Nat, claimed : Sessions,
   token : Nat, expiresAt : Nat]
NoCallRecord ==
  [pc |-> "idle", instance |-> 0, at |-> 0, completed |-> 0, claimed |-> NoSession,
   token |-> 0, expiresAt |-> 0]

Goto(c, pc) == call' = [call EXCEPT ![c].pc = pc]

\* current: the stored revision is the one this call's instance was configured with.
Current(c) == call[c].instance = instance

\* tokenLock, of one instance.
HoldsLock(c) == call[c].pc \in {"ask", "mint", "validate", "accept", "adopt", "fail"}
LockFree(c) == \A d \in Calls : ~(HoldsLock(d) /\ call[d].instance = call[c].instance)

\* Every transaction ends by setting the object's alarm to the next due time.
\* The mutant trusts the alarm that is there.
MutantCommit(check) == nextCheck' = check /\ UNCHANGED alarm
Commit(check) == nextCheck' = check /\ alarm' = check

CheckTime(s) == Min({s.validatedAt + Hour, s.expiresAt - Early})

Init ==
  /\ now = 0 /\ instance = 1 /\ up = TRUE
  /\ session = NoSession /\ lease = NoLease /\ retryAt = 0 /\ failures = 0
  /\ nextCheck = Never /\ alarm = Never /\ handler = "idle"
  /\ validated = 0
  /\ call = [c \in Calls |-> NoCallRecord]
  /\ minted = 0 /\ checked = {} /\ latest = 0

clockVars == <<now, instance, up>>
history == <<checked, latest>>

-----------------------------------------------------------------------------
(***************************************************************************)
(* appToken.                                                               *)
(***************************************************************************)
\* A caller needs the session: a dispatch, setup, repair or sweep.
Start(c) ==
  /\ c # Alarm /\ call[c].pc = "idle" /\ up /\ now <= LastCall
  /\ call' = [call EXCEPT ![c] = [NoCallRecord EXCEPT !.pc = "queued", !.instance = instance]]
  /\ UNCHANGED <<clockVars, session, lease, retryAt, failures, nextCheck, alarm, handler,
                 validated, minted, history>>

\* Take the lock and read the clock.
Enter(c) ==
  /\ call[c].pc = "queued"
  /\ LockFree(c)
  /\ call' = [call EXCEPT ![c].pc = "ask", ![c].at = now]
  /\ UNCHANGED <<clockVars, session, lease, retryAt, failures, nextCheck, alarm, handler,
                 validated, minted, history>>

Lives(t) == session # NoSession /\ session.expiresAt > t + Early

\* May the stored session be used as it is?  The mutant trusts a validation that
\* an earlier instance made.
MutantCached(t) == Lives(t) /\ session.validatedAt + Hour > t
Cached(t) == Lives(t) /\ session.validatedAt + Hour > t /\ validated = session.generation

Busy(t) == retryAt > t \/ (lease # NoLease /\ lease.until > t)

\* The first transaction: the cached session, a refusal, or the claim of the lease.
Ask(c) ==
  LET t == call[c].at
      claims == Current(c) /\ ~Cached(t) /\ ~Busy(t)
  IN  /\ call[c].pc = "ask"
      /\ \/ /\ Current(c) /\ Cached(t)
            /\ Commit(CheckTime(session))
            /\ call' = [call EXCEPT ![c].pc = "got", ![c].token = session.generation]
            /\ UNCHANGED lease
         \/ /\ ~Current(c) \/ (~Cached(t) /\ Busy(t))
            /\ Commit(nextCheck)
            /\ Goto(c, "error")
            /\ UNCHANGED lease
         \/ /\ claims
            /\ Commit(t + LeaseLength)
            /\ lease' = [owner |-> c, until |-> t + LeaseLength]
            /\ call' = [call EXCEPT ![c].pc = IF Lives(t) THEN "validate" ELSE "mint",
                                    ![c].claimed = session,
                                    ![c].token = session.generation]
      /\ UNCHANGED <<clockVars, session, retryAt, failures, handler, validated, minted, history>>

\* provider.mint: a new token, or an error.
Mint(c) ==
  /\ call[c].pc = "mint"
  /\ \/ /\ minted < MaxToken
        /\ minted' = minted + 1
        /\ call' = [call EXCEPT ![c].pc = "validate", ![c].token = minted + 1]
     \/ Goto(c, "fail") /\ UNCHANGED minted
  /\ UNCHANGED <<clockVars, session, lease, retryAt, failures, nextCheck, alarm, handler,
                 validated, history>>

\* provider.validate and the checks of its answer, then the clock.
Validate(c) ==
  /\ call[c].pc = "validate"
  /\ \/ /\ \E k \in Lifetimes :
             call' = [call EXCEPT ![c].pc = "accept", ![c].completed = now,
                                  ![c].expiresAt = now + k]
        /\ checked' = IF Current(c) THEN checked \cup {call[c].token} ELSE checked
     \/ Goto(c, "fail") /\ UNCHANGED checked
  /\ UNCHANGED <<clockVars, session, lease, retryAt, failures, nextCheck, alarm, handler,
                 validated, minted, latest>>

\* Is this call still the one that may store a session?  The mutant only looks
\* at the revision.
MutantAccepts(c) == Current(c)
Accepts(c) ==
  Current(c) /\ lease.owner = c /\ session.generation = call[c].claimed.generation

\* The second transaction.
Accept(c) ==
  LET new == [generation |-> call[c].token, expiresAt |-> call[c].expiresAt,
              validatedAt |-> call[c].completed]
  IN  /\ call[c].pc = "accept"
      /\ \/ /\ Accepts(c)
            /\ session' = new
            /\ lease' = NoLease /\ retryAt' = 0 /\ failures' = 0
            /\ Commit(CheckTime(new))
            /\ latest' = Max({latest, new.generation})
            /\ Goto(c, "adopt")
         \/ /\ ~Accepts(c)
            /\ Commit(nextCheck)
            /\ Goto(c, "fail")
            /\ UNCHANGED <<session, lease, retryAt, failures, latest>>
      /\ UNCHANGED <<clockVars, handler, validated, minted, checked>>

\* validatedGeneration is set when the call goes on after its transaction.
Adopt(c) ==
  /\ call[c].pc = "adopt"
  /\ validated' = IF Current(c) THEN call[c].token ELSE validated
  /\ Goto(c, "got")
  /\ UNCHANGED <<clockVars, session, lease, retryAt, failures, nextCheck, alarm, handler,
                 minted, history>>

\* The session after a failure.
AfterFailure == NoSession

\* tapError: a failure under a lease that is still this call's drops the session.
Fail(c) ==
  LET mine == Current(c) /\ lease.owner = c
      t == call[c].at
  IN  /\ call[c].pc = "fail"
      /\ \/ /\ mine
            /\ lease' = NoLease /\ session' = AfterFailure
            /\ retryAt' = t + RetryDelay
            /\ failures' = failures + 1
            /\ Commit(IF failures + 1 < MaxFailures THEN t + CheckDelay ELSE Never)
         \/ /\ ~mine
            /\ Commit(nextCheck)
            /\ UNCHANGED <<lease, session, retryAt, failures>>
      /\ Goto(c, "error")
      /\ UNCHANGED <<clockVars, handler, validated, minted, history>>

\* The caller is done with its session, or with its error.
Return(c) ==
  /\ c # Alarm /\ call[c].pc \in {"got", "error"}
  /\ call' = [call EXCEPT ![c] = NoCallRecord]
  /\ UNCHANGED <<clockVars, session, lease, retryAt, failures, nextCheck, alarm, handler,
                 validated, minted, history>>

\* invalidate: Twitch answered a request made with the session with a 401.
Reject(c) ==
  LET drops == Current(c) /\ session # NoSession /\ session.generation = call[c].token
  IN  /\ c # Alarm /\ call[c].pc = "got" /\ now <= LastCall
      /\ \/ /\ drops
            /\ session' = NoSession /\ lease' = NoLease /\ retryAt' = 0
            /\ Commit(Never)
         \/ /\ ~drops
            /\ Commit(nextCheck)
            /\ UNCHANGED <<session, lease, retryAt>>
      /\ call' = [call EXCEPT ![c] = NoCallRecord]
      /\ UNCHANGED <<clockVars, failures, handler, validated, minted, history>>

-----------------------------------------------------------------------------
(***************************************************************************)
(* The alarm.  The platform clears it when it starts the handler and starts *)
(* the handler again if the object is lost under it.                       *)
(***************************************************************************)
\* The clock stops at MaxTime, and what is due later is due then.
Due(t) == t # Never /\ (t <= now \/ now = MaxTime)

AlarmFires ==
  /\ handler = "retry" \/ (handler = "idle" /\ Due(alarm))
  /\ handler' = "woken"
  /\ alarm' = IF handler = "retry" THEN alarm ELSE Never
  /\ UNCHANGED <<clockVars, session, lease, retryAt, failures, nextCheck, validated, call,
                 minted, history>>

\* Is there a credential to look after, and has the alarm not given up?
Active ==
  (session # NoSession \/ lease # NoLease \/ failures > 0) /\ failures < MaxFailures

\* credentialAlarm: its first transaction, and the call of appToken.
Maintain ==
  /\ handler = "woken" /\ up
  /\ \/ /\ Active
        /\ Commit(nextCheck)
        /\ handler' = "token"
        /\ call' = [call EXCEPT ![Alarm] = [NoCallRecord EXCEPT !.pc = "queued",
                                                                !.instance = instance]]
     \/ /\ ~Active
        /\ Commit(Never)
        /\ handler' = "idle"
        /\ UNCHANGED call
  /\ UNCHANGED <<clockVars, session, lease, retryAt, failures, validated, minted, history>>

\* The handler's call of appToken ended; after an error it reads the clock.
Checked ==
  /\ handler = "token" /\ call[Alarm].pc \in {"got", "error"}
  /\ handler' = IF call[Alarm].pc = "got" THEN "idle" ELSE "reschedule"
  /\ call' = [call EXCEPT ![Alarm] = [NoCallRecord EXCEPT !.at = now]]
  /\ UNCHANGED <<clockVars, session, lease, retryAt, failures, nextCheck, alarm, validated,
                 minted, history>>

\* The mutant forgets that another instance may hold the lease.
MutantLater(t) == Never
Later(t) ==
  Max({t + 1, retryAt, CASE lease # NoLease -> lease.until
                         [] lease = NoLease /\ nextCheck # Never -> nextCheck
                         [] OTHER -> t + CheckDelay})

Reschedule ==
  /\ handler = "reschedule"
  /\ Commit(IF failures < MaxFailures THEN Later(call[Alarm].at) ELSE Never)
  /\ handler' = "idle"
  /\ UNCHANGED <<clockVars, session, lease, retryAt, failures, validated, call, minted, history>>

-----------------------------------------------------------------------------
\* The object is lost: memory and calls go, and no call owns the lease any more.
Lose ==
  /\ up' = FALSE
  /\ instance' = instance + 1
  /\ call' = [c \in Calls |-> NoCallRecord]
  /\ handler' = IF handler = "idle" THEN "idle" ELSE "retry"
  /\ validated' = 0 /\ checked' = {}
  /\ lease' = [lease EXCEPT !.owner = NoCall]

Crash ==
  /\ up /\ instance < MaxInstance /\ now <= LastCall
  /\ Lose
  /\ UNCHANGED <<now, session, retryAt, failures, nextCheck, alarm, minted, latest>>

\* Construction of an instance over what the last one left: a stored session is
\* to be validated at once.
StartupCheck ==
  IF session # NoSession \/ lease # NoLease THEN now + 1 ELSE nextCheck

Construct ==
  /\ ~up
  /\ up' = TRUE
  /\ Commit(StartupCheck)
  /\ UNCHANGED <<now, instance, session, lease, retryAt, failures, handler, validated, call,
                 minted, history>>

\* A deployment: an instance of the next revision drops the credential while
\* calls of the superseded one still run; the handler starts again in it.
Deploy ==
  /\ up /\ instance < MaxInstance /\ now <= LastCall
  /\ instance' = instance + 1
  /\ session' = NoSession /\ lease' = NoLease /\ retryAt' = 0 /\ failures' = 0
  /\ Commit(Never)
  /\ validated' = 0 /\ checked' = {}
  /\ handler' = IF handler = "idle" THEN "idle" ELSE "retry"
  /\ call' = [call EXCEPT ![Alarm] = NoCallRecord]
  /\ UNCHANGED <<now, up, minted, latest>>

Tick ==
  /\ now < MaxTime
  /\ now' = now + 1
  /\ UNCHANGED <<instance, up, session, lease, retryAt, failures, nextCheck, alarm, handler,
                 validated, call, minted, history>>

Step(c) ==
  Ask(c) \/ Mint(c) \/ Validate(c) \/ Accept(c) \/ Adopt(c) \/ Fail(c) \/ Return(c)

Next ==
  \/ \E c \in Calls : Start(c) \/ Enter(c) \/ Step(c) \/ Reject(c)
  \/ AlarmFires \/ Maintain \/ Checked \/ Reschedule
  \/ Crash \/ Construct \/ Deploy \/ Tick

Spec == Init /\ [][Next]_vars

\* Requests and transactions end, the lock is handed on in order, the platform
\* fires a due alarm and constructs the object for it, time passes.
FairSpec ==
  /\ Spec
  /\ \A c \in Calls : WF_vars(Step(c)) /\ SF_vars(Enter(c))
  /\ WF_vars(AlarmFires) /\ WF_vars(Maintain) /\ WF_vars(Checked) /\ WF_vars(Reschedule)
  /\ WF_vars(Construct /\ handler = "woken")
  /\ WF_vars(Tick)

-----------------------------------------------------------------------------
(***************************************************************************)
(* Properties.                                                             *)
(***************************************************************************)
\* The record and the calls keep their shape; a stored session ends the count of
\* failures and the back-off.
TypeOK ==
  /\ {now, instance, retryAt, failures, nextCheck, alarm, validated, minted, latest}
       \subseteq Nat
  /\ up \in BOOLEAN
  /\ session \in Sessions
  /\ lease \in Leases
  /\ handler \in {"idle", "retry", "woken", "token", "reschedule"}
  /\ call \in [Calls -> CallRecords]
  /\ checked \in SUBSET Nat
  /\ session # NoSession => failures = 0 /\ retryAt = 0

\* appToken and invalidate keep the promise of AppSession: whatever was fetched
\* before a rejection, a loss or a deployment, a session that left the storage
\* never returns.
Stored == INSTANCE AppSession WITH session <- session.generation

KeepsSession == Stored!SessionSpec

\* docs/cloudflare-migration-plan.md: the credential is validated at startup.  A
\* session that appToken hands out was validated by the instance that hands it out.
ValidatedHere ==
  \A c \in Calls : call[c].pc = "got" /\ Current(c) => call[c].token \in checked

\* A stored session never loses its next check, through back-offs, cleared alarms
\* and losses: an alarm is set no later than the check, or a handler is about to run.
SessionWatched ==
  session # NoSession =>
    nextCheck # Never /\ (alarm <= nextCheck \/ handler \in {"woken", "retry"})

\* docs/cloudflare-migration-plan.md: "validates the credential at startup and
\* hourly while that session is maintained."  No validation stands for good: the
\* session is validated again or dropped.
HourlyCheck ==
  \A v \in 0..LastCall :
    session # NoSession /\ session.validatedAt = v
      ~> session = NoSession \/ session.validatedAt > v
=============================================================================
