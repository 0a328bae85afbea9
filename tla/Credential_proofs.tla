-------------------------- MODULE Credential_proofs --------------------------
(***************************************************************************)
(* Theorems about Credential, for any callers, policy, lifetimes, number   *)
(* of instances and length of a run.                                       *)
(*                                                                         *)
(* What keeps a session that left the storage from coming back is the      *)
(* claim of the lease: the invariant says that the call that owns it       *)
(* carries either the token of the session it claimed over, or one newer   *)
(* than every session ever stored.                                         *)
(***************************************************************************)
EXTENDS Credential, TLAPS

-----------------------------------------------------------------------------
(***************************************************************************)
(* The shape of the state.                                                 *)
(***************************************************************************)
\* A validation that is about to be stored leaves time for the next check.
RecordOK(rec) ==
  /\ rec \in CallRecords
  /\ rec.pc = "accept" => rec.expiresAt > Early

Shape ==
  /\ TypeOK
  /\ session # NoSession => session.expiresAt > Early
  /\ \A c \in Calls : RecordOK(call[c])

LEMMA MaxOfTwo ==
  ASSUME NEW m \in Nat, NEW n \in Nat
  PROVE  /\ Max({m, n}) \in {m, n}
         /\ Max({m, n}) >= m /\ Max({m, n}) >= n
<1>1. \E x \in {m, n} : \A y \in {m, n} : x >= y
  OBVIOUS
<1>2. QED
  BY <1>1 DEF Max

LEMMA MinOfTwo ==
  ASSUME NEW m \in Nat, NEW n \in Nat
  PROVE  /\ Min({m, n}) \in {m, n}
         /\ Min({m, n}) <= m /\ Min({m, n}) <= n
<1>1. \E x \in {m, n} : \A y \in {m, n} : x <= y
  OBVIOUS
<1>2. QED
  BY <1>1 DEF Min

LEMMA MaxOfThree ==
  ASSUME NEW k \in Nat, NEW m \in Nat, NEW n \in Nat PROVE Max({k, m, n}) \in {k, m, n}
<1>1. \E x \in {k, m, n} : \A y \in {k, m, n} : x >= y
  <2>1. CASE k >= m /\ k >= n
    BY <2>1
  <2>2. CASE m >= k /\ m >= n
    BY <2>2
  <2>3. CASE n >= k /\ n >= m
    BY <2>3
  <2>4. QED
    BY <2>1, <2>2, <2>3
<1>2. QED
  BY <1>1 DEF Max

LEMMA CheckTimeType ==
  ASSUME NEW s \in Sessions, s.expiresAt > Early PROVE CheckTime(s) \in Nat
<1>1. s.validatedAt + Hour \in Nat /\ s.expiresAt - Early \in Nat
  BY CredentialAssumption DEF Sessions
<1>2. QED
  BY <1>1, MinOfTwo DEF CheckTime

LEMMA LaterType == ASSUME Shape, NEW t \in Nat PROVE Later(t) \in Nat
<1>1. t + 1 \in Nat /\ retryAt \in Nat /\ lease.until \in Nat /\ nextCheck \in Nat
  BY DEF Shape, TypeOK, Leases
<1>2. t + CheckDelay \in Nat
  BY CredentialAssumption
<1>3. QED
  BY <1>1, <1>2, MaxOfThree DEF Later

LEMMA EmptyRecords ==
  /\ RecordOK(NoCallRecord) /\ NoSession \in Sessions /\ NoLease \in Leases
  /\ \A i \in Nat : RecordOK([NoCallRecord EXCEPT !.pc = "queued", !.instance = i])
BY DEF RecordOK, NoCallRecord, NoSession, NoLease, Sessions, Leases, CallRecords, Phases

\* A step of one call.
StepOf(c) == call' = [call EXCEPT ![c] = call'[c]]

LEMMA GotoStep ==
  ASSUME Shape, NEW c \in Calls, NEW pc \in Phases, Goto(c, pc), pc # "accept"
  PROVE  /\ StepOf(c) /\ RecordOK(call'[c])
         /\ call'[c] = [call[c] EXCEPT !.pc = pc]
<1>1. call[c] \in CallRecords
  BY DEF Shape, TypeOK
<1>2. call' = [call EXCEPT ![c] = [call[c] EXCEPT !.pc = pc]]
  BY DEF Goto
<1>3. [call[c] EXCEPT !.pc = pc] \in CallRecords /\ [call[c] EXCEPT !.pc = pc].pc = pc
  BY <1>1 DEF CallRecords
<1>4. call'[c] = [call[c] EXCEPT !.pc = pc]
  BY <1>2 DEF Shape, TypeOK
<1>5. QED
  BY <1>2, <1>3, <1>4 DEF StepOf, RecordOK

LEMMA CallsKept ==
  ASSUME Shape, NEW c \in Calls, StepOf(c), RecordOK(call'[c])
  PROVE  call' \in [Calls -> CallRecords] /\ \A d \in Calls : RecordOK(call'[d])
BY DEF Shape, TypeOK, StepOf, RecordOK

\* What a call's transactions and answers make of its record.
LEMMA AskRecord ==
  ASSUME Shape, NEW c \in Calls, Ask(c)
  PROVE  StepOf(c) /\ RecordOK(call'[c])
<1>1. call[c] \in CallRecords /\ session \in Sessions /\ call \in [Calls -> CallRecords]
  BY DEF Shape, TypeOK
<1>2. CASE call' = [call EXCEPT ![c].pc = "got", ![c].token = session.generation]
  BY <1>1, <1>2 DEF StepOf, RecordOK, CallRecords, Phases, Sessions
<1>3. CASE Goto(c, "error")
  BY <1>3, GotoStep DEF Phases
<1>4. CASE call' = [call EXCEPT ![c].pc = IF Lives(call[c].at) THEN "validate" ELSE "mint",
                                ![c].claimed = session, ![c].token = session.generation]
  <2>1. (IF Lives(call[c].at) THEN "validate" ELSE "mint") \in {"validate", "mint"}
    OBVIOUS
  <2>2. QED
    BY <1>1, <1>4, <2>1 DEF StepOf, RecordOK, CallRecords, Phases, Sessions
<1>5. QED
  BY <1>2, <1>3, <1>4 DEF Ask

LEMMA FetchRecords ==
  ASSUME Shape, NEW c \in Calls, Mint(c) \/ Validate(c)
  PROVE  StepOf(c) /\ RecordOK(call'[c])
<1>1. /\ call[c] \in CallRecords /\ call \in [Calls -> CallRecords]
      /\ minted \in Nat /\ now \in Nat
  BY DEF Shape, TypeOK
<1>2. CASE Goto(c, "fail")
  BY <1>2, GotoStep DEF Phases
<1>3. CASE call' = [call EXCEPT ![c].pc = "validate", ![c].token = minted + 1]
  <2> DEFINE new == [call[c] EXCEPT !.pc = "validate", !.token = minted + 1]
  <2>1. minted + 1 \in Nat /\ "validate" \in Phases
    BY <1>1 DEF Phases
  <2>2. new \in CallRecords /\ new.pc = "validate"
    BY <1>1, <2>1 DEF CallRecords
  <2>3. call' = [call EXCEPT ![c] = new]
    BY <1>3, Zenon
  <2> HIDE DEF new
  <2>4. QED
    BY <1>1, <2>2, <2>3 DEF StepOf, RecordOK
<1>4. ASSUME NEW k \in Lifetimes,
             call' = [call EXCEPT ![c].pc = "accept", ![c].completed = now,
                                  ![c].expiresAt = now + k]
      PROVE  StepOf(c) /\ RecordOK(call'[c])
  <2>1. k \in Nat /\ k > Early /\ Early \in Nat
    BY CredentialAssumption
  <2> DEFINE new == [call[c] EXCEPT !.pc = "accept", !.completed = now, !.expiresAt = now + k]
  <2>2. now + k \in Nat /\ now + k > Early /\ "accept" \in Phases
    BY <1>1, <2>1 DEF Phases
  <2>3. new \in CallRecords /\ new.expiresAt = now + k
    BY <1>1, <2>2 DEF CallRecords
  <2>4. call' = [call EXCEPT ![c] = new]
    BY <1>4, Zenon
  <2> HIDE DEF new
  <2>5. QED
    BY <1>1, <2>2, <2>3, <2>4 DEF StepOf, RecordOK
<1>5. QED
  BY <1>2, <1>3, <1>4 DEF Mint, Validate

LEMMA ReturnRecords ==
  ASSUME Shape, NEW c \in Calls, Return(c) \/ Reject(c)
  PROVE  StepOf(c) /\ RecordOK(call'[c]) /\ call'[c] = NoCallRecord
BY EmptyRecords DEF Return, Reject, StepOf, Shape, TypeOK

\* Each action keeps the shape.
LEMMA AskShape == ASSUME Shape, NEW c \in Calls, Ask(c) PROVE Shape'
<1>1. StepOf(c) /\ RecordOK(call'[c])
  BY AskRecord
<1>2. call' \in [Calls -> CallRecords] /\ \A d \in Calls : RecordOK(call'[d])
  BY <1>1, CallsKept
<1>3. call[c].at \in Nat /\ session \in Sessions /\ call[c].at + LeaseLength \in Nat
  BY CredentialAssumption DEF Shape, TypeOK, CallRecords
<1>4. nextCheck' \in Nat /\ alarm' \in Nat
  <2>1. session # NoSession => CheckTime(session) \in Nat
    BY <1>3, CheckTimeType DEF Shape
  <2>2. Cached(call[c].at) => session # NoSession
    BY DEF Cached, Lives
  <2>3. QED
    BY <1>3, <2>1, <2>2 DEF Ask, Commit, Shape, TypeOK
<1>5. lease' \in Leases
  BY <1>3 DEF Ask, Leases, Shape, TypeOK
<1>6. QED
  BY <1>2, <1>4, <1>5 DEF Ask, Shape, TypeOK, clockVars, history

LEMMA FetchShape == ASSUME Shape, NEW c \in Calls, Mint(c) \/ Validate(c) PROVE Shape'
<1>1. call' \in [Calls -> CallRecords] /\ \A d \in Calls : RecordOK(call'[d])
  BY FetchRecords, CallsKept
<1>2. minted' \in Nat /\ checked' \in SUBSET Nat
  <2>1. call[c].token \in Nat
    BY DEF Shape, TypeOK, CallRecords
  <2>2. CASE Mint(c)
    BY <2>2 DEF Mint, Shape, TypeOK, history
  <2>3. CASE Validate(c)
    BY <2>1, <2>3 DEF Validate, Shape, TypeOK
  <2>4. QED
    BY <2>2, <2>3
<1>3. CASE Mint(c)
  BY <1>1, <1>2, <1>3 DEF Mint, Shape, TypeOK, clockVars, history
<1>4. CASE Validate(c)
  BY <1>1, <1>2, <1>4 DEF Validate, Shape, TypeOK, clockVars
<1>5. QED
  BY <1>3, <1>4

\* The session a call is about to store.
NewSession(c) ==
  [generation |-> call[c].token, expiresAt |-> call[c].expiresAt,
   validatedAt |-> call[c].completed]

LEMMA NewSessionType ==
  ASSUME Shape, NEW c \in Calls, call[c].pc = "accept"
  PROVE  /\ NewSession(c) \in Sessions /\ NewSession(c).expiresAt > Early
         /\ NewSession(c).generation = call[c].token
         /\ CheckTime(NewSession(c)) \in Nat
<1>1. /\ NewSession(c) \in Sessions /\ NewSession(c).expiresAt > Early
      /\ NewSession(c).generation = call[c].token
  BY DEF Shape, TypeOK, RecordOK, CallRecords, NewSession, Sessions
<1>2. QED
  BY <1>1, CheckTimeType

LEMMA AcceptShape == ASSUME Shape, NEW c \in Calls, Accept(c) PROVE Shape'
<1> DEFINE new == NewSession(c)
<1>1. /\ call[c].pc = "accept" /\ call[c].token \in Nat
      /\ session \in Sessions /\ nextCheck \in Nat /\ latest \in Nat
  BY DEF Accept, Shape, TypeOK, CallRecords
<1>2. /\ new \in Sessions /\ new.expiresAt > Early /\ new.generation = call[c].token
      /\ CheckTime(new) \in Nat
  BY <1>1, NewSessionType
<1>3. CASE Accepts(c)
  <2>1. /\ session' = new /\ lease' = NoLease /\ retryAt' = 0 /\ failures' = 0
        /\ Commit(CheckTime(new)) /\ latest' = Max({latest, new.generation})
        /\ Goto(c, "adopt")
    BY <1>3, Zenon DEF Accept, NewSession
  <2>2. latest' \in Nat
    BY <1>1, <1>2, <2>1, MaxOfTwo
  <2>3. call' \in [Calls -> CallRecords] /\ \A d \in Calls : RecordOK(call'[d])
    BY <2>1, GotoStep, CallsKept DEF Phases
  <2>4. lease' \in Leases
    BY <2>1, EmptyRecords
  <2>5. QED
    BY <1>2, <2>1, <2>2, <2>3, <2>4 DEF Accept, Commit, Shape, TypeOK, clockVars
<1>4. CASE ~Accepts(c)
  <2>1. Goto(c, "fail") /\ Commit(nextCheck) /\ UNCHANGED <<session, lease, retryAt, failures, latest>>
    BY <1>4 DEF Accept
  <2>2. call' \in [Calls -> CallRecords] /\ \A d \in Calls : RecordOK(call'[d])
    BY <2>1, GotoStep, CallsKept DEF Phases
  <2>3. QED
    BY <1>1, <2>1, <2>2 DEF Accept, Commit, Shape, TypeOK, clockVars
<1>5. QED
  BY <1>3, <1>4

LEMMA AdoptShape == ASSUME Shape, NEW c \in Calls, Adopt(c) PROVE Shape'
<1>1. call' \in [Calls -> CallRecords] /\ \A d \in Calls : RecordOK(call'[d])
  BY GotoStep, CallsKept DEF Adopt, Phases
<1>2. validated' \in Nat
  BY DEF Adopt, Shape, TypeOK, CallRecords
<1>3. QED
  BY <1>1, <1>2 DEF Adopt, Shape, TypeOK, clockVars, history

LEMMA FailShape == ASSUME Shape, NEW c \in Calls, Fail(c) PROVE Shape'
<1>1. call' \in [Calls -> CallRecords] /\ \A d \in Calls : RecordOK(call'[d])
  BY GotoStep, CallsKept DEF Fail, Phases
<1>2. /\ call[c].at + RetryDelay \in Nat /\ call[c].at + CheckDelay \in Nat
      /\ failures + 1 \in Nat /\ Never \in Nat /\ nextCheck \in Nat
  BY CredentialAssumption DEF Shape, TypeOK, CallRecords
<1>3. /\ retryAt' \in Nat /\ failures' \in Nat /\ nextCheck' \in Nat /\ alarm' \in Nat
      /\ lease' \in Leases
      /\ session' = NoSession \/ UNCHANGED <<session, retryAt, failures>>
  BY <1>2, EmptyRecords DEF Fail, Commit, AfterFailure, Shape, TypeOK
<1>4. QED
  BY <1>1, <1>3, EmptyRecords DEF Fail, Shape, TypeOK, clockVars, history

LEMMA ReturnShape == ASSUME Shape, NEW c \in Calls, Return(c) \/ Reject(c) PROVE Shape'
<1>1. call' \in [Calls -> CallRecords] /\ \A d \in Calls : RecordOK(call'[d])
  BY ReturnRecords, CallsKept
<1>2. CASE Return(c)
  BY <1>1, <1>2 DEF Return, Shape, TypeOK, clockVars, history
<1>3. CASE Reject(c)
  <2>1. /\ nextCheck' \in Nat /\ alarm' \in Nat /\ retryAt' \in Nat /\ lease' \in Leases
        /\ session' = NoSession \/ UNCHANGED <<session, retryAt>>
    BY <1>3, EmptyRecords, CredentialAssumption DEF Reject, Commit, Shape, TypeOK
  <2>2. QED
    BY <1>1, <1>3, <2>1, EmptyRecords DEF Reject, Shape, TypeOK, clockVars, history
<1>4. QED
  BY <1>2, <1>3

LEMMA QueueShape ==
  ASSUME Shape, \/ \E c \in Calls : Start(c) \/ Enter(c)
                \/ Maintain \/ Checked
  PROVE  Shape'
<1>1. instance \in Nat /\ now \in Nat /\ call \in [Calls -> CallRecords] /\ Alarm \in Calls
  BY CredentialAssumption DEF Shape, TypeOK
<1>2. ASSUME NEW c \in Calls, Start(c) PROVE Shape'
  <2>1. StepOf(c) /\ RecordOK(call'[c])
    BY <1>1, <1>2, EmptyRecords DEF Start, StepOf
  <2>2. QED
    BY <1>2, <2>1, CallsKept DEF Start, Shape, TypeOK, clockVars, history
<1>3. ASSUME NEW c \in Calls, Enter(c) PROVE Shape'
  <2> DEFINE new == [call[c] EXCEPT !.pc = "ask", !.at = now]
  <2>1. new \in CallRecords /\ new.pc = "ask"
    BY <1>1 DEF CallRecords, Phases
  <2>2. call' = [call EXCEPT ![c] = new]
    BY <1>3, Zenon DEF Enter
  <2> HIDE DEF new
  <2>3. StepOf(c) /\ RecordOK(call'[c])
    BY <1>1, <2>1, <2>2 DEF StepOf, RecordOK
  <2>4. QED
    BY <1>3, <2>3, CallsKept DEF Enter, Shape, TypeOK, clockVars, history
<1>4. CASE Maintain
  <2>1. nextCheck' \in Nat /\ alarm' \in Nat
    BY <1>4, CredentialAssumption DEF Maintain, Commit, Shape, TypeOK
  <2>2. call' \in [Calls -> CallRecords] /\ \A d \in Calls : RecordOK(call'[d])
    <3>1. CASE UNCHANGED call
      BY <3>1 DEF Shape, TypeOK
    <3>2. CASE ~UNCHANGED call
      <4>1. StepOf(Alarm) /\ RecordOK(call'[Alarm])
        BY <1>1, <1>4, <3>2, EmptyRecords DEF Maintain, StepOf
      <4>2. QED
        BY <1>1, <4>1, CallsKept
    <3>3. QED
      BY <3>1, <3>2
  <2>3. QED
    BY <1>4, <2>1, <2>2 DEF Maintain, Shape, TypeOK, clockVars, history
<1>5. CASE Checked
  <2> DEFINE new == [NoCallRecord EXCEPT !.at = now]
  <2>1. new \in CallRecords /\ new.pc = "idle"
    BY <1>1 DEF NoCallRecord, NoSession, Sessions, CallRecords, Phases
  <2>2. call' = [call EXCEPT ![Alarm] = new]
    BY <1>5 DEF Checked
  <2> HIDE DEF new
  <2>3. StepOf(Alarm) /\ RecordOK(call'[Alarm])
    BY <1>1, <2>1, <2>2 DEF StepOf, RecordOK
  <2>4. QED
    BY <1>1, <1>5, <2>3, CallsKept DEF Checked, Shape, TypeOK, clockVars, history
<1>6. QED
  BY <1>2, <1>3, <1>4, <1>5

LEMMA AlarmShape ==
  ASSUME Shape, AlarmFires \/ Reschedule \/ Construct \/ Tick PROVE Shape'
<1>1. CASE AlarmFires
  BY <1>1, CredentialAssumption DEF AlarmFires, Shape, TypeOK, clockVars, history
<1>2. CASE Reschedule
  <2>1. call[Alarm].at \in Nat
    BY CredentialAssumption DEF Shape, TypeOK, CallRecords
  <2>2. nextCheck' \in Nat /\ alarm' \in Nat
    BY <1>2, <2>1, LaterType, CredentialAssumption DEF Reschedule, Commit
  <2>3. QED
    BY <1>2, <2>2 DEF Reschedule, Shape, TypeOK, clockVars, history
<1>3. CASE Construct
  <2>1. nextCheck' \in Nat /\ alarm' \in Nat
    BY <1>3 DEF Construct, Commit, StartupCheck, Shape, TypeOK
  <2>2. QED
    BY <1>3, <2>1 DEF Construct, Shape, TypeOK, history
<1>4. CASE Tick
  BY <1>4 DEF Tick, Shape, TypeOK, history
<1>5. QED
  BY <1>1, <1>2, <1>3, <1>4

LEMMA LossShape == ASSUME Shape, Crash \/ Deploy PROVE Shape'
<1>1. instance + 1 \in Nat /\ Never \in Nat /\ Alarm \in Calls
  BY CredentialAssumption DEF Shape, TypeOK
<1>2. CASE Crash
  <2>1. lease' \in Leases
    BY <1>2 DEF Crash, Lose, Shape, TypeOK, Leases
  <2>2. call' \in [Calls -> CallRecords] /\ \A d \in Calls : RecordOK(call'[d])
    BY <1>2, EmptyRecords DEF Crash, Lose, RecordOK
  <2>3. QED
    <3>1. /\ UNCHANGED <<now, session, retryAt, failures, nextCheck, alarm, minted, latest>>
          /\ instance' = instance + 1 /\ up' = FALSE /\ validated' = 0 /\ checked' = {}
          /\ handler' \in {"idle", "retry"}
      BY <1>2 DEF Crash, Lose
    <3>2. /\ checked' \in SUBSET Nat /\ up' \in BOOLEAN
          /\ handler' \in {"idle", "retry", "woken", "token", "reschedule"}
      BY <3>1
    <3>3. {now, instance, retryAt, failures, nextCheck, alarm, validated, minted, latest}'
            \subseteq Nat
      BY <1>1, <3>1 DEF Shape, TypeOK
    <3>4. TypeOK'
      BY <2>1, <2>2, <3>1, <3>2, <3>3 DEF Shape, TypeOK
    <3>5. QED
      BY <2>2, <3>1, <3>4 DEF Shape
<1>3. CASE Deploy
  <2>1. StepOf(Alarm) /\ RecordOK(call'[Alarm])
    BY <1>1, <1>3, EmptyRecords DEF Deploy, StepOf, Shape, TypeOK
  <2>2. call' \in [Calls -> CallRecords] /\ \A d \in Calls : RecordOK(call'[d])
    BY <1>1, <2>1, CallsKept
  <2>3. QED
    <3>1. /\ UNCHANGED <<now, up, minted, latest>>
          /\ session' = NoSession /\ lease' = NoLease /\ retryAt' = 0 /\ failures' = 0
          /\ nextCheck' = Never /\ alarm' = Never
          /\ instance' = instance + 1 /\ validated' = 0 /\ checked' = {}
          /\ handler' \in {"idle", "retry"}
      BY <1>3 DEF Deploy, Commit
    <3>2. /\ checked' \in SUBSET Nat /\ up' \in BOOLEAN
          /\ handler' \in {"idle", "retry", "woken", "token", "reschedule"}
      BY <3>1 DEF Shape, TypeOK
    <3>3. {now, instance, retryAt, failures, nextCheck, alarm, validated, minted, latest}'
            \subseteq Nat
      BY <1>1, <3>1 DEF Shape, TypeOK
    <3>4. TypeOK'
      BY <2>2, <3>1, <3>2, <3>3, EmptyRecords DEF TypeOK
    <3>5. QED
      BY <2>2, <3>1, <3>4 DEF Shape
<1>4. QED
  BY <1>2, <1>3

LEMMA ShapeInit == Init => Shape
<1> SUFFICES ASSUME Init PROVE Shape
  OBVIOUS
<1>1. /\ call \in [Calls -> CallRecords] /\ \A c \in Calls : RecordOK(call[c])
      /\ session \in Sessions /\ lease \in Leases
  BY EmptyRecords DEF Init, RecordOK
<1>2. QED
  BY <1>1, CredentialAssumption DEF Init, Shape, TypeOK

LEMMA ShapeStep == Shape /\ [Next]_vars => Shape'
<1> SUFFICES ASSUME Shape, [Next]_vars PROVE Shape'
  OBVIOUS
<1>1. CASE UNCHANGED vars
  BY <1>1 DEF vars, Shape, TypeOK
<1>2. CASE Next
  BY <1>2, AskShape, FetchShape, AcceptShape, AdoptShape, FailShape, ReturnShape,
     QueueShape, AlarmShape, LossShape DEF Next, Step
<1>3. QED
  BY <1>1, <1>2

\* The record, the calls and the histories keep their shape, and a stored session
\* ends the count of failures and the back-off.
THEOREM CredentialTypeCorrect == Spec => []TypeOK
<1>1. Spec => []Shape
  BY ShapeInit, ShapeStep, PTL DEF Spec
<1>2. Shape => TypeOK
  BY DEF Shape
<1>3. QED
  BY <1>1, <1>2, PTL
-----------------------------------------------------------------------------
(***************************************************************************)
(* Sessions that left the storage stay out.                                *)
(***************************************************************************)
Numbers ==
  /\ session.generation <= latest /\ latest <= minted
  /\ session # NoSession => session.generation > 0

Fetching(c) == call[c].pc \in {"validate", "accept"}

\* The token a call carries; the owner of the lease may store it.
TokenOK(c) ==
  Fetching(c) =>
    /\ call[c].token > 0 /\ call[c].token <= minted
    /\ lease.owner = c =>
         call[c].token > latest \/ call[c].token = call[c].claimed.generation

Fences == Numbers /\ \A c \in Calls : TokenOK(c)

LEMMA Naturals ==
  ASSUME Shape
  PROVE  /\ session.generation \in Nat /\ latest \in Nat /\ minted \in Nat
         /\ \A c \in Calls : /\ call[c].token \in Nat
                             /\ call[c].claimed.generation \in Nat
BY DEF Shape, TypeOK, CallRecords, Sessions

LEMMA FencesInit == Init => Fences
BY DEF Init, Fences, Numbers, TokenOK, Fetching, NoSession, NoLease, NoCallRecord

\* Does call d carry what it carried before, if it still fetches?
Carries(d) ==
  Fetching(d)' => /\ Fetching(d)
                  /\ call'[d].token = call[d].token
                  /\ call'[d].claimed = call[d].claimed

\* A step that stores nothing and gives nobody the lease.
Quiet ==
  /\ UNCHANGED <<latest, minted>>
  /\ session' \in {session, NoSession}
  /\ lease'.owner \in {lease.owner, NoCall}
  /\ \A d \in Calls : Carries(d)

LEMMA QuietFences == ASSUME Shape, Fences, Quiet PROVE Fences'
<1>1. Numbers'
  BY Naturals DEF Quiet, Fences, Numbers, NoSession
<1>2. ASSUME NEW d \in Calls PROVE TokenOK(d)'
  <2>1. Carries(d) /\ TokenOK(d)
    BY DEF Quiet, Fences
  <2>2. lease'.owner = d => lease.owner = d
    BY CredentialAssumption DEF Quiet
  <2>3. minted' = minted /\ latest' = latest
    BY DEF Quiet
  <2>4. QED
    BY <2>1, <2>2, <2>3 DEF Carries, TokenOK
<1>3. QED
  BY <1>1, <1>2 DEF Fences

\* A call's step leaves the others as they are.
LEMMA OthersStay ==
  ASSUME Shape, NEW c \in Calls, StepOf(c), NEW d \in Calls, d # c PROVE call'[d] = call[d]
BY DEF StepOf, Shape, TypeOK

LEMMA OwnStep ==
  ASSUME Shape, NEW c \in Calls, StepOf(c), Carries(c) PROVE \A d \in Calls : Carries(d)
<1>1. ASSUME NEW d \in Calls, d # c PROVE Carries(d)
  BY <1>1, OthersStay DEF Carries, Fetching
<1>2. QED
  BY <1>1

\* The quiet actions.
LEMMA CallsQuiet ==
  ASSUME Shape, NEW c \in Calls,
         Start(c) \/ Enter(c) \/ Validate(c) \/ Adopt(c) \/ Fail(c) \/ Return(c) \/ Reject(c)
  PROVE  Quiet
<1>1. CASE Start(c)
  <2>1. StepOf(c) /\ call'[c].pc = "queued"
    BY <1>1 DEF Start, NoCallRecord, StepOf, Shape, TypeOK
  <2>2. \A d \in Calls : Carries(d)
    BY <2>1, OwnStep DEF Carries, Fetching
  <2>3. QED
    BY <1>1, <2>2 DEF Start, Quiet, history
<1>2. CASE Enter(c)
  <2>1. StepOf(c) /\ call'[c].pc = "ask"
    BY <1>2 DEF Enter, StepOf, Shape, TypeOK, CallRecords
  <2>2. \A d \in Calls : Carries(d)
    BY <2>1, OwnStep DEF Carries, Fetching
  <2>3. QED
    BY <1>2, <2>2 DEF Enter, Quiet, history
<1>3. CASE Validate(c)
  <2>1. StepOf(c)
    BY <1>3, FetchRecords
  <2>2. /\ call[c].pc = "validate" /\ call'[c].token = call[c].token
        /\ call'[c].claimed = call[c].claimed
    <3>1. CASE Goto(c, "fail")
      BY <1>3, <3>1 DEF Validate, Goto, Shape, TypeOK, CallRecords
    <3>2. ASSUME NEW k \in Lifetimes,
                 call' = [call EXCEPT ![c].pc = "accept", ![c].completed = now,
                                      ![c].expiresAt = now + k]
          PROVE  call'[c].token = call[c].token /\ call'[c].claimed = call[c].claimed
      BY <3>2 DEF Shape, TypeOK, CallRecords
    <3>3. QED
      BY <1>3, <3>1, <3>2 DEF Validate
  <2>3. \A d \in Calls : Carries(d)
    BY <2>1, <2>2, OwnStep DEF Carries, Fetching
  <2>4. QED
    BY <1>3, <2>3 DEF Validate, Quiet
<1>4. CASE Adopt(c)
  <2>1. StepOf(c) /\ call'[c].pc = "got"
    BY <1>4, GotoStep DEF Adopt, Phases, CallRecords, Shape, TypeOK
  <2>2. \A d \in Calls : Carries(d)
    BY <2>1, OwnStep DEF Carries, Fetching
  <2>3. QED
    BY <1>4, <2>2 DEF Adopt, Quiet, history
<1>5. CASE Fail(c)
  <2>1. StepOf(c) /\ call'[c].pc = "error"
    BY <1>5, GotoStep DEF Fail, Phases, CallRecords, Shape, TypeOK
  <2>2. \A d \in Calls : Carries(d)
    BY <2>1, OwnStep DEF Carries, Fetching
  <2>3. QED
    BY <1>5, <2>2 DEF Fail, AfterFailure, NoLease, Quiet, history
<1>6. CASE Return(c) \/ Reject(c)
  <2>1. StepOf(c) /\ call'[c] = NoCallRecord
    BY <1>6, ReturnRecords
  <2>2. \A d \in Calls : Carries(d)
    BY <2>1, OwnStep DEF Carries, Fetching, NoCallRecord
  <2>3. QED
    BY <1>6, <2>2 DEF Return, Reject, NoLease, Quiet, history
<1>7. QED
  BY <1>1, <1>2, <1>3, <1>4, <1>5, <1>6

LEMMA AlarmQuiet ==
  ASSUME Shape,
         \/ AlarmFires \/ Maintain \/ Checked \/ Reschedule
         \/ Crash \/ Construct \/ Deploy \/ Tick \/ UNCHANGED vars
  PROVE  Quiet
<1>1. Alarm \in Calls
  BY CredentialAssumption
<1>2. CASE AlarmFires \/ Reschedule \/ Construct \/ Tick \/ UNCHANGED vars
  BY <1>2 DEF AlarmFires, Reschedule, Construct, Tick, vars, Quiet, Carries, Fetching, history
<1>3. CASE Maintain \/ Checked
  <2>1. \A d \in Calls : call'[d] = call[d] \/ call'[d].pc \in {"queued", "idle"}
    BY <1>1, <1>3 DEF Maintain, Checked, NoCallRecord, Shape, TypeOK
  <2>2. QED
    BY <1>3, <2>1 DEF Maintain, Checked, Quiet, Carries, Fetching, history
<1>4. CASE Crash
  <2>1. \A d \in Calls : call'[d].pc = "idle"
    BY <1>4 DEF Crash, Lose, NoCallRecord
  <2>2. lease'.owner = NoCall
    BY <1>4 DEF Crash, Lose, Shape, TypeOK, Leases
  <2>3. QED
    BY <1>4, <2>1, <2>2 DEF Crash, Quiet, Carries, Fetching
<1>5. CASE Deploy
  <2>1. \A d \in Calls : call'[d] = call[d] \/ call'[d].pc = "idle"
    BY <1>1, <1>5 DEF Deploy, NoCallRecord, Shape, TypeOK
  <2>2. QED
    BY <1>5, <2>1 DEF Deploy, NoLease, Quiet, Carries, Fetching
<1>6. QED
  BY <1>2, <1>3, <1>4, <1>5

\* The three actions that claim, mint and store.
LEMMA AskFences == ASSUME Shape, Fences, NEW c \in Calls, Ask(c) PROVE Fences'
<1>1. StepOf(c)
  BY AskRecord
<1>2. CASE ~(Current(c) /\ ~Cached(call[c].at) /\ ~Busy(call[c].at))
  <2>1. UNCHANGED lease /\ call'[c].pc \in {"got", "error"}
    BY <1>2 DEF Ask, Goto, Shape, TypeOK, CallRecords
  <2>2. \A d \in Calls : Carries(d)
    BY <1>1, <2>1, OwnStep DEF Carries, Fetching
  <2>3. Quiet
    BY <2>1, <2>2 DEF Ask, Quiet, history
  <2>4. QED
    BY <2>3, QuietFences
<1>3. CASE Current(c) /\ ~Cached(call[c].at) /\ ~Busy(call[c].at)
  <2>1. /\ lease'.owner = c /\ UNCHANGED <<session, minted, latest>>
        /\ call'[c].pc = IF Lives(call[c].at) THEN "validate" ELSE "mint"
        /\ call'[c].token = session.generation
        /\ call'[c].claimed = session
    BY <1>3 DEF Ask, Shape, TypeOK, CallRecords, history
  <2>2. TokenOK(c)'
    <3>1. Lives(call[c].at) => session.generation > 0
      BY DEF Lives, Fences, Numbers
    <3>2. session.generation <= minted
      BY Naturals DEF Fences, Numbers
    <3>3. QED
      BY <2>1, <3>1, <3>2 DEF TokenOK, Fetching
  <2>3. ASSUME NEW d \in Calls, d # c PROVE TokenOK(d)'
    BY <1>1, <2>1, <2>3, OthersStay DEF Fences, TokenOK, Fetching
  <2>4. QED
    BY <2>1, <2>2, <2>3 DEF Fences, Numbers
<1>4. QED
  BY <1>2, <1>3

LEMMA MintFences == ASSUME Shape, Fences, NEW c \in Calls, Mint(c) PROVE Fences'
<1>1. StepOf(c) /\ UNCHANGED <<session, lease, latest>>
  BY FetchRecords DEF Mint, history
<1>2. minted' \in Nat /\ minted <= minted'
  BY Naturals DEF Mint
<1>3. TokenOK(c)'
  <2>1. CASE Goto(c, "fail")
    BY <2>1 DEF Goto, TokenOK, Fetching, Shape, TypeOK, CallRecords
  <2>2. CASE ~Goto(c, "fail")
    <3>1. minted' = minted + 1 /\ call'[c].token = minted + 1
      BY <2>2 DEF Mint, Shape, TypeOK, CallRecords
    <3>2. minted + 1 > latest /\ minted + 1 > 0
      BY Naturals DEF Fences, Numbers
    <3>3. QED
      BY <1>1, <1>2, <3>1, <3>2 DEF TokenOK
  <2>3. QED
    BY <2>1, <2>2
<1>4. ASSUME NEW d \in Calls, d # c PROVE TokenOK(d)'
  <2>1. call'[d] = call[d] /\ TokenOK(d)
    BY <1>1, <1>4, OthersStay DEF Fences
  <2>2. QED
    BY <1>1, <1>2, <2>1, Naturals DEF TokenOK, Fetching
<1>5. Numbers'
  BY <1>1, <1>2, Naturals DEF Fences, Numbers
<1>6. QED
  BY <1>3, <1>4, <1>5 DEF Fences

\* What storing a session does: the one that was there, or a newer one than any.
LEMMA Stores ==
  ASSUME Shape, Fences, NEW c \in Calls, Accept(c), Accepts(c)
  PROVE  /\ session'.generation = call[c].token
         /\ session'.generation > 0 /\ session'.generation <= minted
         /\ \/ session'.generation = session.generation /\ latest' = latest
            \/ session'.generation > latest /\ latest' = session'.generation
<1> DEFINE g == call[c].token
<1>1. call[c].pc = "accept" /\ session' = NewSession(c) /\ latest' = Max({latest, NewSession(c).generation})
  BY Zenon DEF Accept, NewSession
<1>2. session'.generation = g /\ latest' = Max({latest, g})
  BY <1>1, NewSessionType
<1>3. g > 0 /\ g <= minted /\ (g > latest \/ g = call[c].claimed.generation)
  BY <1>1 DEF Fences, TokenOK, Fetching, Accepts
<1>4. g = call[c].claimed.generation => g = session.generation /\ g <= latest
  BY DEF Accepts, Fences, Numbers
<1>5. Max({latest, g}) \in {latest, g} /\ Max({latest, g}) >= latest /\ Max({latest, g}) >= g
  BY Naturals, MaxOfTwo
<1>6. QED
  BY <1>2, <1>3, <1>4, <1>5, Naturals

LEMMA AcceptFences == ASSUME Shape, Fences, NEW c \in Calls, Accept(c) PROVE Fences'
<1>1. CASE ~Accepts(c)
  <2>1. Goto(c, "fail") /\ UNCHANGED <<session, lease, latest, minted>>
    BY <1>1 DEF Accept
  <2>2. StepOf(c) /\ call'[c].pc = "fail"
    BY <2>1, GotoStep DEF Phases, CallRecords, Shape, TypeOK
  <2>3. \A d \in Calls : Carries(d)
    BY <2>2, OwnStep DEF Carries, Fetching
  <2>4. Quiet
    BY <2>1, <2>3 DEF Quiet
  <2>5. QED
    BY <2>4, QuietFences
<1>2. CASE Accepts(c)
  <2>1. Goto(c, "adopt") /\ lease' = NoLease /\ minted' = minted
    BY <1>2 DEF Accept
  <2>2. StepOf(c) /\ call'[c].pc = "adopt"
    BY <2>1, GotoStep DEF Phases, CallRecords, Shape, TypeOK
  <2>3. Numbers'
    BY <1>2, <2>1, Stores, Naturals DEF Fences, Numbers
  <2>4. ASSUME NEW d \in Calls PROVE TokenOK(d)'
    <3>1. lease'.owner # d
      BY <2>1, CredentialAssumption DEF NoLease
    <3>2. CASE d = c
      BY <2>2, <3>2 DEF TokenOK, Fetching
    <3>3. CASE d # c
      BY <2>1, <2>2, <3>1, <3>3, OthersStay DEF Fences, TokenOK, Fetching
    <3>4. QED
      BY <3>2, <3>3
  <2>5. QED
    BY <2>3, <2>4 DEF Fences
<1>3. QED
  BY <1>1, <1>2

LEMMA FencesStep == Shape /\ Fences /\ [Next]_vars => Fences'
<1> SUFFICES ASSUME Shape, Fences, [Next]_vars PROVE Fences'
  OBVIOUS
<1>1. ASSUME NEW c \in Calls, Ask(c) \/ Mint(c) \/ Accept(c) PROVE Fences'
  BY <1>1, AskFences, MintFences, AcceptFences
<1>2. CASE Quiet
  BY <1>2, QuietFences
<1>3. QED
  BY <1>1, <1>2, CallsQuiet, AlarmQuiet DEF Next, Step

LEMMA FencesHold == Spec => [](Shape /\ Fences)
<1>1. Init => Shape /\ Fences
  BY ShapeInit, FencesInit
<1>2. Shape /\ Fences /\ [Next]_vars => (Shape /\ Fences)'
  BY ShapeStep, FencesStep
<1>3. QED
  BY <1>1, <1>2, PTL DEF Spec

\* Every step is a step of AppSession or a stutter.
StoredStep == [Stored!Renew \/ Stored!Drop]_<<session.generation, latest>>

LEMMA StepSimulates == Shape /\ Fences /\ [Next]_vars => StoredStep
<1> SUFFICES ASSUME Shape, Fences, [Next]_vars PROVE StoredStep
  OBVIOUS
<1>1. CASE UNCHANGED latest /\ session' \in {session, NoSession}
  BY <1>1 DEF StoredStep, Stored!Drop, NoSession
<1>2. ASSUME NEW c \in Calls, Ask(c) \/ Mint(c) \/ (Accept(c) /\ ~Accepts(c))
      PROVE  UNCHANGED latest /\ session' \in {session, NoSession}
  BY <1>2 DEF Ask, Mint, Accept, history
<1>3. ASSUME NEW c \in Calls, Accept(c), Accepts(c) PROVE StoredStep
  <2>1. session' \in Sessions
    BY <1>3, ShapeStep DEF Shape, TypeOK
  <2>2. session'.generation \in Nat
    BY <2>1 DEF Sessions
  <2>3. QED
    BY <1>3, <2>2, Stores DEF StoredStep, Stored!Renew
<1>4. CASE Quiet
  BY <1>1, <1>4 DEF Quiet
<1>5. QED
  BY <1>1, <1>2, <1>3, <1>4, CallsQuiet, AlarmQuiet DEF Next, Step

\* A session that was rejected, replaced or dropped never comes back, whatever was
\* being fetched meanwhile and through losses and deployments: the credential
\* implements AppSession.
THEOREM SessionKept == Spec => KeepsSession
<1>1. Init => Stored!SessionInit
  BY DEF Init, Stored!SessionInit, NoSession
<1>2. Shape /\ Fences /\ [Next]_vars => [Stored!Renew \/ Stored!Drop]_<<session.generation, latest>>
  BY StepSimulates DEF StoredStep
<1>3. QED
  BY <1>1, <1>2, FencesHold, PTL DEF Spec, KeepsSession, Stored!SessionSpec
-----------------------------------------------------------------------------
(***************************************************************************)
(* Validation at startup: what an instance believes validated, it has      *)
(* validated itself.                                                       *)
(***************************************************************************)
HasValidated(c) == call[c].pc \in {"accept", "adopt", "got"}

SeenOK(c) ==
  /\ call[c].instance <= instance
  /\ HasValidated(c) /\ Current(c) => call[c].token \in checked

Seen ==
  /\ validated # 0 => validated \in checked
  /\ \A c \in Calls : SeenOK(c)

LEMMA SeenInit == Init => Seen
BY DEF Init, Seen, SeenOK, HasValidated, NoCallRecord

\* A call's step that leaves the instance and what it has checked, or adds to it.
LEMMA SeenCallStep ==
  ASSUME Shape, Seen, NEW c \in Calls, StepOf(c), instance' = instance,
         checked \subseteq checked', SeenOK(c)', validated' # 0 => validated' \in checked'
  PROVE  Seen'
<1>1. ASSUME NEW d \in Calls, d # c PROVE SeenOK(d)'
  <2>1. call'[d] = call[d] /\ SeenOK(d)
    BY <1>1, OthersStay DEF Seen
  <2>2. QED
    BY <2>1 DEF SeenOK, HasValidated, Current
<1>2. QED
  BY <1>1 DEF Seen

LEMMA AskSeen == ASSUME Shape, Fences, Seen, NEW c \in Calls, Ask(c) PROVE Seen'
<1>1. StepOf(c) /\ UNCHANGED <<instance, validated, checked>>
  BY AskRecord DEF Ask, clockVars, history
<1>2. SeenOK(c)'
  <2>1. call'[c].instance = call[c].instance
    BY DEF Ask, Goto, Shape, TypeOK, CallRecords
  <2>2. HasValidated(c)' => Cached(call[c].at) /\ call'[c].token = session.generation
    BY DEF Ask, Goto, HasValidated, Shape, TypeOK, CallRecords
  <2>3. Cached(call[c].at) => session.generation \in checked
    <3>1. SUFFICES ASSUME Cached(call[c].at) PROVE session.generation \in checked
      OBVIOUS
    <3>2. session # NoSession /\ validated = session.generation
      BY <3>1 DEF Cached, Lives
    <3>3. session.generation > 0
      BY <3>2 DEF Fences, Numbers
    <3>4. QED
      BY <3>2, <3>3 DEF Seen
  <2>4. QED
    BY <1>1, <2>1, <2>2, <2>3 DEF Seen, SeenOK
<1>3. QED
  BY <1>1, <1>2, SeenCallStep DEF Seen

LEMMA FetchSeen == ASSUME Shape, Seen, NEW c \in Calls, Mint(c) \/ Validate(c) PROVE Seen'
<1>1. StepOf(c) /\ UNCHANGED <<instance, validated>> /\ checked \subseteq checked'
  BY FetchRecords DEF Mint, Validate, clockVars, history
<1>2. SeenOK(c)'
  <2>1. CASE Mint(c)
    BY <2>1 DEF Mint, Goto, SeenOK, HasValidated, Seen, Shape, TypeOK, CallRecords, clockVars
  <2>2. CASE Validate(c) /\ Goto(c, "fail")
    BY <2>2 DEF Validate, Goto, SeenOK, HasValidated, Seen, Shape, TypeOK, CallRecords, clockVars
  <2>3. CASE Validate(c) /\ ~Goto(c, "fail")
    <3>1. /\ call'[c].token = call[c].token /\ call'[c].instance = call[c].instance
          /\ checked' = IF Current(c) THEN checked \cup {call[c].token} ELSE checked
      BY <2>3 DEF Validate, Shape, TypeOK, CallRecords
    <3>2. QED
      BY <1>1, <3>1 DEF SeenOK, Seen, Current
  <2>4. QED
    BY <2>1, <2>2, <2>3
<1>3. QED
  BY <1>1, <1>2, SeenCallStep DEF Seen

LEMMA StoreSeen == ASSUME Shape, Seen, NEW c \in Calls, Accept(c) \/ Adopt(c) PROVE Seen'
<1>1. /\ call[c].pc \in {"accept", "adopt"}
      /\ Goto(c, "adopt") \/ Goto(c, "fail") \/ Goto(c, "got")
      /\ UNCHANGED <<instance, checked>>
      /\ validated' = validated \/ (Current(c) /\ validated' = call[c].token)
  BY DEF Accept, Adopt, clockVars, history
<1>2. /\ StepOf(c) /\ call'[c].token = call[c].token /\ call'[c].instance = call[c].instance
  <2>1. PICK pc \in {"adopt", "fail", "got"} : Goto(c, pc)
    BY <1>1
  <2>2. StepOf(c) /\ call'[c] = [call[c] EXCEPT !.pc = pc]
    BY <2>1, GotoStep DEF Phases
  <2>3. QED
    BY <2>2 DEF Shape, TypeOK, CallRecords
<1>3. HasValidated(c) /\ SeenOK(c)
  BY <1>1 DEF HasValidated, Seen
<1>4. SeenOK(c)'
  BY <1>1, <1>2, <1>3 DEF SeenOK, Current
<1>5. validated' # 0 => validated' \in checked'
  BY <1>1, <1>3 DEF SeenOK, Seen
<1>6. QED
  BY <1>1, <1>2, <1>4, <1>5, SeenCallStep

\* The actions that begin or end a call, or none.
LEMMA OtherSeen ==
  ASSUME Shape, Seen,
         \/ \E c \in Calls : Start(c) \/ Enter(c) \/ Fail(c) \/ Return(c) \/ Reject(c)
         \/ AlarmFires \/ Maintain \/ Checked \/ Reschedule
         \/ Construct \/ Tick \/ UNCHANGED vars
  PROVE  Seen'
<1>1. instance \in Nat /\ Alarm \in Calls
  BY CredentialAssumption DEF Shape, TypeOK
<1>2. ASSUME NEW c \in Calls, Start(c) \/ Enter(c) \/ Fail(c) \/ Return(c) \/ Reject(c)
      PROVE  Seen'
  <2>1. UNCHANGED <<instance, validated, checked>>
    BY <1>2 DEF Start, Enter, Fail, Return, Reject, clockVars, history
  <2>2. /\ StepOf(c) /\ call'[c].pc \in {"idle", "queued", "ask", "error"}
        /\ call'[c].instance \in {0, instance, call[c].instance}
    <3>1. CASE Start(c)
      BY <3>1 DEF Start, StepOf, NoCallRecord, Shape, TypeOK
    <3>2. CASE Enter(c)
      BY <3>2 DEF Enter, StepOf, Shape, TypeOK, CallRecords
    <3>3. CASE Fail(c)
      BY <3>3 DEF Fail, Goto, StepOf, Shape, TypeOK, CallRecords
    <3>4. CASE Return(c) \/ Reject(c)
      BY <3>4, ReturnRecords DEF NoCallRecord
    <3>5. QED
      BY <1>2, <3>1, <3>2, <3>3, <3>4
  <2>3. SeenOK(c)'
    BY <1>1, <2>1, <2>2 DEF SeenOK, HasValidated, Seen
  <2>4. QED
    BY <2>1, <2>2, <2>3, SeenCallStep DEF Seen
<1>3. CASE Maintain \/ Checked
  <2>1. UNCHANGED <<instance, validated, checked>>
    BY <1>3 DEF Maintain, Checked, clockVars, history
  <2>2. \A d \in Calls : \/ call'[d] = call[d]
                         \/ /\ call'[d].pc \in {"queued", "idle"}
                            /\ call'[d].instance \in {0, instance}
    BY <1>1, <1>3 DEF Maintain, Checked, NoCallRecord, Shape, TypeOK
  <2>3. \A d \in Calls : SeenOK(d)'
    BY <1>1, <2>1, <2>2 DEF Seen, SeenOK, HasValidated, Current
  <2>4. QED
    BY <2>1, <2>3 DEF Seen
<1>4. CASE AlarmFires \/ Reschedule \/ Construct \/ Tick \/ UNCHANGED vars
  BY <1>4 DEF AlarmFires, Reschedule, Construct, Tick, vars, clockVars, history,
              Seen, SeenOK, HasValidated, Current
<1>5. QED
  BY <1>2, <1>3, <1>4

LEMMA LossSeen == ASSUME Shape, Seen, Crash \/ Deploy PROVE Seen'
<1>1. instance \in Nat /\ instance' = instance + 1 /\ validated' = 0
  BY DEF Crash, Deploy, Lose, Shape, TypeOK
<1>2. \A d \in Calls : call'[d] = call[d] \/ call'[d] = NoCallRecord
  BY DEF Crash, Deploy, Lose, Shape, TypeOK
<1>3. ASSUME NEW d \in Calls PROVE call'[d].instance \in Nat /\ call'[d].instance <= instance
  BY <1>1, <1>2 DEF Seen, SeenOK, NoCallRecord, Shape, TypeOK, CallRecords
<1>4. QED
  BY <1>1, <1>3 DEF Seen, SeenOK, Current

LEMMA SeenStep == Shape /\ Fences /\ Seen /\ [Next]_vars => Seen'
BY AskSeen, FetchSeen, StoreSeen, OtherSeen, LossSeen DEF Next, Step

\* Every session that appToken hands out was validated by the very instance that
\* hands it out, although the storage keeps sessions over losses.
THEOREM HandedOutValidated == Spec => []ValidatedHere
<1>1. Spec => []Seen
  BY SeenInit, SeenStep, FencesHold, PTL DEF Spec
<1>2. Seen => ValidatedHere
  BY DEF Seen, SeenOK, HasValidated, ValidatedHere
<1>3. QED
  BY <1>1, <1>2, PTL
-----------------------------------------------------------------------------
(***************************************************************************)
(* A stored session never loses its next check.  The alarm is in order as  *)
(* long as every due time that is ever set lies before Never, so the       *)
(* invariant bounds the times a due time is computed from.                 *)
(***************************************************************************)
Times ==
  /\ now <= MaxTime
  /\ session.validatedAt <= now
  /\ lease.until <= MaxTime + LeaseLength
  /\ \A c \in Calls : call[c].at <= now /\ call[c].completed <= now

LEMMA Clocks ==
  ASSUME Shape
  PROVE  /\ now \in Nat /\ MaxTime \in Nat /\ LeaseLength \in Nat /\ Hour \in Nat
         /\ Never \in Nat /\ nextCheck \in Nat /\ alarm \in Nat /\ retryAt \in Nat
         /\ session.validatedAt \in Nat /\ session.expiresAt \in Nat /\ lease.until \in Nat
         /\ \A c \in Calls : call[c].at \in Nat /\ call[c].completed \in Nat
         /\ Never > MaxTime + 1 /\ Never > MaxTime + Hour /\ Never > MaxTime + LeaseLength
         /\ MaxFailures \in Nat /\ MaxFailures > 0
<1>1. /\ session.validatedAt \in Nat /\ session.expiresAt \in Nat /\ lease.until \in Nat
      /\ \A c \in Calls : call[c].at \in Nat /\ call[c].completed \in Nat
  BY DEF Shape, TypeOK, Sessions, Leases, CallRecords
<1>2. QED
  BY <1>1, CredentialAssumption DEF Shape, TypeOK

LEMMA TimesInit == Init => Times
BY CredentialAssumption DEF Init, Times, NoSession, NoLease, NoCallRecord

\* No call's step makes its clock readings later than now.
LEMMA TimesOfCall ==
  ASSUME Shape, Times, NEW c \in Calls, Start(c) \/ Enter(c) \/ Step(c) \/ Reject(c)
  PROVE  StepOf(c) /\ call'[c].at <= now /\ call'[c].completed <= now
<1>1. /\ call \in [Calls -> CallRecords] /\ call[c] \in CallRecords
      /\ call[c].at <= now /\ call[c].completed <= now /\ now \in Nat
  BY DEF Shape, TypeOK, Times
<1>2. CASE Start(c)
  BY <1>1, <1>2 DEF Start, StepOf, NoCallRecord
<1>3. CASE Enter(c)
  <2>1. call' = [call EXCEPT ![c].pc = "ask", ![c].at = now]
    BY <1>3 DEF Enter
  <2>2. StepOf(c)
    BY <1>1, <2>1 DEF StepOf
  <2>3. call'[c].at = now /\ call'[c].completed = call[c].completed
    BY <1>1, <2>1 DEF CallRecords
  <2>4. QED
    BY <1>1, <2>2, <2>3
<1>4. CASE Ask(c)
  <2>1. StepOf(c)
    BY <1>4, AskRecord
  <2>2. call'[c].at = call[c].at /\ call'[c].completed = call[c].completed
    <3>1. CASE call' = [call EXCEPT ![c].pc = "got", ![c].token = session.generation]
      BY <1>1, <3>1 DEF CallRecords
    <3>2. CASE Goto(c, "error")
      BY <1>1, <3>2 DEF Goto, CallRecords
    <3>3. CASE call' = [call EXCEPT ![c].pc = IF Lives(call[c].at) THEN "validate" ELSE "mint",
                                    ![c].claimed = session, ![c].token = session.generation]
      BY <1>1, <3>3 DEF CallRecords
    <3>4. QED
      BY <1>4, <3>1, <3>2, <3>3 DEF Ask
  <2>3. QED
    BY <1>1, <2>1, <2>2
<1>5. CASE Mint(c)
  <2>1. StepOf(c)
    BY <1>5, FetchRecords
  <2>2. call'[c].at = call[c].at /\ call'[c].completed = call[c].completed
    BY <1>1, <1>5 DEF Mint, Goto, CallRecords
  <2>3. QED
    BY <1>1, <2>1, <2>2
<1>6. CASE Validate(c)
  <2>1. StepOf(c)
    BY <1>6, FetchRecords
  <2>2. CASE Goto(c, "fail")
    BY <1>1, <2>1, <2>2 DEF Goto, CallRecords
  <2>3. ASSUME NEW k \in Lifetimes,
               call' = [call EXCEPT ![c].pc = "accept", ![c].completed = now,
                                    ![c].expiresAt = now + k]
        PROVE  call'[c].at <= now /\ call'[c].completed <= now
    BY <1>1, <2>3 DEF CallRecords
  <2>4. QED
    BY <1>6, <2>1, <2>2, <2>3 DEF Validate
<1>7. CASE Accept(c) \/ Adopt(c) \/ Fail(c)
  <2>1. PICK pc \in {"adopt", "fail", "got", "error"} : Goto(c, pc)
    BY <1>7 DEF Accept, Adopt, Fail
  <2>2. StepOf(c) /\ call'[c] = [call[c] EXCEPT !.pc = pc]
    BY <2>1, GotoStep DEF Phases
  <2>3. QED
    BY <1>1, <2>2 DEF CallRecords
<1>8. CASE Return(c) \/ Reject(c)
  BY <1>1, <1>8, ReturnRecords DEF NoCallRecord
<1>9. QED
  BY <1>2, <1>3, <1>4, <1>5, <1>6, <1>7, <1>8 DEF Step

\* What the steps do to the session and the lease.
LEMMA TimesOfSession ==
  ASSUME Shape, Times, NEW c \in Calls, Start(c) \/ Enter(c) \/ Step(c) \/ Reject(c)
  PROVE  /\ now' = now /\ session'.validatedAt <= now
         /\ lease'.until <= MaxTime + LeaseLength
<1>1. /\ now' = now
      /\ \/ session' \in {session, NoSession}
         \/ session'.validatedAt = call[c].completed
  <2>1. CASE Accept(c) /\ Accepts(c)
    BY <2>1 DEF Accept, clockVars
  <2>2. QED
    BY <2>1 DEF Start, Enter, Step, Ask, Mint, Validate, Accept, Adopt, Fail, Return, Reject,
                AfterFailure, clockVars
<1>2. lease' \in {lease, NoLease} \/ lease'.until = call[c].at + LeaseLength
  <2>1. CASE Ask(c)
    BY <2>1 DEF Ask
  <2>2. QED
    BY <2>1 DEF Start, Enter, Step, Mint, Validate, Accept, Adopt, Fail, Return, Reject
<1>3. QED
  BY <1>1, <1>2, Clocks DEF Times, NoSession, NoLease

LEMMA TimesStep == Shape /\ Times /\ [Next]_vars => Times'
<1> SUFFICES ASSUME Shape, Times, [Next]_vars PROVE Times'
  OBVIOUS
<1>1. ASSUME NEW c \in Calls, Start(c) \/ Enter(c) \/ Step(c) \/ Reject(c) PROVE Times'
  <2>1. StepOf(c) /\ call'[c].at <= now /\ call'[c].completed <= now
    BY <1>1, TimesOfCall
  <2>2. now' = now /\ session'.validatedAt <= now /\ lease'.until <= MaxTime + LeaseLength
    BY <1>1, TimesOfSession
  <2>3. ASSUME NEW d \in Calls PROVE call'[d].at <= now /\ call'[d].completed <= now
    BY <2>1, OthersStay DEF Times
  <2>4. QED
    BY <2>2, <2>3 DEF Times
<1>2. CASE AlarmFires \/ Reschedule \/ Construct \/ UNCHANGED vars
  BY <1>2 DEF AlarmFires, Reschedule, Construct, vars, clockVars, Times
<1>3. CASE Maintain \/ Checked
  <2>1. UNCHANGED <<now, session, lease>>
    BY <1>3 DEF Maintain, Checked, clockVars
  <2>2. \A d \in Calls : \/ call'[d] = call[d]
                         \/ call'[d].at \in {0, now} /\ call'[d].completed = 0
    BY <1>3, CredentialAssumption DEF Maintain, Checked, NoCallRecord, Shape, TypeOK
  <2>3. QED
    BY <2>1, <2>2, Clocks DEF Times
<1>4. CASE Crash \/ Deploy
  <2>1. /\ now' = now /\ session' \in {session, NoSession}
        /\ lease'.until \in {lease.until, 0}
    BY <1>4 DEF Crash, Lose, Deploy, NoLease, Shape, TypeOK, Leases
  <2>2. \A d \in Calls : call'[d] = call[d] \/ call'[d] = NoCallRecord
    BY <1>4 DEF Crash, Deploy, Lose, Shape, TypeOK
  <2>3. QED
    BY <2>1, <2>2, Clocks DEF Times, NoSession, NoCallRecord
<1>5. CASE Tick
  BY <1>5, Clocks DEF Tick, Times
<1>6. QED
  BY <1>1, <1>2, <1>3, <1>4, <1>5 DEF Next

\* An alarm set to a time that comes is in order.
LEMMA CommitWatches ==
  ASSUME NEW t \in Nat, Commit(t), t # Never PROVE SessionWatched'
BY DEF Commit, SessionWatched

\* A stored session keeps the watch it has.
LEMMA WatchKept ==
  ASSUME Shape, SessionWatched, session' # NoSession => session # NoSession,
         \/ UNCHANGED <<nextCheck, alarm, handler>>
         \/ UNCHANGED <<nextCheck, alarm>> /\ handler' \in {"woken", "retry"}
         \/ Commit(nextCheck)
  PROVE  SessionWatched'
<1>1. alarm' = nextCheck => alarm' <= nextCheck
  BY Clocks
<1>2. QED
  BY <1>1 DEF Commit, SessionWatched

LEMMA CheckTimeEnds ==
  ASSUME NEW s \in Sessions, s.expiresAt > Early, s.validatedAt <= MaxTime
  PROVE  CheckTime(s) \in Nat /\ CheckTime(s) # Never
<1>1. s.validatedAt + Hour \in Nat /\ s.expiresAt - Early \in Nat
  BY CredentialAssumption DEF Sessions
<1>2. CheckTime(s) \in Nat /\ CheckTime(s) <= s.validatedAt + Hour
  BY <1>1, MinOfTwo, CheckTimeType DEF CheckTime
<1>3. Never > MaxTime + Hour /\ s.validatedAt \in Nat /\ Hour \in Nat /\ MaxTime \in Nat
  BY CredentialAssumption DEF Sessions
<1>4. QED
  BY <1>2, <1>3

LEMMA AskWatched ==
  ASSUME Shape, Times, SessionWatched, NEW c \in Calls, Ask(c) PROVE SessionWatched'
<1>1. session' = session
  BY DEF Ask
<1>2. CASE Cached(call[c].at) /\ Commit(CheckTime(session))
  <2>1. session \in Sessions /\ session.expiresAt > Early /\ session.validatedAt <= MaxTime
    BY <1>2, Clocks DEF Cached, Lives, Shape, TypeOK, Times
  <2>2. QED
    BY <1>2, <2>1, CheckTimeEnds, CommitWatches
<1>3. CASE Commit(nextCheck)
  BY <1>1, <1>3, WatchKept
<1>4. CASE Commit(call[c].at + LeaseLength)
  <2>1. call[c].at + LeaseLength \in Nat /\ call[c].at + LeaseLength # Never
    BY Clocks DEF Times
  <2>2. QED
    BY <1>4, <2>1, CommitWatches
<1>5. QED
  BY <1>2, <1>3, <1>4 DEF Ask

LEMMA AcceptWatched ==
  ASSUME Shape, Times, SessionWatched, NEW c \in Calls, Accept(c) PROVE SessionWatched'
<1>1. CASE Accepts(c)
  <2>1. call[c].pc = "accept" /\ Commit(CheckTime(NewSession(c)))
    BY <1>1, Zenon DEF Accept, NewSession
  <2>2. NewSession(c) \in Sessions /\ NewSession(c).expiresAt > Early
    BY <2>1, NewSessionType
  <2>3. NewSession(c).validatedAt <= MaxTime
    BY Clocks DEF NewSession, Times
  <2>4. QED
    BY <2>1, <2>2, <2>3, CheckTimeEnds, CommitWatches
<1>2. CASE ~Accepts(c)
  BY <1>2, WatchKept DEF Accept
<1>3. QED
  BY <1>1, <1>2

\* The other steps of a call leave the watch, commit the check there is, or end
\* with no session.
LEMMA CallWatched ==
  ASSUME Shape, SessionWatched, NEW c \in Calls,
         Start(c) \/ Enter(c) \/ Mint(c) \/ Validate(c) \/ Adopt(c) \/ Fail(c) \/ Return(c)
           \/ Reject(c)
  PROVE  SessionWatched'
<1>1. CASE Start(c) \/ Enter(c) \/ Mint(c) \/ Validate(c) \/ Adopt(c) \/ Return(c)
  BY <1>1, WatchKept DEF Start, Enter, Mint, Validate, Adopt, Return
<1>2. CASE Fail(c) \/ Reject(c)
  <2>1. session' = NoSession \/ (session' = session /\ Commit(nextCheck))
    BY <1>2 DEF Fail, Reject, AfterFailure
  <2>2. QED
    BY <2>1, WatchKept DEF SessionWatched
<1>3. QED
  BY <1>1, <1>2

\* The alarm's own steps: a session means no failures, so the handler looks after
\* it and sets the alarm again, whatever the call of appToken comes to.
LEMMA RescheduleWatched ==
  ASSUME Shape, Times, SessionWatched, Reschedule PROVE SessionWatched'
<1>1. session' = session
  BY DEF Reschedule
<1>2. CASE session # NoSession
  <2> DEFINE t == call[Alarm].at
             last == CASE lease # NoLease -> lease.until
                       [] lease = NoLease /\ nextCheck # Never -> nextCheck
                       [] OTHER -> t + CheckDelay
  <2>1. failures < MaxFailures
    BY <1>2, Clocks DEF Shape, TypeOK
  <2>2. Commit(Later(t))
    BY <2>1 DEF Reschedule
  <2>3. t \in Nat /\ t <= now /\ now <= MaxTime
    BY Clocks, CredentialAssumption DEF Times
  <2>4. t + 1 \in Nat /\ t + 1 # Never
    BY <2>3, Clocks
  <2>5. retryAt \in Nat /\ retryAt # Never
    BY <1>2, Clocks DEF Shape, TypeOK
  <2>6. last \in Nat /\ last # Never
    <3>1. CASE lease # NoLease
      <4>1. last = lease.until
        BY <3>1
      <4>2. lease.until \in Nat /\ lease.until # Never
        BY Clocks DEF Times
      <4>3. QED
        BY <4>1, <4>2
    <3>2. CASE lease = NoLease
      <4>1. nextCheck # Never
        BY <1>2 DEF SessionWatched
      <4>2. last = nextCheck
        BY <3>2, <4>1
      <4>3. QED
        BY <4>1, <4>2, Clocks
    <3>3. QED
      BY <3>1, <3>2
  <2>7. Later(t) = Max({t + 1, retryAt, last})
    BY DEF Later
  <2> HIDE DEF t, last
  <2>8. Later(t) \in Nat /\ Later(t) # Never
    BY <2>4, <2>5, <2>6, <2>7, MaxOfThree
  <2>9. QED
    BY <2>2, <2>8, CommitWatches
<1>3. CASE session = NoSession
  BY <1>1, <1>3 DEF SessionWatched
<1>4. QED
  BY <1>2, <1>3

LEMMA AlarmWatched ==
  ASSUME Shape, Times, SessionWatched,
         AlarmFires \/ Maintain \/ Checked \/ Construct \/ Crash \/ Deploy \/ Tick
           \/ UNCHANGED vars
  PROVE  SessionWatched'
<1>1. CASE AlarmFires
  BY <1>1 DEF AlarmFires, SessionWatched
<1>2. CASE Maintain
  <2>1. session' = session
    BY <1>2 DEF Maintain
  <2>2. CASE session = NoSession
    BY <2>1, <2>2 DEF SessionWatched
  <2>3. CASE session # NoSession
    <3>1. failures < MaxFailures
      BY <2>3, Clocks DEF Shape, TypeOK
    <3>2. Commit(nextCheck)
      BY <1>2, <2>3, <3>1 DEF Maintain, Active
    <3>3. QED
      BY <2>1, <3>2, WatchKept
  <2>4. QED
    BY <2>2, <2>3
<1>3. CASE Checked
  BY <1>3 DEF Checked, SessionWatched
<1>4. CASE Construct
  <2>1. session' = session /\ (session # NoSession => Commit(now + 1))
    BY <1>4 DEF Construct, StartupCheck
  <2>2. now + 1 \in Nat /\ now + 1 # Never
    BY Clocks DEF Times
  <2>3. QED
    BY <2>1, <2>2, CommitWatches DEF SessionWatched
<1>5. CASE Crash
  BY <1>5, WatchKept DEF Crash, Lose
<1>6. CASE Deploy
  BY <1>6 DEF Deploy, SessionWatched
<1>7. CASE Tick \/ UNCHANGED vars
  BY <1>7, WatchKept DEF Tick, vars
<1>8. QED
  BY <1>1, <1>2, <1>3, <1>4, <1>5, <1>6, <1>7

LEMMA WatchStep == Shape /\ Times /\ SessionWatched /\ [Next]_vars => SessionWatched'
BY AskWatched, AcceptWatched, CallWatched, RescheduleWatched, AlarmWatched DEF Next, Step

\* Through back-offs, cleared alarms, other calls' transactions, losses and
\* deployments, a stored session has a next check, and the alarm that leads to it
\* is set or its handler is about to run.
THEOREM CheckNeverLost == Spec => []SessionWatched
<1>1. Init => Shape /\ Times /\ SessionWatched
  BY ShapeInit, TimesInit DEF Init, SessionWatched
<1>2. Shape /\ Times /\ SessionWatched /\ [Next]_vars => (Shape /\ Times /\ SessionWatched)'
  BY ShapeStep, TimesStep, WatchStep
<1>3. QED
  BY <1>1, <1>2, PTL DEF Spec
=============================================================================
