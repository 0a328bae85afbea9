------------------------- MODULE TenantReply_proofs -------------------------
(***************************************************************************)
(* Proofs about TenantReply, for any interactions, requests and policy     *)
(* whose records outlast the repetitions.  The invariant ties what was     *)
(* answered to the record: a request that answered for an interaction saw  *)
(* its only computation end, the record keeps that answer as long as there *)
(* is a record, and once there is none, whatever may still arrive is late. *)
(***************************************************************************)
EXTENDS TenantReply, FiniteSetTheorems, WellFoundedInduction, TLAPS

Types ==
  /\ now \in Nat /\ generation \in Nat /\ activation \in Nat /\ wiping \in BOOLEAN
  /\ works \in [Messages -> Works]
  /\ request \in [Requests -> RequestRecords]
  /\ computed \in [Messages -> Nat]

\* The readings of the clock that an admission goes by.
Clocks ==
  \A r \in Requests :
    /\ request[r].at <= now
    /\ request[r].pc \in {"sent", "admit"} => request[r].received <= LastReceipt
    /\ request[r].pc = "admit" => now <= request[r].at + MaxStale

\* So late that no record is there any more and no request can make one.
TooLate == now >= Budget + Retention

\* A record was computed, once; without one, and while the storage is deleted, it is
\* too late for another.
Records ==
  \A m \in Messages :
    /\ computed[m] <= 1
    /\ works[m].kind # "none" => computed[m] = 1
    /\ computed[m] = 1 /\ (works[m].kind = "none" \/ wiping) => TooLate

\* What was answered is what is on record, if anything is.
Answers ==
  \A r \in Requests :
    request[r].pc = "committed" =>
      /\ computed[Msg(r)] = 1
      /\ works[Msg(r)].kind # "computing"
      /\ works[Msg(r)].kind = "terminal" => works[Msg(r)].response = request[r].response

IInv == Types /\ Clocks /\ Records /\ Answers /\ OneAnswer

-----------------------------------------------------------------------------
(***************************************************************************)
(* Types.                                                                  *)
(***************************************************************************)
LEMMA MinTwo ==
  ASSUME NEW x \in Nat, NEW y \in Nat
  PROVE  Min({x, y}) \in Nat
<1>1. \E z \in {x, y} : \A w \in {x, y} : z <= w
  OBVIOUS
<1>2. Min({x, y}) \in {x, y}
  BY <1>1 DEF Min
<1> QED BY <1>2

LEMMA Policy ==
  /\ Budget \in Nat /\ Compute \in Nat /\ Retention \in Nat /\ Reads \in Nat /\ Spacing \in Nat
  /\ MaxStale \in Nat /\ LastReceipt \in Nat /\ MaxTime \in Nat /\ MaxActivation \in Nat
BY TenantReplyAssumption

LEMMA RecordTypes ==
  /\ NoClaim \in Claims /\ NoWork \in Works /\ NoRequest \in RequestRecords
  /\ NoWork.kind = "none" /\ NoRequest.pc = "idle" /\ NoRequest.at = 0
BY DEF NoClaim, Claims, NoWork, Works, Responses, NoRequest, RequestRecords, Phases

LEMMA StopTypes ==
  ASSUME NEW w \in Works, NEW response \in Responses
  PROVE  /\ Stop(w, response) \in Works
         /\ Stop(w, response).kind = "terminal" /\ Stop(w, response).response = response
         /\ Stop(w, response).received = w.received
BY RecordTypes DEF Stop, Works

LEMMA EndTypes ==
  ASSUME Types, NEW r \in Requests, NEW pc \in Phases, NEW response \in Responses,
         End(r, pc, response)
  PROVE  /\ request' \in [Requests -> RequestRecords]
         /\ request'[r].pc = pc /\ request'[r].response = response /\ request'[r].at = 0
         /\ \A q \in Requests \ {r} : request'[q] = request[q]
<1> DEFINE rec == [NoRequest EXCEPT !.pc = pc, !.received = request[r].received,
                                    !.response = response]
<1>1. /\ rec \in RequestRecords
      /\ rec.pc = pc /\ rec.response = response /\ rec.at = 0
  BY RecordTypes DEF RequestRecords, Types
<1>2. request' = [request EXCEPT ![r] = rec]
  BY DEF End, Set
<1> HIDE DEF rec
<1> QED BY <1>1, <1>2 DEF Types

LEMMA GotoTypes ==
  ASSUME Types, NEW r \in Requests, NEW pc \in Phases, Goto(r, pc)
  PROVE  /\ request' \in [Requests -> RequestRecords]
         /\ request'[r].pc = pc /\ request'[r].at = now
         /\ request'[r].received = request[r].received
         /\ \A q \in Requests \ {r} : request'[q] = request[q]
<1> DEFINE rec == [request[r] EXCEPT !.pc = pc, !.at = now]
<1>1. /\ rec \in RequestRecords
      /\ rec.pc = pc /\ rec.at = now /\ rec.received = request[r].received
  BY DEF RequestRecords, Types
<1>2. request' = [request EXCEPT ![r] = rec]
  BY DEF Goto, Set
<1> HIDE DEF rec
<1> QED BY <1>1, <1>2 DEF Types

LEMMA SetTypes ==
  ASSUME Types, NEW r \in Requests, NEW rec \in RequestRecords, Set(r, rec)
  PROVE  /\ request' \in [Requests -> RequestRecords]
         /\ request'[r] = rec
         /\ \A q \in Requests \ {r} : request'[q] = request[q]
BY DEF Set, Types

-----------------------------------------------------------------------------
(***************************************************************************)
(* What a step does to the records.                                        *)
(***************************************************************************)
\* A record stays, goes, or ends; a new one is of an interaction never computed.
Settles(m) ==
  \/ works'[m] = works[m]
  \/ works'[m].kind = "none"
  \/ works[m].kind = "computing" /\ works'[m].kind = "terminal"
  \/ computed[m] = 0 /\ works'[m].kind = "computing"

\* A request that answers gives what is on record then.
Answered(r) ==
  request'[r].pc = "committed" =>
    \/ request'[r] = request[r]
    \/ /\ computed'[Msg(r)] = 1 /\ works'[Msg(r)].kind = "terminal"
       /\ works'[Msg(r)].response = request'[r].response
       /\ works[Msg(r)].kind = "computing" \/ works'[Msg(r)] = works[Msg(r)]

Outcome ==
  /\ Types' /\ Clocks' /\ Records'
  /\ \A m \in Messages : Settles(m) /\ computed'[m] >= computed[m]
  /\ \A r \in Requests : Answered(r)

LEMMA CommitRecords ==
  ASSUME Types, Records, NEW ws \in [Messages -> Works], NEW gen \in Nat, Commit(ws, gen),
         UNCHANGED now, computed' \in [Messages -> Nat],
         computed' = computed \/ Held(ws) # {},
         \A m \in Messages :
           /\ computed'[m] <= 1
           /\ ws[m].kind # "none" => computed'[m] = 1
           /\ computed'[m] = 1 /\ ws[m].kind = "none" => TooLate
  PROVE  /\ works' \in [Messages -> Works] /\ generation' \in Nat /\ wiping' \in BOOLEAN
         /\ Records'
         /\ works' = ws \/ (works' = works /\ Held(ws) = {})
<1>1. /\ ~wiping
      /\ \/ Held(ws) = {} /\ wiping' = TRUE /\ UNCHANGED <<works, generation>>
         \/ Held(ws) # {} /\ works' = ws /\ generation' = gen /\ UNCHANGED wiping
  BY DEF Commit, Update
<1>2. TooLate' <=> TooLate
  BY DEF TooLate
<1>3. CASE Held(ws) = {} /\ wiping' = TRUE /\ UNCHANGED <<works, generation>>
  <2>1. computed' = computed
    BY <1>3
  <2>2. \A m \in Messages : ws[m].kind = "none"
    BY <1>3 DEF Held
  <2> QED BY <1>2, <1>3, <2>1, <2>2 DEF Records, Types
<1>4. CASE Held(ws) # {} /\ works' = ws /\ generation' = gen /\ UNCHANGED wiping
  BY <1>1, <1>2, <1>4 DEF Records, Types
<1> QED BY <1>1, <1>3, <1>4

\* A commit of the records as they are, or with one of them ended.
LEMMA CommitSame ==
  ASSUME Types, Records, Commit(works, generation), UNCHANGED <<now, computed>>
  PROVE  /\ works' = works /\ generation' \in Nat /\ wiping' \in BOOLEAN /\ Records'
         /\ \A m \in Messages : Settles(m) /\ computed'[m] >= computed[m]
<1>1. /\ works \in [Messages -> Works] /\ generation \in Nat /\ computed' \in [Messages -> Nat]
      /\ \A m \in Messages :
           /\ computed'[m] <= 1
           /\ works[m].kind # "none" => computed'[m] = 1
           /\ computed'[m] = 1 /\ works[m].kind = "none" => TooLate
  BY DEF Types, Records
<1>2. /\ generation' \in Nat /\ wiping' \in BOOLEAN /\ Records'
      /\ works' = works
  BY <1>1, CommitRecords
<1> QED BY <1>1, <1>2 DEF Settles, Types

LEMMA CommitStop ==
  ASSUME Types, Records, NEW m \in Messages, NEW response \in Responses,
         works[m].kind = "computing",
         Commit([works EXCEPT ![m] = Stop(works[m], response)], generation),
         UNCHANGED <<now, computed>>
  PROVE  /\ works' \in [Messages -> Works] /\ generation' \in Nat /\ wiping' \in BOOLEAN
         /\ Records' /\ computed'[m] = 1
         /\ works'[m].kind = "terminal" /\ works'[m].response = response
         /\ \A n \in Messages : Settles(n) /\ computed'[n] >= computed[n]
<1> DEFINE stopped == Stop(works[m], response)
           ws == [works EXCEPT ![m] = stopped]
<1>1. stopped \in Works /\ stopped.kind = "terminal" /\ stopped.response = response
  BY StopTypes DEF Types
<1> HIDE DEF stopped
<1>2. /\ ws \in [Messages -> Works] /\ ws[m] = stopped
      /\ \A n \in Messages \ {m} : ws[n] = works[n]
  BY <1>1 DEF Types
<1>3. Held(ws) # {} /\ generation \in Nat /\ computed' \in [Messages -> Nat]
  BY <1>1, <1>2 DEF Held, Types
<1>4. Commit(ws, generation)
  BY DEF stopped
<1>5. \A n \in Messages :
        /\ computed'[n] <= 1
        /\ ws[n].kind # "none" => computed'[n] = 1
        /\ computed'[n] = 1 /\ ws[n].kind = "none" => TooLate
  BY <1>1, <1>2 DEF Records
<1> HIDE DEF ws
<1>6. /\ works' \in [Messages -> Works] /\ generation' \in Nat /\ wiping' \in BOOLEAN
      /\ Records' /\ works' = ws
  BY <1>2, <1>3, <1>4, <1>5, CommitRecords
<1> QED BY <1>1, <1>2, <1>6 DEF Settles, Records, Types

\* What admission finds after settling: nothing is forgotten before it is too late.
LEMMA SettledRecords ==
  ASSUME Types, Records, NEW t \in Nat, t <= now
  PROVE  /\ Settled(t) \in [Messages -> Works]
         /\ \A m \in Messages :
              /\ \/ Settled(t)[m] = works[m] \/ Settled(t)[m].kind = "none"
                 \/ works[m].kind = "computing" /\ Settled(t)[m].kind = "terminal"
              /\ Settled(t)[m].kind # "none" => computed[m] = 1
              /\ computed[m] = 1 /\ Settled(t)[m].kind = "none" => TooLate
<1>1. ASSUME NEW m \in Messages
      PROVE  /\ Settled(t)[m] \in Works
             /\ \/ Settled(t)[m] = works[m] \/ Settled(t)[m].kind = "none"
                \/ works[m].kind = "computing" /\ Settled(t)[m].kind = "terminal"
             /\ Settled(t)[m].kind # "none" => computed[m] = 1
             /\ computed[m] = 1 /\ Settled(t)[m].kind = "none" => TooLate
  <2>1. works[m] \in Works /\ works[m].received \in Nat
    BY DEF Types, Works
  <2>2. CASE RetainUntil(works[m]) <= t
    <3>1. Settled(t)[m] = NoWork
      BY <2>2 DEF Settled
    <3>2. TooLate
      BY <2>1, <2>2, Policy DEF RetainUntil, TooLate, Types
    <3> QED BY <3>1, <3>2, RecordTypes
  <2>3. CASE ~(RetainUntil(works[m]) <= t) /\ works[m].kind = "computing" /\ Stale(works[m], t)
    <3>1. Settled(t)[m] = Stop(works[m], "failure")
      BY <2>3 DEF Settled
    <3>2. "failure" \in Responses
      BY DEF Responses
    <3>3. Stop(works[m], "failure") \in Works /\ Stop(works[m], "failure").kind = "terminal"
      BY <2>1, <3>2, StopTypes
    <3> QED BY <2>3, <3>1, <3>3 DEF Records
  <2>4. CASE ~(RetainUntil(works[m]) <= t) /\ ~(works[m].kind = "computing" /\ Stale(works[m], t))
    <3>1. Settled(t)[m] = works[m]
      BY <2>4 DEF Settled
    <3> QED BY <2>1, <3>1 DEF Records
  <2> QED BY <2>2, <2>3, <2>4
<1>2. Settled(t) = [m \in Messages |-> Settled(t)[m]]
  BY DEF Settled
<1> QED BY <1>1, <1>2

-----------------------------------------------------------------------------
(***************************************************************************)
(* The actions.                                                            *)
(***************************************************************************)
\* A step of one request that is in no admission after it, or has just read the clock.
LEMMA ClocksKept ==
  ASSUME Types, Clocks, UNCHANGED now, NEW r \in Requests,
         \A q \in Requests \ {r} : request'[q] = request[q],
         request'[r].at <= now,
         request'[r].pc \in {"sent", "admit"} => request'[r].received <= LastReceipt,
         request'[r].pc = "admit" => request'[r].at = now
  PROVE  Clocks'
<1> SUFFICES ASSUME NEW q \in Requests
             PROVE  /\ request'[q].at <= now'
                    /\ request'[q].pc \in {"sent", "admit"} => request'[q].received <= LastReceipt
                    /\ request'[q].pc = "admit" => now' <= request'[q].at + MaxStale
  BY DEF Clocks
<1>1. CASE q = r
  BY <1>1, Policy DEF Types
<1>2. CASE q # r
  BY <1>2 DEF Clocks
<1> QED BY <1>1, <1>2

\* A step of one request that ends it or moves it on, after a commit of the records.
LEMMA RequestOutcome ==
  ASSUME Types, Clocks, UNCHANGED <<now, activation>>,
         NEW r \in Requests, request' \in [Requests -> RequestRecords],
         \A q \in Requests \ {r} : request'[q] = request[q],
         request'[r].at <= now,
         request'[r].pc \in {"sent", "admit"} => request'[r].received <= LastReceipt,
         request'[r].pc = "admit" => request'[r].at = now,
         Answered(r),
         works' \in [Messages -> Works], generation' \in Nat, wiping' \in BOOLEAN,
         computed' \in [Messages -> Nat], Records',
         \A m \in Messages : Settles(m) /\ computed'[m] >= computed[m]
  PROVE  Outcome
<1>1. Clocks'
  BY ClocksKept
<1>2. Types'
  BY DEF Types
<1>3. \A q \in Requests : Answered(q)
  BY DEF Answered
<1> QED BY <1>1, <1>2, <1>3 DEF Outcome

LEMMA MsgType == \A r \in Requests : Msg(r) \in Messages
BY TenantReplyAssumption DEF Msg

LEMMA StillRecords ==
  ASSUME Types, Records, UNCHANGED <<now, stored, computed>>
  PROVE  /\ works' \in [Messages -> Works] /\ generation' \in Nat /\ wiping' \in BOOLEAN
         /\ computed' \in [Messages -> Nat] /\ Records'
         /\ \A m \in Messages : Settles(m) /\ computed'[m] >= computed[m]
BY DEF Types, Records, TooLate, Settles, stored

LEMMA ReceiveOutcome ==
  ASSUME Types, Clocks, Records, NEW r \in Requests, Receive(r)
  PROVE  Outcome
<1> DEFINE rec == [NoRequest EXCEPT !.pc = "sent", !.received = now]
<1>1. rec \in RequestRecords /\ rec.pc = "sent" /\ rec.received = now /\ rec.at = 0
  BY RecordTypes DEF RequestRecords, Phases, Types
<1>2. Set(r, rec) /\ now <= LastReceipt /\ UNCHANGED <<now, stored, activation, computed>>
  BY DEF Receive
<1> HIDE DEF rec
<1>3. /\ request' \in [Requests -> RequestRecords] /\ request'[r] = rec
      /\ \A q \in Requests \ {r} : request'[q] = request[q]
  BY <1>1, <1>2, SetTypes
<1>4. Answered(r)
  BY <1>1, <1>3 DEF Answered
<1>5. 0 <= now
  BY DEF Types
<1> QED BY <1>1, <1>2, <1>3, <1>4, <1>5, StillRecords, RequestOutcome

LEMMA ArriveOutcome ==
  ASSUME Types, Clocks, Records, NEW r \in Requests, Arrive(r)
  PROVE  Outcome
<1>1. Goto(r, "admit") /\ request[r].pc = "sent" /\ UNCHANGED <<now, stored, activation, computed>>
  BY DEF Arrive
<1>2. "admit" \in Phases
  BY DEF Phases
<1>3. /\ request' \in [Requests -> RequestRecords]
      /\ request'[r].pc = "admit" /\ request'[r].at = now
      /\ request'[r].received = request[r].received
      /\ \A q \in Requests \ {r} : request'[q] = request[q]
  BY <1>1, <1>2, GotoTypes
<1>4. Answered(r) /\ request[r].received <= LastReceipt /\ now <= now
  BY <1>1, <1>3 DEF Answered, Clocks, Types
<1> QED BY <1>1, <1>3, <1>4, StillRecords, RequestOutcome

\* The phases after admission: the readings of the clock there do not matter.
LEMMA EndOutcome ==
  ASSUME Types, Clocks, UNCHANGED <<now, activation>>, NEW r \in Requests,
         NEW pc \in Phases \ {"sent", "admit"}, NEW response \in Responses,
         End(r, pc, response),
         pc = "committed" =>
           /\ computed'[Msg(r)] = 1 /\ works'[Msg(r)].kind = "terminal"
           /\ works'[Msg(r)].response = response
           /\ works[Msg(r)].kind = "computing" \/ works'[Msg(r)] = works[Msg(r)],
         works' \in [Messages -> Works], generation' \in Nat, wiping' \in BOOLEAN,
         computed' \in [Messages -> Nat], Records',
         \A m \in Messages : Settles(m) /\ computed'[m] >= computed[m]
  PROVE  Outcome
<1>1. /\ request' \in [Requests -> RequestRecords]
      /\ request'[r].pc = pc /\ request'[r].response = response /\ request'[r].at = 0
      /\ \A q \in Requests \ {r} : request'[q] = request[q]
  BY EndTypes
<1>2. Answered(r) /\ 0 <= now
  BY <1>1 DEF Answered, Types
<1> QED BY <1>1, <1>2, RequestOutcome

LEMMA GotoOutcome ==
  ASSUME Types, Clocks, UNCHANGED <<now, activation>>, NEW r \in Requests,
         NEW pc \in Phases \ {"sent", "admit", "committed"}, Goto(r, pc),
         works' \in [Messages -> Works], generation' \in Nat, wiping' \in BOOLEAN,
         computed' \in [Messages -> Nat], Records',
         \A m \in Messages : Settles(m) /\ computed'[m] >= computed[m]
  PROVE  Outcome
<1>1. /\ request' \in [Requests -> RequestRecords]
      /\ request'[r].pc = pc /\ request'[r].at = now
      /\ \A q \in Requests \ {r} : request'[q] = request[q]
  BY GotoTypes
<1>2. Answered(r) /\ now <= now
  BY <1>1 DEF Answered, Types
<1> QED BY <1>1, <1>2, RequestOutcome

LEMMA SetOutcome ==
  ASSUME Types, Clocks, UNCHANGED <<now, activation>>, NEW r \in Requests,
         NEW rec \in RequestRecords, Set(r, rec), rec.at <= now,
         rec.pc \notin {"sent", "admit", "committed"},
         works' \in [Messages -> Works], generation' \in Nat, wiping' \in BOOLEAN,
         computed' \in [Messages -> Nat], Records',
         \A m \in Messages : Settles(m) /\ computed'[m] >= computed[m]
  PROVE  Outcome
<1>1. /\ request' \in [Requests -> RequestRecords] /\ request'[r] = rec
      /\ \A q \in Requests \ {r} : request'[q] = request[q]
  BY SetTypes
<1>2. Answered(r)
  BY <1>1 DEF Answered
<1> QED BY <1>1, <1>2, RequestOutcome

LEMMA EndComputeOutcome ==
  ASSUME Types, Clocks, Records, NEW r \in Requests, EndCompute(r)
  PROVE  Outcome
<1>1. "commit" \in Phases \ {"sent", "admit", "committed"}
  BY DEF Phases
<1> QED BY <1>1, StillRecords, GotoOutcome DEF EndCompute

LEMMA WakeOutcome ==
  ASSUME Types, Clocks, Records, NEW r \in Requests, Wake(r)
  PROVE  Outcome
<1> DEFINE rec == [request[r] EXCEPT !.pc = "poll", !.at = now, !.reads = @ + 1]
<1>1. rec \in RequestRecords /\ rec.pc = "poll" /\ rec.at = now
  <2>1. request[r] \in RequestRecords /\ request[r].reads + 1 \in Nat /\ now \in Nat
    BY DEF Types, RequestRecords
  <2> QED BY <2>1 DEF RequestRecords, Phases
<1>2. Set(r, rec) /\ UNCHANGED <<now, stored, activation, computed>>
  BY DEF Wake
<1> HIDE DEF rec
<1>3. now <= now
  BY DEF Types
<1> QED BY <1>1, <1>2, <1>3, StillRecords, SetOutcome

LEMMA PollOutcome ==
  ASSUME Types, Clocks, Records, NEW r \in Requests, Poll(r)
  PROVE  Outcome
<1>1. UNCHANGED <<now, stored, activation, computed>> /\ works' = works
  BY DEF Poll, stored
<1>2. /\ {"limit", "missing", "committed"} \subseteq Phases \ {"sent", "admit"}
      /\ "failure" \in Responses /\ works[Msg(r)] \in Works /\ works[Msg(r)].response \in Responses
  BY MsgType DEF Phases, Responses, Types, Works
<1>3. CASE End(r, "limit", "failure")
  BY <1>1, <1>2, <1>3, StillRecords, EndOutcome
<1>4. CASE End(r, "missing", "failure")
  BY <1>1, <1>2, <1>4, StillRecords, EndOutcome
<1>5. CASE Work(r).kind = "terminal" /\ End(r, "committed", Work(r).response)
  <2>1. computed'[Msg(r)] = 1
    BY <1>1, <1>5, MsgType DEF Work, Records
  <2> QED BY <1>1, <1>2, <1>5, <2>1, StillRecords, EndOutcome DEF Work
<1>6. CASE Set(r, [request[r] EXCEPT !.pc = "settle"]) /\ request[r].pc = "poll"
  <2> DEFINE rec == [request[r] EXCEPT !.pc = "settle"]
  <2>1. rec \in RequestRecords /\ rec.pc = "settle" /\ rec.at = request[r].at
    BY DEF RequestRecords, Phases, Types
  <2>2. Set(r, rec) /\ request[r].at <= now
    BY <1>6 DEF Clocks
  <2> HIDE DEF rec
  <2> QED BY <1>1, <2>1, <2>2, StillRecords, SetOutcome
<1>7. CASE Set(r, [request[r] EXCEPT !.pc = "sleep", !.at = now])
  <2> DEFINE rec == [request[r] EXCEPT !.pc = "sleep", !.at = now]
  <2>1. rec \in RequestRecords /\ rec.pc = "sleep" /\ rec.at = now
    <3>1. request[r] \in RequestRecords /\ now \in Nat
      BY DEF Types
    <3> QED BY <3>1 DEF RequestRecords, Phases
  <2>2. Set(r, rec) /\ now <= now
    BY <1>7 DEF Types
  <2> HIDE DEF rec
  <2> QED BY <1>1, <2>1, <2>2, StillRecords, SetOutcome
<1> QED BY <1>3, <1>4, <1>5, <1>6, <1>7 DEF Poll

LEMMA CommitReplyOutcome ==
  ASSUME Types, Clocks, Records, NEW r \in Requests, CommitReply(r)
  PROVE  Outcome
<1> DEFINE resp == IF request[r].at >= request[r].claim.until THEN "failure" ELSE "reply"
<1>1. /\ UNCHANGED <<now, activation, computed>> /\ computed' \in [Messages -> Nat]
      /\ Msg(r) \in Messages /\ works[Msg(r)] \in Works /\ works[Msg(r)].response \in Responses
      /\ resp \in Responses /\ {"committed", "poll"} \subseteq Phases
  BY MsgType DEF CommitReply, Types, Works, Responses, Phases
<1>2. CASE /\ Work(r).kind = "terminal" /\ Commit(works, generation)
           /\ End(r, "committed", Work(r).response)
  <2>1. computed'[Msg(r)] = 1
    BY <1>1, <1>2 DEF Work, Records
  <2>2. /\ works' = works /\ works' \in [Messages -> Works]
        /\ generation' \in Nat /\ wiping' \in BOOLEAN /\ Records'
        /\ \A m \in Messages : Settles(m) /\ computed'[m] >= computed[m]
    BY <1>1, <1>2, CommitSame DEF Types
  <2> QED BY <1>1, <1>2, <2>1, <2>2, EndOutcome DEF Work
<1>3. CASE /\ Matches(r)
           /\ Commit([works EXCEPT ![Msg(r)] = Stop(Work(r), resp)], generation)
           /\ End(r, "committed", resp)
  <2> HIDE DEF resp
  <2>1. works[Msg(r)].kind = "computing"
    BY <1>3 DEF Matches, Work
  <2>2. /\ works' \in [Messages -> Works] /\ generation' \in Nat /\ wiping' \in BOOLEAN
        /\ Records' /\ computed'[Msg(r)] = 1
        /\ works'[Msg(r)].kind = "terminal" /\ works'[Msg(r)].response = resp
        /\ \A n \in Messages : Settles(n) /\ computed'[n] >= computed[n]
    BY <1>1, <1>3, <2>1, CommitStop DEF Work
  <2> QED BY <1>1, <1>3, <2>1, <2>2, EndOutcome
<1>4. CASE Commit(works, generation) /\ Goto(r, "poll")
  <2>1. /\ works' \in [Messages -> Works] /\ generation' \in Nat /\ wiping' \in BOOLEAN
        /\ Records' /\ \A m \in Messages : Settles(m) /\ computed'[m] >= computed[m]
    BY <1>1, <1>4, CommitSame DEF Types
  <2> QED BY <1>1, <1>4, <2>1, GotoOutcome
<1> QED BY <1>2, <1>3, <1>4 DEF CommitReply

LEMMA SettleStaleOutcome ==
  ASSUME Types, Clocks, Records, NEW r \in Requests, SettleStale(r)
  PROVE  Outcome
<1>1. /\ UNCHANGED <<now, activation, computed>> /\ computed' \in [Messages -> Nat]
      /\ Msg(r) \in Messages /\ works[Msg(r)] \in Works /\ works[Msg(r)].response \in Responses
      /\ "failure" \in Responses /\ {"committed", "missing"} \subseteq Phases \ {"sent", "admit"}
  BY MsgType DEF SettleStale, Types, Works, Responses, Phases
<1>2. ASSUME Commit(works, generation)
      PROVE  /\ works' = works /\ works' \in [Messages -> Works]
             /\ generation' \in Nat /\ wiping' \in BOOLEAN /\ Records'
             /\ \A m \in Messages : Settles(m) /\ computed'[m] >= computed[m]
  BY <1>1, <1>2, CommitSame DEF Types
<1>3. CASE Commit(works, generation) /\ End(r, "missing", "failure")
  BY <1>1, <1>2, <1>3, EndOutcome
<1>4. CASE /\ Work(r).kind = "terminal" /\ Commit(works, generation)
           /\ End(r, "committed", Work(r).response)
  <2>1. computed'[Msg(r)] = 1
    BY <1>1, <1>4 DEF Work, Records
  <2> QED BY <1>1, <1>2, <1>4, <2>1, EndOutcome DEF Work
<1>5. CASE Commit(works, generation) /\ Set(r, [request[r] EXCEPT !.pc = "sleep", !.at = now])
  <2> DEFINE rec == [request[r] EXCEPT !.pc = "sleep", !.at = now]
  <2>1. rec \in RequestRecords /\ rec.pc = "sleep" /\ rec.at = now
    <3>1. request[r] \in RequestRecords /\ now \in Nat
      BY DEF Types
    <3> QED BY <3>1 DEF RequestRecords, Phases
  <2>2. Set(r, rec) /\ now <= now
    BY <1>5 DEF Types
  <2> HIDE DEF rec
  <2> QED BY <1>1, <1>2, <1>5, <2>1, <2>2, SetOutcome
<1>6. CASE /\ Work(r).kind = "computing"
           /\ Commit([works EXCEPT ![Msg(r)] = Stop(Work(r), "failure")], generation)
           /\ End(r, "committed", "failure")
  <2>1. /\ works' \in [Messages -> Works] /\ generation' \in Nat /\ wiping' \in BOOLEAN
        /\ Records' /\ computed'[Msg(r)] = 1
        /\ works'[Msg(r)].kind = "terminal" /\ works'[Msg(r)].response = "failure"
        /\ \A n \in Messages : Settles(n) /\ computed'[n] >= computed[n]
    BY <1>1, <1>6, CommitStop DEF Work
  <2> QED BY <1>1, <1>6, <2>1, EndOutcome DEF Work
<1> QED BY <1>3, <1>4, <1>5, <1>6 DEF SettleStale

LEMMA AdmitOutcome ==
  ASSUME Types, Clocks, Records, NEW r \in Requests, Admit(r)
  PROVE  Outcome
<1> DEFINE t == request[r].at
           m == Msg(r)
           ws == Settled(t)
           claim == [generation |-> generation + 1, activation |-> activation,
                     until |-> Min({request[r].received + Compute, t + Compute})]
           fresh == [NoWork EXCEPT !.kind = "computing", !.received = request[r].received,
                                   !.claim = claim]
           new == [ws EXCEPT ![m] = fresh]
           late == t >= request[r].received + Budget
<1>1. /\ request[r] \in RequestRecords /\ t \in Nat /\ request[r].received \in Nat
      /\ t <= now /\ m \in Messages /\ UNCHANGED <<now, activation>>
      /\ request[r].received <= LastReceipt /\ now <= t + MaxStale
      /\ generation \in Nat /\ generation + 1 \in Nat /\ activation \in Nat
  BY MsgType DEF Admit, Types, Clocks, RequestRecords
<1>2. /\ ws \in [Messages -> Works]
      /\ \A n \in Messages :
           /\ \/ ws[n] = works[n] \/ ws[n].kind = "none"
              \/ works[n].kind = "computing" /\ ws[n].kind = "terminal"
           /\ ws[n].kind # "none" => computed[n] = 1
           /\ computed[n] = 1 /\ ws[n].kind = "none" => TooLate
  BY <1>1, SettledRecords
<1>3. /\ {"committed", "refused", "poll"} \subseteq Phases /\ "failure" \in Responses
      /\ ws[m].response \in Responses
  BY <1>1, <1>2 DEF Phases, Responses, Works
<1>4. /\ claim \in Claims
      /\ fresh \in Works /\ fresh.kind = "computing"
  <2>1. claim \in Claims
    <3>1. Min({request[r].received + Compute, t + Compute}) \in Nat
      BY <1>1, MinTwo, Policy
    <3> QED BY <1>1, <3>1 DEF Claims
  <2> HIDE DEF claim
  <2> QED BY <1>1, <2>1, RecordTypes DEF Works
<1> HIDE DEF ws, claim, fresh, late
<1>5. ASSUME NEW gen \in Nat, Commit(ws, gen), UNCHANGED computed
      PROVE  /\ works' \in [Messages -> Works] /\ generation' \in Nat /\ wiping' \in BOOLEAN
             /\ computed' \in [Messages -> Nat] /\ Records'
             /\ \A n \in Messages : Settles(n) /\ computed'[n] >= computed[n]
             /\ ws[m].kind = "terminal" => works'[m] = ws[m]
  <2>1. /\ computed' \in [Messages -> Nat]
        /\ \A n \in Messages :
             /\ computed'[n] <= 1
             /\ ws[n].kind # "none" => computed'[n] = 1
             /\ computed'[n] = 1 /\ ws[n].kind = "none" => TooLate
    BY <1>2, <1>5 DEF Types, Records
  <2>2. /\ works' \in [Messages -> Works] /\ generation' \in Nat /\ wiping' \in BOOLEAN
        /\ Records'
        /\ works' = ws \/ (works' = works /\ Held(ws) = {})
    BY <1>1, <1>2, <1>5, <2>1, CommitRecords
  <2>3. Held(ws) = {} => ws[m].kind = "none"
    BY <1>1 DEF Held
  <2>4. \A n \in Messages : Settles(n) /\ computed'[n] >= computed[n]
    BY <1>2, <1>5, <2>2 DEF Settles, Types
  <2>5. ws[m].kind = "terminal" => works'[m] = ws[m]
    BY <2>2, <2>3
  <2> QED BY <2>1, <2>2, <2>4, <2>5
<1>6. CASE /\ ws[m].kind = "terminal" /\ Commit(ws, generation)
           /\ End(r, "committed", ws[m].response) /\ UNCHANGED computed
  <2>1. computed'[m] = 1
    BY <1>1, <1>2, <1>6
  <2>2. works'[m] = ws[m] /\ (works[m].kind = "computing" \/ works'[m] = works[m])
    BY <1>1, <1>2, <1>5, <1>6
  <2> QED BY <1>1, <1>3, <1>5, <1>6, <2>1, <2>2, EndOutcome
<1>7. CASE Commit(ws, generation) /\ Goto(r, "poll") /\ UNCHANGED computed
  BY <1>1, <1>3, <1>5, <1>7, GotoOutcome
<1>8. ASSUME NEW gen \in Nat, Commit(ws, gen), End(r, "refused", "failure"), UNCHANGED computed
      PROVE  Outcome
  BY <1>1, <1>3, <1>5, <1>8, EndOutcome
<1>9. CASE /\ ws[m].kind = "none" /\ ~late /\ Commit(new, generation + 1)
           /\ Set(r, [request[r] EXCEPT !.pc = "compute", !.claim = claim])
           /\ computed' = [computed EXCEPT ![m] = @ + 1]
  <2> DEFINE rec == [request[r] EXCEPT !.pc = "compute", !.claim = claim]
  <2>1. rec \in RequestRecords /\ rec.pc = "compute" /\ rec.at = t
    BY <1>1, <1>4 DEF RequestRecords, Phases
  <2>2. computed[m] = 0
    <3>1. ~TooLate
      BY <1>1, <1>9, Policy, RetentionAssumption DEF TooLate, late, Types
    <3> QED BY <1>1, <1>2, <1>9, <3>1 DEF Types, Records
  <2>3. /\ new \in [Messages -> Works] /\ new[m].kind = "computing"
        /\ \A n \in Messages \ {m} : new[n] = ws[n]
    BY <1>1, <1>2, <1>4
  <2>4. /\ computed' \in [Messages -> Nat] /\ computed'[m] = 1
        /\ \A n \in Messages \ {m} : computed'[n] = computed[n]
    BY <1>1, <1>9, <2>2 DEF Types
  <2>5. Held(new) # {}
    BY <1>1, <2>3 DEF Held
  <2> HIDE DEF new, rec
  <2>6. \A n \in Messages :
          /\ computed'[n] <= 1
          /\ new[n].kind # "none" => computed'[n] = 1
          /\ computed'[n] = 1 /\ new[n].kind = "none" => TooLate
    BY <1>2, <2>3, <2>4 DEF Records
  <2>7. Commit(new, generation + 1) /\ Set(r, rec)
    BY <1>9 DEF rec
  <2>8. /\ works' \in [Messages -> Works] /\ generation' \in Nat /\ wiping' \in BOOLEAN
        /\ Records' /\ works' = new
    BY <1>1, <2>3, <2>4, <2>5, <2>6, <2>7, CommitRecords
  <2>9. \A n \in Messages : Settles(n) /\ computed'[n] >= computed[n]
    BY <1>2, <2>2, <2>3, <2>4, <2>8 DEF Settles, Types
  <2> QED BY <1>1, <2>1, <2>4, <2>7, <2>8, <2>9, SetOutcome
<1> QED BY <1>1, <1>6, <1>7, <1>8, <1>9 DEF Admit, ws, claim, fresh, late

LEMMA ReclaimOutcome ==
  ASSUME Types, Clocks, Records, Reclaim
  PROVE  Outcome
<1> DEFINE ws == [m \in Messages |-> IF RetainUntil(works[m]) <= now THEN NoWork ELSE works[m]]
<1>1. /\ Commit(ws, generation) /\ UNCHANGED <<now, activation, request, computed>>
      /\ computed' \in [Messages -> Nat] /\ generation \in Nat
  BY DEF Reclaim, Types
<1>2. /\ ws \in [Messages -> Works]
      /\ \A m \in Messages : ws[m] = works[m] \/ (ws[m].kind = "none" /\ TooLate)
  <2> SUFFICES ASSUME NEW m \in Messages
               PROVE  ws[m] \in Works /\ (ws[m] = works[m] \/ (ws[m].kind = "none" /\ TooLate))
    OBVIOUS
  <2>1. works[m] \in Works /\ works[m].received \in Nat
    BY DEF Types, Works
  <2> QED BY <2>1, RecordTypes, Policy DEF RetainUntil, TooLate, Types
<1> HIDE DEF ws
<1>3. \A m \in Messages :
        /\ computed'[m] <= 1
        /\ ws[m].kind # "none" => computed'[m] = 1
        /\ computed'[m] = 1 /\ ws[m].kind = "none" => TooLate
  BY <1>1, <1>2 DEF Records
<1>4. /\ works' \in [Messages -> Works] /\ generation' \in Nat /\ wiping' \in BOOLEAN
      /\ Records'
      /\ works' = ws \/ (works' = works /\ Held(ws) = {})
  BY <1>1, <1>2, <1>3, CommitRecords
<1>5. \A m \in Messages : Settles(m) /\ computed'[m] >= computed[m]
  BY <1>1, <1>2, <1>4 DEF Settles, Types
<1>6. Types' /\ Clocks' /\ \A r \in Requests : Answered(r)
  BY <1>1, <1>4 DEF Types, Clocks, Answered
<1> QED BY <1>4, <1>5, <1>6 DEF Outcome

LEMMA WipeOutcome ==
  ASSUME Types, Clocks, Records, Wipe
  PROVE  Outcome
<1>1. /\ wiping /\ wiping' = FALSE /\ generation' = 0
      /\ works' = [m \in Messages |-> NoWork]
      /\ UNCHANGED <<now, activation, request, computed>>
  BY DEF Wipe, DeleteAll
<1>2. Records' /\ \A m \in Messages : Settles(m) /\ computed'[m] >= computed[m]
  BY <1>1, RecordTypes DEF Records, TooLate, Settles, Types
<1>3. Types' /\ Clocks' /\ \A r \in Requests : Answered(r)
  BY <1>1, RecordTypes DEF Types, Clocks, Answered
<1> QED BY <1>2, <1>3 DEF Outcome

LEMMA CrashOutcome ==
  ASSUME Types, Clocks, Records, Crash
  PROVE  Outcome
<1>1. /\ activation' = activation + 1 /\ wiping' = FALSE
      /\ UNCHANGED <<now, works, generation, computed>>
  BY DEF Crash, LoseStorageCall
<1>2. ASSUME NEW r \in Requests
      PROVE  /\ request'[r] \in RequestRecords
             /\ request'[r] = request[r] \/ (request'[r].pc = "lost" /\ request'[r].at = 0)
             /\ request'[r] = request[r] => request[r].pc # "admit"
  <2> DEFINE rec == [NoRequest EXCEPT !.pc = "lost", !.received = request[r].received]
  <2>1. request[r] \in RequestRecords /\ request[r].received \in Nat
    BY DEF Types, RequestRecords
  <2>2. rec \in RequestRecords /\ rec.pc = "lost" /\ rec.at = 0
    BY <2>1, RecordTypes DEF RequestRecords, Phases
  <2>3. request'[r] = IF request[r].pc \in Ended \cup {"sent"} THEN request[r] ELSE rec
    BY DEF Crash
  <2> HIDE DEF rec
  <2> QED BY <2>1, <2>2, <2>3 DEF Ended
<1>3. Types'
  <2>1. request' \in [Requests -> RequestRecords]
    BY <1>2 DEF Crash
  <2>2. activation' \in Nat
    <3>1. activation \in Nat /\ activation' = activation + 1
      BY <1>1 DEF Types
    <3> QED BY <3>1
  <2>3. wiping' \in BOOLEAN
    BY <1>1
  <2>4. UNCHANGED <<now, works, generation, computed>>
    BY <1>1
  <2> QED BY <2>1, <2>2, <2>3, <2>4 DEF Types
<1>4. Clocks' /\ \A r \in Requests : Answered(r)
  BY <1>1, <1>2 DEF Clocks, Answered, Types
<1>5. Records' /\ \A m \in Messages : Settles(m) /\ computed'[m] >= computed[m]
  BY <1>1 DEF Records, TooLate, Settles, Types
<1> QED BY <1>3, <1>4, <1>5 DEF Outcome

LEMMA TickOutcome ==
  ASSUME Types, Clocks, Records, Tick
  PROVE  Outcome
<1>1. /\ now' = now + 1 /\ UNCHANGED <<works, generation, wiping, activation, request, computed>>
      /\ \A r \in Requests : Prompt(r)
  BY DEF Tick, stored
<1>2. Types' /\ \A r \in Requests : Answered(r)
  BY <1>1 DEF Types, Answered
<1>3. Clocks'
  <2> SUFFICES ASSUME NEW r \in Requests
               PROVE  /\ request[r].at <= now + 1
                      /\ request[r].pc \in {"sent", "admit"} => request[r].received <= LastReceipt
                      /\ request[r].pc = "admit" => now + 1 <= request[r].at + MaxStale
    BY <1>1 DEF Clocks
  <2>1. request[r].at \in Nat /\ now \in Nat
    BY DEF Types, RequestRecords
  <2> QED BY <1>1, <2>1, Policy DEF Clocks, Prompt
<1>4. Records' /\ \A m \in Messages : Settles(m) /\ computed'[m] >= computed[m]
  BY <1>1, Policy DEF Records, TooLate, Settles, Types
<1> QED BY <1>2, <1>3, <1>4 DEF Outcome

-----------------------------------------------------------------------------
(***************************************************************************)
(* The theorems.                                                           *)
(***************************************************************************)
LEMMA Start == Init => IInv
<1> SUFFICES ASSUME Init PROVE IInv
  OBVIOUS
<1>1. /\ \A r \in Requests : request[r] = NoRequest
      /\ \A m \in Messages : works[m] = NoWork /\ computed[m] = 0
      /\ now = 0
  BY DEF Init
<1>2. Types
  BY RecordTypes DEF Init, Types
<1>3. Clocks /\ Records /\ Answers /\ OneAnswer
  BY <1>1, RecordTypes DEF Clocks, Records, Answers, OneAnswer
<1> QED BY <1>2, <1>3 DEF IInv

LEMMA EveryOutcome ==
  ASSUME IInv, Next
  PROVE  Outcome
BY ReceiveOutcome, ArriveOutcome, AdmitOutcome, EndComputeOutcome, CommitReplyOutcome,
   PollOutcome, SettleStaleOutcome, WakeOutcome, ReclaimOutcome, WipeOutcome, CrashOutcome,
   TickOutcome DEF Next, Respond, IInv

\* An outcome agrees with what was answered before.
LEMMA OutcomeAgrees ==
  ASSUME IInv, Outcome
  PROVE  Answers' /\ OneAnswer'
<1>1. ASSUME NEW r \in Requests, request'[r].pc = "committed"
      PROVE  /\ computed'[Msg(r)] = 1
             /\ works'[Msg(r)].kind # "computing"
             /\ works'[Msg(r)].kind = "terminal" =>
                  works'[Msg(r)].response = request'[r].response
  <2>1. /\ Answered(r) /\ Settles(Msg(r)) /\ Msg(r) \in Messages
        /\ computed'[Msg(r)] <= 1 /\ computed'[Msg(r)] >= computed[Msg(r)]
        /\ computed'[Msg(r)] \in Nat
    BY MsgType DEF Outcome, Records, Types
  <2>2. CASE request'[r] = request[r]
    <3>1. /\ computed[Msg(r)] = 1 /\ works[Msg(r)].kind # "computing"
          /\ works[Msg(r)].kind = "terminal" => works[Msg(r)].response = request[r].response
      BY <1>1, <2>2 DEF IInv, Answers
    <3> QED BY <2>1, <2>2, <3>1 DEF Settles
  <2>3. CASE request'[r] # request[r]
    BY <1>1, <2>1, <2>3 DEF Answered
  <2> QED BY <2>2, <2>3
<1>2. Answers'
  BY <1>1 DEF Answers, Msg
<1>3. ASSUME NEW r \in Requests, NEW q \in Requests, Msg(r) = Msg(q),
             request'[r].pc = "committed", request'[q].pc = "committed",
             request'[r] = request[r]
      PROVE  request'[r].response = request'[q].response
  <2>1. CASE request'[q] = request[q]
    BY <1>3, <2>1 DEF IInv, OneAnswer
  <2>2. CASE request'[q] # request[q]
    <3>1. /\ works'[Msg(q)].kind = "terminal"
          /\ works'[Msg(q)].response = request'[q].response
      BY <1>3, <2>2 DEF Outcome, Answered
    <3> QED BY <1>1, <1>3, <3>1
  <2> QED BY <2>1, <2>2
<1>4. ASSUME NEW r \in Requests, NEW q \in Requests, Msg(r) = Msg(q),
             request'[r].pc = "committed", request'[q].pc = "committed",
             request'[r] # request[r]
      PROVE  request'[r].response = request'[q].response
  <2>1. /\ works'[Msg(r)].kind = "terminal"
        /\ works'[Msg(r)].response = request'[r].response
    BY <1>4 DEF Outcome, Answered
  <2> QED BY <1>1, <1>4, <2>1
<1>5. OneAnswer'
  BY <1>3, <1>4 DEF OneAnswer, Msg
<1> QED BY <1>2, <1>5

LEMMA Step == IInv /\ [Next]_vars => IInv'
<1> SUFFICES ASSUME IInv, [Next]_vars PROVE IInv'
  OBVIOUS
<1>1. CASE Next
  BY <1>1, EveryOutcome, OutcomeAgrees DEF IInv, Outcome
<1>2. CASE UNCHANGED vars
  BY <1>2 DEF vars, stored, IInv, Types, Clocks, Records, TooLate, Answers, OneAnswer, Msg
<1> QED BY <1>1, <1>2

LEMMA Invariance == Spec => []IInv
BY Start, Step, PTL DEF Spec

\* Every committed answer to an interaction is the same, whichever of its requests
\* computed it, polled for it, timed out or met another activation (respondDiscord).
THEOREM AnswersAgree == Spec => []OneAnswer
<1>1. IInv => OneAnswer
  BY DEF IInv
<1> QED BY <1>1, Invariance, PTL

\* An interaction is computed once, also when its record is interrupted, reclaimed or
\* deleted while repetitions of it are on their way (admit).
THEOREM NeverComputedAgain == Spec => []ComputedOnce
<1>1. IInv => ComputedOnce
  BY DEF IInv, Records, ComputedOnce
<1> QED BY <1>1, Invariance, PTL

-----------------------------------------------------------------------------
(***************************************************************************)
(* The whole type invariant: the alarm is a time, and a record has a claim *)
(* exactly while its computation is pending.                               *)
(***************************************************************************)
ClaimOK(w) == (w.claim # NoClaim) = (w.kind = "computing")
Shaped == alarm \in Nat /\ \A m \in Messages : ClaimOK(works[m])

LEMMA LeastOfNats == ASSUME NEW S \in SUBSET Nat, S # {} PROVE \E m \in S : \A n \in S : m <= n
<1> DEFINE T == {0..m : m \in S}
<1>1. T \in SUBSET FiniteSubsetsOf(Nat) /\ T # {}
  <2>1. ASSUME NEW m \in S PROVE 0..m \in FiniteSubsetsOf(Nat)
    <3>1. m \in Int /\ 0 \in Int /\ 0..m \subseteq Nat
      OBVIOUS
    <3>2. IsFiniteSet(0..m)
      BY <3>1, FS_Interval
    <3>3. QED
      BY <3>1, <3>2 DEF FiniteSubsetsOf
  <2>2. QED
    BY <2>1
<1>2. PICK x \in T : \A y \in T : ~(<<y, x>> \in StrictSubsetOrdering(Nat))
  <2> HIDE DEF T
  <2>1. QED
    BY <1>1, FS_StrictSubsetOrderingWellFounded, WFMin
<1>3. PICK m \in S : x = 0..m
  OBVIOUS
<1>4. ASSUME NEW n \in S, n < m PROVE FALSE
  <2> DEFINE a == 0..n  b == 0..m
  <2>1. m \in Nat /\ n \in Nat
    OBVIOUS
  <2>2. a \in SUBSET Nat /\ b \in SUBSET Nat /\ a \subseteq b /\ m \in b /\ m \notin a
    BY <1>4, <2>1
  <2>3. a \in T /\ b = x
    BY <1>3
  <2> HIDE DEF a, b
  <2>4. <<a, b>> \in StrictSubsetOrdering(Nat)
    BY <2>2 DEF StrictSubsetOrdering
  <2>5. QED
    BY <1>2, <2>3, <2>4
<1>5. QED
  BY <1>4

LEMMA AlarmTyped ==
  ASSUME NEW ws \in [Messages -> Works], Held(ws) # {}
  PROVE  NextAlarm(ws) \in Nat
<1> DEFINE times == {RetainUntil(ws[m]) : m \in Held(ws)}
<1>1. \A m \in Messages : RetainUntil(ws[m]) \in Nat
  BY Policy DEF RetainUntil, Works
<1>2. times \in SUBSET Nat /\ times # {}
  BY <1>1 DEF Held
<1> HIDE DEF times
<1>3. Min(times) \in Nat
  BY <1>2, LeastOfNats DEF Min
<1> QED BY <1>3 DEF NextAlarm, times

LEMMA CommitShaped ==
  ASSUME Types, Shaped, NEW ws \in [Messages -> Works], NEW gen,
         \A m \in Messages : ClaimOK(ws[m]), Commit(ws, gen)
  PROVE  Shaped'
<1>1. CASE Held(ws) = {}
  <2>1. works' = works /\ alarm' = now + WipeDelay
    BY <1>1 DEF Commit, Update, WipeAlarm
  <2>2. alarm' \in Nat
    BY <2>1, TenantStorageAssumption DEF Types
  <2> QED BY <2>1, <2>2 DEF Shaped
<1>2. CASE Held(ws) # {}
  <2>1. works' = ws /\ alarm' = NextAlarm(ws)
    BY <1>2 DEF Commit, Update
  <2> QED BY <1>2, <2>1, AlarmTyped DEF Shaped
<1> QED BY <1>1, <1>2

LEMMA StopOK == \A w, response : ClaimOK(Stop(w, response)) /\ ClaimOK(NoWork)
BY DEF ClaimOK, Stop, NoWork

\* A transaction of a request that leaves the records, or ends one.
LEMMA SameShaped ==
  ASSUME Types, Shaped, NEW gen, Commit(works, gen)
  PROVE  Shaped'
BY CommitShaped DEF Types, Shaped

LEMMA StopShaped ==
  ASSUME Types, Shaped, NEW m \in Messages, NEW response \in Responses,
         Commit([works EXCEPT ![m] = Stop(works[m], response)], generation)
  PROVE  Shaped'
<1> DEFINE ws == [works EXCEPT ![m] = Stop(works[m], response)]
<1>1. Stop(works[m], response) \in Works
  BY StopTypes DEF Types
<1>2. ws \in [Messages -> Works] /\ \A n \in Messages : ClaimOK(ws[n])
  BY <1>1, StopOK DEF Types, Shaped
<1> HIDE DEF ws
<1>3. Commit(ws, generation)
  BY DEF ws
<1> QED BY <1>2, <1>3, CommitShaped

LEMMA AdmitShaped ==
  ASSUME Types, Clocks, Records, Shaped, NEW r \in Requests, Admit(r)
  PROVE  Shaped'
<1> DEFINE t == request[r].at
           m == Msg(r)
           ws == Settled(t)
           claim == [generation |-> generation + 1, activation |-> activation,
                     until |-> Min({request[r].received + Compute, t + Compute})]
           fresh == [NoWork EXCEPT !.kind = "computing", !.received = request[r].received,
                                   !.claim = claim]
           new == [ws EXCEPT ![m] = fresh]
<1>1. /\ t \in Nat /\ t <= now /\ request[r].received \in Nat /\ m \in Messages
      /\ generation \in Nat /\ activation \in Nat
  BY MsgType DEF Types, Clocks, RequestRecords
<1>2. ws \in [Messages -> Works]
  BY <1>1, SettledRecords
<1>3. \A n \in Messages : ClaimOK(ws[n])
  BY StopOK DEF Settled, Shaped
<1>4. fresh \in Works /\ ClaimOK(fresh)
  <2>1. claim \in Claims /\ claim.generation = generation + 1
    <3>1. Min({request[r].received + Compute, t + Compute}) \in Nat
      BY <1>1, MinTwo, Policy
    <3> QED BY <1>1, <3>1 DEF Claims
  <2>2. claim # NoClaim
    BY <1>1, <2>1 DEF NoClaim
  <2> HIDE DEF claim
  <2> QED BY <1>1, <2>1, <2>2, RecordTypes DEF Works, ClaimOK
<1> HIDE DEF ws, fresh
<1>5. new \in [Messages -> Works] /\ \A n \in Messages : ClaimOK(new[n])
  BY <1>1, <1>2, <1>3, <1>4
<1> HIDE DEF new
<1>6. \/ Commit(ws, generation) \/ Commit(ws, generation + 1)
      \/ Commit(new, generation + 1)
  BY DEF Admit, ws, fresh, new
<1> QED BY <1>2, <1>3, <1>5, <1>6, CommitShaped

LEMMA NextShaped ==
  ASSUME IInv, Shaped, [Next]_vars
  PROVE  Shaped'
<1>1. Types /\ Clocks /\ Records
  BY DEF IInv
<1>2. ASSUME UNCHANGED <<works, alarm>>
      PROVE  Shaped'
  BY <1>2 DEF Shaped
<1>3. ASSUME NEW r \in Requests, Receive(r) \/ Arrive(r) \/ EndCompute(r) \/ Poll(r) \/ Wake(r)
      PROVE  Shaped'
  BY <1>2, <1>3 DEF Receive, Arrive, EndCompute, Poll, Wake, stored
<1>4. ASSUME NEW r \in Requests, CommitReply(r)
      PROVE  Shaped'
  <2>1. \/ Commit(works, generation)
        \/ \E response \in Responses :
             Commit([works EXCEPT ![Msg(r)] = Stop(works[Msg(r)], response)], generation)
    BY <1>4 DEF CommitReply, Work, Responses
  <2> QED BY <1>1, <2>1, SameShaped, StopShaped, MsgType
<1>5. ASSUME NEW r \in Requests, SettleStale(r)
      PROVE  Shaped'
  <2>1. \/ Commit(works, generation)
        \/ \E response \in Responses :
             Commit([works EXCEPT ![Msg(r)] = Stop(works[Msg(r)], response)], generation)
    BY <1>5 DEF SettleStale, Work, Responses
  <2> QED BY <1>1, <2>1, SameShaped, StopShaped, MsgType
<1>6. CASE Reclaim
  <2> DEFINE ws == [m \in Messages |->
                      IF RetainUntil(works[m]) <= now THEN NoWork ELSE works[m]]
  <2>1. ws \in [Messages -> Works] /\ \A m \in Messages : ClaimOK(ws[m])
    BY <1>1, RecordTypes, StopOK DEF Types, Shaped
  <2>2. Commit(ws, generation)
    BY <1>6 DEF Reclaim
  <2> HIDE DEF ws
  <2> QED BY <1>1, <2>1, <2>2, CommitShaped
<1>7. CASE Wipe
  BY <1>7, StopOK, TenantStorageAssumption DEF Wipe, DeleteAll, Shaped
<1>8. CASE Crash \/ Tick \/ UNCHANGED vars
  BY <1>2, <1>8 DEF Crash, LoseStorageCall, Tick, stored, vars
<1> QED BY <1>1, <1>3, <1>4, <1>5, <1>6, <1>7, <1>8, AdmitShaped DEF Next, Respond

\* The record, the requests and the alarm keep their types, and a claim is stored exactly
\* while a computation is pending.
THEOREM ReplyTypes == Spec => []TypeOK
<1>1. Init => Shaped
  BY StopOK, TenantStorageAssumption DEF Init, Shaped
<1>2. IInv /\ Shaped /\ [Next]_vars => Shaped'
  BY NextShaped
<1>3. IInv /\ Shaped => TypeOK
  BY DEF IInv, Types, Shaped, ClaimOK, TypeOK
<1> QED BY <1>1, <1>2, <1>3, Invariance, PTL DEF Spec
=============================================================================
