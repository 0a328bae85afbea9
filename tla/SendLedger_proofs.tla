------------------------- MODULE SendLedger_proofs -------------------------
(***************************************************************************)
(* Proofs about the send ledger, for any attempts, channels, calls, prints,*)
(* policy, number of instances and length of a run.                        *)
(*                                                                         *)
(* AtMostOnce is not inductive: what keeps the second POST of an attempt   *)
(* back is the row, and only until the attempt's deadline; after it, what  *)
(* keeps it back is the clock.  The invariant therefore speaks of the      *)
(* calls that have POSTed or still may, says that there is one per attempt,*)
(* and that the row stands for that call while the deadline lasts.         *)
(*                                                                         *)
(* The last part shows that the ledger implements Outbox for as long as no *)
(* revisions overlap and no call outlasts the retention of its row.        *)
(***************************************************************************)
EXTENDS SendLedger, FiniteSetTheorems, WellFoundedInduction, TLAPS

\* The type invariant without its conjunct on the reservations, on which nothing
\* but the rate limit depends.
LedgerTypeOK ==
  /\ now \in Nat /\ instance \in Nat /\ session \in Nat /\ minted \in Nat
  /\ eligible \in [Channels -> BOOLEAN]
  /\ attempts \in [Attempts -> Rows]
  /\ blockedUntil \in Nat
  /\ call \in [Calls -> CallRecords]
  /\ wire \in SUBSET Calls
  /\ posted \in [Attempts -> SUBSET Calls]

\* A call whose POST was accepted, is on its way, or is about to leave.
Candidate(c) ==
  \/ call[c].pc = "send" /\ now < Due(c)
  \/ c \in wire
  \/ c \in posted[Att(c)]

ClocksPast == \A c \in Calls : call[c].at <= now

PostedHome == \A a \in Attempts : \A c \in posted[a] : Att(c) = a

OneCandidate ==
  \A c, d \in Calls : Candidate(c) /\ Candidate(d) /\ Att(c) = Att(d) => c = d

\* While the deadline lasts, the row stands for the candidate.
StandsFor(row, c) ==
  /\ row.kind \in {"sending", "terminal"}
  /\ row.print = call[c].print
  /\ row.kind = "sending" => row.owner = c

RowStands == \A c \in Calls : Candidate(c) /\ now < Due(c) => StandsFor(Row(c), c)

\* Has the call's POST neither left nor been accepted?
Unsent(c) == c \notin wire /\ c \notin posted[Att(c)]

BeforePost == {"idle", "read", "usable", "refuse", "token", "gate", "claim", "send"}

\* Where a call's POST is, seen from the call.
PostPlace ==
  \A c \in Calls :
    /\ call[c].pc \in BeforePost => Unsent(c)
    /\ call[c].pc = "complete" /\ call[c].reply \in Repeatable => Unsent(c)
    /\ c \in wire => c \notin posted[Att(c)]

LedgerInv ==
  /\ LedgerTypeOK /\ ClocksPast /\ PostedHome
  /\ OneCandidate /\ RowStands /\ PostPlace
-----------------------------------------------------------------------------
(***************************************************************************)
(* Rows and call records.                                                  *)
(***************************************************************************)
LEMMA RowKinds ==
  ASSUME NEW p \in Prints \cup {NoPrint}, NEW v \in Verdicts, NEW c \in Calls, NEW i \in Nat
  PROVE  /\ NoRow \in Rows /\ NoRow.kind = "none"
         /\ Waiting(p) \in Rows /\ Waiting(p).kind = "waiting"
         /\ Terminal(p, v) \in Rows /\ Terminal(p, v).kind = "terminal"
         /\ Terminal(p, v).print = p
         /\ Sending(p, c, i) \in Rows /\ Sending(p, c, i).kind = "sending"
         /\ Sending(p, c, i).print = p /\ Sending(p, c, i).owner = c
<1>1. NoRow \in Rows /\ NoRow.kind = "none"
  BY DEF NoRow, Rows, Kinds, Verdicts
<1>2. Waiting(p) \in Rows /\ Waiting(p).kind = "waiting"
  BY <1>1 DEF Waiting, NoRow, Rows, Kinds, Verdicts
<1>3. /\ Terminal(p, v) \in Rows /\ Terminal(p, v).kind = "terminal"
      /\ Terminal(p, v).print = p
  BY <1>1 DEF Terminal, NoRow, Rows, Kinds, Verdicts
<1>4. /\ Sending(p, c, i) \in Rows /\ Sending(p, c, i).kind = "sending"
      /\ Sending(p, c, i).print = p /\ Sending(p, c, i).owner = c
  BY <1>1 DEF Sending, NoRow, Rows, Kinds, Verdicts
<1>5. QED
  BY <1>1, <1>2, <1>3, <1>4

\* The print of a row goes into the row that takes its place.
LEMMA DisplacedPrint ==
  ASSUME NEW row \in Rows, NEW v \in Verdicts
  PROVE  /\ Terminal(row.print, v) \in Rows
         /\ Terminal(row.print, v).kind = "terminal"
         /\ Terminal(row.print, v).print = row.print
  BY DEF Terminal, NoRow, Rows, Kinds, Verdicts

\* A step of call c changes only the record of c, and not what it was called with.
StepsCall(c) ==
  /\ call' = [call EXCEPT ![c] = call'[c]]
  /\ call'[c] \in CallRecords
  /\ call'[c].attempt = call[c].attempt
  /\ call'[c].print = call[c].print

LEMMA GotoSteps ==
  ASSUME call \in [Calls -> CallRecords], NEW c \in Calls, NEW pc \in Phases, Goto(c, pc)
  PROVE  /\ StepsCall(c) /\ call'[c].pc = pc
         /\ call'[c].at = call[c].at /\ call'[c].reply = call[c].reply
         /\ call'[c].instance = call[c].instance
  BY DEF Goto, StepsCall, CallRecords

LEMMA AnswerSteps ==
  ASSUME call \in [Calls -> CallRecords], NEW c \in Calls, NEW o \in Outcomes, Answer(c, o)
  PROVE  /\ StepsCall(c) /\ call'[c].pc = "done" /\ call'[c].at = call[c].at
         /\ call'[c].answer = o /\ call'[c].instance = call[c].instance
  BY DEF Answer, StepsCall, CallRecords, Phases

LEMMA ReceiveSteps ==
  ASSUME call \in [Calls -> CallRecords], now \in Nat,
         NEW c \in Calls, NEW r \in Replies, NEW until \in Nat, Receive(c, r, until)
  PROVE  /\ StepsCall(c) /\ call'[c].pc = "complete"
         /\ call'[c].at = now /\ call'[c].reply = r
         /\ call'[c].instance = call[c].instance
  BY DEF Receive, StepsCall, CallRecords, Phases

LEMMA ResetTimesType == ASSUME now \in Nat PROVE ResetTimes \subseteq Nat
  BY SendLedgerAssumption DEF ResetTimes, SendLedgerAssumption

LEMMA MaxOfTwo == ASSUME NEW m \in Nat, NEW n \in Nat PROVE Max({m, n}) \in Nat
<1>1. \E x \in {m, n} : \A y \in {m, n} : x >= y
  <2>1. CASE m >= n  BY <2>1
  <2>2. CASE n >= m  BY <2>2
  <2>3. QED  BY <2>1, <2>2
<1>2. Max({m, n}) \in {m, n}
  BY <1>1 DEF Max
<1>3. QED
  BY <1>2

\* Reclaiming never takes a row whose deadline has not passed.
LEMMA ReclaimKeeps ==
  ASSUME LedgerTypeOK, NEW t \in Nat, t <= now, NEW a \in Attempts
  PROVE  /\ ReclaimedRows(t) \in [Attempts -> Rows]
         /\ now < Deadline[a] => ReclaimedRows(t)[a] = attempts[a]
         /\ \/ ReclaimedRows(t)[a] = attempts[a]
            \/ ReclaimedRows(t)[a] = NoRow /\ RetainUntil(a) <= now
<1>1. NoRow \in Rows
  BY DEF NoRow, Rows, Kinds, Verdicts
<1>2. ReclaimedRows(t) \in [Attempts -> Rows]
  BY <1>1 DEF ReclaimedRows, LedgerTypeOK
<1>3. Deadline[a] \in Nat /\ Retention \in Nat
  BY SendLedgerAssumption DEF SendLedgerAssumption
<1>4. now < Deadline[a] => ~(RetainUntil(a) <= t)
  BY <1>3 DEF RetainUntil, LedgerTypeOK
<1>5. RetainUntil(a) <= t => RetainUntil(a) <= now
  BY <1>3 DEF RetainUntil, LedgerTypeOK
<1>6. QED
  BY <1>2, <1>4, <1>5 DEF ReclaimedRows

-----------------------------------------------------------------------------
(***************************************************************************)
(* Steps of a call that neither send a POST nor learn of one: the rows of  *)
(* the attempts that have a candidate must go on standing for it.          *)
(***************************************************************************)
RowsStandOn ==
  \A d \in Calls : Candidate(d) /\ now < Due(d) => StandsFor(attempts'[Att(d)], d)

LEMMA CallType ==
  ASSUME LedgerTypeOK, NEW c \in Calls
  PROVE  /\ call[c] \in CallRecords /\ Att(c) \in Attempts /\ Due(c) \in Nat
         /\ call[c].at \in Nat /\ Row(c) \in Rows
<1>1. call[c] \in CallRecords /\ Att(c) \in Attempts /\ call[c].at \in Nat
  BY DEF LedgerTypeOK, CallRecords, Att
<1>2. QED
  BY <1>1, SendLedgerAssumption DEF SendLedgerAssumption, Due, Row, LedgerTypeOK

\* The fields of the other calls, and what c was called with, stay.
LEMMA OthersStay ==
  ASSUME LedgerTypeOK, NEW c \in Calls, StepsCall(c)
  PROVE  /\ call' \in [Calls -> CallRecords]
         /\ \A d \in Calls : Att(d)' = Att(d) /\ Due(d)' = Due(d) /\ call'[d].print = call[d].print
         /\ \A d \in Calls \ {c} : call'[d] = call[d]
<1>1. call' \in [Calls -> CallRecords] /\ \A d \in Calls \ {c} : call'[d] = call[d]
  BY Zenon DEF LedgerTypeOK, StepsCall
<1>2. \A d \in Calls : call'[d].attempt = call[d].attempt /\ call'[d].print = call[d].print
  BY <1>1 DEF StepsCall
<1>3. QED
  BY <1>1, <1>2 DEF Att, Due

LEMMA QuietStep ==
  ASSUME LedgerInv, LedgerTypeOK', NEW c \in Calls, StepsCall(c),
         UNCHANGED <<now, wire, posted>>,
         call'[c].at <= now,
         \/ call'[c].pc = "done"
         \/ call[c].pc \in BeforePost /\ call'[c].pc \in BeforePost \ {"send"},
         RowsStandOn
  PROVE  LedgerInv'
<1>1. /\ \A d \in Calls : Att(d)' = Att(d) /\ Due(d)' = Due(d) /\ call'[d].print = call[d].print
      /\ \A d \in Calls \ {c} : call'[d] = call[d]
  BY OthersStay DEF LedgerInv
<1>2. \A d \in Calls : Candidate(d)' => Candidate(d)
  BY <1>1 DEF Candidate, BeforePost
<1>3. ClocksPast'
  BY <1>1 DEF ClocksPast, LedgerInv
<1>4. PostedHome'
  <2>1. \A a \in Attempts : posted[a] \subseteq Calls
    BY DEF LedgerInv, LedgerTypeOK
  <2>2. QED
    BY <1>1, <2>1 DEF PostedHome, LedgerInv
<1>5. OneCandidate'
  BY <1>1, <1>2 DEF OneCandidate, LedgerInv
<1>6. RowStands'
  BY <1>1, <1>2 DEF RowStands, RowsStandOn, StandsFor, Row
<1>7. PostPlace'
  BY <1>1 DEF PostPlace, LedgerInv, Unsent, BeforePost
<1>8. QED
  BY <1>3, <1>4, <1>5, <1>6, <1>7 DEF LedgerInv

LEMMA QuietTypes ==
  ASSUME LedgerTypeOK, NEW c \in Calls, StepsCall(c),
         UNCHANGED <<now, instance, eligible, wire, posted>>,
         session' \in Nat, minted' \in Nat, blockedUntil' \in Nat,
         attempts' \in [Attempts -> Rows]
  PROVE  LedgerTypeOK'
<1>1. call' \in [Calls -> CallRecords]
  BY OthersStay
<1>2. QED
  BY <1>1 DEF LedgerTypeOK

LEMMA RowsUnchanged ==
  ASSUME LedgerInv, attempts' = attempts
  PROVE  RowsStandOn /\ attempts' \in [Attempts -> Rows]
  BY DEF LedgerInv, LedgerTypeOK, RowStands, RowsStandOn, Row

LEMMA StartKeeps ==
  ASSUME LedgerInv, NEW c \in Calls, Start(c)
  PROVE  LedgerInv'
<1>1. StepsCall(c) /\ call'[c].pc = "read" /\ call'[c].at = now
  BY DEF Start, StepsCall, LedgerInv, LedgerTypeOK, CallRecords, Phases
<1>2. UNCHANGED <<now, instance, eligible, session, minted, attempts, blockedUntil, wire, posted>>
  BY DEF Start, envVars, sendVars, twitchVars
<1>3. LedgerTypeOK'
  BY <1>1, <1>2, QuietTypes DEF LedgerInv, LedgerTypeOK
<1>4. call[c].pc \in BeforePost
  BY DEF Start, BeforePost
<1>5. QED
  BY <1>1, <1>2, <1>3, <1>4, RowsUnchanged, QuietStep DEF BeforePost, LedgerInv, LedgerTypeOK

\* What the first transaction and the claim answer from the ledger.
LEMMA RecordedTypes ==
  ASSUME LedgerTypeOK, NEW c \in Calls, NEW row \in Rows
  PROVE  Recorded(row, c) \subseteq Outcomes
  BY DEF Recorded, Rows, Verdicts, Outcomes

LEMMA ReadLedgerKeeps ==
  ASSUME LedgerInv, NEW c \in Calls, ReadLedger(c)
  PROVE  LedgerInv'
<1> DEFINE t == call[c].at
           rows == ReclaimedRows(t)
           row == rows[Att(c)]
<1>1. /\ LedgerTypeOK /\ call \in [Calls -> CallRecords] /\ t \in Nat /\ t <= now
      /\ Att(c) \in Attempts /\ call[c].pc = "read"
  BY CallType DEF LedgerInv, LedgerTypeOK, ClocksPast, ReadLedger
<1>2. rows \in [Attempts -> Rows] /\ row \in Rows
  BY <1>1, ReclaimKeeps
<1>3. /\ StepsCall(c) /\ call'[c].at = t
      /\ call'[c].pc = "done" \/ call'[c].pc = "usable"
  <2>1. ASSUME NEW o \in Outcomes, Answer(c, o)
        PROVE  StepsCall(c) /\ call'[c].at = t /\ call'[c].pc = "done"
    BY <1>1, <2>1, AnswerSteps
  <2>2. ASSUME Goto(c, "usable")
        PROVE  StepsCall(c) /\ call'[c].at = t /\ call'[c].pc = "usable"
    BY <1>1, <2>2, GotoSteps DEF Phases
  <2>3. Recorded(row, c) \subseteq Outcomes
    BY <1>1, <1>2, RecordedTypes
  <2>4. \/ \E o \in Outcomes : Answer(c, o)
        \/ Goto(c, "usable")
    BY <2>3 DEF ReadLedger, Outcomes
  <2>5. QED
    BY <2>1, <2>2, <2>4
<1>4. \/ attempts' = rows
      \/ /\ row.kind = "sending" /\ row.print = call[c].print
         /\ attempts' = [rows EXCEPT ![Att(c)] = Terminal(row.print, "ambiguous")]
  BY DEF ReadLedger
<1>5. /\ Terminal(row.print, "ambiguous") \in Rows
      /\ Terminal(row.print, "ambiguous").kind = "terminal"
      /\ Terminal(row.print, "ambiguous").print = row.print
  BY <1>2, DisplacedPrint DEF Verdicts
<1>6. attempts' \in [Attempts -> Rows]
  BY <1>2, <1>4, <1>5
<1>7. RowsStandOn
  <2>1. SUFFICES ASSUME NEW d \in Calls, Candidate(d), now < Due(d)
                 PROVE  StandsFor(attempts'[Att(d)], d)
    BY DEF RowsStandOn
  <2>2. rows[Att(d)] = Row(d) /\ StandsFor(Row(d), d)
    BY <1>1, <2>1, ReclaimKeeps, CallType DEF RowStands, LedgerInv, Row, Due
  <2>3. CASE attempts'[Att(d)] = rows[Att(d)]
    BY <2>2, <2>3
  <2>4. CASE Att(d) = Att(c) /\ attempts' = [rows EXCEPT ![Att(c)] = Terminal(row.print, "ambiguous")]
    <3>1. attempts'[Att(d)] = Terminal(row.print, "ambiguous")
      BY <1>1, <1>2, <2>4
    <3>2. QED
      BY <1>5, <2>2, <2>4, <3>1 DEF StandsFor
  <2>5. QED
    BY <1>1, <1>2, <1>4, <2>3, <2>4, CallType
<1>8. /\ UNCHANGED <<now, instance, eligible, session, minted, blockedUntil, wire, posted>>
  BY DEF ReadLedger, envVars, twitchVars
<1>9. LedgerTypeOK'
  BY <1>1, <1>3, <1>6, <1>8, QuietTypes DEF LedgerTypeOK
<1>10. QED
  BY <1>1, <1>3, <1>7, <1>8, <1>9, QuietStep DEF BeforePost

LEMMA CheckUsableKeeps ==
  ASSUME LedgerInv, NEW c \in Calls, CheckUsable(c)
  PROVE  LedgerInv'
<1>1. call \in [Calls -> CallRecords] /\ call[c].at <= now /\ call[c].pc = "usable"
  BY DEF LedgerInv, LedgerTypeOK, ClocksPast, CheckUsable
<1>2. PICK pc \in {"token", "refuse"} : Goto(c, pc)
  BY DEF CheckUsable
<1>3. StepsCall(c) /\ call'[c].pc = pc /\ call'[c].at <= now
  BY <1>1, <1>2, GotoSteps DEF Phases
<1>4. UNCHANGED <<now, instance, eligible, session, minted, attempts, blockedUntil, wire, posted>>
  BY DEF CheckUsable, envVars, sendVars, twitchVars
<1>5. LedgerTypeOK'
  BY <1>3, <1>4, QuietTypes DEF LedgerInv, LedgerTypeOK
<1>6. QED
  BY <1>1, <1>3, <1>4, <1>5, RowsUnchanged, QuietStep DEF BeforePost

LEMMA RefuseKeeps ==
  ASSUME LedgerInv, NEW c \in Calls, Refuse(c)
  PROVE  LedgerInv'
<1> DEFINE new == Terminal(call[c].print, "rejected")
<1>1. /\ LedgerTypeOK /\ call \in [Calls -> CallRecords] /\ call[c].at <= now
      /\ call[c] \in CallRecords /\ Att(c) \in Attempts /\ Row(c) \in Rows
  BY CallType DEF LedgerInv, LedgerTypeOK, ClocksPast
<1>2. PICK o \in Outcomes : Answer(c, o)
  BY <1>1 DEF Refuse, Rows, Verdicts, Outcomes
<1>3. StepsCall(c) /\ call'[c].pc = "done" /\ call'[c].at <= now
  BY <1>1, <1>2, AnswerSteps
<1>4. UNCHANGED <<now, instance, eligible, session, minted, blockedUntil, wire, posted>>
  BY DEF Refuse, envVars, sendVars, twitchVars
<1>5. new \in Rows
  BY <1>1, RowKinds DEF CallRecords, Verdicts
<1>6. \/ attempts' = attempts
      \/ /\ Row(c).kind \in {"none", "waiting"}
         /\ attempts' = [attempts EXCEPT ![Att(c)] = new]
  BY DEF Refuse
<1>7. attempts' \in [Attempts -> Rows]
  BY <1>1, <1>5, <1>6 DEF LedgerTypeOK
<1>8. RowsStandOn
  <2>1. SUFFICES ASSUME NEW d \in Calls, Candidate(d), now < Due(d)
                 PROVE  StandsFor(attempts'[Att(d)], d)
    BY DEF RowsStandOn
  <2>2. StandsFor(Row(d), d)
    BY <2>1 DEF RowStands, LedgerInv
  <2>3. Row(c).kind \in {"none", "waiting"} => Att(d) # Att(c)
    BY <2>2 DEF StandsFor, Row
  <2>4. attempts'[Att(d)] = attempts[Att(d)]
    BY <1>1, <1>6, <2>3, CallType DEF LedgerTypeOK
  <2>5. QED
    BY <2>2, <2>4 DEF Row
<1>9. LedgerTypeOK'
  BY <1>1, <1>3, <1>4, <1>7, QuietTypes DEF LedgerTypeOK
<1>10. QED
  BY <1>3, <1>4, <1>8, <1>9, QuietStep

LEMMA TakeTokenKeeps ==
  ASSUME LedgerInv, NEW c \in Calls, TakeToken(c)
  PROVE  LedgerInv'
<1>1. /\ LedgerTypeOK /\ call \in [Calls -> CallRecords] /\ call[c].at <= now
      /\ call[c].pc = "token" /\ session \in Nat /\ minted \in Nat
  BY DEF LedgerInv, LedgerTypeOK, ClocksPast, TakeToken
<1>2. UNCHANGED <<now, instance, eligible, attempts, blockedUntil, wire, posted>>
  BY DEF TakeToken, sendVars, twitchVars
<1>3. session' \in Nat /\ minted' \in Nat
  BY <1>1 DEF TakeToken
<1>4. /\ StepsCall(c) /\ call'[c].at <= now
      /\ call'[c].pc = "done" \/ call'[c].pc = "gate"
  <2>1. ASSUME NEW o \in Outcomes, Answer(c, o)
        PROVE  StepsCall(c) /\ call'[c].at <= now /\ call'[c].pc = "done"
    BY <1>1, <2>1, AnswerSteps
  <2>2. ASSUME NEW n \in Nat, call' = [call EXCEPT ![c].pc = "gate", ![c].token = n]
        PROVE  StepsCall(c) /\ call'[c].at <= now /\ call'[c].pc = "gate"
    BY <1>1, <2>2 DEF StepsCall, CallRecords, Phases
  <2>3. \/ \E o \in Outcomes : Answer(c, o)
        \/ \E n \in Nat : call' = [call EXCEPT ![c].pc = "gate", ![c].token = n]
    BY <1>1 DEF TakeToken, RetryOrExpire, Outcomes
  <2>4. QED
    BY <2>1, <2>2, <2>3
<1>5. LedgerTypeOK'
  BY <1>1, <1>2, <1>3, <1>4, QuietTypes DEF LedgerTypeOK
<1>6. QED
  BY <1>1, <1>2, <1>4, <1>5, RowsUnchanged, QuietStep DEF BeforePost

LEMMA EnterGateKeeps ==
  ASSUME LedgerInv, NEW c \in Calls, EnterGate(c)
  PROVE  LedgerInv'
<1>1. StepsCall(c) /\ call'[c].pc = "claim" /\ call'[c].at = now
  BY DEF EnterGate, Reading, StepsCall, LedgerInv, LedgerTypeOK, CallRecords, Phases
<1>2. UNCHANGED <<now, instance, eligible, session, minted, attempts, blockedUntil, wire, posted>>
  BY DEF EnterGate, envVars, sendVars, twitchVars
<1>3. LedgerTypeOK'
  BY <1>1, <1>2, QuietTypes DEF LedgerInv, LedgerTypeOK
<1>4. call[c].pc \in BeforePost
  BY DEF EnterGate, BeforePost
<1>5. QED
  BY <1>1, <1>2, <1>3, <1>4, RowsUnchanged, QuietStep DEF BeforePost, LedgerInv, LedgerTypeOK

\* While nothing is recorded for the claiming call, its attempt has no candidate
\* whose deadline still lasts.
LEMMA NoCandidateYet ==
  ASSUME LedgerInv, NEW c \in Calls, NEW d \in Calls, Candidate(d), now < Due(d),
         Recorded(ReclaimedRows(call[c].at)[Att(c)], c) = {}
  PROVE  Att(d) # Att(c)
<1>1. /\ LedgerTypeOK /\ call[c].at \in Nat /\ call[c].at <= now
      /\ Att(c) \in Attempts /\ Att(d) \in Attempts
  BY CallType DEF LedgerInv, ClocksPast
<1>2. ReclaimedRows(call[c].at)[Att(d)] = Row(d)
  BY <1>1, ReclaimKeeps DEF Row, Due
<1>3. Row(d).kind \in {"sending", "terminal"}
  BY DEF LedgerInv, RowStands, StandsFor
<1>4. SUFFICES ASSUME Att(d) = Att(c) PROVE FALSE
  OBVIOUS
<1>5. Recorded(Row(d), c) = {}
  BY <1>2, <1>4
<1>6. QED
  BY <1>3, <1>5 DEF Recorded

LEMMA ClaimKeeps ==
  ASSUME LedgerInv, NEW c \in Calls, Claim(c)
  PROVE  LedgerInv'
<1> DEFINE t == call[c].at
           rows == ReclaimedRows(t)
           row == rows[Att(c)]
           p == call[c].print
           Settled == {Terminal(p, "rejected"), Terminal(p, "expired"), Waiting(p)}
           mine == Sending(p, c, call[c].instance)
<1>1. /\ LedgerTypeOK /\ call \in [Calls -> CallRecords] /\ t \in Nat /\ t <= now
      /\ Att(c) \in Attempts /\ call[c].pc = "claim"
      /\ p \in Prints /\ call[c].instance \in Nat
  BY CallType DEF LedgerInv, LedgerTypeOK, ClocksPast, Claim, CallRecords
<1>2. rows \in [Attempts -> Rows] /\ row \in Rows
  BY <1>1, ReclaimKeeps
<1>3. Settled \subseteq Rows /\ mine \in Rows
  BY <1>1, RowKinds DEF Verdicts
<1>4. UNCHANGED <<now, instance, eligible, session, minted, blockedUntil, wire, posted>>
  BY DEF Claim, envVars, twitchVars
<1>5. \A d \in Calls : Candidate(d) /\ now < Due(d) =>
        rows[Att(d)] = Row(d) /\ StandsFor(Row(d), d)
  BY <1>1, ReclaimKeeps, CallType DEF RowStands, LedgerInv, Row, Due
<1>6. \/ /\ \E o \in Outcomes : Answer(c, o)
         /\ \/ attempts' = rows
            \/ /\ Recorded(row, c) = {}
               /\ \E new \in Settled : attempts' = [rows EXCEPT ![Att(c)] = new]
      \/ /\ Recorded(row, c) = {}
         /\ attempts' = [rows EXCEPT ![Att(c)] = mine]
         /\ Goto(c, "send")
  <2>1. Recorded(row, c) \subseteq Outcomes
    BY <1>1, <1>2, RecordedTypes
  <2>2. QED
    BY <2>1 DEF Claim, RetryOrExpire, Outcomes
<1>7. ASSUME NEW new \in Rows, Recorded(row, c) = {},
             attempts' = [rows EXCEPT ![Att(c)] = new]
      PROVE  RowsStandOn
  <2>1. SUFFICES ASSUME NEW d \in Calls, Candidate(d), now < Due(d)
                 PROVE  StandsFor(attempts'[Att(d)], d)
    BY DEF RowsStandOn
  <2>2. Att(d) # Att(c)
    BY <1>7, <2>1, NoCandidateYet
  <2>3. attempts'[Att(d)] = rows[Att(d)]
    BY <1>1, <1>2, <1>7, <2>2, CallType
  <2>4. QED
    BY <1>5, <2>1, <2>3
<1>8. CASE /\ \E o \in Outcomes : Answer(c, o)
           /\ \/ attempts' = rows
              \/ /\ Recorded(row, c) = {}
                 /\ \E new \in Settled : attempts' = [rows EXCEPT ![Att(c)] = new]
  <2>1. StepsCall(c) /\ call'[c].pc = "done" /\ call'[c].at <= now
    BY <1>1, <1>8, AnswerSteps
  <2>2. attempts' \in [Attempts -> Rows]
    BY <1>1, <1>2, <1>3, <1>8
  <2>3. RowsStandOn
    BY <1>3, <1>5, <1>7, <1>8 DEF RowsStandOn
  <2>4. LedgerTypeOK'
    BY <1>1, <1>4, <2>1, <2>2, QuietTypes DEF LedgerTypeOK
  <2>5. QED
    BY <1>4, <2>1, <2>3, <2>4, QuietStep
<1>9. CASE /\ Recorded(row, c) = {}
           /\ attempts' = [rows EXCEPT ![Att(c)] = mine]
           /\ Goto(c, "send")
  <2>1. StepsCall(c) /\ call'[c].pc = "send" /\ call'[c].at <= now
    BY <1>1, <1>9, GotoSteps DEF Phases
  <2>2. /\ \A d \in Calls : Att(d)' = Att(d) /\ Due(d)' = Due(d) /\ call'[d].print = call[d].print
        /\ \A d \in Calls \ {c} : call'[d] = call[d]
    BY <1>1, <2>1, OthersStay
  <2>3. attempts' \in [Attempts -> Rows] /\ attempts'[Att(c)] = mine
    BY <1>1, <1>2, <1>3, <1>9
  <2>4. LedgerTypeOK'
    BY <1>1, <1>4, <2>1, <2>3, QuietTypes DEF LedgerTypeOK
  <2>5. RowsStandOn
    BY <1>3, <1>7, <1>9
  <2>6. Unsent(c)
    BY <1>1 DEF LedgerInv, PostPlace, BeforePost
  <2>7. \A d \in Calls : Candidate(d)' => IF d = c THEN now < Due(c) ELSE Candidate(d)
    BY <1>4, <2>2, <2>6 DEF Candidate, Unsent
  <2>8. \A d \in Calls : Candidate(d) /\ now < Due(d) => Att(d) # Att(c)
    BY <1>9, NoCandidateYet
  <2>9. ClocksPast'
    BY <1>4, <2>1, <2>2 DEF ClocksPast, LedgerInv
  <2>10. PostedHome'
    <3>1. \A a \in Attempts : posted[a] \subseteq Calls
      BY <1>1 DEF LedgerTypeOK
    <3>2. QED
      BY <1>4, <2>2, <3>1 DEF PostedHome, LedgerInv
  <2>11. OneCandidate'
    <3>1. \A d \in Calls : Att(d) = Att(c) => Due(d) = Due(c)
      BY DEF Due
    <3>2. SUFFICES ASSUME NEW d \in Calls, NEW e \in Calls,
                          Candidate(d)', Candidate(e)', Att(d) = Att(e)
                   PROVE  d = e
      BY <2>2 DEF OneCandidate
    <3>3. CASE d # c /\ e # c
      BY <2>7, <3>2, <3>3 DEF OneCandidate, LedgerInv
    <3>4. CASE d = c
      BY <2>7, <2>8, <3>1, <3>2, <3>4
    <3>5. CASE e = c
      BY <2>7, <2>8, <3>1, <3>2, <3>5
    <3>6. QED
      BY <3>3, <3>4, <3>5
  <2>12. RowStands'
    <3>1. StandsFor(mine, c)
      BY <1>1, RowKinds DEF StandsFor, Verdicts
    <3>2. \A d \in Calls : Candidate(d)' /\ now < Due(d) => StandsFor(attempts'[Att(d)], d)
      BY <2>3, <2>5, <2>7, <3>1 DEF RowsStandOn
    <3>3. QED
      BY <1>4, <2>2, <3>2 DEF RowStands, StandsFor, Row
  <2>13. PostPlace'
    BY <1>4, <2>1, <2>2, <2>6 DEF PostPlace, LedgerInv, Unsent
  <2>14. QED
    BY <2>4, <2>9, <2>10, <2>11, <2>12, <2>13 DEF LedgerInv
<1>10. QED
  BY <1>6, <1>8, <1>9

-----------------------------------------------------------------------------
(***************************************************************************)
(* The POST.                                                               *)
(***************************************************************************)
\* Steps that leave the rows and the clock alone and make no new candidate.
LEMMA PostStep ==
  ASSUME LedgerInv, NEW c \in Calls, StepsCall(c),
         UNCHANGED <<now, instance, eligible, session, minted, attempts, blockedUntil>>,
         call'[c].at <= now, call'[c].pc \notin BeforePost,
         wire' \in SUBSET Calls, posted' \in [Attempts -> SUBSET Calls],
         PostedHome',
         \A d \in Calls \ {c} : d \in wire' <=> d \in wire,
         \A d \in Calls \ {c} : d \in posted'[Att(d)] <=> d \in posted[Att(d)],
         Candidate(c)' => Candidate(c),
         call'[c].pc = "complete" /\ call'[c].reply \in Repeatable => Unsent(c)',
         c \in wire' => c \notin posted'[Att(c)]
  PROVE  LedgerInv'
<1>1. /\ call' \in [Calls -> CallRecords]
      /\ \A d \in Calls : Att(d)' = Att(d) /\ Due(d)' = Due(d) /\ call'[d].print = call[d].print
      /\ \A d \in Calls \ {c} : call'[d] = call[d]
  BY OthersStay DEF LedgerInv
<1>2. LedgerTypeOK'
  BY <1>1 DEF LedgerInv, LedgerTypeOK
<1>3. ClocksPast'
  BY <1>1 DEF LedgerInv, ClocksPast
<1>4. \A d \in Calls : Candidate(d)' => Candidate(d)
  BY <1>1 DEF Candidate
<1>5. OneCandidate'
  BY <1>1, <1>4 DEF OneCandidate, LedgerInv
<1>6. RowStands'
  BY <1>1, <1>4 DEF RowStands, StandsFor, Row, LedgerInv
<1>7. PostPlace'
  BY <1>1 DEF PostPlace, LedgerInv, Unsent
<1>8. QED
  BY <1>2, <1>3, <1>5, <1>6, <1>7 DEF LedgerInv

LEMMA SendKeeps ==
  ASSUME LedgerInv, NEW c \in Calls, Send(c)
  PROVE  LedgerInv'
<1>1. /\ LedgerTypeOK /\ call \in [Calls -> CallRecords] /\ call[c].at <= now /\ now \in Nat
      /\ call[c].pc = "send" /\ Att(c) \in Attempts /\ Due(c) \in Nat /\ wire \in SUBSET Calls
      /\ posted \in [Attempts -> SUBSET Calls]
  BY CallType DEF LedgerInv, LedgerTypeOK, ClocksPast, Send
<1>2. UNCHANGED <<now, instance, eligible, session, minted, attempts, blockedUntil, posted>>
  BY DEF Send, envVars, sendVars
<1>3. Unsent(c)
  BY <1>1 DEF LedgerInv, PostPlace, BeforePost
<1>4. CASE now >= Due(c)
  <2>1. /\ call' = [call EXCEPT ![c].pc = "complete", ![c].at = now,
                                ![c].reply = "expired", ![c].reset = 0]
        /\ wire' = wire
    BY <1>1, <1>4 DEF Send
  <2>2. /\ StepsCall(c) /\ call'[c].pc = "complete" /\ call'[c].at = now
        /\ call'[c].reply = "expired"
    <3> DEFINE new == [call[c] EXCEPT !.pc = "complete", !.at = now, !.reply = "expired",
                                      !.reset = 0]
    <3>1. call' = [call EXCEPT ![c] = new]
      BY <2>1, Zenon
    <3>2. new \in CallRecords
      BY <1>1 DEF CallRecords, Phases, Replies, Verdicts
    <3>3. call'[c] = new
      BY <1>1, <3>1
    <3>4. /\ new.pc = "complete" /\ new.at = now /\ new.reply = "expired"
          /\ new.attempt = call[c].attempt /\ new.print = call[c].print
      BY <1>1 DEF CallRecords
    <3>5. QED
      BY <3>1, <3>2, <3>3, <3>4 DEF StepsCall
  <2>3. Att(c)' = Att(c) /\ \A a \in Attempts : \A d \in posted[a] : Att(d)' = Att(d)
    BY <1>1, <2>2, OthersStay
  <2>4. Candidate(c)' => Candidate(c)
    BY <1>2, <2>1, <2>2, <2>3 DEF Candidate
  <2>5. PostedHome'
    BY <1>2, <2>3 DEF PostedHome, LedgerInv
  <2>6. Unsent(c)'
    BY <1>2, <1>3, <2>1, <2>3 DEF Unsent
  <2>7. QED
    BY <1>1, <1>2, <1>3, <2>1, <2>2, <2>4, <2>5, <2>6, PostStep DEF BeforePost, Unsent
<1>5. CASE now < Due(c)
  <2>1. Goto(c, "posting") /\ wire' = wire \cup {c}
    BY <1>1, <1>5 DEF Send
  <2>2. StepsCall(c) /\ call'[c].pc = "posting" /\ call'[c].at = call[c].at
    BY <1>1, <2>1, GotoSteps DEF Phases
  <2>3. Att(c)' = Att(c) /\ \A a \in Attempts : \A d \in posted[a] : Att(d)' = Att(d)
    BY <1>1, <2>2, OthersStay
  <2>4. Candidate(c)
    BY <1>1, <1>5 DEF Candidate
  <2>5. PostedHome'
    BY <1>2, <2>3 DEF PostedHome, LedgerInv
  <2>6. QED
    BY <1>1, <1>2, <1>3, <2>1, <2>2, <2>4, <2>5, PostStep DEF BeforePost, Unsent
<1>6. QED
  BY <1>1, <1>4, <1>5

LEMMA LoseResponseKeeps ==
  ASSUME LedgerInv, NEW c \in Calls, LoseResponse(c)
  PROVE  LedgerInv'
<1>1. /\ LedgerTypeOK /\ call \in [Calls -> CallRecords] /\ now \in Nat
      /\ Att(c) \in Attempts /\ wire \in SUBSET Calls
      /\ posted \in [Attempts -> SUBSET Calls]
  BY CallType DEF LedgerInv, LedgerTypeOK
<1>2. /\ UNCHANGED <<now, instance, eligible, session, minted, attempts, blockedUntil, wire, posted>>
      /\ Receive(c, "ambiguous", 0)
  BY DEF LoseResponse, envVars, sendVars, twitchVars
<1>3. /\ StepsCall(c) /\ call'[c].pc = "complete" /\ call'[c].at = now
      /\ call'[c].reply = "ambiguous"
  BY <1>1, <1>2, ReceiveSteps DEF Replies, Verdicts
<1>4. Att(c)' = Att(c) /\ \A a \in Attempts : \A d \in posted[a] : Att(d)' = Att(d)
  BY <1>1, <1>3, OthersStay
<1>5. Candidate(c)' => Candidate(c)
  BY <1>2, <1>3, <1>4 DEF Candidate
<1>6. PostedHome'
  BY <1>2, <1>4 DEF PostedHome, LedgerInv
<1>7. c \in wire => c \notin posted[Att(c)]
  BY DEF LedgerInv, PostPlace
<1>8. QED
  BY <1>1, <1>2, <1>3, <1>5, <1>6, <1>7, PostStep DEF BeforePost, Repeatable

\* What is known of a call whose POST Twitch is about to process.
LEMMA OnTheWire ==
  ASSUME LedgerInv, NEW c \in Calls, c \in wire
  PROVE  /\ c \notin posted[Att(c)] /\ call[c].pc \notin BeforePost
         /\ ~(call[c].pc = "complete" /\ call[c].reply \in Repeatable)
         /\ Candidate(c)
  BY DEF LedgerInv, PostPlace, Unsent, Candidate

\* Twitch's side of the POST: the call goes on as it is, or receives the result.
HearsOf(c) ==
  \/ call' = call
  \/ \E r \in Replies, until \in Nat : Receive(c, r, until)

LEMMA HearsSteps ==
  ASSUME LedgerInv, NEW c \in Calls, HearsOf(c), c \in wire, UNCHANGED now
  PROVE  /\ StepsCall(c) /\ call'[c].at <= now /\ call'[c].pc \notin BeforePost
         /\ Att(c)' = Att(c)
         /\ \A a \in Attempts : \A d \in posted[a] : Att(d)' = Att(d)
         /\ \A d \in Calls : Att(d)' = Att(d)
<1>1. LedgerTypeOK /\ call \in [Calls -> CallRecords] /\ now \in Nat /\ call[c].at <= now
  BY DEF LedgerInv, LedgerTypeOK, ClocksPast
<1>2. StepsCall(c) /\ call'[c].at <= now /\ call'[c].pc \notin BeforePost
  <2>1. CASE call' = call
    BY <1>1, <2>1, OnTheWire DEF StepsCall
  <2>2. ASSUME NEW r \in Replies, NEW until \in Nat, Receive(c, r, until)
        PROVE  StepsCall(c) /\ call'[c].at <= now /\ call'[c].pc \notin BeforePost
    BY <1>1, <2>2, ReceiveSteps DEF BeforePost
  <2>3. QED
    BY <2>1, <2>2 DEF HearsOf
<1>3. \A d \in Calls : Att(d)' = Att(d)
  BY <1>1, <1>2, OthersStay
<1>4. \A a \in Attempts : posted[a] \subseteq Calls
  BY <1>1 DEF LedgerTypeOK
<1>5. QED
  BY <1>2, <1>3, <1>4

LEMMA TwitchAcceptsKeeps ==
  ASSUME LedgerInv, NEW c \in Calls, TwitchAccepts(c)
  PROVE  LedgerInv'
<1>1. /\ now \in Nat /\ Att(c) \in Attempts /\ wire \in SUBSET Calls
      /\ posted \in [Attempts -> SUBSET Calls] /\ ResetTimes \subseteq Nat
  BY CallType, ResetTimesType DEF LedgerInv, LedgerTypeOK
<1>2. /\ UNCHANGED <<now, instance, eligible, session, minted, attempts, blockedUntil>>
      /\ c \in wire /\ wire' = wire \ {c}
      /\ posted' = [posted EXCEPT ![Att(c)] = @ \cup {c}]
  BY DEF TwitchAccepts, envVars, sendVars
<1>3. /\ call' = call
         \/ \E r \in {"sent", "ambiguous"}, until \in Nat : Receive(c, r, until)
      /\ HearsOf(c)
  BY <1>1 DEF TwitchAccepts, HearsOf, Replies, Verdicts
<1>4. /\ StepsCall(c) /\ call'[c].at <= now /\ call'[c].pc \notin BeforePost
      /\ \A d \in Calls : Att(d)' = Att(d)
  BY <1>2, <1>3, HearsSteps
<1>5. ~(call'[c].pc = "complete" /\ call'[c].reply \in Repeatable)
  <2>1. CASE call' = call
    BY <1>2, <2>1, OnTheWire
  <2>2. ASSUME NEW r \in {"sent", "ambiguous"}, NEW until \in Nat, Receive(c, r, until)
        PROVE  call'[c].reply \notin Repeatable
    BY <1>1, <2>2, ReceiveSteps DEF Repeatable, LedgerInv, LedgerTypeOK, Replies, Verdicts
  <2>3. QED
    BY <1>3, <2>1, <2>2
<1>6. /\ wire' \in SUBSET Calls /\ posted' \in [Attempts -> SUBSET Calls]
      /\ posted'[Att(c)] = posted[Att(c)] \cup {c}
      /\ \A a \in Attempts : posted'[a] = posted[a] \/ a = Att(c)
  BY <1>1, <1>2
<1>7. PostedHome'
  <2>1. SUFFICES ASSUME NEW a \in Attempts, NEW d \in posted'[a] PROVE Att(d)' = a
    BY DEF PostedHome
  <2>2. d \in Calls /\ (d \in posted[a] \/ (d = c /\ a = Att(c)))
    BY <1>1, <1>6, <2>1
  <2>3. QED
    BY <1>4, <2>2 DEF PostedHome, LedgerInv
<1>8. \A d \in Calls \ {c} : d \in posted'[Att(d)] <=> d \in posted[Att(d)]
  <2>1. \A d \in Calls : Att(d) \in Attempts
    BY CallType DEF LedgerInv
  <2>2. QED
    BY <1>6, <2>1
<1>9. Candidate(c) /\ c \notin wire'
  BY <1>2, OnTheWire
<1>10. QED
  BY <1>2, <1>4, <1>5, <1>6, <1>7, <1>8, <1>9, PostStep

LEMMA TwitchRefusesKeeps ==
  ASSUME LedgerInv, NEW c \in Calls, TwitchRefuses(c)
  PROVE  LedgerInv'
<1>1. /\ now \in Nat /\ Att(c) \in Attempts /\ wire \in SUBSET Calls
      /\ posted \in [Attempts -> SUBSET Calls] /\ ResetTimes \subseteq Nat
  BY CallType, ResetTimesType DEF LedgerInv, LedgerTypeOK
<1>2. /\ UNCHANGED <<now, instance, eligible, session, minted, attempts, blockedUntil, posted>>
      /\ c \in wire /\ wire' = wire \ {c}
  BY DEF TwitchRefuses, envVars, sendVars
<1>3. HearsOf(c)
  <2>1. now + LimitRetry \in Nat
    BY <1>1, SendLedgerAssumption DEF SendLedgerAssumption
  <2>2. \A until \in ResetTimes : Max({now + LimitRetry, until}) \in Nat
    BY <1>1, <2>1, MaxOfTwo
  <2>3. QED
    BY <1>1, <2>2 DEF TwitchRefuses, HearsOf, Replies, Verdicts
<1>4. /\ StepsCall(c) /\ call'[c].at <= now /\ call'[c].pc \notin BeforePost
      /\ Att(c)' = Att(c)
      /\ \A a \in Attempts : \A d \in posted[a] : Att(d)' = Att(d)
  BY <1>2, <1>3, HearsSteps
<1>5. PostedHome'
  BY <1>2, <1>4 DEF PostedHome, LedgerInv
<1>6. /\ Candidate(c) /\ Unsent(c)' /\ wire' \in SUBSET Calls
      /\ c \notin wire'
  BY <1>1, <1>2, <1>4, OnTheWire DEF Unsent
<1>7. QED
  BY <1>1, <1>2, <1>4, <1>5, <1>6, PostStep

-----------------------------------------------------------------------------
(***************************************************************************)
(* The completion.                                                         *)
(***************************************************************************)
LEMMA CompleteKeeps ==
  ASSUME LedgerInv, NEW c \in Calls, Complete(c)
  PROVE  LedgerInv'
<1> DEFINE p == call[c].print
           v == VerdictOf(call[c].reply)
<1>1. /\ LedgerTypeOK /\ call \in [Calls -> CallRecords] /\ call[c].at <= now
      /\ call[c].pc = "complete" /\ Att(c) \in Attempts /\ attempts \in [Attempts -> Rows]
      /\ p \in Prints /\ call[c].reset \in Nat /\ call[c].reply \in Replies
      /\ session \in Nat /\ blockedUntil \in Nat
  BY CallType DEF LedgerInv, LedgerTypeOK, ClocksPast, Complete, CallRecords
<1>2. v \in Verdicts
  BY DEF VerdictOf, Verdicts
<1>3. /\ Waiting(p) \in Rows /\ Terminal(p, v) \in Rows
      /\ Terminal(p, v).kind = "terminal" /\ Terminal(p, v).print = p
  BY <1>1, <1>2, RowKinds
<1>4. UNCHANGED <<now, instance, eligible, minted, wire, posted>>
  BY DEF Complete, twitchVars
<1>5. session' \in Nat /\ blockedUntil' \in Nat
  BY <1>1, MaxOfTwo DEF Complete
<1>6. \/ attempts' = attempts
      \/ /\ Owns(c)
         /\ \/ call[c].reply \in Repeatable /\ attempts' = [attempts EXCEPT ![Att(c)] = Waiting(p)]
            \/ attempts' = [attempts EXCEPT ![Att(c)] = Terminal(p, v)]
  BY DEF Complete
<1>7. StepsCall(c) /\ call'[c].pc = "done" /\ call'[c].at <= now
  <2>1. \E o \in Outcomes : Answer(c, o)
    BY <1>2 DEF Complete, Outcomes, Verdicts
  <2>2. QED
    BY <1>1, <2>1, AnswerSteps
<1>8. attempts' \in [Attempts -> Rows]
  BY <1>1, <1>3, <1>6
<1>9. RowsStandOn
  <2>1. SUFFICES ASSUME NEW d \in Calls, Candidate(d), now < Due(d)
                 PROVE  StandsFor(attempts'[Att(d)], d)
    BY DEF RowsStandOn
  <2>2. StandsFor(Row(d), d) /\ Att(d) \in Attempts
    BY <1>1, <2>1, CallType DEF LedgerInv, RowStands
  <2>3. CASE attempts'[Att(d)] = attempts[Att(d)]
    BY <2>2, <2>3 DEF Row
  <2>4. CASE Owns(c) /\ Att(d) = Att(c)
    <3>1. d = c
      BY <2>2, <2>4 DEF StandsFor, Owns, Row
    <3>2. ~Unsent(c)
      BY <1>1, <2>1, <3>1 DEF Candidate, Unsent
    <3>3. call[c].reply \notin Repeatable
      BY <1>1, <3>2 DEF LedgerInv, PostPlace
    <3>4. attempts' = attempts \/ attempts'[Att(c)] = Terminal(p, v)
      BY <1>1, <1>6, <3>3
    <3>5. QED
      BY <1>3, <2>2, <3>1, <3>4 DEF StandsFor, Row
  <2>5. QED
    BY <1>1, <1>6, <2>2, <2>3, <2>4
<1>10. LedgerTypeOK'
  BY <1>1, <1>4, <1>5, <1>7, <1>8, QuietTypes DEF LedgerTypeOK
<1>11. QED
  BY <1>4, <1>7, <1>9, <1>10, QuietStep

-----------------------------------------------------------------------------
(***************************************************************************)
(* The surroundings.                                                       *)
(***************************************************************************)
\* The steps that leave the calls, the clock and the POSTs alone, and keep every
\* row that stands for a candidate.
LEMMA OutsideStep ==
  ASSUME LedgerInv, UNCHANGED <<now, blockedUntil, call, wire, posted>>,
         instance' \in Nat, session' \in Nat, minted' \in Nat,
         eligible' \in [Channels -> BOOLEAN],
         attempts' \in [Attempts -> Rows], RowsStandOn
  PROVE  LedgerInv'
<1>1. LedgerTypeOK'
  BY DEF LedgerInv, LedgerTypeOK
<1>2. ClocksPast' /\ PostedHome' /\ PostPlace'
  BY DEF LedgerInv, ClocksPast, PostedHome, PostPlace, Unsent, Att
<1>3. OneCandidate'
  BY DEF LedgerInv, OneCandidate, Candidate, Att, Due
<1>4. RowStands'
  BY DEF RowsStandOn, RowStands, StandsFor, Candidate, Row, Att, Due
<1>5. QED
  BY <1>1, <1>2, <1>3, <1>4 DEF LedgerInv

LEMMA ChannelAndSessionKeep ==
  ASSUME LedgerInv,
         (\E ch \in Channels : ChangeChannel(ch)) \/ Renew \/ Invalidate \/ Deploy
  PROVE  LedgerInv'
<1>1. LedgerTypeOK
  BY DEF LedgerInv
<1>2. UNCHANGED <<now, blockedUntil, call, wire, posted, attempts>>
  BY DEF ChangeChannel, Renew, Invalidate, Deploy, sendVars, twitchVars
<1>3. instance' \in Nat /\ session' \in Nat /\ minted' \in Nat
  BY <1>1 DEF LedgerTypeOK, ChangeChannel, Renew, Invalidate, Deploy
<1>4. eligible' \in [Channels -> BOOLEAN]
  BY <1>1 DEF LedgerTypeOK, ChangeChannel, Renew, Invalidate, Deploy
<1>5. QED
  BY <1>2, <1>3, <1>4, RowsUnchanged, OutsideStep

LEMMA RemoveChannelKeeps ==
  ASSUME LedgerInv, NEW ch \in Channels, RemoveChannel(ch)
  PROVE  LedgerInv'
<1>1. LedgerTypeOK /\ attempts \in [Attempts -> Rows]
  BY DEF LedgerInv, LedgerTypeOK
<1>2. /\ UNCHANGED <<now, instance, session, minted, blockedUntil, call, wire, posted>>
      /\ eligible' \in [Channels -> BOOLEAN]
  BY <1>1 DEF RemoveChannel, LedgerTypeOK, sendVars, twitchVars
<1>3. \A a \in Attempts : Terminal(attempts[a].print, "rejected") \in Rows
  BY <1>1, DisplacedPrint DEF Verdicts
<1>4. /\ attempts' \in [Attempts -> Rows]
      /\ \A a \in Attempts : attempts[a].kind # "waiting" => attempts'[a] = attempts[a]
  BY <1>1, <1>3 DEF RemoveChannel
<1>5. RowsStandOn
  <2>1. SUFFICES ASSUME NEW d \in Calls, Candidate(d), now < Due(d)
                 PROVE  StandsFor(attempts'[Att(d)], d)
    BY DEF RowsStandOn
  <2>2. StandsFor(Row(d), d) /\ Att(d) \in Attempts
    BY <1>1, <2>1, CallType DEF LedgerInv, RowStands
  <2>3. QED
    BY <1>4, <2>2 DEF StandsFor, Row
<1>6. QED
  BY <1>1, <1>2, <1>4, <1>5, OutsideStep DEF LedgerTypeOK

LEMMA ReclaimStepKeeps ==
  ASSUME LedgerInv, Reclaim
  PROVE  LedgerInv'
<1>1. LedgerTypeOK /\ now \in Nat /\ now <= now
  BY DEF LedgerInv, LedgerTypeOK
<1>2. /\ UNCHANGED <<now, instance, eligible, session, minted, blockedUntil, call, wire, posted>>
      /\ attempts' = ReclaimedRows(now)
  BY DEF Reclaim, envVars, twitchVars
<1>3. attempts' \in [Attempts -> Rows]
  <2>1. CASE Attempts = {}
    BY <1>2, <2>1 DEF ReclaimedRows
  <2>2. CASE Attempts # {}
    BY <1>1, <1>2, <2>2, ReclaimKeeps
  <2>3. QED
    BY <2>1, <2>2
<1>4. RowsStandOn
  BY <1>1, <1>2, ReclaimKeeps, CallType DEF LedgerInv, RowStands, RowsStandOn, Row, Due
<1>5. QED
  BY <1>1, <1>2, <1>3, <1>4, OutsideStep DEF LedgerTypeOK

LEMMA CrashKeeps ==
  ASSUME LedgerInv, Crash
  PROVE  LedgerInv'
<1>1. LedgerTypeOK /\ call \in [Calls -> CallRecords]
  BY DEF LedgerInv, LedgerTypeOK
<1>2. /\ UNCHANGED <<now, eligible, session, minted, attempts, blockedUntil, wire, posted>>
      /\ instance' = instance + 1
  BY DEF Crash, envVars, sendVars, twitchVars
<1>3. /\ call' \in [Calls -> CallRecords]
      /\ \A d \in Calls :
           /\ call'[d].attempt = call[d].attempt /\ call'[d].print = call[d].print
           /\ call'[d].at = call[d].at
           /\ call'[d].pc = "lost" \/ call'[d] = call[d]
  BY <1>1 DEF Crash, CallRecords, Phases
<1>4. \A d \in Calls : Att(d)' = Att(d) /\ Due(d)' = Due(d)
  BY <1>3 DEF Att, Due
<1>5. \A d \in Calls : Candidate(d)' => Candidate(d)
  BY <1>2, <1>3, <1>4 DEF Candidate
<1>6. LedgerTypeOK'
  BY <1>1, <1>2, <1>3 DEF LedgerTypeOK
<1>7. ClocksPast'
  BY <1>2, <1>3 DEF ClocksPast, LedgerInv
<1>8. PostedHome'
  <2>1. \A a \in Attempts : posted[a] \subseteq Calls
    BY <1>1 DEF LedgerTypeOK
  <2>2. QED
    BY <1>2, <1>4, <2>1 DEF PostedHome, LedgerInv
<1>9. OneCandidate'
  BY <1>4, <1>5 DEF OneCandidate, LedgerInv
<1>10. RowStands'
  BY <1>2, <1>3, <1>4, <1>5 DEF RowStands, StandsFor, Row, LedgerInv
<1>11. PostPlace'
  BY <1>2, <1>3, <1>4 DEF PostPlace, Unsent, LedgerInv, BeforePost
<1>12. QED
  BY <1>6, <1>7, <1>8, <1>9, <1>10, <1>11 DEF LedgerInv

LEMMA TickKeeps ==
  ASSUME LedgerInv, Tick
  PROVE  LedgerInv'
<1>1. LedgerTypeOK /\ now \in Nat /\ now' = now + 1
      /\ UNCHANGED <<instance, eligible, session, minted, attempts, blockedUntil, call, wire, posted>>
  BY DEF LedgerInv, LedgerTypeOK, Tick, envVars, sendVars, twitchVars
<1>2. \A d \in Calls : Att(d)' = Att(d) /\ Due(d)' = Due(d) /\ Due(d) \in Nat /\ call[d].at \in Nat
  BY <1>1, CallType DEF Att, Due
<1>3. \A d \in Calls : now' < Due(d) => now < Due(d)
  BY <1>1, <1>2
<1>4. \A d \in Calls : Candidate(d)' => Candidate(d)
  BY <1>1, <1>2, <1>3 DEF Candidate
<1>5. LedgerTypeOK'
  BY <1>1 DEF LedgerTypeOK
<1>6. ClocksPast'
  BY <1>1, <1>2 DEF ClocksPast, LedgerInv
<1>7. PostedHome' /\ PostPlace'
  BY <1>1 DEF PostedHome, PostPlace, Unsent, LedgerInv, Att
<1>8. OneCandidate'
  BY <1>2, <1>4 DEF OneCandidate, LedgerInv
<1>9. RowStands'
  BY <1>1, <1>2, <1>3, <1>4 DEF RowStands, StandsFor, Row, LedgerInv
<1>10. QED
  BY <1>5, <1>6, <1>7, <1>8, <1>9 DEF LedgerInv

-----------------------------------------------------------------------------
LEMMA InitLedger == Init => LedgerInv
<1>1. SUFFICES ASSUME Init PROVE LedgerInv
  OBVIOUS
<1>2. NoRow \in Rows
  BY DEF NoRow, Rows, Kinds, Verdicts
<1>3. /\ call \in [Calls -> CallRecords]
      /\ \A c \in Calls : call[c].pc = "idle" /\ call[c].at = 0 /\ Att(c) \in Attempts
  BY <1>1 DEF Init, CallRecords, Phases, Replies, Verdicts, Outcomes, Att
<1>4. LedgerTypeOK
  BY <1>1, <1>2, <1>3 DEF Init, LedgerTypeOK
<1>5. \A c \in Calls : ~Candidate(c) /\ Unsent(c)
  BY <1>1, <1>3 DEF Init, Candidate, Unsent
<1>6. ClocksPast /\ PostedHome
  BY <1>1, <1>3 DEF Init, ClocksPast, PostedHome
<1>7. OneCandidate /\ RowStands /\ PostPlace
  BY <1>3, <1>5 DEF OneCandidate, RowStands, PostPlace, Unsent
<1>8. QED
  BY <1>4, <1>6, <1>7 DEF LedgerInv

LEMMA StepLedger == LedgerInv /\ [Next]_vars => LedgerInv'
<1>1. SUFFICES ASSUME LedgerInv, [Next]_vars PROVE LedgerInv'
  OBVIOUS
<1>2. CASE UNCHANGED vars
  <2>1. UNCHANGED <<now, instance, eligible, session, minted, attempts, blockedUntil, call,
                    wire, posted>>
    BY <1>2 DEF vars
  <2>2. QED
    BY <1>1, <2>1, RowsUnchanged, OutsideStep DEF LedgerInv, LedgerTypeOK
<1>3. ASSUME NEW c \in Calls, Start(c) PROVE LedgerInv'
  BY <1>1, <1>3, StartKeeps
<1>4. ASSUME NEW c \in Calls, Dispatch(c) PROVE LedgerInv'
  BY <1>1, <1>4, ReadLedgerKeeps, CheckUsableKeeps, RefuseKeeps, TakeTokenKeeps, EnterGateKeeps,
     ClaimKeeps, SendKeeps, LoseResponseKeeps, CompleteKeeps DEF Dispatch
<1>5. ASSUME NEW c \in Calls, TwitchAccepts(c) \/ TwitchRefuses(c) PROVE LedgerInv'
  BY <1>1, <1>5, TwitchAcceptsKeeps, TwitchRefusesKeeps
<1>6. CASE \E ch \in Channels : ChangeChannel(ch) \/ RemoveChannel(ch)
  BY <1>1, <1>6, ChannelAndSessionKeep, RemoveChannelKeeps
<1>7. CASE Renew \/ Invalidate \/ Deploy
  BY <1>1, <1>7, ChannelAndSessionKeep
<1>8. CASE Reclaim \/ Crash \/ Tick
  BY <1>1, <1>8, ReclaimStepKeeps, CrashKeeps, TickKeeps
<1>9. QED
  BY <1>1, <1>2, <1>3, <1>4, <1>5, <1>6, <1>7, <1>8 DEF Next

\* The rows, the calls and the POSTs keep their types, and each attempt has at
\* most one call whose POST was or may be accepted, for which its row stands
\* until the deadline: what the ledger's transactions keep between them.
THEOREM LedgerInvariant == Spec => []LedgerInv
<1>1. QED
  BY InitLedger, StepLedger, PTL DEF Spec

\* dispatch (account.ts) has at most one POST of an attempt accepted, for every
\* number of calls, instances, crashes, overlapping revisions and late responses,
\* with stale clock readings and whatever the policy's durations are.
THEOREM PostedAtMostOnce == Spec => []AtMostOnce
<1>1. LedgerInv => AtMostOnce
  <2>1. SUFFICES ASSUME LedgerInv, NEW a \in Attempts, NEW c \in posted[a], NEW d \in posted[a]
                 PROVE  c = d
    BY DEF AtMostOnce
  <2>2. c \in Calls /\ d \in Calls /\ Att(c) = a /\ Att(d) = a
    BY <2>1 DEF LedgerInv, LedgerTypeOK, PostedHome
  <2>3. Candidate(c) /\ Candidate(d)
    BY <2>2 DEF Candidate
  <2>4. QED
    BY <2>1, <2>2, <2>3 DEF LedgerInv, OneCandidate
<1>2. QED
  BY <1>1, LedgerInvariant, PTL

\* While its deadline lasts, the row of an attempt whose POST was or may be
\* accepted never lets another call claim it.
THEOREM NeverFreeAgain == Spec => []NoSecondChance
<1>1. LedgerInv => NoSecondChance
  BY DEF LedgerInv, RowStands, StandsFor, NoSecondChance, Candidate
<1>2. QED
  BY <1>1, LedgerInvariant, PTL

-----------------------------------------------------------------------------
(***************************************************************************)
(* Outcomes are final.  A transaction works on the reclaimed rows and then *)
(* replaces only the row of its own attempt, which is not terminal: the    *)
(* ledger would have answered, the refusal only takes absent and waiting   *)
(* rows, the completion only the row its call put in "sending".            *)
(***************************************************************************)
Final(a) ==
  attempts[a].kind = "terminal" =>
    \/ attempts'[a] = attempts[a]
    \/ attempts'[a] = NoRow /\ RetainUntil(a) <= now

\* A transaction over the reclaimed rows that replaces at most one row, one that
\* is not terminal.
LEMMA OpenRowReplaced ==
  ASSUME NEW a \in Attempts, NEW b \in Attempts, NEW rows \in [Attempts -> Rows],
         \/ rows[a] = attempts[a]
         \/ rows[a] = NoRow /\ RetainUntil(a) <= now,
         \/ attempts' = rows
         \/ /\ attempts[b].kind # "terminal"
            /\ \E new \in Rows : attempts' = [rows EXCEPT ![b] = new]
  PROVE  Final(a)
<1>1. attempts'[a] = rows[a] \/ (a = b /\ attempts[b].kind # "terminal")
  OBVIOUS
<1>2. QED
  BY <1>1 DEF Final

LEMMA ReadLedgerFinal ==
  ASSUME LedgerInv, NEW c \in Calls, ReadLedger(c), NEW a \in Attempts
  PROVE  Final(a)
<1> DEFINE rows == ReclaimedRows(call[c].at)
<1>1. LedgerTypeOK /\ call[c].at \in Nat /\ call[c].at <= now /\ Att(c) \in Attempts
  BY CallType DEF LedgerInv, ClocksPast
<1>2. /\ rows \in [Attempts -> Rows]
      /\ \A b \in Attempts : rows[b] = attempts[b] \/ (rows[b] = NoRow /\ RetainUntil(b) <= now)
  BY <1>1, ReclaimKeeps
<1>3. \/ attempts' = rows
      \/ /\ rows[Att(c)].kind = "sending"
         /\ attempts' = [rows EXCEPT ![Att(c)] = Terminal(rows[Att(c)].print, "ambiguous")]
  BY DEF ReadLedger
<1>4. Terminal(rows[Att(c)].print, "ambiguous") \in Rows
  BY <1>1, <1>2, DisplacedPrint DEF Verdicts
<1>5. rows[Att(c)].kind = "sending" => attempts[Att(c)].kind # "terminal"
  BY <1>1, <1>2 DEF NoRow
<1>6. QED
  BY <1>1, <1>2, <1>3, <1>4, <1>5, OpenRowReplaced

LEMMA RefuseFinal ==
  ASSUME LedgerInv, NEW c \in Calls, Refuse(c), NEW a \in Attempts
  PROVE  Final(a)
<1>1. LedgerTypeOK /\ attempts \in [Attempts -> Rows] /\ Att(c) \in Attempts
      /\ call[c] \in CallRecords
  BY CallType DEF LedgerInv, LedgerTypeOK
<1>2. Terminal(call[c].print, "rejected") \in Rows
  BY <1>1, RowKinds DEF CallRecords, Verdicts
<1>3. \/ attempts' = attempts
      \/ /\ attempts[Att(c)].kind # "terminal"
         /\ attempts' = [attempts EXCEPT ![Att(c)] = Terminal(call[c].print, "rejected")]
  BY DEF Refuse, Row
<1>4. QED
  BY <1>1, <1>2, <1>3, OpenRowReplaced

LEMMA ClaimFinal ==
  ASSUME LedgerInv, NEW c \in Calls, Claim(c), NEW a \in Attempts
  PROVE  Final(a)
<1> DEFINE t == call[c].at
           rows == ReclaimedRows(t)
           p == call[c].print
           Written == {Terminal(p, "rejected"), Terminal(p, "expired"), Waiting(p),
                       Sending(p, c, call[c].instance)}
<1>1. LedgerTypeOK /\ t \in Nat /\ t <= now /\ Att(c) \in Attempts /\ Due(c) \in Nat
      /\ p \in Prints /\ call[c].instance \in Nat
  BY CallType DEF LedgerInv, ClocksPast, CallRecords
<1>2. /\ rows \in [Attempts -> Rows]
      /\ \A b \in Attempts : rows[b] = attempts[b] \/ (rows[b] = NoRow /\ RetainUntil(b) <= now)
  BY <1>1, ReclaimKeeps
<1>3. \/ attempts' = rows
      \/ /\ Recorded(rows[Att(c)], c) = {} /\ t < Due(c)
         /\ \E new \in Written : attempts' = [rows EXCEPT ![Att(c)] = new]
  BY DEF Claim
<1>4. Written \subseteq Rows
  BY <1>1, RowKinds DEF Verdicts
<1>5. t < Due(c) => rows[Att(c)] = attempts[Att(c)]
  <2>1. Retention \in Nat
    BY SendLedgerAssumption DEF SendLedgerAssumption
  <2>2. t < Due(c) => ~(RetainUntil(Att(c)) <= t)
    BY <1>1, <2>1 DEF RetainUntil, Due
  <2>3. QED
    BY <1>1, <2>2 DEF ReclaimedRows
<1>6. attempts[Att(c)].kind = "terminal" => Recorded(attempts[Att(c)], c) # {}
  BY DEF Recorded
<1>7. QED
  BY <1>1, <1>2, <1>3, <1>4, <1>5, <1>6, OpenRowReplaced

LEMMA CompleteFinal ==
  ASSUME LedgerInv, NEW c \in Calls, Complete(c), NEW a \in Attempts
  PROVE  Final(a)
<1> DEFINE p == call[c].print
           v == VerdictOf(call[c].reply)
<1>1. LedgerTypeOK /\ attempts \in [Attempts -> Rows] /\ Att(c) \in Attempts /\ p \in Prints
  BY CallType DEF LedgerInv, LedgerTypeOK, CallRecords
<1>2. Waiting(p) \in Rows /\ Terminal(p, v) \in Rows
  BY <1>1, RowKinds DEF VerdictOf, Verdicts
<1>3. \/ attempts' = attempts
      \/ /\ Owns(c)
         /\ \/ attempts' = [attempts EXCEPT ![Att(c)] = Waiting(p)]
            \/ attempts' = [attempts EXCEPT ![Att(c)] = Terminal(p, v)]
  BY DEF Complete
<1>4. Owns(c) => attempts[Att(c)].kind # "terminal"
  BY DEF Owns, Row
<1>5. QED
  BY <1>1, <1>2, <1>3, <1>4, OpenRowReplaced

LEMMA StepFinal == LedgerInv /\ [Next]_vars => \A a \in Attempts : Final(a)
<1>1. SUFFICES ASSUME LedgerInv, [Next]_vars, NEW a \in Attempts PROVE Final(a)
  OBVIOUS
<1>2. LedgerTypeOK /\ attempts \in [Attempts -> Rows] /\ now \in Nat /\ now <= now
  BY <1>1 DEF LedgerInv, LedgerTypeOK
<1>3. CASE UNCHANGED attempts
  BY <1>3 DEF Final
<1>4. ASSUME NEW c \in Calls, Dispatch(c) PROVE Final(a)
  <2>1. CASE CheckUsable(c) \/ TakeToken(c) \/ EnterGate(c) \/ Send(c) \/ LoseResponse(c)
    BY <1>3, <2>1 DEF CheckUsable, TakeToken, EnterGate, Send, LoseResponse
  <2>2. QED
    BY <1>1, <1>4, <2>1, ReadLedgerFinal, RefuseFinal, ClaimFinal, CompleteFinal DEF Dispatch
<1>5. ASSUME NEW c \in Calls, Start(c) \/ TwitchAccepts(c) \/ TwitchRefuses(c) PROVE Final(a)
  BY <1>3, <1>5 DEF Start, TwitchAccepts, TwitchRefuses
<1>6. ASSUME NEW ch \in Channels, ChangeChannel(ch) \/ RemoveChannel(ch) PROVE Final(a)
  BY <1>2, <1>3, <1>6 DEF ChangeChannel, RemoveChannel, Final
<1>7. CASE Renew \/ Invalidate \/ Deploy \/ Crash \/ Tick
  BY <1>3, <1>7 DEF Renew, Invalidate, Deploy, Crash, Tick
<1>8. CASE Reclaim
  BY <1>2, <1>8, ReclaimKeeps DEF Reclaim, Final
<1>9. QED
  BY <1>1, <1>3, <1>4, <1>5, <1>6, <1>7, <1>8 DEF Next, vars

\* A recorded outcome is final: whatever calls, instances, removals and late
\* results come, a terminal row only disappears, after its retention.
THEOREM OutcomesFinal == Spec => SettledStays
<1>1. LedgerInv /\ [Next]_vars => [\A a \in Attempts : Final(a)]_vars
  BY StepFinal
<1>2. Spec => [][\A a \in Attempts : Final(a)]_vars
  BY <1>1, LedgerInvariant, PTL DEF Spec
<1>3. QED
  BY <1>2 DEF SettledStays, Final

-----------------------------------------------------------------------------
(***************************************************************************)
(* Least and greatest numbers.  The well-founded order of the library is   *)
(* that of finite sets under inclusion; the intervals 0..m inherit it.     *)
(***************************************************************************)
LEMMA LeastOfNats == ASSUME NEW S \in SUBSET Nat, S # {} PROVE \E m \in S : \A n \in S : m <= n
<1> DEFINE T == {0..m : m \in S}
<1>1. T \in SUBSET FiniteSubsetsOf(Nat) /\ T # {}
  <2>1. ASSUME NEW m \in S PROVE 0..m \in FiniteSubsetsOf(Nat)
    <3>1. m \in Int /\ 0 \in Int /\ 0..m \subseteq Nat
      OBVIOUS
    <3>2. IsFiniteSet(0..m)
      BY <3>1, FS_Interval
    <3>3. QED
      BY <3>1, <3>2 DEF FiniteSubsetsOf
  <2>2. QED
    BY <2>1
<1>2. PICK x \in T : \A y \in T : ~(<<y, x>> \in StrictSubsetOrdering(Nat))
  <2> HIDE DEF T
  <2>1. QED
    BY <1>1, FS_StrictSubsetOrderingWellFounded, WFMin
<1>3. PICK m \in S : x = 0..m
  OBVIOUS
<1>4. ASSUME NEW n \in S, n < m PROVE FALSE
  <2> DEFINE a == 0..n  b == 0..m
  <2>1. m \in Nat /\ n \in Nat
    OBVIOUS
  <2>2. a \in SUBSET Nat /\ b \in SUBSET Nat /\ a \subseteq b /\ m \in b /\ m \notin a
    BY <1>4, <2>1
  <2>3. a \in T /\ b = x
    BY <1>3
  <2> HIDE DEF a, b
  <2>4. <<a, b>> \in StrictSubsetOrdering(Nat)
    BY <2>2 DEF StrictSubsetOrdering
  <2>5. QED
    BY <1>2, <2>3, <2>4
<1>5. QED
  BY <1>4

LEMMA GreatestOfNats ==
  ASSUME NEW S \in SUBSET Nat, S # {}, NEW n \in Nat, \A x \in S : x <= n
  PROVE  \E m \in S : \A x \in S : x <= m
<1> DEFINE U == {u \in Nat : \A x \in S : x <= u}
<1>1. n \in U /\ U \in SUBSET Nat
  OBVIOUS
<1>2. PICK u \in U : \A v \in U : u <= v
  <2> HIDE DEF U
  <2>1. QED
    BY <1>1, LeastOfNats
<1>3. u \in Nat /\ \A x \in S : x \in Nat /\ x <= u
  OBVIOUS
<1>4. CASE u \in S
  BY <1>3, <1>4
<1>5. CASE u \notin S
  <2>1. \A x \in S : x < u
    BY <1>3, <1>5
  <2>2. u > 0
    <3>1. PICK x \in S : TRUE
      OBVIOUS
    <3>2. x \in Nat /\ x < u
      BY <1>3, <2>1
    <3>3. QED
      BY <1>3, <3>2
  <2>3. PICK v \in Nat : u = v + 1
    <3>1. u - 1 \in Nat /\ u = (u - 1) + 1
      BY <1>3, <2>2
    <3>2. QED
      BY <3>1
  <2>4. v \in U
    BY <1>3, <2>1, <2>3
  <2>5. QED
    BY <1>2, <2>3, <2>4
<1>6. QED
  BY <1>4, <1>5

-----------------------------------------------------------------------------
(***************************************************************************)
(* Recent keeps the order: the k-th entry it keeps is the one that has k   *)
(* kept entries up to it.                                                  *)
(***************************************************************************)
Upto(S, i) == {j \in S : j <= i}

LEMMA UptoFinite ==
  ASSUME NEW n \in Nat, NEW S \in SUBSET (1..n)
  PROVE  /\ IsFiniteSet(S) /\ Cardinality(S) \in Nat /\ Cardinality(S) <= n
         /\ \A i \in Nat : /\ Upto(S, i) \in SUBSET S
                           /\ IsFiniteSet(Upto(S, i)) /\ Cardinality(Upto(S, i)) \in Nat
<1>1. IsFiniteSet(1..n) /\ Cardinality(1..n) = n
  <2>1. 1 \in Int /\ n \in Int
    OBVIOUS
  <2>2. QED
    BY <2>1, FS_Interval
<1>2. IsFiniteSet(S) /\ Cardinality(S) \in Nat /\ Cardinality(S) <= n
  BY <1>1, FS_Subset, FS_CardinalityType
<1>3. ASSUME NEW i \in Nat
      PROVE  /\ Upto(S, i) \in SUBSET S
             /\ IsFiniteSet(Upto(S, i)) /\ Cardinality(Upto(S, i)) \in Nat
  <2>1. Upto(S, i) \in SUBSET S
    BY DEF Upto
  <2>2. QED
    BY <1>2, <2>1, FS_Subset, FS_CardinalityType
<1>4. QED
  BY <1>2, <1>3

LEMMA NthExists ==
  ASSUME NEW n \in Nat, NEW S \in SUBSET (1..n), NEW k \in 1..Cardinality(S)
  PROVE  \E i \in S : Cardinality(Upto(S, i)) = k
<1> DEFINE R == {i \in Nat : Cardinality(Upto(S, i)) >= k}
<1>1. k \in Nat /\ k >= 1 /\ Cardinality(S) \in Nat /\ Cardinality(S) >= k
  BY UptoFinite
<1>2. Upto(S, n) = S /\ Upto(S, 0) = {} /\ S \in SUBSET Nat
  <2>1. \A j \in S : j \in Nat /\ 1 <= j /\ j <= n /\ ~(j <= 0)
    OBVIOUS
  <2>2. QED
    BY <2>1 DEF Upto
<1>3. n \in R /\ R \in SUBSET Nat
  BY <1>1, <1>2
<1>4. PICK i \in R : \A m \in R : i <= m
  <2> HIDE DEF R
  <2>1. QED
    BY <1>3, LeastOfNats
<1>5. i \in Nat /\ Cardinality(Upto(S, i)) >= k
  OBVIOUS
<1>6. i # 0
  BY <1>1, <1>2, <1>5, FS_EmptySet
<1>7. PICK h \in Nat : i = h + 1
  <2>1. i - 1 \in Nat /\ i = (i - 1) + 1
    BY <1>5, <1>6
  <2>2. QED
    BY <2>1
<1>8. h \notin R
  BY <1>4, <1>7
<1>9. /\ Cardinality(Upto(S, h)) \in Nat /\ Cardinality(Upto(S, i)) \in Nat
      /\ Cardinality(Upto(S, h)) < k /\ IsFiniteSet(Upto(S, h))
  <2>1. /\ Cardinality(Upto(S, h)) \in Nat /\ Cardinality(Upto(S, i)) \in Nat
        /\ IsFiniteSet(Upto(S, h))
    BY <1>5, UptoFinite
  <2>2. ~(Cardinality(Upto(S, h)) >= k)
    BY <1>8
  <2>3. QED
    BY <1>1, <2>1, <2>2
<1>10. i \in S
  <2>1. i \notin S => Upto(S, i) = Upto(S, h)
    <3>1. \A j \in S : j # i => (j <= i <=> j <= h)
      BY <1>2, <1>7
    <3>2. QED
      BY <3>1 DEF Upto
  <2>2. QED
    BY <1>1, <1>5, <1>9, <2>1
<1>11. Upto(S, i) = Upto(S, h) \cup {i}
  <2>1. \A j \in S : j <= i <=> j <= h \/ j = i
    BY <1>2, <1>7
  <2>2. QED
    BY <1>10, <2>1 DEF Upto
<1>12. Cardinality(Upto(S, i)) <= Cardinality(Upto(S, h)) + 1
  <2>1. Cardinality(Upto(S, h) \cup {i}) =
          IF i \in Upto(S, h) THEN Cardinality(Upto(S, h)) ELSE Cardinality(Upto(S, h)) + 1
    BY <1>9, FS_AddElement
  <2>2. QED
    BY <1>9, <1>11, <2>1
<1>13. Cardinality(Upto(S, i)) = k
  BY <1>1, <1>5, <1>9, <1>12
<1>14. QED
  BY <1>10, <1>13

LEMMA NthInOrder ==
  ASSUME NEW n \in Nat, NEW S \in SUBSET (1..n)
  PROVE  /\ \A k \in 1..Cardinality(S) : Nth(S, k) \in S
         /\ \A k, m \in 1..Cardinality(S) : k < m => Nth(S, k) < Nth(S, m)
<1>1. \A k \in 1..Cardinality(S) :
        Nth(S, k) \in S /\ Cardinality(Upto(S, Nth(S, k))) = k
  <2>1. ASSUME NEW k \in 1..Cardinality(S)
        PROVE  Nth(S, k) \in S /\ Cardinality(Upto(S, Nth(S, k))) = k
    <3>1. \E i \in S : Cardinality(Upto(S, i)) = k
      BY NthExists
    <3>2. Nth(S, k) = CHOOSE i \in S : Cardinality(Upto(S, i)) = k
      BY Zenon DEF Nth, Upto
    <3>3. QED
      BY <3>1, <3>2
  <2>2. QED
    BY <2>1
<1>2. ASSUME NEW k \in 1..Cardinality(S), NEW m \in 1..Cardinality(S), k < m
      PROVE  Nth(S, k) < Nth(S, m)
  <2> DEFINE i == Nth(S, k)  j == Nth(S, m)
  <2>1. i \in Nat /\ j \in Nat
    <3>1. i \in S /\ j \in S
      BY <1>1
    <3>2. \A x \in S : x \in Nat
      OBVIOUS
    <3> HIDE DEF i, j
    <3>3. QED
      BY <3>1, <3>2
  <2>2. Cardinality(Upto(S, i)) = k /\ Cardinality(Upto(S, j)) = m
    BY <1>1
  <2> HIDE DEF i, j
  <2>3. SUFFICES ASSUME j <= i PROVE FALSE
    BY <2>1 DEF i, j
  <2>4. Upto(S, j) \in SUBSET Upto(S, i)
    <3>1. \A x \in S : x <= j => x <= i
      <4>1. \A x \in S : x \in Nat
        OBVIOUS
      <4>2. QED
        BY <2>1, <2>3, <4>1
    <3>2. QED
      BY <3>1 DEF Upto
  <2>5. Cardinality(Upto(S, j)) <= Cardinality(Upto(S, i))
    BY <2>1, <2>4, UptoFinite, FS_Subset
  <2>6. QED
    BY <1>2, <2>2, <2>5, UptoFinite
<1>3. QED
  BY <1>1, <1>2

-----------------------------------------------------------------------------
(***************************************************************************)
(* The rate limit.  RateLimit looks at every window; the invariant is that *)
(* the whole list never holds more than a window may, and that each        *)
(* channel's entries keep their distance in the order of the list.  It     *)
(* needs neither the gate nor a clock that is up to date.                  *)
(***************************************************************************)
Spaced(s) ==
  \A i, j \in 1..Len(s) :
    i < j /\ s[i].channel = s[j].channel => s[i].at + ChannelSpacing <= s[j].at

Limited(s) == s \in Reservations /\ Len(s) <= GlobalMessages /\ Spaced(s)

LEMMA Entries ==
  ASSUME NEW s \in Reservations
  PROVE  /\ Len(s) \in Nat /\ DOMAIN s = 1..Len(s)
         /\ \A i \in 1..Len(s) : s[i] \in [channel : Channels, at : Nat] /\ s[i].at \in Nat
<1>1. /\ Len(s) \in Nat /\ DOMAIN s = 1..Len(s)
      /\ \A i \in 1..Len(s) : s[i] \in [channel : Channels, at : Nat]
  <2> DEFINE E == [channel : Channels, at : Nat]
  <2>1. s \in Seq(E)
    BY DEF Reservations
  <2> HIDE DEF E
  <2>2. Len(s) \in Nat /\ DOMAIN s = 1..Len(s) /\ \A i \in 1..Len(s) : s[i] \in E
    BY <2>1
  <2>3. QED
    BY <2>2 DEF E
<1>2. \A e \in [channel : Channels, at : Nat] : e.at \in Nat
  OBVIOUS
<1>3. QED
  BY <1>1, <1>2

LEMMA RecentLimited ==
  ASSUME Limited(reservations), NEW t \in Nat
  PROVE  /\ Limited(Recent(t)) /\ Len(Recent(t)) \in Nat
         /\ \A i \in 1..Len(Recent(t)) : Recent(t)[i].at + GlobalWindow > t
<1> DEFINE n == Len(reservations)
           K == InWindow(t)
           r == Recent(t)
<1>1. /\ n \in Nat /\ n <= GlobalMessages /\ DOMAIN reservations = 1..n
      /\ \A i \in 1..n : reservations[i] \in [channel : Channels, at : Nat]
  BY Entries DEF Limited
<1>2. /\ K \in SUBSET (1..n)
      /\ \A i \in K : reservations[i].at + GlobalWindow > t
  BY <1>1 DEF InWindow
<1>3. /\ Cardinality(K) \in Nat /\ Cardinality(K) <= n
      /\ \A k \in 1..Cardinality(K) : Nth(K, k) \in K
      /\ \A k, m \in 1..Cardinality(K) : k < m => Nth(K, k) < Nth(K, m)
  <2> HIDE DEF n, K
  <2>1. n \in Nat /\ K \in SUBSET (1..n)
    BY <1>1, <1>2
  <2>2. QED
    BY <2>1, UptoFinite, NthInOrder
<1>4. r = [k \in 1..Cardinality(K) |-> reservations[Nth(K, k)]]
  BY DEF Recent
<1> HIDE DEF n, K, r
<1>5. \A k \in 1..Cardinality(K) :
        Nth(K, k) \in 1..n /\ r[k] = reservations[Nth(K, k)]
        /\ r[k] \in [channel : Channels, at : Nat]
  BY <1>1, <1>2, <1>3, <1>4
<1>6. r \in Reservations /\ Len(r) = Cardinality(K)
  <2>1. r \in [1..Cardinality(K) -> [channel : Channels, at : Nat]]
    BY <1>4, <1>5
  <2> DEFINE E == [channel : Channels, at : Nat]
             m == Cardinality(K)
  <2>2. r \in [1..m -> E] /\ m \in Nat
    BY <1>3, <2>1
  <2> HIDE DEF E, m
  <2>3. r \in Seq(E) /\ Len(r) = m
    BY <2>2
  <2>4. QED
    BY <2>3 DEF Reservations, E, m
<1>7. Len(r) <= GlobalMessages
  BY <1>1, <1>3, <1>6, SendLedgerAssumption
<1>8. Spaced(r)
  <2>1. SUFFICES ASSUME NEW i \in 1..Len(r), NEW j \in 1..Len(r), i < j,
                        r[i].channel = r[j].channel
                 PROVE  r[i].at + ChannelSpacing <= r[j].at
    BY DEF Spaced
  <2>2. Nth(K, i) \in 1..n /\ Nth(K, j) \in 1..n /\ Nth(K, i) < Nth(K, j)
    BY <1>3, <1>5, <1>6, <2>1
  <2>3. r[i] = reservations[Nth(K, i)] /\ r[j] = reservations[Nth(K, j)]
    BY <1>5, <1>6
  <2>4. QED
    BY <2>1, <2>2, <2>3 DEF Limited, Spaced, n
<1>9. \A i \in 1..Len(r) : r[i].at + GlobalWindow > t
  BY <1>2, <1>3, <1>5, <1>6
<1>10. QED
  BY <1>3, <1>6, <1>7, <1>8, <1>9 DEF Limited, r

\* The times of reserveAt, as a set with a greatest element.
LEMMA ReserveAtBounds ==
  ASSUME Limited(reservations), NEW t \in Nat, NEW ch \in Channels, blockedUntil \in Nat
  PROVE  LET r == Recent(t)
             mine == {i \in 1..Len(r) : r[i].channel = ch}
         IN  /\ Full(r) => ReserveAt(ch, t) >= r[Len(r) + 1 - GlobalMessages].at + GlobalWindow
             /\ \A i \in mine : (\A k \in mine : k <= i)
                                  => ReserveAt(ch, t) >= r[i].at + ChannelSpacing
<1> DEFINE r == Recent(t)
           mine == {i \in 1..Len(r) : r[i].channel = ch}
           first == IF Full(r) THEN {Len(r) + 1 - GlobalMessages} ELSE {}
           last == {j \in mine : \A k \in mine : k <= j}
           A == {r[i].at + GlobalWindow : i \in first}
           B == {r[i].at + ChannelSpacing : i \in last}
           S == {t, blockedUntil} \cup A \cup B
<1>1. Limited(r) /\ Len(r) \in Nat
  BY RecentLimited
<1>2. ReserveAt(ch, t) = Max(S)
  BY DEF ReserveAt
<1>3. /\ GlobalMessages \in Nat /\ GlobalMessages > 0
      /\ GlobalWindow \in Nat /\ ChannelSpacing \in Nat
  BY SendLedgerAssumption
<1> HIDE DEF r
<1>4. \A i \in 1..Len(r) : r[i].at \in Nat
  BY <1>1, Entries DEF Limited
<1>5. first \in SUBSET (1..Len(r)) /\ last \in SUBSET (1..Len(r))
  BY <1>1, <1>3 DEF Full
<1>6. \A i, j \in first : i = j
  OBVIOUS
<1>7. \A i, j \in last : i = j
  BY <1>1
<1> HIDE DEF first, last
<1>8. S \in SUBSET Nat
  BY <1>3, <1>4, <1>5
<1>9. \E n \in Nat : \A x \in A : x <= n
  <2>1. CASE first = {}
    BY <2>1
  <2>2. ASSUME NEW i \in first PROVE \E n \in Nat : \A x \in A : x <= n
    <3>1. r[i].at + GlobalWindow \in Nat
      BY <1>3, <1>4, <1>5
    <3>2. \A x \in A : x = r[i].at + GlobalWindow
      BY <1>6
    <3> HIDE DEF A
    <3>3. QED
      BY <3>1, <3>2
  <2>3. QED
    BY <2>1, <2>2
<1>10. \E n \in Nat : \A x \in B : x <= n
  <2>1. CASE last = {}
    BY <2>1
  <2>2. ASSUME NEW i \in last PROVE \E n \in Nat : \A x \in B : x <= n
    <3>1. r[i].at + ChannelSpacing \in Nat
      BY <1>3, <1>4, <1>5
    <3>2. \A x \in B : x = r[i].at + ChannelSpacing
      BY <1>7
    <3> HIDE DEF B
    <3>3. QED
      BY <3>1, <3>2
  <2>3. QED
    BY <2>1, <2>2
<1>11. \E n \in Nat : \A x \in S : x <= n
  <2>1. PICK a \in Nat : \A x \in A : x <= a
    BY <1>9
  <2>2. PICK b \in Nat : \A x \in B : x <= b
    BY <1>10
  <2>3. A \in SUBSET Nat /\ B \in SUBSET Nat
    BY <1>8
  <2> HIDE DEF A, B
  <2>4. \A x \in S : x <= t + blockedUntil + a + b
    BY <2>1, <2>2, <2>3
  <2>5. t + blockedUntil + a + b \in Nat
    OBVIOUS
  <2>6. QED
    BY <2>4, <2>5
<1>12. \A x \in S : x <= Max(S)
  <2> HIDE DEF S
  <2>1. S # {}
    BY DEF S
  <2>2. \E m \in S : \A x \in S : x <= m
    BY <1>8, <1>11, <2>1, GreatestOfNats
  <2>3. \E m \in S : \A x \in S : m >= x
    BY <1>8, <2>2
  <2>4. \A x \in S : Max(S) >= x /\ Max(S) \in S
    BY <2>3 DEF Max
  <2>5. QED
    BY <1>8, <2>4
<1>13. Max(S) \in Nat
  <2> HIDE DEF S
  <2>1. \E m \in S : \A x \in S : m >= x
    <3>1. S # {}
      BY DEF S
    <3>2. QED
      BY <1>8, <1>11, <3>1, GreatestOfNats
  <2>2. QED
    BY <1>8, <2>1 DEF Max
<1>14. Full(r) => ReserveAt(ch, t) >= r[Len(r) + 1 - GlobalMessages].at + GlobalWindow
  <2>1. SUFFICES ASSUME Full(r)
                 PROVE  ReserveAt(ch, t) >= r[Len(r) + 1 - GlobalMessages].at + GlobalWindow
    OBVIOUS
  <2>2. Len(r) + 1 - GlobalMessages \in first
    BY <2>1 DEF first
  <2>3. r[Len(r) + 1 - GlobalMessages].at + GlobalWindow \in S
    BY <2>2
  <2> HIDE DEF S
  <2>4. QED
    BY <1>2, <1>8, <1>12, <1>13, <2>3
<1>15. ASSUME NEW i \in mine, \A k \in mine : k <= i
       PROVE  ReserveAt(ch, t) >= r[i].at + ChannelSpacing
  <2>1. i \in last
    BY <1>15 DEF last
  <2>2. r[i].at + ChannelSpacing \in S
    BY <2>1
  <2> HIDE DEF S
  <2>3. QED
    BY <1>2, <1>8, <1>12, <1>13, <2>2
<1>16. QED
  BY <1>14, <1>15 DEF r

\* A send that reserveAt lets through at once fits in the list.
LEMMA AppendLimited ==
  ASSUME Limited(reservations), NEW t \in Nat, NEW ch \in Channels, blockedUntil \in Nat,
         ReserveAt(ch, t) = t
  PROVE  Limited(Append(Recent(t), [channel |-> ch, at |-> t]))
<1> DEFINE r == Recent(t)
           e == [channel |-> ch, at |-> t]
           s == Append(r, e)
           mine == {i \in 1..Len(r) : r[i].channel = ch}
<1>1. /\ Limited(r) /\ Len(r) \in Nat
      /\ \A i \in 1..Len(r) : r[i].at + GlobalWindow > t
  BY RecentLimited
<1>2. /\ Full(r) => t >= r[Len(r) + 1 - GlobalMessages].at + GlobalWindow
      /\ \A i \in mine : (\A k \in mine : k <= i) => t >= r[i].at + ChannelSpacing
  BY ReserveAtBounds
<1> HIDE DEF r
<1>3. /\ GlobalMessages \in Nat /\ GlobalMessages > 0
      /\ GlobalWindow \in Nat /\ ChannelSpacing \in Nat
  BY SendLedgerAssumption
<1>4. /\ r \in Seq([channel : Channels, at : Nat]) /\ e \in [channel : Channels, at : Nat]
      /\ \A i \in 1..Len(r) : r[i].at \in Nat
  <2>1. e \in [channel : Channels, at : Nat]
    OBVIOUS
  <2>2. r \in Reservations
    BY <1>1 DEF Limited
  <2> HIDE DEF e
  <2>3. QED
    BY <2>1, <2>2, Entries DEF Reservations
<1>5. Len(r) < GlobalMessages
  <2>1. SUFFICES ASSUME Full(r) PROVE FALSE
    BY <1>1, <1>3 DEF Full
  <2>2. Len(r) + 1 - GlobalMessages \in 1..Len(r)
    BY <1>1, <1>3, <2>1 DEF Full
  <2>3. PICK i \in 1..Len(r) : i = Len(r) + 1 - GlobalMessages
    BY <2>2
  <2>4. QED
    BY <1>1, <1>2, <1>3, <1>4, <2>1, <2>3
<1>6. ASSUME NEW i \in mine PROVE r[i].at + ChannelSpacing <= t
  <2>1. mine \in SUBSET Nat /\ mine # {} /\ \A x \in mine : x <= Len(r)
    BY <1>1, <1>6
  <2>2. PICK m \in mine : \A x \in mine : x <= m
    <3> HIDE DEF mine
    <3>1. QED
      BY <1>1, <2>1, GreatestOfNats
  <2>3. t >= r[m].at + ChannelSpacing
    BY <1>2, <2>2
  <2>4. CASE i = m
    BY <1>3, <1>4, <2>3, <2>4
  <2>5. CASE i # m
    <3>1. i < m /\ i \in 1..Len(r) /\ m \in 1..Len(r) /\ r[i].channel = r[m].channel
      BY <1>1, <1>6, <2>2, <2>5
    <3>2. r[i].at + ChannelSpacing <= r[m].at
      BY <1>1, <3>1 DEF Limited, Spaced
    <3>3. QED
      BY <1>3, <1>4, <2>3, <3>1, <3>2
  <2>6. QED
    BY <2>4, <2>5
<1>7. /\ s \in Reservations /\ Len(s) = Len(r) + 1
      /\ \A i \in 1..Len(r) : s[i] = r[i]
      /\ s[Len(r) + 1] = e
  BY <1>4 DEF Reservations
<1>8. Spaced(s)
  <2>1. SUFFICES ASSUME NEW i \in 1..Len(s), NEW j \in 1..Len(s), i < j,
                        s[i].channel = s[j].channel
                 PROVE  s[i].at + ChannelSpacing <= s[j].at
    BY DEF Spaced
  <2>2. i \in 1..Len(r) /\ s[i] = r[i]
    BY <1>1, <1>7, <2>1
  <2>3. CASE j \in 1..Len(r)
    BY <1>1, <1>7, <2>1, <2>2, <2>3 DEF Limited, Spaced
  <2>4. CASE j = Len(r) + 1
    <3>1. s[j].channel = ch /\ s[j].at = t
      BY <1>7, <2>4
    <3>2. i \in mine
      BY <2>1, <2>2, <3>1
    <3>3. QED
      BY <1>6, <2>2, <3>1, <3>2
  <2>5. QED
    BY <1>1, <1>7, <2>3, <2>4
<1>9. QED
  BY <1>1, <1>3, <1>5, <1>7, <1>8 DEF Limited, r

LEMMA StepLimited == LedgerTypeOK /\ Limited(reservations) /\ [Next]_vars => Limited(reservations)'
<1>1. SUFFICES ASSUME LedgerTypeOK, Limited(reservations), [Next]_vars
               PROVE  Limited(reservations')
  BY DEF Limited, Spaced
<1>2. CASE UNCHANGED reservations
  BY <1>1, <1>2
<1>3. ASSUME NEW c \in Calls, ReadLedger(c) \/ Claim(c) PROVE Limited(reservations')
  <2>1. /\ call[c].at \in Nat /\ Ch(c) \in Channels /\ blockedUntil \in Nat
    <3>1. call[c] \in CallRecords
      BY <1>1 DEF LedgerTypeOK
    <3>2. QED
      BY <1>1, <3>1, SendLedgerAssumption DEF LedgerTypeOK, CallRecords, Ch, Att
  <2>2. \/ reservations' = Recent(call[c].at)
        \/ /\ ReserveAt(Ch(c), call[c].at) = call[c].at
           /\ reservations' = Append(Recent(call[c].at), [channel |-> Ch(c), at |-> call[c].at])
    BY <1>3 DEF ReadLedger, Claim
  <2>3. QED
    BY <1>1, <2>1, <2>2, RecentLimited, AppendLimited
<1>4. CASE Reclaim
  BY <1>1, <1>4, RecentLimited DEF Reclaim, LedgerTypeOK
<1>5. QED
  <2>1. ASSUME NEW c \in Calls,
               \/ Start(c) \/ CheckUsable(c) \/ Refuse(c) \/ TakeToken(c) \/ EnterGate(c)
               \/ Send(c) \/ LoseResponse(c) \/ Complete(c)
               \/ TwitchAccepts(c) \/ TwitchRefuses(c)
        PROVE  UNCHANGED reservations
    BY <2>1 DEF Start, CheckUsable, Refuse, TakeToken, EnterGate, Send, LoseResponse, Complete,
                TwitchAccepts, TwitchRefuses, sendVars
  <2>2. ASSUME NEW ch \in Channels, ChangeChannel(ch) \/ RemoveChannel(ch)
        PROVE  UNCHANGED reservations
    BY <2>2 DEF ChangeChannel, RemoveChannel, sendVars
  <2>3. Renew \/ Invalidate \/ Crash \/ Deploy \/ Tick \/ UNCHANGED vars
          => UNCHANGED reservations
    BY DEF Renew, Invalidate, Crash, Deploy, Tick, vars, sendVars
  <2>4. QED
    BY <1>1, <1>2, <1>3, <1>4, <2>1, <2>2, <2>3 DEF Next, Dispatch

LEMMA LimitedKeepsLimit == Limited(reservations) => RateLimit
<1>1. SUFFICES ASSUME Limited(reservations) PROVE RateLimit
  OBVIOUS
<1> DEFINE s == reservations
           window(i) == {j \in DOMAIN s : s[j].at <= s[i].at /\ s[i].at < s[j].at + GlobalWindow}
           near(i) == {j \in window(i) : /\ s[j].channel = s[i].channel
                                         /\ s[i].at < s[j].at + ChannelSpacing}
<1>2. /\ DOMAIN s = 1..Len(s) /\ Len(s) \in Nat /\ Len(s) <= GlobalMessages
      /\ \A i \in 1..Len(s) : s[i].at \in Nat
  BY <1>1, Entries DEF Limited
<1>3. GlobalMessages \in Nat /\ GlobalWindow \in Nat /\ ChannelSpacing \in Nat
      /\ GlobalWindow > 0 /\ ChannelSpacing > 0
  BY SendLedgerAssumption
<1>4. ASSUME NEW i \in DOMAIN s PROVE Cardinality(window(i)) <= GlobalMessages
  <2>1. window(i) \in SUBSET (1..Len(s))
    BY <1>2
  <2> HIDE DEF window, s
  <2>2. Cardinality(window(i)) \in Nat /\ Cardinality(window(i)) <= Len(s)
    BY <1>2, <2>1, UptoFinite
  <2>3. QED
    BY <1>2, <1>3, <2>2
<1>5. ASSUME NEW i \in DOMAIN s PROVE near(i) = {i}
  <2>1. i \in 1..Len(s) /\ i \in near(i)
    BY <1>2, <1>3
  <2>2. ASSUME NEW j \in near(i), j # i PROVE FALSE
    <3>1. /\ j \in 1..Len(s) /\ s[j].channel = s[i].channel
          /\ s[j].at <= s[i].at /\ s[i].at < s[j].at + ChannelSpacing
      BY <1>2
    <3>2. CASE j < i
      <4>1. s[j].at + ChannelSpacing <= s[i].at
        BY <1>1, <2>1, <3>1, <3>2 DEF Limited, Spaced
      <4>2. QED
        BY <1>2, <1>3, <2>1, <3>1, <4>1
    <3>3. CASE i < j
      <4>1. s[i].at + ChannelSpacing <= s[j].at
        BY <1>1, <2>1, <3>1, <3>3 DEF Limited, Spaced
      <4>2. QED
        BY <1>2, <1>3, <2>1, <3>1, <4>1
    <3>4. QED
      BY <1>2, <2>1, <2>2, <3>1, <3>2, <3>3
  <2>3. QED
    BY <2>1, <2>2
<1>6. QED
  BY <1>4, <1>5 DEF RateLimit

LEMMA LimitedHolds == Spec => [](LedgerTypeOK /\ Limited(reservations))
<1>1. Init => Limited(reservations)
  BY SendLedgerAssumption DEF Init, Limited, Reservations, Spaced
<1>2. LedgerInv => LedgerTypeOK
  BY DEF LedgerInv
<1>3. QED
  BY <1>1, <1>2, StepLimited, LedgerInvariant, PTL DEF Spec

\* The ledger, the reservations, the calls and the wire keep their shape.
THEOREM LedgerTypeCorrect == Spec => []TypeOK
<1>1. LedgerTypeOK /\ Limited(reservations) => TypeOK
  BY DEF LedgerTypeOK, Limited, TypeOK
<1>2. QED
  BY <1>1, LimitedHolds, PTL

\* reserveAt (state.ts) holds the account to its messages per window and each
\* channel to one message per spacing, for every number of channels, calls and
\* instances, whatever clock readings the claims hold and in whatever order they
\* come.
THEOREM RateLimited == Spec => []RateLimit
<1>1. LedgerTypeOK /\ Limited(reservations) => RateLimit
  BY LimitedKeepsLimit
<1>2. QED
  BY <1>1, LimitedHolds, PTL

-----------------------------------------------------------------------------
(***************************************************************************)
(* dispatch implements the promise of Outbox, while no revisions overlap   *)
(* and as long as the ledger remembers.  The promise outlives the ledger's *)
(* memory only because nothing writes the row of an attempt whose deadline *)
(* has passed.  A call does write one when its clock reading is older than *)
(* that; RowsOutlastCalls says that no such call is older than a row.      *)
(***************************************************************************)
RowsOutlastCalls ==
  \A c \in Calls :
    call[c].pc \in {"refuse", "claim"} /\ call[c].at < Due(c) => now < RetainUntil(Att(c))

Answered(c, o) == call[c].pc = "done" /\ call[c].answer = o
Gone(row, a) == row.kind = "none" /\ RetainUntil(a) <= now

\* The row of an attempt that a candidate has, and one that keeps a print from being sent.
Backs(row, c) == StandsFor(row, c) /\ (row.kind = "terminal" => row.verdict # "rejected")
Bars(row, p) ==
  /\ row.kind # "none"
  /\ row.print = p => row.kind = "terminal" /\ row.verdict = "rejected"

\* Until it is reclaimed, a row tells what the calls of its attempt were told, and more.
RowSound(row, a) ==
  /\ \A c \in Calls : Att(c) = a =>
       /\ Candidate(c) => Backs(row, c) \/ Gone(row, a)
       /\ Answered(c, "rejected") => Bars(row, call[c].print) \/ Gone(row, a)
       /\ row.kind = "sending" /\ row.owner = c => row.print = call[c].print
  /\ row.kind = "terminal" /\ row.verdict = "sent" => posted[a] # {}

\* No call with that print has a POST that was or may be accepted.
NoCandidate(a, p) == \A d \in Calls : Candidate(d) /\ Att(d) = a => call[d].print # p

\* What a call is about to answer, or has answered, is true.
CallSound(c) ==
  /\ call[c].pc \notin {"idle", "done", "lost"} => Current(c)
  /\ call[c].pc \in {"usable", "refuse"} => call[c].at < Due(c)
  /\ call[c].pc = "complete" /\ call[c].reply = "sent" => c \in posted[Att(c)]
  /\ call[c].pc = "complete" /\ call[c].reply = "rejected" => Unsent(c)
  /\ Answered(c, "sent") => posted[Att(c)] # {}
  /\ Answered(c, "rejected") => NoCandidate(Att(c), call[c].print)

PromiseInv ==
  /\ \A a \in Attempts : RowSound(attempts[a], a)
  /\ \A c \in Calls : CallSound(c)

\* A step that only forgets leaves the rows sound.
Kept(row, a) == row = attempts[a] \/ (row = NoRow /\ RetainUntil(a) <= now)

LEMMA KeptSound ==
  ASSUME NEW a, RowSound(attempts[a], a), NEW row, Kept(row, a)
  PROVE  RowSound(row, a)
BY DEF Kept, RowSound, Gone, NoRow

\* A step of call c that is sound for its own row and answer is sound.
LEMMA SoundStep ==
  ASSUME LedgerInv, PromiseInv, NEW c \in Calls, StepsCall(c), UNCHANGED <<now, instance>>,
         \A b \in Attempts \ {Att(c)} : Kept(attempts'[b], b),
         RowSound(attempts'[Att(c)], Att(c)),
         \A b \in Attempts : posted[b] \subseteq posted'[b],
         \A d \in Calls \ {c} : Candidate(d)' => Candidate(d),
         \A d \in Calls \ {c} : Unsent(d) => Unsent(d)',
         Candidate(c)' =>
           \/ Candidate(c)
           \/ /\ Backs(attempts'[Att(c)], c)
              /\ \A d \in Calls : Answered(d, "rejected") /\ Att(d) = Att(c)
                   => call[d].print # call[c].print,
         call'[c].pc \notin {"idle", "done", "lost"} => Current(c)',
         call'[c].pc \in {"usable", "refuse"} => call'[c].at < Due(c),
         call'[c].pc = "complete" =>
           /\ call'[c].reply = "sent" => c \in posted'[Att(c)]
           /\ call'[c].reply = "rejected" => Unsent(c)',
         Answered(c, "sent")' => posted[Att(c)] # {},
         Answered(c, "rejected")' =>
           /\ Bars(attempts'[Att(c)], call[c].print) \/ Gone(attempts'[Att(c)], Att(c))
           /\ NoCandidate(Att(c), call[c].print) /\ ~Candidate(c)'
  PROVE  PromiseInv'
<1>1. /\ \A d \in Calls : Att(d)' = Att(d) /\ Due(d)' = Due(d) /\ call'[d].print = call[d].print
      /\ \A d \in Calls \ {c} : call'[d] = call[d]
      /\ \A d \in Calls : Att(d) \in Attempts
  BY OthersStay, CallType DEF LedgerInv
<1>2. \A b \in Attempts : RowSound(attempts'[b], b)
  BY KeptSound DEF PromiseInv
<1>3. ASSUME NEW a \in Attempts
      PROVE  RowSound(attempts[a], a)'
  <2> DEFINE row == attempts'[a]
  <2>1. ASSUME NEW d \in Calls, Att(d) = a
        PROVE  /\ Candidate(d)' => Backs(row, d) \/ Gone(row, a)
               /\ Answered(d, "rejected")' => Bars(row, call[d].print) \/ Gone(row, a)
               /\ row.kind = "sending" /\ row.owner = d => row.print = call[d].print
    <3>1. CASE d = c
      BY <1>2, <2>1, <3>1 DEF RowSound
    <3>2. CASE d # c
      <4>1. (Candidate(d)' => Candidate(d)) /\ (Answered(d, "rejected")' => Answered(d, "rejected"))
        BY <1>1, <3>2 DEF Answered
      <4> QED BY <1>2, <2>1, <4>1 DEF RowSound
    <3> QED BY <3>1, <3>2
  <2>2. row.kind = "terminal" /\ row.verdict = "sent" => posted'[a] # {}
    BY <1>2 DEF RowSound
  <2>3. \A d \in Calls : Backs(row, d) <=> Backs(attempts[a], d)'
    BY <1>1 DEF Backs, StandsFor
  <2>4. Gone(row, a) <=> Gone(attempts[a], a)'
    BY DEF Gone, RetainUntil
  <2>5. \A d \in Calls : Bars(row, call[d].print) <=> Bars(attempts[a], call[d].print)'
    BY <1>1 DEF Bars
  <2> QED BY <1>1, <2>1, <2>2, <2>3, <2>4, <2>5 DEF RowSound
<1>4. ASSUME NEW d \in Calls
      PROVE  CallSound(d)'
  <2>1. Answered(d, "rejected")' => NoCandidate(Att(d), call[d].print)'
    <3> SUFFICES ASSUME Answered(d, "rejected")', NEW e \in Calls, Candidate(e)', Att(e) = Att(d)
                 PROVE  call[e].print # call[d].print
      BY <1>1 DEF NoCandidate
    <3>1. CASE d = c
      BY <3>1 DEF NoCandidate
    <3>2. CASE d # c
      <4>1. Answered(d, "rejected") /\ NoCandidate(Att(d), call[d].print)
        BY <1>1, <3>2 DEF Answered, PromiseInv, CallSound
      <4> QED BY <4>1 DEF NoCandidate
    <3> QED BY <3>1, <3>2
  <2>2. CASE d = c
    <3>1. posted[Att(c)] \subseteq posted'[Att(c)]
      BY <1>1
    <3>2. Answered(c, "sent")' => posted'[Att(c)] # {}
      BY <3>1
    <3> QED BY <1>1, <2>1, <2>2, <3>2 DEF CallSound
  <2>3. CASE d # c
    <3>1. CallSound(d) /\ call'[d] = call[d] /\ posted[Att(d)] \subseteq posted'[Att(d)]
      BY <1>1, <2>3 DEF PromiseInv
    <3>2. Unsent(d) => Unsent(d)'
      BY <2>3
    <3> QED BY <1>1, <2>1, <3>1, <3>2 DEF CallSound, Answered, Current
  <2> QED BY <2>2, <2>3
<1> QED BY <1>3, <1>4 DEF PromiseInv

\* A step that sends no POST and hears of none: it may forget rows, replace the
\* row of its own call by a sound one, and answer or go on.
LEMMA QuietSound ==
  ASSUME LedgerInv, PromiseInv, NEW c \in Calls, StepsCall(c),
         UNCHANGED <<now, instance, wire, posted>>,
         \A b \in Attempts \ {Att(c)} : Kept(attempts'[b], b),
         RowSound(attempts'[Att(c)], Att(c)),
         call'[c].pc \notin {"send", "complete"},
         call'[c].pc # "done" => Current(c)',
         call'[c].pc \in {"usable", "refuse"} => call'[c].at < Due(c),
         Answered(c, "sent")' => posted[Att(c)] # {},
         Answered(c, "rejected")' =>
           /\ Bars(attempts'[Att(c)], call[c].print) \/ Gone(attempts'[Att(c)], Att(c))
           /\ NoCandidate(Att(c), call[c].print)
  PROVE  PromiseInv'
<1>1. /\ \A d \in Calls : Att(d)' = Att(d) /\ Due(d)' = Due(d) /\ call'[d].print = call[d].print
      /\ \A d \in Calls \ {c} : call'[d] = call[d]
  BY OthersStay DEF LedgerInv
<1>2. \A d \in Calls : Candidate(d)' => Candidate(d)
  BY <1>1 DEF Candidate
<1>3. \A d \in Calls : Unsent(d) => Unsent(d)'
  BY <1>1 DEF Unsent
<1>4. NoCandidate(Att(c), call[c].print) => ~Candidate(c)'
  BY <1>2 DEF NoCandidate
<1>5. \A b \in Attempts : posted[b] \subseteq posted'[b]
  OBVIOUS
<1> QED BY <1>2, <1>3, <1>4, <1>5, SoundStep

\* What the ledger answers from a sound row is true.
LEMMA RecordedSound ==
  ASSUME NEW c \in Calls, NEW row, RowSound(row, Att(c)), NEW o \in Recorded(row, c)
  PROVE  /\ o = "sent" => posted[Att(c)] # {}
         /\ o = "rejected" => /\ Bars(row, call[c].print) \/ Gone(row, Att(c))
                              /\ NoCandidate(Att(c), call[c].print)
<1>1. row.kind # "none"
  BY DEF Recorded
<1>2. \A d \in Calls : Candidate(d) /\ Att(d) = Att(c) => Backs(row, d)
  BY <1>1 DEF RowSound, Gone
<1>3. CASE row.print # call[c].print
  BY <1>1, <1>2, <1>3 DEF Recorded, Bars, NoCandidate, Backs, StandsFor
<1>4. CASE row.print = call[c].print
  <2>1. o = "sent" \/ o = "rejected" => row.kind = "terminal" /\ o = row.verdict
    BY <1>4 DEF Recorded
  <2>2. o = "sent" => posted[Att(c)] # {}
    BY <2>1 DEF RowSound
  <2>3. o = "rejected" => Bars(row, call[c].print)
    BY <1>1, <2>1 DEF Bars
  <2>4. o = "rejected" => NoCandidate(Att(c), call[c].print)
    BY <1>2, <2>1 DEF NoCandidate, Backs, StandsFor
  <2> QED BY <2>2, <2>3, <2>4
<1> QED BY <1>3, <1>4

\* The row of an interrupted send, settled as ambiguous.
LEMMA InterruptedSound ==
  ASSUME NEW a, NEW row \in Rows, RowSound(row, a), row.kind = "sending"
  PROVE  RowSound(Terminal(row.print, "ambiguous"), a)
<1> DEFINE new == Terminal(row.print, "ambiguous")
<1>1. new.kind = "terminal" /\ new.print = row.print /\ new.verdict = "ambiguous"
  BY DEF Terminal, NoRow
<1>2. \A c \in Calls : Backs(row, c) => Backs(new, c)
  BY <1>1 DEF Backs, StandsFor
<1>3. \A c \in Calls : Bars(row, call[c].print) => Bars(new, call[c].print)
  BY <1>1 DEF Bars
<1>4. ~Gone(row, a)
  BY DEF Gone
<1>5. ASSUME NEW c \in Calls, Att(c) = a
      PROVE  /\ Candidate(c) => Backs(new, c)
             /\ Answered(c, "rejected") => Bars(new, call[c].print)
  BY <1>2, <1>3, <1>4, <1>5 DEF RowSound
<1> HIDE DEF new
<1>6. RowSound(new, a)
  BY <1>1, <1>5 DEF RowSound
<1> QED BY <1>6 DEF new

\* A row that says nothing and is remembered has no candidate, and may be
\* replaced by one of its own print, or by a refusal.
LEMMA OpenRowSound ==
  ASSUME NEW a, NEW row, RowSound(row, a), ~Gone(row, a), row.kind \in {"none", "waiting"},
         NEW new, new.kind # "none",
         \/ new.kind = "terminal" /\ new.verdict = "rejected"
         \/ row.kind = "waiting" => new.print = row.print,
         \A c \in Calls : new.kind = "sending" /\ new.owner = c => new.print = call[c].print,
         ~(new.kind = "terminal" /\ new.verdict = "sent")
  PROVE  /\ RowSound(new, a)
         /\ \A c \in Calls : Att(c) = a => ~Candidate(c)
         /\ ~(new.kind = "terminal" /\ new.verdict = "rejected") =>
              \A c \in Calls : Answered(c, "rejected") /\ Att(c) = a => call[c].print # new.print
<1>1. \A c \in Calls : Att(c) = a => ~Candidate(c)
  BY DEF RowSound, Backs, StandsFor
<1>2. \A c \in Calls : Answered(c, "rejected") /\ Att(c) = a => Bars(row, call[c].print)
  BY DEF RowSound
<1>3. CASE new.kind = "terminal" /\ new.verdict = "rejected"
  <2>1. \A p : Bars(new, p)
    BY <1>3 DEF Bars
  <2> QED BY <1>1, <1>3, <2>1 DEF RowSound
<1>4. CASE ~(new.kind = "terminal" /\ new.verdict = "rejected")
  <2>1. \A c \in Calls : Answered(c, "rejected") /\ Att(c) = a => call[c].print # new.print
    BY <1>2, <1>4 DEF Bars
  <2>2. \A p : p # new.print => Bars(new, p)
    BY DEF Bars
  <2> QED BY <1>1, <1>4, <2>1, <2>2 DEF RowSound
<1> QED BY <1>3, <1>4

-----------------------------------------------------------------------------
(***************************************************************************)
(* The steps of dispatch keep the promise.                                 *)
(***************************************************************************)
LEMMA RowsKept ==
  ASSUME LedgerInv, attempts' = attempts
  PROVE  \A b : Kept(attempts'[b], b)
  BY DEF Kept

LEMMA StartSound ==
  ASSUME LedgerInv, PromiseInv, NEW c \in Calls, Start(c)
  PROVE  PromiseInv'
<1>1. /\ StepsCall(c) /\ call'[c].pc = "read" /\ call'[c].instance = instance
      /\ UNCHANGED <<now, instance, attempts, wire, posted>>
  BY DEF Start, StepsCall, LedgerInv, LedgerTypeOK, CallRecords, Phases, envVars, sendVars,
         twitchVars
<1>2. Att(c) \in Attempts /\ RowSound(attempts'[Att(c)], Att(c))
  BY <1>1, CallType DEF LedgerInv, PromiseInv
<1> QED BY <1>1, <1>2, RowsKept, QuietSound DEF Answered, Current

LEMMA ReadLedgerSound ==
  ASSUME LedgerInv, PromiseInv, NEW c \in Calls, ReadLedger(c)
  PROVE  PromiseInv'
<1> DEFINE t == call[c].at
           rows == ReclaimedRows(t)
           row == rows[Att(c)]
           interrupted == /\ row.kind = "sending" /\ row.print = call[c].print
                          /\ row.instance # call[c].instance \/ t >= Due(c)
           settled == Terminal(row.print, "ambiguous")
<1>1. /\ LedgerTypeOK /\ call \in [Calls -> CallRecords] /\ t \in Nat /\ t <= now
      /\ Att(c) \in Attempts /\ call[c].pc = "read"
  BY CallType DEF LedgerInv, LedgerTypeOK, ClocksPast, ReadLedger
<1>2. /\ rows \in [Attempts -> Rows] /\ row \in Rows
      /\ \A b \in Attempts : Kept(rows[b], b)
  BY <1>1, ReclaimKeeps DEF Kept
<1>3. RowSound(row, Att(c)) /\ Current(c)
  BY <1>1, <1>2, KeptSound DEF PromiseInv, CallSound
<1>4. UNCHANGED <<now, instance, wire, posted>>
  BY DEF ReadLedger, envVars, twitchVars
<1>5. attempts' = IF interrupted THEN [rows EXCEPT ![Att(c)] = settled] ELSE rows
  BY DEF ReadLedger
<1>6. \A b \in Attempts \ {Att(c)} : Kept(attempts'[b], b)
  BY <1>2, <1>5
<1>7. attempts'[Att(c)] = IF interrupted THEN settled ELSE row
  BY <1>1, <1>2, <1>5
<1>8. RowSound(attempts'[Att(c)], Att(c))
  BY <1>2, <1>3, <1>7, InterruptedSound
<1>9. ASSUME NEW o \in Outcomes, Answer(c, o),
             o \in Recorded(row, c) \/ o \notin {"sent", "rejected"}
      PROVE  PromiseInv'
  <2>1. StepsCall(c) /\ call'[c].pc = "done" /\ call'[c].answer = o
    BY <1>1, <1>9, AnswerSteps
  <2>2. o = "sent" => posted[Att(c)] # {}
    BY <1>3, <1>9, RecordedSound
  <2>3. o = "rejected" => /\ Bars(row, call[c].print) \/ Gone(row, Att(c))
                          /\ NoCandidate(Att(c), call[c].print)
    BY <1>3, <1>9, RecordedSound
  <2>4. o = "rejected" => attempts'[Att(c)] = row
    BY <1>7, <1>9 DEF Recorded
  <2> QED BY <1>4, <1>6, <1>8, <2>1, <2>2, <2>3, <2>4, QuietSound DEF Answered
<1>10. ASSUME t < Due(c), Goto(c, "usable") PROVE PromiseInv'
  <2>1. /\ StepsCall(c) /\ call'[c].pc = "usable" /\ call'[c].at = t
        /\ call'[c].instance = call[c].instance
    BY <1>1, <1>10, GotoSteps DEF Phases
  <2> QED BY <1>3, <1>4, <1>6, <1>8, <1>10, <2>1, QuietSound DEF Answered, Current
<1>11. Recorded(row, c) \subseteq Outcomes
  BY <1>1, <1>2, RecordedTypes
<1>12. \/ \E o \in Recorded(row, c) : Answer(c, o)
       \/ Answer(c, "expired")
       \/ t < Due(c) /\ Goto(c, "usable")
  BY <1>3 DEF ReadLedger
<1> QED BY <1>9, <1>10, <1>11, <1>12 DEF Outcomes

LEMMA CheckUsableSound ==
  ASSUME LedgerInv, PromiseInv, NEW c \in Calls, CheckUsable(c)
  PROVE  PromiseInv'
<1>1. /\ LedgerTypeOK /\ call \in [Calls -> CallRecords] /\ call[c].pc = "usable"
      /\ Att(c) \in Attempts
  BY CallType DEF LedgerInv, LedgerTypeOK, CheckUsable
<1>2. PICK pc \in {"token", "refuse"} : Goto(c, pc)
  BY DEF CheckUsable
<1>3. /\ StepsCall(c) /\ call'[c].pc = pc /\ call'[c].at = call[c].at
      /\ call'[c].instance = call[c].instance
  BY <1>1, <1>2, GotoSteps DEF Phases
<1>4. UNCHANGED <<now, instance, attempts, wire, posted>>
  BY DEF CheckUsable, envVars, sendVars, twitchVars
<1>5. Current(c) /\ call[c].at < Due(c) /\ RowSound(attempts'[Att(c)], Att(c))
  BY <1>1, <1>4 DEF PromiseInv, CallSound
<1> QED BY <1>3, <1>4, <1>5, RowsKept, QuietSound DEF Answered, Current

LEMMA TakeTokenSound ==
  ASSUME LedgerInv, PromiseInv, NEW c \in Calls, TakeToken(c)
  PROVE  PromiseInv'
<1>1. /\ LedgerTypeOK /\ call \in [Calls -> CallRecords] /\ call[c].pc = "token"
      /\ session \in Nat /\ minted \in Nat /\ Att(c) \in Attempts
  BY CallType DEF LedgerInv, LedgerTypeOK, TakeToken
<1>2. UNCHANGED <<now, instance, attempts, wire, posted>>
  BY DEF TakeToken, sendVars, twitchVars
<1>3. Current(c) /\ RowSound(attempts'[Att(c)], Att(c))
  BY <1>1, <1>2 DEF PromiseInv, CallSound
<1>4. /\ StepsCall(c) /\ call'[c].instance = call[c].instance
      /\ call'[c].pc = "gate" \/ (call'[c].pc = "done" /\ call'[c].answer \notin {"sent", "rejected"})
  <2>1. ASSUME NEW o \in {"retryable", "expired"}, Answer(c, o)
        PROVE  <1>4!1 /\ call'[c].pc = "done" /\ call'[c].answer \notin {"sent", "rejected"}
    BY <1>1, <2>1, AnswerSteps DEF Outcomes
  <2>2. ASSUME NEW n \in Nat, call' = [call EXCEPT ![c].pc = "gate", ![c].token = n]
        PROVE  <1>4!1 /\ call'[c].pc = "gate"
    BY <1>1, <2>2 DEF StepsCall, CallRecords, Phases
  <2>3. \/ \E o \in {"retryable", "expired"} : Answer(c, o)
        \/ \E n \in Nat : call' = [call EXCEPT ![c].pc = "gate", ![c].token = n]
    BY <1>1 DEF TakeToken, RetryOrExpire
  <2> QED BY <2>1, <2>2, <2>3
<1> QED BY <1>2, <1>3, <1>4, RowsKept, QuietSound DEF Answered, Current

LEMMA EnterGateSound ==
  ASSUME LedgerInv, PromiseInv, NEW c \in Calls, EnterGate(c)
  PROVE  PromiseInv'
<1>1. /\ StepsCall(c) /\ call'[c].pc = "claim" /\ call'[c].instance = call[c].instance
      /\ UNCHANGED <<now, instance, attempts, wire, posted>>
  BY DEF EnterGate, Reading, StepsCall, LedgerInv, LedgerTypeOK, CallRecords, Phases, envVars,
         sendVars, twitchVars
<1>2. Att(c) \in Attempts /\ RowSound(attempts'[Att(c)], Att(c)) /\ Current(c)
  BY <1>1, CallType DEF LedgerInv, PromiseInv, CallSound, EnterGate
<1> QED BY <1>1, <1>2, RowsKept, QuietSound DEF Answered, Current

\* A refusal made from a clock reading that is no older than the row's retention.
LEMMA RefuseSound ==
  ASSUME LedgerInv, PromiseInv, RowsOutlastCalls, NEW c \in Calls, Refuse(c)
  PROVE  PromiseInv'
<1> DEFINE a == Att(c)
           p == call[c].print
           row == Row(c)
           new == Terminal(p, "rejected")
<1>1. /\ LedgerTypeOK /\ call \in [Calls -> CallRecords] /\ call[c].pc = "refuse"
      /\ a \in Attempts /\ row \in Rows /\ attempts \in [Attempts -> Rows]
      /\ RetainUntil(a) \in Nat /\ now \in Nat
  BY CallType, SendLedgerAssumption
  DEF LedgerInv, LedgerTypeOK, Refuse, SendLedgerAssumption, RetainUntil
<1>2. RowSound(row, a) /\ call[c].at < Due(c) /\ now < RetainUntil(a)
  BY <1>1 DEF PromiseInv, CallSound, Row, RowsOutlastCalls
<1>3. ~Gone(row, a)
  BY <1>1, <1>2 DEF Gone
<1>4. UNCHANGED <<now, instance, wire, posted>>
  BY DEF Refuse, envVars, sendVars, twitchVars
<1>5. CASE row.kind = "sending" /\ Answer(c, "ambiguous") /\ UNCHANGED attempts
  <2>1. StepsCall(c) /\ call'[c].pc = "done" /\ call'[c].answer = "ambiguous"
    BY <1>1, <1>5, AnswerSteps DEF Outcomes
  <2> QED BY <1>2, <1>4, <1>5, <2>1, RowsKept, QuietSound DEF Answered, Row
<1>6. CASE row.kind = "terminal" /\ Answer(c, row.verdict) /\ UNCHANGED attempts
  <2>1. StepsCall(c) /\ call'[c].pc = "done" /\ call'[c].answer = row.verdict
    BY <1>1, <1>6, AnswerSteps DEF Outcomes, Rows, Verdicts
  <2>2. row.verdict = "sent" => posted[a] # {}
    BY <1>2, <1>6 DEF RowSound
  <2>3. row.verdict = "rejected" => Bars(row, p)
    BY <1>6 DEF Bars
  <2>4. row.verdict = "rejected" => NoCandidate(a, p)
    <3>1. \A d \in Calls : Candidate(d) /\ Att(d) = a => Backs(row, d)
      BY <1>2, <1>3 DEF RowSound
    <3> QED BY <1>6, <3>1 DEF Backs, NoCandidate
  <2> QED BY <1>2, <1>4, <1>6, <2>1, <2>2, <2>3, <2>4, RowsKept, QuietSound DEF Answered, Row
<1>7. CASE /\ row.kind \in {"none", "waiting"}
           /\ attempts' = [attempts EXCEPT ![a] = new]
           /\ Answer(c, "rejected")
  <2>1. StepsCall(c) /\ call'[c].pc = "done" /\ call'[c].answer = "rejected"
    BY <1>1, <1>7, AnswerSteps DEF Outcomes
  <2>2. new.kind = "terminal" /\ new.verdict = "rejected"
    BY DEF Terminal, NoRow
  <2>3. attempts'[a] = new /\ \A b \in Attempts \ {a} : Kept(attempts'[b], b)
    BY <1>1, <1>7 DEF Kept
  <2> HIDE DEF new
  <2>4. RowSound(new, a) /\ \A d \in Calls : Att(d) = a => ~Candidate(d)
    BY <1>2, <1>3, <1>7, <2>2, OpenRowSound
  <2>5. Bars(new, p) /\ NoCandidate(a, p)
    BY <2>2, <2>4 DEF Bars, NoCandidate
  <2> QED BY <1>4, <2>1, <2>3, <2>4, <2>5, QuietSound DEF Answered
<1> QED BY <1>5, <1>6, <1>7 DEF Refuse

\* The claim, from a clock reading that is no older than the row's retention.
LEMMA ClaimSound ==
  ASSUME LedgerInv, PromiseInv, RowsOutlastCalls, NEW c \in Calls, Claim(c)
  PROVE  PromiseInv'
<1> DEFINE t == call[c].at
           a == Att(c)
           rows == ReclaimedRows(t)
           row == rows[a]
           p == call[c].print
           refused == Terminal(p, "rejected")
           mine == Sending(p, c, call[c].instance)
           open == Recorded(row, c) = {} /\ t < Due(c)
           Record(new) == attempts' = [rows EXCEPT ![a] = new]
<1>1. /\ LedgerTypeOK /\ call \in [Calls -> CallRecords] /\ t \in Nat /\ t <= now
      /\ a \in Attempts /\ call[c].pc = "claim" /\ Due(c) \in Nat /\ p \in Prints
      /\ now \in Nat /\ call[c].instance \in Nat
  BY CallType DEF LedgerInv, LedgerTypeOK, ClocksPast, Claim, CallRecords
<1>1a. RetainUntil(a) \in Nat
  BY <1>1, SendLedgerAssumption DEF SendLedgerAssumption, RetainUntil
<1>2. /\ rows \in [Attempts -> Rows] /\ row \in Rows
      /\ \A b \in Attempts : Kept(rows[b], b)
  BY <1>1, ReclaimKeeps DEF Kept
<1>3. RowSound(row, a) /\ Current(c)
  BY <1>1, <1>2, KeptSound DEF PromiseInv, CallSound
<1>4. UNCHANGED <<now, instance, wire, posted>>
  BY DEF Claim, envVars, twitchVars
<1>5. ASSUME NEW o \in Outcomes, Answer(c, o), attempts' = rows,
             o \in Recorded(row, c) \/ o \notin {"sent", "rejected"}
      PROVE  PromiseInv'
  <2>1. StepsCall(c) /\ call'[c].pc = "done" /\ call'[c].answer = o
    BY <1>1, <1>5, AnswerSteps
  <2>2. o = "sent" => posted[a] # {}
    BY <1>3, <1>5, RecordedSound
  <2>3. o = "rejected" => /\ Bars(row, p) \/ Gone(row, a)
                          /\ NoCandidate(a, p)
    BY <1>3, <1>5, RecordedSound
  <2> QED BY <1>2, <1>3, <1>4, <1>5, <2>1, <2>2, <2>3, QuietSound DEF Answered
<1>6. open => ~Gone(row, a)
  <2>1. t < Due(c) => now < RetainUntil(a)
    BY <1>1 DEF RowsOutlastCalls
  <2> QED BY <1>1a, <1>1, <2>1 DEF Gone
<1>7. open => row.kind = "none" \/ (row.kind = "waiting" /\ row.print = p)
  BY <1>2 DEF Recorded, Rows, Kinds
<1>8. ASSUME NEW new, Record(new), open, new.kind # "none", new.print = p,
             new.kind = "sending" => new.owner = c,
             ~(new.kind = "terminal" /\ new.verdict = "sent")
      PROVE  /\ \A b \in Attempts \ {a} : Kept(attempts'[b], b)
             /\ attempts'[a] = new /\ RowSound(new, a)
             /\ NoCandidate(a, p)
             /\ ~(new.kind = "terminal" /\ new.verdict = "rejected") =>
                  \A d \in Calls : Answered(d, "rejected") /\ Att(d) = a => call[d].print # p
  <2>1. attempts'[a] = new /\ \A b \in Attempts \ {a} : Kept(attempts'[b], b)
    BY <1>1, <1>2, <1>8
  <2>2. \A d \in Calls : new.kind = "sending" /\ new.owner = d => new.print = call[d].print
    BY <1>8
  <2>3. row.kind = "waiting" => new.print = row.print
    BY <1>7, <1>8
  <2>4. row.kind \in {"none", "waiting"}
    BY <1>7, <1>8
  <2>5. /\ RowSound(new, a)
        /\ \A d \in Calls : Att(d) = a => ~Candidate(d)
        /\ ~(new.kind = "terminal" /\ new.verdict = "rejected") =>
             \A d \in Calls : Answered(d, "rejected") /\ Att(d) = a => call[d].print # new.print
    BY <1>3, <1>6, <1>8, <2>2, <2>3, <2>4, OpenRowSound
  <2> QED BY <1>8, <2>1, <2>5 DEF NoCandidate
<1>9. ASSUME open, Record(refused), Answer(c, "rejected") PROVE PromiseInv'
  <2>1. StepsCall(c) /\ call'[c].pc = "done" /\ call'[c].answer = "rejected"
    BY <1>1, <1>9, AnswerSteps DEF Outcomes
  <2>2. refused.kind = "terminal" /\ refused.verdict = "rejected" /\ refused.print = p
    BY DEF Terminal, NoRow
  <2> HIDE DEF refused
  <2>3. /\ \A b \in Attempts \ {a} : Kept(attempts'[b], b)
        /\ attempts'[a] = refused /\ RowSound(refused, a) /\ NoCandidate(a, p)
    BY <1>8, <1>9, <2>2
  <2>4. Bars(refused, p)
    BY <2>2 DEF Bars
  <2> QED BY <1>4, <2>1, <2>3, <2>4, QuietSound DEF Answered
<1>10. ASSUME NEW new \in {Terminal(p, "expired"), Waiting(p)}, Record(new), open,
              NEW o \in {"expired", "retryable"}, Answer(c, o)
       PROVE  PromiseInv'
  <2>1. StepsCall(c) /\ call'[c].pc = "done" /\ call'[c].answer \notin {"sent", "rejected"}
    BY <1>1, <1>10, AnswerSteps DEF Outcomes
  <2>2. /\ new.kind \in {"terminal", "waiting"} /\ new.print = p
        /\ new.kind = "terminal" => new.verdict = "expired"
    BY <1>10 DEF Terminal, Waiting, NoRow
  <2>3. /\ \A b \in Attempts \ {a} : Kept(attempts'[b], b)
        /\ attempts'[a] = new /\ RowSound(new, a)
    BY <1>8, <1>10, <2>2
  <2> QED BY <1>4, <2>1, <2>3, QuietSound DEF Answered
<1>11. ASSUME open, Record(mine), Goto(c, "send") PROVE PromiseInv'
  <2>1. /\ StepsCall(c) /\ call'[c].pc = "send" /\ call'[c].at = t
        /\ call'[c].instance = call[c].instance
    BY <1>1, <1>11, GotoSteps DEF Phases
  <2>2. mine.kind = "sending" /\ mine.owner = c /\ mine.print = p
    BY DEF Sending, NoRow
  <2> HIDE DEF mine
  <2>3. /\ \A b \in Attempts \ {a} : Kept(attempts'[b], b)
        /\ attempts'[a] = mine /\ RowSound(mine, a)
        /\ \A d \in Calls : Answered(d, "rejected") /\ Att(d) = a => call[d].print # p
    BY <1>8, <1>11, <2>2
  <2>4. Backs(mine, c)
    BY <2>2 DEF Backs, StandsFor
  <2>5. /\ \A d \in Calls : Att(d)' = Att(d)
        /\ \A d \in Calls \ {c} : call'[d] = call[d]
        /\ Current(c)'
    BY <1>1, <1>3, <1>4, <2>1, OthersStay DEF Current
  <2>6. /\ \A d \in Calls \ {c} : Candidate(d)' => Candidate(d)
        /\ \A d \in Calls \ {c} : Unsent(d) => Unsent(d)'
    BY <1>4, <2>5 DEF Candidate, Unsent, Due
  <2>7. \A b \in Attempts : posted[b] \subseteq posted'[b]
    BY <1>4
  <2>8. ~Answered(c, "sent")' /\ ~Answered(c, "rejected")'
    BY <2>1 DEF Answered
  <2> QED BY <1>4, <2>1, <2>3, <2>4, <2>5, <2>6, <2>7, <2>8, SoundStep
<1>12. Recorded(row, c) \subseteq Outcomes
  BY <1>1, <1>2, RecordedTypes
<1>13. \/ /\ attempts' = rows
          /\ \E o \in Recorded(row, c) \cup {"expired", "retryable"} : Answer(c, o)
       \/ open /\ Record(refused) /\ Answer(c, "rejected")
       \/ /\ open
          /\ \E o \in {"expired", "retryable"} : Answer(c, o)
          /\ \E new \in {Terminal(p, "expired"), Waiting(p)} : Record(new)
       \/ open /\ Record(mine) /\ Goto(c, "send")
  BY DEF Claim, RetryOrExpire
<1> QED BY <1>5, <1>9, <1>10, <1>11, <1>12, <1>13 DEF Outcomes

\* The completion writes only over the row its own call put in "sending".
LEMMA CompleteSound ==
  ASSUME LedgerInv, PromiseInv, NEW c \in Calls, Complete(c)
  PROVE  PromiseInv'
<1> DEFINE a == Att(c)
           p == call[c].print
           row == Row(c)
           v == VerdictOf(call[c].reply)
<1>1. /\ LedgerTypeOK /\ call \in [Calls -> CallRecords] /\ call[c].pc = "complete"
      /\ a \in Attempts /\ attempts \in [Attempts -> Rows] /\ p \in Prints
      /\ call[c].reply \in Replies
  BY CallType DEF LedgerInv, LedgerTypeOK, Complete, CallRecords
<1>2. RowSound(row, a) /\ CallSound(c)
  BY <1>1 DEF PromiseInv, Row
<1>3. UNCHANGED <<now, instance, wire, posted>>
  BY DEF Complete, twitchVars
<1>4. CASE Answer(c, "ambiguous") /\ UNCHANGED attempts
  <2>1. StepsCall(c) /\ call'[c].pc = "done" /\ call'[c].answer = "ambiguous"
    BY <1>1, <1>4, AnswerSteps DEF Outcomes
  <2> QED BY <1>2, <1>3, <1>4, <2>1, RowsKept, QuietSound DEF Answered, Row
<1>5. ASSUME Owns(c)
      PROVE  /\ \A d \in Calls : Candidate(d) /\ Att(d) = a => d = c
             /\ call[c].reply \in Repeatable \cup {"rejected"} => ~Candidate(c)
             /\ \A d \in Calls : Answered(d, "rejected") /\ Att(d) = a => call[d].print # p
  <2>1. row.kind = "sending" /\ row.owner = c /\ row.print = p /\ ~Gone(row, a)
    BY <1>2, <1>5 DEF Owns, RowSound, Gone
  <2>2. \A d \in Calls : Candidate(d) /\ Att(d) = a => d = c
    BY <1>2, <2>1 DEF RowSound, Backs, StandsFor
  <2>3. \A d \in Calls : Answered(d, "rejected") /\ Att(d) = a => call[d].print # p
    BY <1>2, <2>1 DEF RowSound, Bars
  <2>4. call[c].reply \in Repeatable \cup {"rejected"} => Unsent(c)
    BY <1>1, <1>2 DEF LedgerInv, PostPlace, CallSound
  <2> QED BY <1>1, <2>2, <2>3, <2>4 DEF Unsent, Candidate
<1>6. CASE /\ Owns(c) /\ call[c].reply \in Repeatable /\ Answer(c, "retryable")
           /\ attempts' = [attempts EXCEPT ![a] = Waiting(p)]
  <2>1. StepsCall(c) /\ call'[c].pc = "done" /\ call'[c].answer = "retryable"
    BY <1>1, <1>6, AnswerSteps DEF Outcomes
  <2>2. Waiting(p).kind = "waiting" /\ Waiting(p).print = p
    BY DEF Waiting, NoRow
  <2>3. attempts'[a] = Waiting(p) /\ \A b \in Attempts \ {a} : Kept(attempts'[b], b)
    BY <1>1, <1>6 DEF Kept
  <2>4. \A d \in Calls : Answered(d, "rejected") /\ Att(d) = a => Bars(Waiting(p), call[d].print)
    BY <1>5, <1>6, <2>2 DEF Bars
  <2>5. \A d \in Calls : Att(d) = a => ~Candidate(d)
    BY <1>5, <1>6
  <2>6. RowSound(Waiting(p), a)
    BY <2>2, <2>4, <2>5 DEF RowSound
  <2> QED BY <1>3, <2>1, <2>3, <2>6, QuietSound DEF Answered
<1>7. CASE /\ Owns(c) /\ Answer(c, v)
           /\ attempts' = [attempts EXCEPT ![a] = Terminal(p, v)]
  <2>1. v \in Verdicts /\ (v \in {"sent", "rejected"} => call[c].reply = v)
    BY DEF VerdictOf, Verdicts
  <2>2. StepsCall(c) /\ call'[c].pc = "done" /\ call'[c].answer = v
    BY <1>1, <1>7, <2>1, AnswerSteps DEF Outcomes, Verdicts
  <2>3. /\ Terminal(p, v).kind = "terminal" /\ Terminal(p, v).print = p
        /\ Terminal(p, v).verdict = v
    BY DEF Terminal, NoRow
  <2>4. attempts'[a] = Terminal(p, v) /\ \A b \in Attempts \ {a} : Kept(attempts'[b], b)
    BY <1>1, <1>7 DEF Kept
  <2>5. v = "sent" => posted[a] # {}
    BY <1>1, <1>2, <2>1 DEF CallSound
  <2>6. v = "rejected" => \A d \in Calls : Att(d) = a => ~Candidate(d)
    BY <1>5, <1>7, <2>1
  <2>7. \A d \in Calls : Candidate(d) /\ Att(d) = a => Backs(Terminal(p, v), d)
    BY <1>5, <1>7, <2>3, <2>6 DEF Backs, StandsFor
  <2>8. \A d \in Calls : Answered(d, "rejected") /\ Att(d) = a
                           => Bars(Terminal(p, v), call[d].print)
    BY <1>5, <1>7, <2>3 DEF Bars
  <2>9. RowSound(Terminal(p, v), a)
    BY <2>3, <2>5, <2>7, <2>8 DEF RowSound
  <2>10. v = "rejected" => Bars(Terminal(p, v), p) /\ NoCandidate(a, p)
    BY <2>3, <2>6 DEF Bars, NoCandidate
  <2> QED BY <1>3, <2>2, <2>4, <2>5, <2>9, <2>10, QuietSound DEF Answered
<1> QED BY <1>4, <1>6, <1>7 DEF Complete

-----------------------------------------------------------------------------
(***************************************************************************)
(* The POST and the surroundings keep the promise.                         *)
(***************************************************************************)
\* A step of call c that leaves the rows alone: it sends, or hears of, its POST.
LEMMA PostSound ==
  ASSUME LedgerInv, PromiseInv, NEW c \in Calls, StepsCall(c),
         UNCHANGED <<now, instance, attempts>>,
         call'[c] = call[c] \/ call'[c].pc \in {"posting", "complete"},
         call'[c].pc \in {"posting", "complete"} => Current(c)',
         Candidate(c) \/ Unsent(c)',
         Candidate(c)' => Candidate(c),
         \A b \in Attempts : posted[b] \subseteq posted'[b],
         \A d \in Calls \ {c} : d \in wire' <=> d \in wire,
         \A d \in Calls \ {c} : d \in posted'[Att(d)] <=> d \in posted[Att(d)],
         call'[c].pc = "complete" =>
           /\ call'[c].reply = "sent" => c \in posted'[Att(c)]
           /\ call'[c].reply = "rejected" => Unsent(c)'
  PROVE  PromiseInv'
<1>1. /\ \A d \in Calls : Att(d)' = Att(d) /\ Due(d)' = Due(d) /\ call'[d].print = call[d].print
      /\ \A d \in Calls \ {c} : call'[d] = call[d]
      /\ Att(c) \in Attempts
  BY OthersStay, CallType DEF LedgerInv
<1>2. \A b \in Attempts \ {Att(c)} : Kept(attempts'[b], b)
  BY RowsKept
<1>3. RowSound(attempts'[Att(c)], Att(c)) /\ CallSound(c)
  BY <1>1 DEF PromiseInv
<1>4. \A d \in Calls \ {c} : (Candidate(d)' => Candidate(d)) /\ (Unsent(d) => Unsent(d)')
  BY <1>1 DEF Candidate, Unsent
<1>5. call'[c].pc \notin {"idle", "done", "lost"} => Current(c)'
  BY <1>3 DEF CallSound, Current
<1>6. call'[c].pc \in {"usable", "refuse"} => call'[c].at < Due(c)
  BY <1>3 DEF CallSound
<1>7. Answered(c, "sent")' => posted[Att(c)] # {}
  BY <1>3 DEF CallSound, Answered
<1>8. Answered(c, "rejected")' =>
        /\ Bars(attempts'[Att(c)], call[c].print) \/ Gone(attempts'[Att(c)], Att(c))
        /\ NoCandidate(Att(c), call[c].print) /\ ~Candidate(c)'
  <2>1. Answered(c, "rejected")' => Answered(c, "rejected")
    BY DEF Answered
  <2> QED BY <1>3, <2>1 DEF CallSound, RowSound, NoCandidate
<1> QED BY <1>2, <1>3, <1>4, <1>5, <1>6, <1>7, <1>8, SoundStep

LEMMA SendSound ==
  ASSUME LedgerInv, PromiseInv, NEW c \in Calls, Send(c)
  PROVE  PromiseInv'
<1>1. /\ LedgerTypeOK /\ call \in [Calls -> CallRecords] /\ call[c] \in CallRecords
      /\ call[c].pc = "send" /\ now \in Nat /\ Due(c) \in Nat /\ Att(c) \in Attempts
  BY CallType DEF LedgerInv, LedgerTypeOK, Send
<1>2. UNCHANGED <<now, instance, attempts, posted>>
  BY DEF Send, envVars, sendVars
<1>3. Unsent(c) /\ Current(c)
  BY <1>1 DEF LedgerInv, PostPlace, BeforePost, PromiseInv, CallSound
<1>4. CASE now >= Due(c)
  <2> DEFINE new == [call[c] EXCEPT !.pc = "complete", !.at = now, !.reply = "expired",
                                    !.reset = 0]
  <2>1. call' = [call EXCEPT ![c] = new] /\ wire' = wire
    <3>1. /\ call' = [call EXCEPT ![c].pc = "complete", ![c].at = now,
                                  ![c].reply = "expired", ![c].reset = 0]
          /\ wire' = wire
      BY <1>1, <1>4 DEF Send
    <3> QED BY <3>1, Zenon
  <2>2. /\ new \in CallRecords /\ new.pc = "complete" /\ new.reply = "expired"
        /\ new.attempt = call[c].attempt /\ new.print = call[c].print
        /\ new.instance = call[c].instance
    BY <1>1 DEF CallRecords, Phases, Replies, Verdicts
  <2>3. call'[c] = new
    BY <1>1, <2>1
  <2> HIDE DEF new
  <2>4. StepsCall(c)
    BY <2>1, <2>2, <2>3 DEF StepsCall
  <2>5. Att(c)' = Att(c) /\ Unsent(c)' /\ Current(c)' /\ ~Candidate(c)'
    BY <1>2, <1>3, <2>1, <2>2, <2>3 DEF Att, Unsent, Current, Candidate
  <2> QED BY <1>2, <2>1, <2>2, <2>3, <2>4, <2>5, PostSound
<1>5. CASE now < Due(c)
  <2>1. Goto(c, "posting") /\ wire' = wire \cup {c}
    BY <1>1, <1>5 DEF Send
  <2>2. /\ StepsCall(c) /\ call'[c].pc = "posting"
        /\ call'[c].instance = call[c].instance
    BY <1>1, <2>1, GotoSteps DEF Phases
  <2>3. Candidate(c) /\ Current(c)'
    BY <1>1, <1>2, <1>3, <1>5, <2>2 DEF Candidate, Current
  <2> QED BY <1>2, <2>1, <2>2, <2>3, PostSound
<1> QED BY <1>1, <1>4, <1>5

LEMMA LoseResponseSound ==
  ASSUME LedgerInv, PromiseInv, NEW c \in Calls, LoseResponse(c)
  PROVE  PromiseInv'
<1>1. /\ LedgerTypeOK /\ call \in [Calls -> CallRecords] /\ now \in Nat /\ Current(c)
  BY DEF LedgerInv, LedgerTypeOK, PromiseInv, CallSound, LoseResponse
<1>2. UNCHANGED <<now, instance, attempts, wire, posted>> /\ Receive(c, "ambiguous", 0)
  BY DEF LoseResponse, envVars, sendVars, twitchVars
<1>3. /\ StepsCall(c) /\ call'[c].pc = "complete" /\ call'[c].reply = "ambiguous"
      /\ call'[c].instance = call[c].instance
  BY <1>1, <1>2, ReceiveSteps DEF Replies, Verdicts
<1>4. Att(c)' = Att(c)
  BY <1>1, <1>3, OthersStay
<1>5. /\ Candidate(c)' => Candidate(c)
      /\ Candidate(c) \/ Unsent(c)'
      /\ Current(c)'
  BY <1>1, <1>2, <1>3, <1>4 DEF Candidate, Unsent, Current
<1> QED BY <1>2, <1>3, <1>5, PostSound

\* Twitch's answer reaches a call of the current instance, or nobody.
LEMMA HeardSound ==
  ASSUME LedgerInv, PromiseInv, NEW c \in Calls, HearsOf(c), c \in wire,
         call' = call \/ call[c].pc = "posting", UNCHANGED <<now, instance>>
  PROVE  /\ call'[c] = call[c] \/ call'[c].pc = "complete"
         /\ call'[c].pc \in {"posting", "complete"} => Current(c)'
<1>1. /\ LedgerTypeOK /\ call \in [Calls -> CallRecords] /\ now \in Nat
      /\ CallSound(c)
  BY DEF LedgerInv, LedgerTypeOK, PromiseInv
<1>2. CASE call' = call
  BY <1>1, <1>2 DEF CallSound, Current
<1>3. ASSUME call[c].pc = "posting", NEW r \in Replies, NEW until \in Nat, Receive(c, r, until)
      PROVE  call'[c].pc = "complete" /\ Current(c)'
  <2>1. call'[c].pc = "complete" /\ call'[c].instance = call[c].instance
    BY <1>1, <1>3, ReceiveSteps
  <2> QED BY <1>1, <1>3, <2>1 DEF CallSound, Current
<1> QED BY <1>2, <1>3 DEF HearsOf

LEMMA TwitchAcceptsSound ==
  ASSUME LedgerInv, PromiseInv, NEW c \in Calls, TwitchAccepts(c)
  PROVE  PromiseInv'
<1>1. /\ LedgerTypeOK /\ call \in [Calls -> CallRecords] /\ now \in Nat
      /\ Att(c) \in Attempts /\ wire \in SUBSET Calls
      /\ posted \in [Attempts -> SUBSET Calls] /\ ResetTimes \subseteq Nat
  BY CallType, ResetTimesType DEF LedgerInv, LedgerTypeOK
<1>2. /\ UNCHANGED <<now, instance, attempts>>
      /\ c \in wire /\ wire' = wire \ {c}
      /\ posted' = [posted EXCEPT ![Att(c)] = @ \cup {c}]
  BY DEF TwitchAccepts, envVars, sendVars
<1>3. /\ call' = call \/ call[c].pc = "posting"
      /\ call' = call \/ \E r \in {"sent", "ambiguous"}, until \in Nat : Receive(c, r, until)
      /\ HearsOf(c)
  BY <1>1 DEF TwitchAccepts, HearsOf, Replies, Verdicts
<1>4. /\ StepsCall(c) /\ \A d \in Calls : Att(d)' = Att(d)
      /\ Candidate(c) /\ c \notin posted[Att(c)]
  BY <1>2, <1>3, HearsSteps, OnTheWire
<1>5. /\ posted'[Att(c)] = posted[Att(c)] \cup {c}
      /\ \A b \in Attempts : posted'[b] = posted[b] \/ b = Att(c)
  BY <1>1, <1>2
<1>6. \A d \in Calls \ {c} : d \in posted'[Att(d)] <=> d \in posted[Att(d)]
  <2>1. \A d \in Calls : Att(d) \in Attempts
    BY <1>1, CallType
  <2> QED BY <1>5, <2>1
<1>7. call'[c].pc = "complete" => call'[c].reply # "rejected"
  <2>1. CASE call' = call
    <3>1. ~Unsent(c)
      BY <1>2 DEF Unsent
    <3> QED BY <2>1, <3>1 DEF PromiseInv, CallSound
  <2>2. ASSUME NEW r \in {"sent", "ambiguous"}, NEW until \in Nat, Receive(c, r, until)
        PROVE  call'[c].reply # "rejected"
    BY <1>1, <2>2, ReceiveSteps DEF Replies, Verdicts
  <2> QED BY <1>3, <2>1, <2>2
<1>8. \A b \in Attempts : posted[b] \subseteq posted'[b]
  BY <1>5
<1>9. \A d \in Calls \ {c} : d \in wire' <=> d \in wire
  BY <1>2
<1>10. /\ call'[c] = call[c] \/ call'[c].pc = "complete"
       /\ call'[c].pc \in {"posting", "complete"} => Current(c)'
  BY <1>2, <1>3, HeardSound
<1>11. c \in posted'[Att(c)]
  BY <1>5
<1> QED BY <1>2, <1>4, <1>6, <1>7, <1>8, <1>9, <1>10, <1>11, PostSound

LEMMA TwitchRefusesSound ==
  ASSUME LedgerInv, PromiseInv, NEW c \in Calls, TwitchRefuses(c)
  PROVE  PromiseInv'
<1>1. /\ LedgerTypeOK /\ call \in [Calls -> CallRecords] /\ now \in Nat
      /\ Att(c) \in Attempts /\ wire \in SUBSET Calls /\ ResetTimes \subseteq Nat
  BY CallType, ResetTimesType DEF LedgerInv, LedgerTypeOK
<1>2. /\ UNCHANGED <<now, instance, attempts, posted>>
      /\ c \in wire /\ wire' = wire \ {c}
  BY DEF TwitchRefuses, envVars, sendVars
<1>3. (call' = call \/ call[c].pc = "posting") /\ HearsOf(c)
  <2>1. now + LimitRetry \in Nat
    BY <1>1, SendLedgerAssumption DEF SendLedgerAssumption
  <2>2. \A until \in ResetTimes : Max({now + LimitRetry, until}) \in Nat
    BY <1>1, <2>1, MaxOfTwo
  <2> QED BY <1>1, <2>2 DEF TwitchRefuses, HearsOf, Replies, Verdicts
<1>4. /\ StepsCall(c) /\ Att(c)' = Att(c)
      /\ Candidate(c) /\ c \notin posted[Att(c)]
  BY <1>2, <1>3, HearsSteps, OnTheWire
<1>5. Unsent(c)'
  BY <1>2, <1>4 DEF Unsent
<1>6. /\ call'[c] = call[c] \/ call'[c].pc = "complete"
      /\ call'[c].pc \in {"posting", "complete"} => Current(c)'
  BY <1>2, <1>3, HeardSound
<1>7. call'[c].pc = "complete" => call'[c].reply # "sent"
  <2>1. CASE call' = call
    BY <1>4, <2>1 DEF PromiseInv, CallSound
  <2>2. CASE call' # call
    <3>1. \E r \in Replies \ {"sent"}, until \in Nat : Receive(c, r, until)
      <4>1. now + LimitRetry \in Nat
        BY <1>1, SendLedgerAssumption DEF SendLedgerAssumption
      <4>2. \A until \in ResetTimes : Max({now + LimitRetry, until}) \in Nat
        BY <1>1, <4>1, MaxOfTwo
      <4> QED BY <1>1, <2>2, <4>2 DEF TwitchRefuses, Replies, Verdicts
    <3> QED BY <1>1, <3>1, ReceiveSteps
  <2> QED BY <2>1, <2>2
<1> QED BY <1>2, <1>4, <1>5, <1>6, <1>7, PostSound

\* The steps that leave the calls, the instance and the POSTs alone, and every row sound.
LEMMA OutsideSound ==
  ASSUME LedgerInv, PromiseInv, UNCHANGED <<instance, call, wire, posted>>,
         now' = now \/ now' = now + 1,
         \A a \in Attempts : RowSound(attempts'[a], a)
  PROVE  PromiseInv'
<1>1. LedgerTypeOK /\ now \in Nat /\ \A c \in Calls : Due(c) \in Nat /\ Att(c) \in Attempts
  BY CallType DEF LedgerInv, LedgerTypeOK
<1>2. \A c \in Calls : Att(c)' = Att(c) /\ Due(c)' = Due(c)
  BY DEF Att, Due
<1>3. \A c \in Calls : Candidate(c)' => Candidate(c)
  BY <1>1, <1>2 DEF Candidate
<1>4. \A c \in Calls : \A o : Answered(c, o)' <=> Answered(c, o)
  BY DEF Answered
<1>5. ASSUME NEW a \in Attempts PROVE RowSound(attempts[a], a)'
  <2> DEFINE row == attempts'[a]
  <2>1. RetainUntil(a) \in Nat
    BY SendLedgerAssumption DEF SendLedgerAssumption, RetainUntil
  <2>2. Gone(row, a) => Gone(attempts[a], a)'
    BY <1>1, <2>1 DEF Gone, RetainUntil
  <2>3. \A c \in Calls : Backs(row, c) => Backs(attempts[a], c)'
    BY DEF Backs, StandsFor
  <2>4. \A c \in Calls : Bars(row, call[c].print) => Bars(attempts[a], call[c].print)'
    BY DEF Bars
  <2>5. RowSound(row, a)
    OBVIOUS
  <2>6. ASSUME NEW c \in Calls, Att(c)' = a
        PROVE  /\ Candidate(c)' => Backs(attempts[a], c)' \/ Gone(attempts[a], a)'
               /\ Answered(c, "rejected")' => Bars(attempts[a], call[c].print)'
                                                \/ Gone(attempts[a], a)'
               /\ row.kind = "sending" /\ row.owner = c => row.print = call'[c].print
    BY <1>2, <1>3, <1>4, <2>2, <2>3, <2>4, <2>5, <2>6 DEF RowSound
  <2>7. row.kind = "terminal" /\ row.verdict = "sent" => posted'[a] # {}
    BY <2>5 DEF RowSound
  <2> QED BY <2>6, <2>7 DEF RowSound
<1>6. ASSUME NEW c \in Calls PROVE CallSound(c)'
  <2>1. \A a, p : NoCandidate(a, p) => NoCandidate(a, p)'
    BY <1>2, <1>3 DEF NoCandidate
  <2>2. Unsent(c) => Unsent(c)'
    BY <1>2 DEF Unsent
  <2>3. CallSound(c)
    BY DEF PromiseInv
  <2> QED BY <1>2, <1>4, <2>1, <2>2, <2>3 DEF CallSound, Current
<1> QED BY <1>5, <1>6 DEF PromiseInv

\* A channel's removal settles only rows that have no candidate.
LEMMA RemoveChannelSound ==
  ASSUME LedgerInv, PromiseInv, NEW ch \in Channels, RemoveChannel(ch)
  PROVE  PromiseInv'
<1>1. UNCHANGED <<now, instance, call, wire, posted>>
  BY DEF RemoveChannel, sendVars, twitchVars
<1>2. ASSUME NEW a \in Attempts PROVE RowSound(attempts'[a], a)
  <2> DEFINE new == Terminal(attempts[a].print, "rejected")
  <2>1. RowSound(attempts[a], a)
    BY DEF PromiseInv
  <2>2. CASE attempts'[a] = attempts[a]
    BY <2>1, <2>2
  <2>3. CASE attempts[a].kind = "waiting" /\ attempts'[a] = new
    <3>1. new.kind = "terminal" /\ new.verdict = "rejected"
      BY DEF Terminal, NoRow
    <3>2. ~Gone(attempts[a], a)
      BY <2>3 DEF Gone
    <3> HIDE DEF new
    <3>3. RowSound(new, a)
      BY <2>1, <2>3, <3>1, <3>2, OpenRowSound
    <3> QED BY <2>3, <3>3
  <2> QED BY <2>2, <2>3 DEF RemoveChannel
<1> QED BY <1>1, <1>2, OutsideSound

\* A crash makes no candidate and answers nobody.
LEMMA CrashSound ==
  ASSUME LedgerInv, PromiseInv, Crash
  PROVE  PromiseInv'
<1>1. LedgerTypeOK /\ call \in [Calls -> CallRecords]
  BY DEF LedgerInv, LedgerTypeOK
<1>2. UNCHANGED <<now, attempts, wire, posted>>
  BY DEF Crash, envVars, sendVars, twitchVars
<1>3. \A d \in Calls :
        /\ call'[d].attempt = call[d].attempt /\ call'[d].print = call[d].print
        /\ call'[d].answer = call[d].answer
        /\ \/ call'[d].pc = "lost"
           \/ call'[d].pc = call[d].pc /\ call[d].pc \in {"idle", "done"}
  BY <1>1 DEF Crash, CallRecords, Phases
<1>4. \A d \in Calls : Att(d)' = Att(d) /\ Due(d)' = Due(d)
  BY <1>3 DEF Att, Due
<1>5. \A d \in Calls : Candidate(d)' => Candidate(d)
  BY <1>2, <1>3, <1>4 DEF Candidate
<1>6. \A d \in Calls : \A o : Answered(d, o)' => Answered(d, o)
  BY <1>3 DEF Answered
<1>7. ASSUME NEW a \in Attempts PROVE RowSound(attempts[a], a)'
  <2> DEFINE row == attempts[a]
  <2>1. RowSound(row, a)
    BY DEF PromiseInv
  <2>2. Gone(row, a) => Gone(row, a)'
    BY <1>2 DEF Gone, RetainUntil
  <2>3. \A c \in Calls : Backs(row, c) => Backs(row, c)'
    BY <1>2, <1>3 DEF Backs, StandsFor
  <2>4. \A c \in Calls : Bars(row, call[c].print) => Bars(row, call[c].print)'
    BY <1>2, <1>3 DEF Bars
  <2>5. ASSUME NEW c \in Calls, Att(c)' = a
        PROVE  /\ Candidate(c)' => Backs(row, c)' \/ Gone(row, a)'
               /\ Answered(c, "rejected")' => Bars(row, call[c].print)' \/ Gone(row, a)'
               /\ (row.kind = "sending" /\ row.owner = c => row.print = call[c].print)'
    BY <1>2, <1>3, <1>4, <1>5, <1>6, <2>1, <2>2, <2>3, <2>4, <2>5 DEF RowSound
  <2>6. (row.kind = "terminal" /\ row.verdict = "sent" => posted[a] # {})'
    BY <1>2, <2>1 DEF RowSound
  <2> QED BY <2>5, <2>6 DEF RowSound
<1>8. ASSUME NEW c \in Calls PROVE CallSound(c)'
  <2>1. \A a : NoCandidate(a, call[c].print) => NoCandidate(a, call[c].print)'
    BY <1>3, <1>4, <1>5 DEF NoCandidate
  <2>2. CallSound(c)
    BY DEF PromiseInv
  <2>3. Answered(c, "sent")' => posted'[Att(c)'] # {}
    BY <1>2, <1>4, <1>6, <2>2 DEF CallSound
  <2>4. Answered(c, "rejected")' => NoCandidate(Att(c), call[c].print)'
    BY <1>4, <1>6, <2>1, <2>2 DEF CallSound
  <2>5. call'[c].pc \in {"idle", "done", "lost"}
    BY <1>3
  <2> QED BY <2>3, <2>4, <2>5 DEF CallSound
<1> QED BY <1>7, <1>8 DEF PromiseInv

LEMMA ReclaimSound ==
  ASSUME LedgerInv, PromiseInv, Reclaim
  PROVE  PromiseInv'
<1>1. LedgerTypeOK /\ now \in Nat /\ now <= now
  BY DEF LedgerInv, LedgerTypeOK
<1>2. UNCHANGED <<now, instance, call, wire, posted>> /\ attempts' = ReclaimedRows(now)
  BY DEF Reclaim, envVars, twitchVars
<1>3. \A a \in Attempts : Kept(attempts'[a], a)
  BY <1>1, <1>2, ReclaimKeeps DEF Kept
<1>4. \A a \in Attempts : RowSound(attempts'[a], a)
  BY <1>3, KeptSound DEF PromiseInv
<1> QED BY <1>2, <1>4, OutsideSound

LEMMA InitPromise == Init => PromiseInv
<1> SUFFICES ASSUME Init PROVE PromiseInv
  OBVIOUS
<1>1. \A c \in Calls : call[c].pc = "idle" /\ Att(c) \in Attempts
  BY DEF Init, Att
<1>2. \A c \in Calls : ~Candidate(c) /\ \A o : ~Answered(c, o)
  BY <1>1 DEF Init, Candidate, Answered
<1>3. \A a \in Attempts : attempts[a].kind = "none"
  BY DEF Init, NoRow
<1>4. \A a \in Attempts : RowSound(attempts[a], a)
  BY <1>2, <1>3 DEF RowSound
<1>5. \A c \in Calls : CallSound(c)
  BY <1>1, <1>2 DEF CallSound
<1> QED BY <1>4, <1>5 DEF PromiseInv

LEMMA StepPromise ==
  ASSUME ~Overlap, LedgerInv, PromiseInv, RowsOutlastCalls, [Next]_vars
  PROVE  PromiseInv'
<1>1. ASSUME UNCHANGED <<now, instance, attempts, call, wire, posted>> PROVE PromiseInv'
  BY <1>1, OutsideSound DEF PromiseInv
<1>2. ASSUME NEW c \in Calls, Start(c) PROVE PromiseInv'
  BY <1>2, StartSound
<1>3. ASSUME NEW c \in Calls, Dispatch(c) PROVE PromiseInv'
  BY <1>3, ReadLedgerSound, CheckUsableSound, RefuseSound, TakeTokenSound, EnterGateSound,
     ClaimSound, SendSound, LoseResponseSound, CompleteSound DEF Dispatch
<1>4. ASSUME NEW c \in Calls, TwitchAccepts(c) \/ TwitchRefuses(c) PROVE PromiseInv'
  BY <1>4, TwitchAcceptsSound, TwitchRefusesSound
<1>5. ASSUME NEW ch \in Channels, ChangeChannel(ch) \/ RemoveChannel(ch) PROVE PromiseInv'
  <2>1. CASE ChangeChannel(ch)
    BY <1>1, <2>1 DEF ChangeChannel, sendVars, twitchVars
  <2> QED BY <1>5, <2>1, RemoveChannelSound
<1>6. CASE Renew \/ Invalidate
  BY <1>1, <1>6 DEF Renew, Invalidate, sendVars, twitchVars
<1>7. CASE Reclaim \/ Crash
  BY <1>7, ReclaimSound, CrashSound
<1>8. ~Deploy
  BY DEF Deploy
<1>9. CASE Tick
  <2>1. now' = now + 1 /\ UNCHANGED <<instance, attempts, call, wire, posted>>
    BY <1>9 DEF Tick, envVars, sendVars, twitchVars
  <2>2. \A a \in Attempts : RowSound(attempts'[a], a)
    BY <2>1 DEF PromiseInv
  <2> QED BY <2>1, <2>2, OutsideSound
<1>10. CASE UNCHANGED vars
  BY <1>1, <1>10 DEF vars
<1> QED BY <1>2, <1>3, <1>4, <1>5, <1>6, <1>7, <1>8, <1>9, <1>10 DEF Next

-----------------------------------------------------------------------------
(***************************************************************************)
(* The step simulation.  A step either promises nothing new and has no     *)
(* POST accepted, or answers one call, or has one POST accepted.           *)
(***************************************************************************)
NothingPromised ==
  /\ posted' = posted
  /\ \A c \in Calls :
       /\ call'[c].attempt = call[c].attempt /\ call'[c].print = call[c].print
       /\ call'[c].pc = "done" <=> call[c].pc = "done"
       /\ call[c].pc = "done" => call'[c].answer = call[c].answer

Answers(c) ==
  /\ StepsCall(c) /\ posted' = posted
  /\ call[c].pc # "done" /\ call'[c].pc = "done"

\* A step of a call that has not been answered answers it or promises nothing.
LEMMA CallStepKinds ==
  ASSUME LedgerInv, NEW c \in Calls, StepsCall(c), call[c].pc # "done", posted' = posted
  PROVE  NothingPromised \/ Answers(c)
<1>1. /\ \A d \in Calls \ {c} : call'[d] = call[d]
      /\ call'[c].attempt = call[c].attempt /\ call'[c].print = call[c].print
  BY OthersStay DEF LedgerInv, StepsCall
<1> QED BY <1>1 DEF NothingPromised, Answers

LEMMA DispatchKinds ==
  ASSUME LedgerInv, NEW c \in Calls, Start(c) \/ Dispatch(c)
  PROVE  NothingPromised \/ Answers(c)
<1>1. /\ LedgerTypeOK /\ call \in [Calls -> CallRecords] /\ call[c] \in CallRecords
      /\ now \in Nat /\ session \in Nat /\ minted \in Nat
  BY DEF LedgerInv, LedgerTypeOK
<1>2. posted' = posted
  BY DEF Start, Dispatch, ReadLedger, CheckUsable, Refuse, TakeToken, EnterGate, Claim, Send,
         LoseResponse, Complete, twitchVars
<1>3. call[c].pc # "done"
  BY DEF Start, Dispatch, ReadLedger, CheckUsable, Refuse, TakeToken, EnterGate, Claim, Send,
         LoseResponse, Complete
<1>4. ASSUME NEW o \in Outcomes, Answer(c, o) PROVE StepsCall(c)
  BY <1>1, <1>4, AnswerSteps
<1>5. ASSUME NEW pc \in Phases, Goto(c, pc) PROVE StepsCall(c)
  BY <1>1, <1>5, GotoSteps
<1>6. ASSUME Start(c) \/ EnterGate(c) PROVE StepsCall(c)
  BY <1>1, <1>6 DEF Start, EnterGate, Reading, StepsCall, CallRecords, Phases
<1>7. ASSUME ReadLedger(c) \/ Claim(c) PROVE StepsCall(c)
  <2>1. \A row \in Rows : Recorded(row, c) \subseteq Outcomes
    BY <1>1, RecordedTypes
  <2>2. ReclaimedRows(call[c].at)[Att(c)] \in Rows
    BY <1>1, CallType, ReclaimKeeps DEF LedgerInv, ClocksPast
  <2>3. \/ \E o \in Outcomes : Answer(c, o)
        \/ \E pc \in {"usable", "send"} : Goto(c, pc)
    <3>1. Recorded(ReclaimedRows(call[c].at)[Att(c)], c) \subseteq Outcomes
      BY <2>1, <2>2
    <3>2. CASE ReadLedger(c)
      BY <3>1, <3>2 DEF ReadLedger, Outcomes
    <3>3. CASE Claim(c)
      BY <3>1, <3>3 DEF Claim, RetryOrExpire, Outcomes
    <3> QED BY <1>7, <3>2, <3>3
  <2> QED BY <1>4, <1>5, <2>3 DEF Phases
<1>8. ASSUME CheckUsable(c) PROVE StepsCall(c)
  BY <1>5, <1>8 DEF CheckUsable, Phases
<1>9. ASSUME Refuse(c) PROVE StepsCall(c)
  <2>1. Row(c) \in Rows
    BY <1>1, CallType
  <2>2. \E o \in Outcomes : Answer(c, o)
    BY <1>9, <2>1 DEF Refuse, Rows, Verdicts, Outcomes
  <2> QED BY <1>4, <2>2
<1>10. ASSUME TakeToken(c) PROVE StepsCall(c)
  <2>1. ASSUME NEW n \in Nat, call' = [call EXCEPT ![c].pc = "gate", ![c].token = n]
        PROVE  StepsCall(c)
    BY <1>1, <2>1 DEF StepsCall, CallRecords, Phases
  <2>2. \/ \E o \in Outcomes : Answer(c, o)
        \/ \E n \in Nat : call' = [call EXCEPT ![c].pc = "gate", ![c].token = n]
    BY <1>1, <1>10 DEF TakeToken, RetryOrExpire, Outcomes
  <2> QED BY <1>4, <2>1, <2>2
<1>11. ASSUME Send(c) PROVE StepsCall(c)
  <2>1. CASE Goto(c, "posting")
    BY <1>5, <2>1 DEF Phases
  <2>2. CASE call' = [call EXCEPT ![c].pc = "complete", ![c].at = now,
                                  ![c].reply = "expired", ![c].reset = 0]
    <3> DEFINE new == [call[c] EXCEPT !.pc = "complete", !.at = now, !.reply = "expired",
                                      !.reset = 0]
    <3>1. call' = [call EXCEPT ![c] = new]
      BY <2>2, Zenon
    <3>2. new \in CallRecords /\ new.attempt = call[c].attempt /\ new.print = call[c].print
      BY <1>1 DEF CallRecords, Phases, Replies, Verdicts
    <3> HIDE DEF new
    <3>3. call'[c] = new
      BY <1>1, <3>1
    <3> QED BY <3>1, <3>2, <3>3 DEF StepsCall
  <2> QED BY <1>11, <2>1, <2>2 DEF Send
<1>12. ASSUME LoseResponse(c) PROVE StepsCall(c)
  BY <1>1, <1>12, ReceiveSteps DEF LoseResponse, Replies, Verdicts
<1>13. ASSUME Complete(c) PROVE StepsCall(c)
  <2>1. \E o \in Outcomes : Answer(c, o)
    BY <1>13 DEF Complete, VerdictOf, Outcomes, Verdicts
  <2> QED BY <1>4, <2>1
<1>14. StepsCall(c)
  BY <1>6, <1>7, <1>8, <1>9, <1>10, <1>11, <1>12, <1>13 DEF Dispatch
<1> QED BY <1>2, <1>3, <1>14, CallStepKinds

LEMMA StepKinds ==
  ASSUME LedgerInv, [Next]_vars
  PROVE  NothingPromised \/ (\E c \in Calls : Answers(c) \/ TwitchAccepts(c))
<1>1. LedgerTypeOK /\ call \in [Calls -> CallRecords] /\ ResetTimes \subseteq Nat /\ now \in Nat
  BY ResetTimesType DEF LedgerInv, LedgerTypeOK
<1>2. ASSUME UNCHANGED <<call, posted>> PROVE NothingPromised
  BY <1>2 DEF NothingPromised
<1>3. ASSUME NEW c \in Calls, TwitchRefuses(c) PROVE NothingPromised
  <2>1. posted' = posted
    BY <1>3 DEF TwitchRefuses
  <2>2. CASE call[c].pc = "posting"
    <3>1. now + LimitRetry \in Nat
      BY <1>1, SendLedgerAssumption DEF SendLedgerAssumption
    <3>2. \A until \in ResetTimes : Max({now + LimitRetry, until}) \in Nat
      BY <1>1, <3>1, MaxOfTwo
    <3>3. \E r \in Replies, until \in Nat : Receive(c, r, until)
      BY <1>1, <1>3, <2>2, <3>2 DEF TwitchRefuses, Replies, Verdicts
    <3>4. StepsCall(c) /\ call'[c].pc = "complete"
      BY <1>1, <3>3, ReceiveSteps
    <3> QED BY <2>1, <2>2, <3>4, CallStepKinds DEF Answers
  <2>3. CASE call[c].pc # "posting"
    BY <1>2, <1>3, <2>1, <2>3 DEF TwitchRefuses
  <2> QED BY <2>2, <2>3
<1>4. ASSUME NEW ch \in Channels, ChangeChannel(ch) \/ RemoveChannel(ch) PROVE NothingPromised
  BY <1>2, <1>4 DEF ChangeChannel, RemoveChannel, twitchVars
<1>5. CASE Renew \/ Invalidate \/ Reclaim \/ Deploy \/ Tick
  BY <1>2, <1>5 DEF Renew, Invalidate, Reclaim, Deploy, Tick, twitchVars
<1>6. CASE Crash
  <2>1. \A d \in Calls :
          /\ call'[d].attempt = call[d].attempt /\ call'[d].print = call[d].print
          /\ call'[d].answer = call[d].answer
          /\ call'[d].pc = "done" <=> call[d].pc = "done"
    BY <1>1, <1>6 DEF Crash, CallRecords, Phases
  <2> QED BY <1>6, <2>1 DEF Crash, NothingPromised, twitchVars
<1>7. CASE UNCHANGED vars
  BY <1>2, <1>7 DEF vars
<1> QED BY <1>3, <1>4, <1>5, <1>6, <1>7, DispatchKinds DEF Next

\* The print Twitch accepted is that of a call which posted it.
LEMMA AcceptedPrintOf ==
  ASSUME NEW a, posted[a] # {}
  PROVE  \E c \in posted[a] : AcceptedPrint(a) = call[c].print
  BY DEF AcceptedPrint

LEMMA NothingPromisedStutters ==
  ASSUME LedgerInv, NothingPromised
  PROVE  UNCHANGED Promise!obVars
<1>1. \A a \in Attempts : posted[a] \subseteq Calls
  BY DEF LedgerInv, LedgerTypeOK
<1>2. ASSUME NEW a \in Attempts PROVE AcceptedPrint(a)' = AcceptedPrint(a)
  <2>1. posted' = posted
    BY DEF NothingPromised
  <2>2. CASE posted[a] = {}
    BY <2>1, <2>2 DEF AcceptedPrint
  <2>3. CASE posted[a] # {}
    <3> DEFINE w == CHOOSE c \in posted[a] : TRUE
    <3>1. w \in Calls
      BY <1>1, <2>3
    <3>2. call'[w].print = call[w].print
      BY <3>1 DEF NothingPromised
    <3> QED BY <2>1, <2>3, <3>2 DEF AcceptedPrint
  <2> QED BY <2>2, <2>3
<1>3. ASSUME NEW a \in Attempts, NEW p \in Prints PROVE Told(a, p)' = Told(a, p)
  BY DEF Told, NothingPromised
<1> QED BY <1>2, <1>3 DEF Promise!obVars

\* The abstract state as the refinement mapping gives it.
Accepted == [a \in Attempts |-> AcceptedPrint(a)]
ToldOf == [a \in Attempts |-> [p \in Prints |-> Told(a, p)]]

\* An answer is one told promise, a true one, or no promise at all.
LEMMA AnswerTells ==
  ASSUME LedgerInv, LedgerInv', PromiseInv', NEW c \in Calls, Answers(c)
  PROVE  Promise!OutboxNext \/ UNCHANGED Promise!obVars
<1> DEFINE a == Att(c)
           p == call[c].print
           o == call'[c].answer
<1>1. /\ \A d \in Calls : Att(d)' = Att(d) /\ call'[d].print = call[d].print
      /\ \A d \in Calls \ {c} : call'[d] = call[d]
      /\ a \in Attempts /\ p \in Prints
      /\ call[c].pc # "done" /\ call'[c].pc = "done"
      /\ posted' = posted
      /\ \A b \in Attempts : posted[b] \subseteq Calls
  BY OthersStay, CallType DEF Answers, LedgerInv, LedgerTypeOK, CallRecords
<1>2. UNCHANGED Accepted
  <2>1. ASSUME NEW b \in Attempts PROVE AcceptedPrint(b)' = AcceptedPrint(b)
    <3>1. CASE posted[b] = {}
      BY <1>1, <3>1 DEF AcceptedPrint
    <3>2. CASE posted[b] # {}
      <4>1. (CHOOSE d \in posted[b] : TRUE) \in Calls
        BY <1>1, <3>2
      <4> QED BY <1>1, <3>2, <4>1 DEF AcceptedPrint
    <3> QED BY <3>1, <3>2
  <2> QED BY <2>1 DEF Accepted
<1>3. ASSUME NEW b \in Attempts, NEW q \in Prints
      PROVE  Told(b, q)' = IF b = a /\ q = p THEN Told(b, q) \cup ({o} \cap {"sent", "rejected"})
                                             ELSE Told(b, q)
  <2> DEFINE Of(d) == call[d].pc = "done" /\ call[d].attempt = b /\ call[d].print = q
  <2>1. \A d \in Calls \ {c} : (Of(d)' <=> Of(d)) /\ call'[d].answer = call[d].answer
    BY <1>1
  <2>2. ~Of(c) /\ (Of(c)' <=> b = a /\ q = p)
    BY <1>1 DEF Att
  <2>3. ASSUME NEW x
        PROVE  /\ x \in Told(b, q) <=>
                    x \in {"sent", "rejected"} /\ \E d \in Calls : Of(d) /\ x = call[d].answer
               /\ x \in Told(b, q)' <=>
                    x \in {"sent", "rejected"} /\ \E d \in Calls : Of(d)' /\ x = call'[d].answer
    BY DEF Told
  <2> HIDE DEF Of
  <2>4. ASSUME NEW x
        PROVE  x \in Told(b, q)' <=>
                 \/ x \in Told(b, q)
                 \/ b = a /\ q = p /\ x = o /\ x \in {"sent", "rejected"}
    <3>1. (\E d \in Calls : Of(d)' /\ x = call'[d].answer) <=>
            \/ \E d \in Calls : Of(d) /\ x = call[d].answer
            \/ b = a /\ q = p /\ x = o
      BY <2>1, <2>2
    <3> QED BY <2>3, <3>1
  <2> QED BY <2>4
<1>4. CASE o \notin {"sent", "rejected"}
  <2>1. \A b \in Attempts, q \in Prints : Told(b, q)' = Told(b, q)
    BY <1>3, <1>4
  <2>2. UNCHANGED ToldOf
    BY <2>1 DEF ToldOf
  <2> QED BY <1>2, <2>2 DEF Promise!obVars, Accepted, ToldOf
<1>5. CASE o \in {"sent", "rejected"}
  <2>1. ToldOf' = [ToldOf EXCEPT ![a] = [ToldOf[a] EXCEPT ![p] = ToldOf[a][p] \cup {o}]]
    <3>1. \A b \in Attempts, q \in Prints :
            Told(b, q)' = IF b = a /\ q = p THEN Told(b, q) \cup {o} ELSE Told(b, q)
      BY <1>3, <1>5
    <3> QED BY <1>1, <3>1 DEF ToldOf
  <2>2. o = "sent" => Accepted[a] # NoPrint
    <3>1. ASSUME o = "sent" PROVE posted[a] # {}
      <4>1. CallSound(c)' /\ Answered(c, "sent")'
        BY <1>1, <3>1 DEF PromiseInv, Answered
      <4> QED BY <1>1, <4>1 DEF CallSound
    <3>2. \A d \in Calls : call[d].print \in Prints
      BY DEF LedgerInv, LedgerTypeOK, CallRecords
    <3>3. NoPrint \notin Prints
      BY SendLedgerAssumption DEF SendLedgerAssumption
    <3> QED BY <1>1, <3>1, <3>2, <3>3, AcceptedPrintOf DEF Accepted
  <2>3. o = "rejected" => Accepted[a] # p
    <3>1. SUFFICES ASSUME o = "rejected" PROVE Accepted[a] # p
      OBVIOUS
    <3>2. CASE posted[a] = {}
      BY <1>1, <3>2, SendLedgerAssumption DEF SendLedgerAssumption, Accepted, AcceptedPrint
    <3>3. CASE posted[a] # {}
      <4>1. PICK d \in posted[a] : AcceptedPrint(a) = call[d].print
        BY <3>3, AcceptedPrintOf
      <4>2. d \in Calls /\ Att(d) = a /\ d \in posted'[Att(d)']
        BY <1>1, <4>1 DEF LedgerInv, PostedHome
      <4>3. Candidate(d)'
        BY <4>2 DEF Candidate
      <4>4. CallSound(c)' /\ Answered(c, "rejected")'
        BY <1>1, <3>1 DEF PromiseInv, Answered
      <4>5. NoCandidate(Att(c), call[c].print)'
        BY <4>4 DEF CallSound
      <4>6. call'[d].print # call'[c].print
        BY <1>1, <4>2, <4>3, <4>5 DEF NoCandidate
      <4> QED BY <1>1, <4>1, <4>2, <4>6 DEF Accepted
    <3> QED BY <3>2, <3>3
  <2>4. Promise!Tell(a, p, o)
    BY <1>2, <2>1, <2>2, <2>3 DEF Promise!Tell, Accepted, ToldOf
  <2> QED BY <1>1, <1>5, <2>4 DEF Promise!OutboxNext, Promise!Promises
<1> QED BY <1>4, <1>5

\* An accepted POST is the attempt's first, and of a print nobody was told is rejected.
LEMMA AcceptAccepts ==
  ASSUME LedgerInv, PromiseInv, NEW c \in Calls, TwitchAccepts(c)
  PROVE  Promise!OutboxNext
<1> DEFINE a == Att(c)
           p == call[c].print
<1>1. /\ LedgerTypeOK /\ call \in [Calls -> CallRecords] /\ now \in Nat
      /\ a \in Attempts /\ p \in Prints /\ ResetTimes \subseteq Nat
      /\ posted \in [Attempts -> SUBSET Calls]
  BY CallType, ResetTimesType DEF LedgerInv, LedgerTypeOK, CallRecords
<1>2. /\ c \in wire /\ posted' = [posted EXCEPT ![a] = @ \cup {c}]
      /\ call' = call \/ (call[c].pc = "posting" /\ \E r \in Replies, until \in Nat : Receive(c, r, until))
  BY <1>1 DEF TwitchAccepts, Replies, Verdicts
<1>3. Candidate(c) /\ c \notin posted[a]
  BY <1>2, OnTheWire
<1>4. posted[a] = {}
  <2>1. SUFFICES ASSUME NEW d \in posted[a] PROVE FALSE
    OBVIOUS
  <2>2. d \in Calls /\ Att(d) = a
    BY <1>1, <2>1 DEF LedgerInv, PostedHome
  <2>3. Candidate(d)
    BY <2>1, <2>2 DEF Candidate
  <2>4. d = c
    BY <1>3, <2>2, <2>3 DEF LedgerInv, OneCandidate
  <2> QED BY <1>3, <2>4
<1>5. \A d \in Calls :
        /\ call'[d].attempt = call[d].attempt /\ call'[d].print = call[d].print
        /\ call'[d].pc = "done" <=> call[d].pc = "done"
        /\ call[d].pc = "done" => call'[d].answer = call[d].answer
  <2>1. CASE call' = call
    BY <2>1
  <2>2. ASSUME call[c].pc = "posting", NEW r \in Replies, NEW until \in Nat, Receive(c, r, until)
        PROVE  \A d \in Calls :
                 /\ call'[d].attempt = call[d].attempt /\ call'[d].print = call[d].print
                 /\ call'[d].pc = "done" <=> call[d].pc = "done"
                 /\ call[d].pc = "done" => call'[d].answer = call[d].answer
    <3>1. StepsCall(c) /\ call'[c].pc = "complete"
      BY <1>1, <2>2, ReceiveSteps
    <3>2. /\ \A d \in Calls \ {c} : call'[d] = call[d]
          /\ call'[c].attempt = call[c].attempt /\ call'[c].print = call[c].print
      BY <1>1, <3>1, OthersStay DEF StepsCall
    <3> QED BY <2>2, <3>1, <3>2
  <2> QED BY <1>2, <2>1, <2>2
<1>6. Accepted[a] = NoPrint
  BY <1>1, <1>4 DEF Accepted, AcceptedPrint
<1>7. Accepted' = [Accepted EXCEPT ![a] = p]
  <2>1. ASSUME NEW b, b = a PROVE AcceptedPrint(b)' = p
    <3>1. posted'[b] = {c}
      BY <1>1, <1>2, <1>4, <2>1
    <3>2. (CHOOSE d \in posted'[b] : TRUE) = c
      BY <3>1
    <3> QED BY <1>5, <3>1, <3>2 DEF AcceptedPrint
  <2>2. ASSUME NEW b \in Attempts, b # a PROVE AcceptedPrint(b)' = AcceptedPrint(b)
    <3>1. posted'[b] = posted[b] /\ posted[b] \subseteq Calls
      BY <1>1, <1>2, <2>2
    <3>2. CASE posted[b] = {}
      BY <3>1, <3>2 DEF AcceptedPrint
    <3>3. CASE posted[b] # {}
      <4>1. (CHOOSE d \in posted[b] : TRUE) \in Calls
        BY <3>1, <3>3
      <4> QED BY <1>5, <3>1, <3>3, <4>1 DEF AcceptedPrint
    <3> QED BY <3>2, <3>3
  <2> QED BY <1>1, <2>1, <2>2 DEF Accepted
<1>8. UNCHANGED ToldOf
  <2>1. ASSUME NEW b \in Attempts, NEW q \in Prints PROVE Told(b, q)' = Told(b, q)
    BY <1>5 DEF Told
  <2> QED BY <2>1 DEF ToldOf
<1>9. "rejected" \notin ToldOf[a][p]
  <2>1. SUFFICES ASSUME "rejected" \in Told(a, p) PROVE FALSE
    BY <1>1 DEF ToldOf
  <2>2. PICK d \in Calls : Answered(d, "rejected") /\ call[d].attempt = a /\ call[d].print = p
    BY <2>1 DEF Told, Answered
  <2>3. NoCandidate(Att(d), call[d].print)
    BY <2>2 DEF PromiseInv, CallSound
  <2> QED BY <1>3, <2>2, <2>3 DEF NoCandidate, Att
<1>10. Promise!Accept(a, p)
  BY <1>6, <1>7, <1>8, <1>9 DEF Promise!Accept, Accepted, ToldOf
<1> QED BY <1>1, <1>10 DEF Promise!OutboxNext

LEMMA InitSimulated == Init => Promise!OutboxInit
<1> SUFFICES ASSUME Init PROVE Promise!OutboxInit
  OBVIOUS
<1>1. \A a \in Attempts : AcceptedPrint(a) = NoPrint
  BY DEF Init, AcceptedPrint
<1>2. \A c \in Calls : call[c].pc # "done"
  BY DEF Init
<1>3. \A a \in Attempts, p \in Prints : Told(a, p) = {}
  BY <1>2 DEF Told
<1> QED BY <1>1, <1>3 DEF Promise!OutboxInit

LEMMA StepSimulated ==
  ASSUME LedgerInv, LedgerInv', PromiseInv, PromiseInv', [Next]_vars
  PROVE  [Promise!OutboxNext]_(Promise!obVars)
BY StepKinds, NothingPromisedStutters, AnswerTells, AcceptAccepts

\* dispatch (account.ts) implements Outbox: "sent" is told only of an accepted
\* attempt, and a print that was told is "rejected" is never accepted, before or
\* after.  It holds without overlapping revisions (a superseded one answers
\* "rejected" without recording it) and as long as no refusal or claim uses a clock
\* reading of before the deadline after the row's retention, ten minutes in the code.
THEOREM PromiseKept ==
  ASSUME ~Overlap
  PROVE  Spec /\ []RowsOutlastCalls => KeepsPromise
<1>1. Init => PromiseInv /\ Promise!OutboxInit
  BY InitPromise, InitSimulated
<1>2. LedgerInv /\ PromiseInv /\ RowsOutlastCalls /\ [Next]_vars => PromiseInv'
  BY StepPromise
<1>3. LedgerInv /\ LedgerInv' /\ PromiseInv /\ PromiseInv' /\ [Next]_vars
        => [Promise!OutboxNext]_(Promise!obVars)
  BY StepSimulated
<1> QED BY <1>1, <1>2, <1>3, LedgerInvariant, PTL DEF Spec, KeepsPromise, Promise!OutboxSpec
=============================================================================
