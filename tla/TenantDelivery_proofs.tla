------------------------ MODULE TenantDelivery_proofs ------------------------
(***************************************************************************)
(* Proofs about TenantDelivery, for any messages, plans and policy whose   *)
(* records outlast the redeliveries.  The invariant is one per message: it *)
(* relates the record to the receipt it was admitted with, to what was     *)
(* dispatched and accepted so far, and to the two fibers that may work on  *)
(* it, each with a claim that the record has, had, or no longer has.       *)
(***************************************************************************)
EXTENDS TenantDelivery, FiniteSetTheorems, WellFoundedInduction, TLAPS

Handlers == [pc : {"idle", "retry", "reclaim", "run"}, at : Nat]

Types ==
  /\ now \in Nat /\ generation \in Nat /\ activation \in Nat /\ wiping \in BOOLEAN
  /\ works \in [Messages -> Works]
  /\ task \in [Slots -> Tasks]
  /\ handler \in Handlers /\ handler.at <= now
  /\ inFlight \in [Messages -> Nat]
  /\ issued \in [Attempts -> SUBSET Plans]
  /\ accepted \in [Attempts -> Plans \cup {NoPlan}]
  /\ receipts \in [Messages -> SUBSET Nat]

\* The record is of the only receipt, and without one, and while the storage is
\* deleted, that receipt is long past.
Dated(m, w, rec, wipes, t) ==
  /\ w.kind # "none" => rec = {w.received}
  /\ \A a, b \in rec : a = b
  /\ \A a \in rec : /\ SentAt[m] <= a + FutureSkew
                    /\ w.kind = "none" \/ wipes => a + Budget + Retention <= t

Started(w) == w.kind \in {"ready", "delivering"}
Valid(w) == w.plan \in Plans /\ w.cursor \in 1..PartsOf[w.plan]

\* What was dispatched is of the record's plan, part after accepted part.
Planned(m, w, iss, acc) ==
  /\ Started(w) => Valid(w)
  /\ \A k, l \in Parts : \A p \in iss[<<m, k>>], q \in iss[<<m, l>>] : p = q
  /\ w.kind = "computing" => \A k \in Parts : iss[<<m, k>>] = {}
  /\ Started(w) => \A k \in Parts : iss[<<m, k>>] \subseteq {w.plan}
  /\ Started(w) /\ w.cursor > 1 => acc[<<m, w.cursor - 1>>] # NoPlan
  /\ \A k \in Parts : k > 1 /\ iss[<<m, k>>] # {} => acc[<<m, k - 1>>] # NoPlan

Owned(w) == w.kind \in {"computing", "delivering"}
Fenced(w, gen) == Owned(w) => w.claim.generation <= gen /\ w.claim.generation # 0

\* Two works that differ in the end of their claim only.
Alike(v, w) ==
  v.kind = w.kind /\ v.received = w.received /\ v.plan = w.plan /\ v.cursor = w.cursor

Holds(x) == x.pc \in {"late", "calling", "answered"}

\* What a fiber has captured: while there is a record, its claim is not ahead of the
\* record's, and if it is the record's, so is the rest.
Tasked(m, x, w, gen, acc) ==
  /\ x.pc \in {"idle", "run"} => x.work.kind = "none"
  /\ x.pc \in {"compute", "plan"} => x.work.kind = "computing"
  /\ x.pc = "plan" => x.plan \in Plans
  /\ x.pc = "join" \/ Holds(x) => x.work.kind = "delivering" /\ Valid(x.work)
  /\ x.pc = "answered" /\ x.reply = "sent" => acc[<<m, x.work.cursor>>] # NoPlan
  /\ w.kind # "none" =>
       /\ x.work.kind # "none" => x.work.claim.generation <= gen
       /\ \A g \in x.open : g <= gen
  /\ Owned(w) /\ x.work.kind # "none" /\ x.work.claim.generation = w.claim.generation
       => Alike(x.work, w)

\* While a fiber delivers, it is registered under the claim that the record has, or the
\* message is settled.
Calling(x, w, registered, act) ==
  Holds(x) =>
    /\ x.work.claim.generation \in x.open
    /\ \/ w.kind \in {"none", "terminal"}
       \/ /\ w.kind = "delivering" /\ w.claim.activation = act
          /\ w.claim.generation = x.work.claim.generation
          /\ registered = w.claim.generation

Apart(x, y, w) ==
  Holds(x) => ~Holds(y) /\ (w.kind = "delivering" => x.work.claim.generation \notin y.open)

\* A message that was never admitted.
Untouched(m) ==
  /\ \A k \in Parts : issued[<<m, k>>] = {}
  /\ \A s \in Slots : Msg(s) = m => task[s].work.kind = "none" /\ task[s].open = {}

OfMessage(m) ==
  /\ Dated(m, works[m], receipts[m], wiping, now)
  /\ Planned(m, works[m], issued, accepted)
  /\ Fenced(works[m], generation)
  /\ receipts[m] = {} => Untouched(m)
  /\ \A s \in Slots : Msg(s) = m =>
       /\ Tasked(m, task[s], works[m], generation, accepted)
       /\ Calling(task[s], works[m], inFlight[m], activation)
       /\ \A r \in Slots : Msg(r) = m /\ r # s => Apart(task[s], task[r], works[m])

IInv == Types /\ \A m \in Messages : OfMessage(m)

-----------------------------------------------------------------------------
(***************************************************************************)
(* Types.                                                                  *)
(***************************************************************************)
LEMMA MinTwo ==
  ASSUME NEW x \in Nat, NEW y \in Nat
  PROVE  Min({x, y}) \in Nat
<1>1. \E z \in {x, y} : \A w \in {x, y} : z <= w
  OBVIOUS
<1>2. Min({x, y}) \in {x, y}
  BY <1>1 DEF Min
<1> QED BY <1>2

LEMMA MaxTwo ==
  ASSUME NEW x \in Nat, NEW y \in Nat
  PROVE  Max({x, y}) \in Nat
<1>1. \E z \in {x, y} : \A w \in {x, y} : z >= w
  OBVIOUS
<1>2. Max({x, y}) \in {x, y}
  BY <1>1 DEF Max
<1> QED BY <1>2

LEMMA Policy ==
  /\ Budget \in Nat /\ Lease \in Nat /\ DeliveryLease \in Nat /\ FailureLease \in Nat
  /\ Retention \in Nat /\ MaxAge \in Nat /\ FutureSkew \in Nat /\ MaxDelay \in Nat
  /\ MaxStale \in Nat /\ LastReceipt \in Nat /\ MaxTime \in Nat
  /\ \A m \in Messages : SentAt[m] \in Nat
  /\ \A d \in RetryDelays : d \in Nat
BY TenantDeliveryAssumption

\* Every part of every plan has its attempt.
LEMMA PartsKnown ==
  /\ \A p \in Plans : PartsOf[p] \in Nat /\ PartsOf[p] >= 1 /\ 1..PartsOf[p] \subseteq Parts
  /\ Parts \subseteq Nat /\ \A k \in Parts : k > 1 => k - 1 \in Parts
  /\ \A m \in Messages, k \in Parts : <<m, k>> \in Attempts
  /\ NoPlan \notin Plans
<1> DEFINE lengths == {PartsOf[p] : p \in Plans}
<1>1. \A p \in Plans : PartsOf[p] \in Nat /\ PartsOf[p] >= 1
  BY TenantDeliveryAssumption
<1>2. \E n \in lengths : \A l \in lengths : n >= l
  BY <1>1, TenantDeliveryAssumption
<1> HIDE DEF lengths
<1>3. Max(lengths) \in lengths /\ \A l \in lengths : Max(lengths) >= l
  BY <1>2 DEF Max
<1>4. Max(lengths) \in Nat /\ \A p \in Plans : PartsOf[p] <= Max(lengths)
  BY <1>1, <1>3 DEF lengths
<1>5. Parts = 1..Max(lengths)
  BY DEF Parts, lengths
<1>6. \A p \in Plans : 1..PartsOf[p] \subseteq Parts
  BY <1>1, <1>4, <1>5
<1>7. Parts \subseteq Nat /\ \A k \in Parts : k > 1 => k - 1 \in Parts
  BY <1>4, <1>5
<1>8. NoPlan \notin Plans /\ \A m \in Messages, k \in Parts : <<m, k>> \in Attempts
  BY TenantDeliveryAssumption DEF Attempts
<1> QED BY <1>1, <1>6, <1>7, <1>8

LEMMA RecordTypes ==
  /\ NoClaim \in Claims /\ NoWork \in Works /\ NoTask \in Tasks
  /\ NoWork.kind = "none" /\ NoWork.received = 0
  /\ NoTask.pc = "idle" /\ NoTask.work = NoWork /\ NoTask.open = {}
<1>1. NoClaim \in Claims
  BY DEF NoClaim, Claims
<1>2. NoWork \in Works /\ NoWork.kind = "none" /\ NoWork.received = 0
  BY <1>1 DEF NoWork, Works, Outcomes
<1> QED BY <1>1, <1>2 DEF NoTask, Tasks, Phases, Answers

LEMMA NewClaimTypes ==
  ASSUME Types, NEW gen \in Nat, NEW until \in Nat
  PROVE  /\ NewClaim(gen, until) \in Claims
         /\ NewClaim(gen, until).generation = gen /\ NewClaim(gen, until).activation = activation
BY DEF NewClaim, Claims, Types

LEMMA StopTypes ==
  ASSUME NEW w \in Works, NEW o \in Outcomes
  PROVE  /\ Stop(w, o) \in Works /\ Stop(w, o).kind = "terminal"
         /\ Stop(w, o).received = w.received
BY RecordTypes DEF Stop, Works

LEMMA ReadyTypes ==
  ASSUME NEW w \in Works, NEW p \in Plans, NEW k \in Nat, NEW t \in Nat
  PROVE  /\ Ready(w, p, k, t) \in Works /\ Ready(w, p, k, t).kind = "ready"
         /\ Ready(w, p, k, t).received = w.received
         /\ Ready(w, p, k, t).plan = p /\ Ready(w, p, k, t).cursor = k
BY RecordTypes DEF Ready, Works

LEMMA ClaimedTypes ==
  ASSUME NEW w \in Works, NEW kind \in {"computing", "delivering"}, NEW c \in Claims
  PROVE  /\ Claimed(w, kind, c) \in Works /\ Claimed(w, kind, c).kind = kind
         /\ Claimed(w, kind, c).received = w.received /\ Claimed(w, kind, c).claim = c
         /\ Claimed(w, kind, c).plan = w.plan /\ Claimed(w, kind, c).cursor = w.cursor
BY DEF Claimed, Works

LEMMA SlotTypes ==
  ASSUME Types, NEW s \in Slots
  PROVE  /\ Msg(s) \in Messages /\ task[s] \in Tasks /\ task[s].work \in Works
         /\ task[s].at \in Nat /\ task[s].retryAt \in Nat
         /\ Work(s) = works[Msg(s)] /\ Work(s) \in Works /\ Captured(s) = task[s].work
<1>1. Msg(s) \in Messages
  BY DEF Slots, Msg
<1> QED BY <1>1 DEF Types, Tasks, Work, Captured

LEMMA WorkTypes ==
  ASSUME NEW w \in Works
  PROVE  /\ w.received \in Nat /\ w.cursor \in Nat /\ w.retryAt \in Nat /\ w.claim \in Claims
         /\ w.claim.generation \in Nat /\ w.claim.until \in Nat /\ DeadlineOf(w) \in Nat
BY Policy DEF Works, Claims, DeadlineOf

-----------------------------------------------------------------------------
(***************************************************************************)
(* Transactions and fibers.                                                *)
(***************************************************************************)
LEMMA CommitSame ==
  ASSUME Types, Commit(works, generation)
  PROVE  /\ works' = works /\ generation' = generation /\ wiping' \in BOOLEAN
         /\ wiping' => \A m \in Messages : works[m].kind = "none"
<1>1. /\ ~wiping /\ works' = works /\ generation' = generation
      /\ (wiping' = TRUE /\ Held(works) = {}) \/ wiping' = wiping
  BY DEF Commit, Update
<1>2. wiping' => \A m \in Messages : works[m].kind = "none"
  BY <1>1 DEF Held
<1>3. wiping' \in BOOLEAN
  BY <1>1 DEF Types
<1> QED BY <1>1, <1>2, <1>3

LEMMA CommitOne ==
  ASSUME Types, NEW m \in Messages, NEW w \in Works, w.kind # "none", NEW gen \in Nat,
         Commit([works EXCEPT ![m] = w], gen)
  PROVE  /\ works' = [works EXCEPT ![m] = w] /\ generation' = gen /\ wiping' = FALSE
         /\ works' \in [Messages -> Works] /\ works'[m] = w
         /\ \A n \in Messages \ {m} : works'[n] = works[n]
<1> DEFINE ws == [works EXCEPT ![m] = w]
<1>1. ws[m] = w /\ ws \in [Messages -> Works] /\ \A n \in Messages \ {m} : ws[n] = works[n]
  BY DEF Types
<1> HIDE DEF ws
<1>2. Held(ws) # {}
  BY <1>1 DEF Held
<1>3. Commit(ws, gen)
  BY DEF ws
<1>4. works' = ws /\ generation' = gen /\ wiping' = FALSE
  BY <1>2, <1>3 DEF Commit, Update, Types
<1> QED BY <1>1, <1>4 DEF ws

LEMMA SetTask ==
  ASSUME Types, NEW s \in Slots, NEW x \in Tasks, task' = [task EXCEPT ![s] = x]
  PROVE  /\ task' \in [Slots -> Tasks] /\ task'[s] = x
         /\ \A r \in Slots \ {s} : task'[r] = task[r]
BY DEF Types

LEMMA Finished ==
  ASSUME Types, NEW s \in Slots, Finish(s)
  PROVE  /\ task' \in [Slots -> Tasks] /\ task'[s] = NoTask
         /\ \A r \in Slots \ {s} : task'[r] = task[r]
         /\ inFlight' \in [Messages -> Nat]
         /\ \A n \in Messages \ {Msg(s)} : inFlight'[n] = inFlight[n]
         /\ inFlight'[Msg(s)] = inFlight[Msg(s)] \/ inFlight[Msg(s)] \in task[s].open
<1>1. task' = [task EXCEPT ![s] = NoTask]
  BY DEF Finish
<1>2. inFlight' = [inFlight EXCEPT ![Msg(s)] = IF inFlight[Msg(s)] \in task[s].open THEN 0
                                               ELSE inFlight[Msg(s)]]
  BY SlotTypes DEF Finish
<1>3. Msg(s) \in Messages
  BY SlotTypes
<1> QED BY <1>1, <1>2, <1>3, RecordTypes, SetTask DEF Types

LEMMA Entered ==
  ASSUME Types, NEW s \in Slots, NEW pc \in Phases, Enter(s, pc)
  PROVE  /\ task' \in [Slots -> Tasks] /\ inFlight' = inFlight
         /\ task'[s].pc = pc /\ task'[s].work = NoWork /\ task'[s].open = task[s].open
         /\ \A r \in Slots \ {s} : task'[r] = task[r]
<1> DEFINE x == [NoTask EXCEPT !.pc = pc, !.at = now, !.open = task[s].open]
<1>1. /\ x \in Tasks
      /\ x.pc = pc /\ x.work = NoWork /\ x.open = task[s].open
  BY SlotTypes, RecordTypes DEF Tasks, Types
<1>2. task' = [task EXCEPT ![s] = x] /\ inFlight' = inFlight
  BY DEF Enter
<1> HIDE DEF x
<1> QED BY <1>1, <1>2, SetTask

-----------------------------------------------------------------------------
(***************************************************************************)
(* Steps on one message leave the others alone.                            *)
(***************************************************************************)
LEMMA Local ==
  ASSUME IInv, Types', NEW m \in Messages, OfMessage(m)',
         now' = now, activation' = activation, generation' >= generation,
         wiping' => wiping \/ \A n \in Messages : works[n].kind = "none",
         \A n \in Messages \ {m} :
           /\ works'[n] = works[n] /\ receipts'[n] = receipts[n] /\ inFlight'[n] = inFlight[n]
           /\ \A k \in Parts : issued'[<<n, k>>] = issued[<<n, k>>]
                             /\ accepted'[<<n, k>>] = accepted[<<n, k>>],
         \A s \in Slots : Msg(s) # m => task'[s] = task[s]
  PROVE  IInv'
<1> SUFFICES ASSUME NEW n \in Messages \ {m}
             PROVE  OfMessage(n)'
  BY DEF IInv
<1>1. OfMessage(n) /\ works[n] \in Works /\ works'[n] = works[n] /\ receipts'[n] = receipts[n]
      /\ inFlight'[n] = inFlight[n] /\ generation \in Nat /\ generation' \in Nat
  BY DEF IInv, Types
<1>2. Dated(n, works[n], receipts[n], wiping, now)'
  BY <1>1 DEF OfMessage, Dated
<1>3. Planned(n, works[n], issued, accepted)'
  <2>1. Planned(n, works[n], issued, accepted)
    BY <1>1 DEF OfMessage
  <2>2. Started(works[n]) /\ works[n].cursor > 1 => works[n].cursor - 1 \in Parts
    <3>1. Started(works[n]) => works[n].plan \in Plans /\ works[n].cursor \in 1..PartsOf[works[n].plan]
      BY <2>1 DEF Planned, Valid
    <3> QED BY <3>1, PartsKnown
  <2>3. \A k \in Parts : k > 1 => k - 1 \in Parts
    BY PartsKnown
  <2> QED BY <1>1, <2>1, <2>2, <2>3 DEF Planned
<1>4. Fenced(works[n], generation)'
  BY <1>1, WorkTypes DEF OfMessage, Fenced
<1>5. (receipts[n] = {} => Untouched(n))'
  BY <1>1, PartsKnown DEF OfMessage, Untouched
<1>6. ASSUME NEW s \in Slots, Msg(s) = n
      PROVE  /\ Tasked(n, task[s], works[n], generation, accepted)'
             /\ Calling(task[s], works[n], inFlight[n], activation)'
             /\ \A r \in Slots : Msg(r) = n /\ r # s => Apart(task[s], task[r], works[n])'
  <2>1. /\ Tasked(n, task[s], works[n], generation, accepted) /\ task'[s] = task[s]
        /\ task[s].work.claim.generation \in Nat
        /\ \A g \in task[s].open : g \in Nat
    BY <1>1, <1>6, SlotTypes, WorkTypes DEF IInv, OfMessage, Tasks
  <2>2. Tasked(n, task[s], works[n], generation, accepted)'
    <3>1. Holds(task[s]) => task[s].work.cursor \in Parts
      BY <2>1, PartsKnown DEF Tasked, Valid
    <3> QED BY <1>1, <2>1, <3>1 DEF Tasked, Holds
  <2>3. Calling(task[s], works[n], inFlight[n], activation)'
    BY <1>1, <1>6, <2>1 DEF OfMessage, Calling
  <2>4. \A r \in Slots : Msg(r) = n /\ r # s => Apart(task[s], task[r], works[n])'
    BY <1>1, <1>6 DEF OfMessage, Apart
  <2> QED BY <2>2, <2>3, <2>4
<1> QED BY <1>2, <1>3, <1>4, <1>5, <1>6 DEF OfMessage

\* What a step may make of a record v for a fiber y that it does not move.
Spares(y, v, gen, w, next) ==
  \/ w = v /\ next >= gen
  \/ /\ v.kind # "none" /\ next >= gen
     /\ \/ w.kind = "terminal"
        \/ ~Holds(y) /\ w.kind = "ready"
        \/ ~Holds(y) /\ Owned(v) /\ Alike(v, w) /\ v.claim.generation = w.claim.generation
        \/ ~Holds(y) /\ Owned(w) /\ w.claim.generation = next /\ next > gen

LEMMA Spared ==
  ASSUME NEW m, NEW y \in Tasks, NEW v \in Works, NEW w \in Works, NEW gen \in Nat,
         NEW next \in Nat, NEW acc, Tasked(m, y, v, gen, acc), Spares(y, v, gen, w, next)
  PROVE  Tasked(m, y, w, next, acc)
<1>1. /\ y.work \in Works /\ y.work.claim.generation \in Nat
      /\ \A g \in y.open : g \in Nat
  BY WorkTypes DEF Tasks
<1>2. w.kind # "none" => /\ y.work.kind # "none" => y.work.claim.generation <= next
                         /\ \A g \in y.open : g <= next
  BY <1>1 DEF Tasked, Spares
<1>3. Owned(w) /\ y.work.kind # "none" /\ y.work.claim.generation = w.claim.generation
        => Alike(y.work, w)
  BY <1>1 DEF Tasked, Spares, Owned, Alike
<1> QED BY <1>2, <1>3 DEF Tasked

(***************************************************************************)
(* The steps of a fiber.                                                   *)
(***************************************************************************)
LEMMA OneFiber ==
  ASSUME IInv, Types', NEW s \in Slots, NEW m, m = Msg(s),
         UNCHANGED <<now, activation, receipts, accepted>>, generation' >= generation,
         wiping' => wiping \/ \A n \in Messages : works[n].kind = "none",
         \A n \in Messages \ {m} :
           works'[n] = works[n] /\ inFlight'[n] = inFlight[n]
           /\ \A k \in Parts : issued'[<<n, k>>] = issued[<<n, k>>],
         \A r \in Slots \ {s} : task'[r] = task[r],
         \/ works'[m] = works[m]
         \/ /\ works[m].kind # "none" /\ works'[m].kind # "none"
            /\ works'[m].received = works[m].received,
         Planned(m, works'[m], issued', accepted), Fenced(works'[m], generation'),
         receipts[m] = {} => /\ issued' = issued
                             /\ task'[s].work.kind = "none" /\ task'[s].open = {},
         Tasked(m, task'[s], works'[m], generation', accepted),
         Calling(task'[s], works'[m], inFlight'[m], activation),
         \A r \in Slots : Msg(r) = m /\ r # s =>
           /\ Spares(task[r], works[m], generation, works'[m], generation')
           /\ Holds(task[r]) => inFlight'[m] = inFlight[m] \/ works'[m].kind # "delivering"
           /\ Apart(task'[s], task[r], works'[m]) /\ Apart(task[r], task'[s], works'[m])
  PROVE  IInv'
<1>1. m \in Messages /\ OfMessage(m) /\ works[m] \in Works /\ works'[m] \in Works
      /\ generation \in Nat /\ generation' \in Nat
  BY SlotTypes DEF IInv, Types
<1>2. Dated(m, works[m], receipts[m], wiping, now)'
  BY <1>1 DEF OfMessage, Dated
<1>3. (receipts[m] = {} => Untouched(m))'
  <2> SUFFICES ASSUME receipts[m] = {}
               PROVE  Untouched(m)'
    OBVIOUS
  <2>1. Untouched(m)
    BY <1>1 DEF OfMessage
  <2> QED BY <2>1 DEF Untouched
<1>4. ASSUME NEW r \in Slots, Msg(r) = m, r # s
      PROVE  /\ Tasked(m, task[r], works[m], generation, accepted)'
             /\ Calling(task[r], works[m], inFlight[m], activation)'
  <2>1. /\ Tasked(m, task[r], works[m], generation, accepted)
        /\ Calling(task[r], works[m], inFlight[m], activation)
        /\ task[r] \in Tasks /\ task'[r] = task[r]
    BY <1>1, <1>4 DEF IInv, Types, OfMessage
  <2>2. Spares(task[r], works[m], generation, works'[m], generation')
    BY <1>4
  <2>3. Tasked(m, task'[r], works'[m], generation', accepted')
    BY <1>1, <2>1, <2>2, Spared
  <2>4. Calling(task'[r], works'[m], inFlight'[m], activation')
    BY <1>4, <2>1, <2>2 DEF Calling, Spares
  <2> QED BY <2>3, <2>4
<1>5. ASSUME NEW q \in Slots, NEW r \in Slots, Msg(q) = m, Msg(r) = m, r # q
      PROVE  Apart(task[q], task[r], works[m])'
  <2>1. CASE q = s
    BY <1>5, <2>1
  <2>2. CASE r = s
    BY <1>5, <2>2
  <2>3. CASE q # s /\ r # s
    <3>1. Apart(task[q], task[r], works[m])
      BY <1>1, <1>5 DEF OfMessage
    <3>2. Spares(task[q], works[m], generation, works'[m], generation')
      BY <1>5, <2>3
    <3> QED BY <1>5, <2>3, <3>1, <3>2 DEF Apart, Spares, Alike
  <2> QED BY <2>1, <2>2, <2>3
<1>6. OfMessage(m)'
  BY <1>2, <1>3, <1>4, <1>5 DEF OfMessage
<1> QED BY <1>1, <1>6, Local

\* A fiber ends, or goes back to run, and leaves its record as it is or changed to w.
Leaving(x, y) == x.pc \in {"idle", "run"} /\ x.work.kind = "none" /\ x.open \subseteq y.open

LEMMA Leaves ==
  ASSUME IInv, Types', NEW s \in Slots, NEW m, m = Msg(s),
         UNCHANGED <<now, activation, receipts, accepted, issued>>, generation' = generation,
         wiping' => wiping \/ \A n \in Messages : works[n].kind = "none",
         \A n \in Messages \ {m} : works'[n] = works[n] /\ inFlight'[n] = inFlight[n],
         inFlight'[m] = inFlight[m] \/ inFlight[m] \in task[s].open,
         \A r \in Slots \ {s} : task'[r] = task[r], Leaving(task'[s], task[s]),
         \/ works'[m] = works[m]
         \/ /\ works[m].kind # "none" /\ works'[m].kind # "none"
            /\ works'[m].received = works[m].received
            /\ Planned(m, works'[m], issued, accepted) /\ Fenced(works'[m], generation),
         \A r \in Slots : Msg(r) = m /\ r # s =>
           Spares(task[r], works[m], generation, works'[m], generation)
  PROVE  IInv'
<1>1. m \in Messages /\ OfMessage(m) /\ generation \in Nat /\ works'[m] \in Works
      /\ task'[s] \in Tasks /\ task[s] \in Tasks
  BY SlotTypes DEF IInv, Types
<1>2. Planned(m, works'[m], issued', accepted) /\ Fenced(works'[m], generation')
  BY <1>1 DEF OfMessage
<1>3. Untouched(m) => task'[s].work.kind = "none" /\ task'[s].open = {}
  BY <1>1 DEF Untouched, Leaving
<1>4. Tasked(m, task'[s], works'[m], generation', accepted)
  <2>1. works'[m].kind # "none" => \A g \in task'[s].open : g <= generation'
    <3>1. Tasked(m, task[s], works[m], generation, accepted)
      BY <1>1 DEF OfMessage
    <3> QED BY <3>1 DEF Tasked, Leaving
  <2> QED BY <2>1 DEF Tasked, Leaving, Holds
<1>5. Calling(task'[s], works'[m], inFlight'[m], activation) /\ ~Holds(task'[s])
  BY DEF Calling, Leaving, Holds
<1>6. ASSUME NEW r \in Slots, Msg(r) = m, r # s
      PROVE  /\ Spares(task[r], works[m], generation, works'[m], generation')
             /\ Holds(task[r]) => inFlight'[m] = inFlight[m] \/ works'[m].kind # "delivering"
             /\ Apart(task'[s], task[r], works'[m]) /\ Apart(task[r], task'[s], works'[m])
  <2>1. Spares(task[r], works[m], generation, works'[m], generation)
    BY <1>6
  <2>2. Apart(task[r], task[s], works[m]) /\ Calling(task[r], works[m], inFlight[m], activation)
    BY <1>1, <1>6 DEF OfMessage
  <2>3. Holds(task[r]) /\ works'[m].kind = "delivering" => works'[m] = works[m]
    BY <2>1 DEF Spares
  <2>4. Holds(task[r]) => inFlight'[m] = inFlight[m] \/ works'[m].kind # "delivering"
    BY <2>2, <2>3 DEF Apart, Calling
  <2>5. Apart(task'[s], task[r], works'[m])
    BY <1>5 DEF Apart
  <2>6. Apart(task[r], task'[s], works'[m])
    BY <1>5, <2>2, <2>3 DEF Apart, Leaving
  <2> QED BY <2>1, <2>4, <2>5, <2>6
<1>7. receipts[m] = {} => issued' = issued /\ task'[s].work.kind = "none" /\ task'[s].open = {}
  BY <1>1, <1>3 DEF OfMessage
<1> QED BY <1>1, <1>2, <1>4, <1>5, <1>6, <1>7, OneFiber

\* A fiber goes on with what it has captured.
LEMMA Proceeds ==
  ASSUME IInv, Types', NEW s \in Slots, NEW m, m = Msg(s),
         UNCHANGED <<now, activation, receipts, accepted, issued, works, generation, wiping,
                     inFlight>>,
         \A r \in Slots \ {s} : task'[r] = task[r],
         task'[s].work = task[s].work, task'[s].open = task[s].open,
         task[s].work.kind # "none", Holds(task'[s]) => Holds(task[s]),
         task'[s].pc \in {"plan", "answered"},
         task'[s].pc = "plan" => task[s].pc = "compute" /\ task'[s].plan \in Plans,
         task'[s].pc = "answered" /\ task'[s].reply = "sent"
           => accepted[<<m, task[s].work.cursor>>] # NoPlan
  PROVE  IInv'
<1>1. m \in Messages /\ OfMessage(m) /\ generation \in Nat
  BY SlotTypes DEF IInv, Types
<1>2. /\ Tasked(m, task[s], works[m], generation, accepted)
      /\ Calling(task[s], works[m], inFlight[m], activation)
  BY <1>1 DEF OfMessage
<1>3. Tasked(m, task'[s], works'[m], generation', accepted)
  BY <1>2 DEF Tasked, Holds
<1>4. Calling(task'[s], works'[m], inFlight'[m], activation)
  BY <1>2 DEF Calling
<1>5. ASSUME NEW r \in Slots, Msg(r) = m, r # s
      PROVE  /\ Spares(task[r], works[m], generation, works'[m], generation')
             /\ Apart(task'[s], task[r], works'[m]) /\ Apart(task[r], task'[s], works'[m])
  <2>1. Apart(task[s], task[r], works[m]) /\ Apart(task[r], task[s], works[m])
    BY <1>1, <1>5 DEF OfMessage
  <2> QED BY <1>1, <2>1 DEF Apart, Spares
<1>6. receipts[m] = {} => issued' = issued /\ task'[s].work.kind = "none" /\ task'[s].open = {}
  BY <1>1 DEF OfMessage, Untouched
<1>7. Planned(m, works'[m], issued', accepted) /\ Fenced(works'[m], generation')
  BY <1>1 DEF OfMessage
<1>8. \A n \in Messages \ {m} :
        works'[n] = works[n] /\ inFlight'[n] = inFlight[n]
        /\ \A k \in Parts : issued'[<<n, k>>] = issued[<<n, k>>]
  OBVIOUS
<1> QED BY <1>1, <1>3, <1>4, <1>5, <1>6, <1>7, <1>8, OneFiber

-----------------------------------------------------------------------------
(***************************************************************************)
(* Computing, and waiting for the account.                                 *)
(***************************************************************************)
LEMMA ComputeStep ==
  ASSUME IInv, NEW s \in Slots, Compute(s)
  PROVE  IInv'
<1>1. PICK p \in Plans :
        task' = [task EXCEPT ![s] = [@ EXCEPT !.pc = "plan", !.at = now, !.plan = p]]
  BY DEF Compute
<1> DEFINE x == [task[s] EXCEPT !.pc = "plan", !.at = now, !.plan = p]
<1>2. /\ Types /\ task[s] \in Tasks /\ task[s].pc = "compute" /\ Msg(s) \in Messages
      /\ UNCHANGED <<now, activation, works, generation, alarm, wiping, handler, inFlight,
                     accepted, told, issued, receipts>>
  BY SlotTypes DEF IInv, Compute, stored, accountVars, histories
<1>3. /\ x \in Tasks /\ x.pc = "plan" /\ x.plan = p
      /\ x.work = task[s].work /\ x.open = task[s].open
  BY <1>2 DEF Tasks, Phases, Types
<1>4. task' = [task EXCEPT ![s] = x]
  BY <1>1
<1> HIDE DEF x
<1>5. task' \in [Slots -> Tasks] /\ task'[s] = x /\ \A r \in Slots \ {s} : task'[r] = task[r]
  BY <1>2, <1>3, <1>4, SetTask
<1>6. Types'
  BY <1>2, <1>5 DEF Types
<1>7. task[s].work.kind # "none" /\ ~Holds(x)
  BY <1>2, <1>3 DEF IInv, OfMessage, Tasked, Holds
<1> QED BY <1>2, <1>3, <1>5, <1>6, <1>7, Proceeds

LEMMA AnswerStep ==
  ASSUME IInv, NEW s \in Slots, AccountAnswers(s)
  PROVE  IInv'
<1> DEFINE w == task[s].work
           a == <<Msg(s), w.cursor>>
<1>1. /\ Types /\ task[s] \in Tasks /\ task[s].pc = "calling" /\ Msg(s) \in Messages
      /\ UNCHANGED <<now, activation, works, generation, alarm, wiping, handler, inFlight,
                     issued, receipts>>
  BY SlotTypes DEF IInv, AccountAnswers, stored, histories
<1>2. ASSUME NEW o \in Answers, NEW t \in Nat, Answered(s, o, t), accepted' = accepted,
             o = "sent" => accepted[a] # NoPlan
      PROVE  IInv'
  <2> DEFINE x == [task[s] EXCEPT !.pc = "answered", !.at = now, !.reply = o, !.retryAt = t]
  <2>1. /\ x \in Tasks /\ x.pc = "answered" /\ x.reply = o
        /\ x.work = task[s].work /\ x.open = task[s].open
    BY <1>1 DEF Tasks, Phases, Types
  <2>2. task' = [task EXCEPT ![s] = x]
    BY <1>2 DEF Answered
  <2> HIDE DEF x
  <2>3. task' \in [Slots -> Tasks] /\ task'[s] = x /\ \A r \in Slots \ {s} : task'[r] = task[r]
    BY <1>1, <2>1, <2>2, SetTask
  <2>4. Types'
    BY <1>1, <1>2, <2>3 DEF Types
  <2>5. task[s].work.kind # "none" /\ Holds(task[s])
    BY <1>1 DEF IInv, OfMessage, Tasked, Holds
  <2> QED BY <1>1, <1>2, <2>1, <2>3, <2>4, <2>5, Proceeds
<1>3. \A o \in {"sent", "rejected", "ambiguous", "expired", "failed", "retryable"} : o \in Answers
  BY DEF Answers
<1>4. CASE \E o \in {"sent", "rejected"} : Account!Tell(a, w.plan, o) /\ Answered(s, o, 0)
  <2>1. PICK o \in {"sent", "rejected"} : Account!Tell(a, w.plan, o) /\ Answered(s, o, 0)
    BY <1>4
  <2>2. accepted' = accepted /\ (o = "sent" => accepted[a] # NoPlan)
    BY <2>1 DEF Account!Tell
  <2> QED BY <1>2, <1>3, <2>1, <2>2
<1>5. CASE (\E o \in {"ambiguous", "expired", "failed"} : Answered(s, o, 0))
           /\ UNCHANGED accountVars
  BY <1>2, <1>3, <1>5 DEF accountVars
<1>6. CASE (\E d \in RetryDelays : now + d < DeadlineOf(w) /\ Answered(s, "retryable", now + d))
           /\ UNCHANGED accountVars
  <2>1. PICK d \in RetryDelays : Answered(s, "retryable", now + d)
    BY <1>6
  <2>2. now + d \in Nat
    BY <1>1, Policy DEF Types
  <2> QED BY <1>2, <1>3, <1>6, <2>1, <2>2 DEF accountVars
<1> QED BY <1>4, <1>5, <1>6 DEF AccountAnswers, Captured, Attempt

LEMMA JoinedStep ==
  ASSUME IInv, NEW s \in Slots, Joined(s)
  PROVE  IInv'
<1>1. /\ Types /\ Msg(s) \in Messages
      /\ UNCHANGED <<now, activation, works, generation, alarm, wiping, handler,
                     accepted, told, issued, receipts>> /\ Enter(s, "run") /\ "run" \in Phases
  BY SlotTypes DEF IInv, Joined, stored, accountVars, histories, Phases
<1>2. /\ task' \in [Slots -> Tasks] /\ inFlight' = inFlight
      /\ task'[s].pc = "run" /\ task'[s].work = NoWork /\ task'[s].open = task[s].open
      /\ \A r \in Slots \ {s} : task'[r] = task[r]
  BY <1>1, Entered
<1>3. Types'
  BY <1>1, <1>2 DEF Types
<1>4. Leaving(task'[s], task[s])
  BY <1>2, RecordTypes DEF Leaving
<1>5. \A r \in Slots : Spares(task[r], works[Msg(s)], generation, works'[Msg(s)], generation)
  BY <1>1 DEF Spares, Types
<1> QED BY <1>1, <1>2, <1>3, <1>4, <1>5, Leaves


-----------------------------------------------------------------------------
(***************************************************************************)
(* Transactions at the end of a computation or of a delivery.              *)
(***************************************************************************)
\* A transaction that finds another claim changes nothing and ends the fiber.
LEMMA Superseded ==
  ASSUME IInv, NEW s \in Slots, Commit(works, generation), Finish(s),
         UNCHANGED <<now, activation, handler, accepted, issued, receipts>>
  PROVE  IInv'
<1>1. Types /\ Msg(s) \in Messages
  BY SlotTypes DEF IInv
<1>2. /\ works' = works /\ generation' = generation /\ wiping' \in BOOLEAN
      /\ wiping' => \A m \in Messages : works[m].kind = "none"
  BY <1>1, CommitSame
<1>3. /\ task' \in [Slots -> Tasks] /\ task'[s] = NoTask
      /\ \A r \in Slots \ {s} : task'[r] = task[r]
      /\ inFlight' \in [Messages -> Nat]
      /\ \A n \in Messages \ {Msg(s)} : inFlight'[n] = inFlight[n]
      /\ inFlight'[Msg(s)] = inFlight[Msg(s)] \/ inFlight[Msg(s)] \in task[s].open
  BY <1>1, Finished
<1>4. Types'
  BY <1>1, <1>2, <1>3 DEF Types
<1>5. Leaving(task'[s], task[s])
  BY <1>3, RecordTypes DEF Leaving
<1>6. \A r \in Slots : Spares(task[r], works[Msg(s)], generation, works'[Msg(s)], generation)
  BY <1>1, <1>2 DEF Spares, Types
<1> QED BY <1>1, <1>2, <1>3, <1>4, <1>5, <1>6, Leaves

\* The fiber ends, or goes back to run, and its record becomes w.
LEMMA Becomes ==
  ASSUME IInv, NEW s \in Slots, NEW m, m = Msg(s), NEW w \in Works,
         Commit([works EXCEPT ![m] = w], generation), Finish(s) \/ Enter(s, "run"),
         UNCHANGED <<now, activation, handler, accepted, issued, receipts>>,
         works[m].kind # "none", w.kind # "none", w.received = works[m].received,
         Planned(m, w, issued, accepted), Fenced(w, generation),
         \A r \in Slots : Msg(r) = m /\ r # s => Spares(task[r], works[m], generation, w, generation)
  PROVE  IInv'
<1>1. Types /\ m \in Messages /\ generation \in Nat /\ "run" \in Phases
  BY SlotTypes DEF IInv, Types, Phases
<1>2. /\ generation' = generation /\ wiping' = FALSE
      /\ works' \in [Messages -> Works] /\ works'[m] = w
      /\ \A n \in Messages \ {m} : works'[n] = works[n]
  BY <1>1, CommitOne
<1>3. /\ task' \in [Slots -> Tasks] /\ Leaving(task'[s], task[s])
      /\ \A r \in Slots \ {s} : task'[r] = task[r]
      /\ inFlight' \in [Messages -> Nat]
      /\ \A n \in Messages \ {m} : inFlight'[n] = inFlight[n]
      /\ inFlight'[m] = inFlight[m] \/ inFlight[m] \in task[s].open
  <2>1. CASE Finish(s)
    BY <1>1, <2>1, Finished, RecordTypes DEF Leaving
  <2>2. CASE Enter(s, "run")
    <3>1. inFlight' = inFlight /\ task' \in [Slots -> Tasks] /\ task'[s].pc = "run"
          /\ task'[s].work = NoWork /\ task'[s].open = task[s].open
          /\ \A r \in Slots \ {s} : task'[r] = task[r]
      BY <1>1, <2>2, Entered
    <3> QED BY <1>1, <3>1, RecordTypes DEF Leaving, Types
  <2> QED BY <2>1, <2>2
<1>4. Types'
  BY <1>1, <1>2, <1>3 DEF Types
<1> QED BY <1>1, <1>2, <1>3, <1>4, Leaves

\* A terminal record constrains nobody any more.
LEMMA Stops ==
  ASSUME IInv, NEW s \in Slots, NEW m, m = Msg(s), NEW v \in Works, NEW o \in Outcomes,
         Commit([works EXCEPT ![m] = Stop(v, o)], generation), Finish(s) \/ Enter(s, "run"),
         UNCHANGED <<now, activation, handler, accepted, issued, receipts>>,
         works[m].kind # "none", v.received = works[m].received
  PROVE  IInv'
<1> DEFINE w == Stop(v, o)
<1>1. w \in Works /\ w.kind = "terminal" /\ w.received = works[m].received
  BY StopTypes
<1>2. OfMessage(m) /\ generation \in Nat
  BY SlotTypes DEF IInv, Types
<1>3. Commit([works EXCEPT ![m] = w], generation)
  OBVIOUS
<1> HIDE DEF w
<1>4. Planned(m, w, issued, accepted) /\ Fenced(w, generation)
  BY <1>1, <1>2 DEF OfMessage, Planned, Fenced, Owned, Started
<1>5. \A r \in Slots : Spares(task[r], works[m], generation, w, generation)
  BY <1>1, <1>2 DEF Spares
<1> QED BY <1>1, <1>3, <1>4, <1>5, Becomes

\* The claim a fiber holds is the record's: so is the work.
LEMMA Matched ==
  ASSUME IInv, NEW s \in Slots, NEW m, m = Msg(s), Matches(s), task[s].work.kind # "none"
  PROVE  /\ works[m].kind # "none" /\ Alike(task[s].work, works[m]) /\ Owned(works[m])
         /\ works[m].claim = task[s].work.claim
         /\ works[m].received = task[s].work.received
<1>1. Tasked(m, task[s], works[m], generation, accepted)
  BY SlotTypes DEF IInv, OfMessage
<1>2. Owned(works[m]) /\ works[m].claim = task[s].work.claim
  BY DEF Matches, Work, Captured, Owned
<1> QED BY <1>1, <1>2 DEF Tasked, Alike, Owned

LEMMA CommitPlanStep ==
  ASSUME IInv, NEW s \in Slots, CommitPlan(s)
  PROVE  IInv'
<1> DEFINE m == Msg(s)
           v == task[s].work
           t == task[s].at
<1>1. /\ Types /\ m \in Messages /\ v \in Works /\ t \in Nat /\ OfMessage(m)
      /\ generation \in Nat /\ task[s] \in Tasks /\ works[m] \in Works
  BY SlotTypes DEF IInv, Types
<1>2. UNCHANGED <<now, activation, handler, accepted, issued, receipts>>
  BY DEF CommitPlan, accountVars, histories
<1>3. task[s].pc = "plan" /\ v.kind = "computing" /\ task[s].plan \in Plans
  BY <1>1 DEF CommitPlan, OfMessage, Tasked
<1>4. CASE Matches(s) /\ t >= DeadlineOf(v)
           /\ Commit([works EXCEPT ![m] = Stop(v, "expired")], generation) /\ Finish(s)
  <2>1. works[m].kind # "none" /\ v.received = works[m].received
    BY <1>3, <1>4, Matched
  <2>2. "expired" \in Outcomes
    BY DEF Outcomes
  <2> QED BY <1>1, <1>2, <1>4, <2>1, <2>2, Stops
<1>5. CASE Matches(s) /\ Commit([works EXCEPT ![m] = Ready(v, task[s].plan, 1, t)], generation)
           /\ Enter(s, "run")
  <2> DEFINE w == Ready(v, task[s].plan, 1, t)
  <2>1. /\ works[m].kind = "computing" /\ v.received = works[m].received
    BY <1>3, <1>5, Matched DEF Alike
  <2>2. /\ w \in Works /\ w.kind = "ready" /\ w.received = works[m].received
        /\ w.plan = task[s].plan /\ w.cursor = 1
    <3>1. task[s].plan \in Plans /\ 1 \in Nat /\ v \in Works /\ t \in Nat
      BY <1>1, <1>3
    <3> HIDE DEF v, t
    <3>2. /\ w \in Works /\ w.kind = "ready" /\ w.received = v.received
          /\ w.plan = task[s].plan /\ w.cursor = 1
      BY <3>1, ReadyTypes
    <3> QED BY <2>1, <3>2
  <2>3. Commit([works EXCEPT ![m] = w], generation) /\ Enter(s, "run")
    BY <1>5
  <2> HIDE DEF w
  <2>4. Planned(m, w, issued, accepted)
    <3>1. Valid(w)
      BY <1>3, <2>2, PartsKnown DEF Valid
    <3>2. Planned(m, works[m], issued, accepted)
      BY <1>1 DEF OfMessage
    <3> QED BY <2>1, <2>2, <3>1, <3>2 DEF Planned, Started
  <2>5. Fenced(w, generation)
    BY <2>2 DEF Fenced, Owned
  <2>6. ASSUME NEW r \in Slots, Msg(r) = m, r # s
        PROVE  Spares(task[r], works[m], generation, w, generation)
    <3>1. Calling(task[r], works[m], inFlight[m], activation)
      BY <1>1, <2>6 DEF OfMessage
    <3> QED BY <1>1, <2>1, <2>2, <3>1 DEF Spares, Calling
  <2> QED BY <1>1, <1>2, <2>1, <2>2, <2>3, <2>4, <2>5, <2>6, Becomes
<1>6. CASE Commit(works, generation) /\ Finish(s)
  BY <1>2, <1>6, Superseded
<1> QED BY <1>4, <1>5, <1>6 DEF CommitPlan, Captured

LEMMA ExpireStep ==
  ASSUME IInv, NEW s \in Slots, ExpireDelivery(s)
  PROVE  IInv'
<1> DEFINE m == Msg(s)
           v == task[s].work
<1>1. /\ m \in Messages /\ v \in Works /\ OfMessage(m) /\ Finish(s) /\ task[s].pc = "late"
      /\ UNCHANGED <<now, activation, handler, accepted, issued, receipts>>
  BY SlotTypes DEF IInv, ExpireDelivery, accountVars, histories
<1>2. v.kind # "none"
  BY <1>1 DEF OfMessage, Tasked, Holds
<1>3. CASE Matches(s)
  <2>1. works[m].kind # "none" /\ v.received = works[m].received
    BY <1>2, <1>3, Matched
  <2>2. Commit([works EXCEPT ![m] = Stop(v, "expired")], generation)
    BY <1>3 DEF ExpireDelivery, Captured
  <2>3. "expired" \in Outcomes
    BY DEF Outcomes
  <2> QED BY <1>1, <2>1, <2>2, <2>3, Stops
<1>4. CASE ~Matches(s)
  BY <1>1, <1>4, Superseded DEF ExpireDelivery
<1> QED BY <1>3, <1>4

\* What becomes of a delivered part: it stops, or the plan goes on with the same part
\* or, after an accepted part, the next, or its claim is shortened.
LEMMA AfterAnswerTypes ==
  ASSUME NEW w \in Works, w.kind = "delivering", Valid(w), NEW o \in Answers,
         NEW t \in Nat, NEW retryAt \in Nat
  PROVE  \/ \E d \in Outcomes : AfterAnswer(w, o, t, retryAt) = Stop(w, d)
         \/ \E k, u \in Nat :
              /\ AfterAnswer(w, o, t, retryAt) = Ready(w, w.plan, k, u)
              /\ \/ k = w.cursor
                 \/ o = "sent" /\ k = w.cursor + 1 /\ k <= PartsOf[w.plan]
         \/ /\ AfterAnswer(w, o, t, retryAt) \in Works
            /\ AfterAnswer(w, o, t, retryAt).kind = "delivering"
            /\ Alike(AfterAnswer(w, o, t, retryAt), w)
            /\ AfterAnswer(w, o, t, retryAt).claim.generation = w.claim.generation
<1> DEFINE next == AfterAnswer(w, o, t, retryAt)
           late == t >= DeadlineOf(w)
           again == o = "retryable" /\ ~late /\ retryAt < DeadlineOf(w)
           until == Min({DeadlineOf(w), t + FailureLease})
           failed == [w EXCEPT !.claim = [@ EXCEPT !.until = until]]
<1>1. /\ w.plan \in Plans /\ PartsOf[w.plan] \in Nat /\ w.cursor \in Nat
      /\ w.cursor <= PartsOf[w.plan] /\ DeadlineOf(w) \in Nat
  BY PartsKnown, WorkTypes DEF Valid
<1>2. until \in Nat
  <2>1. t + FailureLease \in Nat
    BY Policy
  <2> QED BY <1>1, <2>1, MinTwo
<1>3. Max({t, retryAt}) \in Nat
  BY MaxTwo
<1>4. /\ failed \in Works /\ failed.kind = "delivering" /\ Alike(failed, w)
      /\ failed.claim.generation = w.claim.generation
  <2> HIDE DEF until
  <2> QED BY <1>2 DEF Works, Claims, Alike
<1>5. {"expired", "rejected", "ambiguous", "sent"} \subseteq Outcomes
  BY DEF Outcomes
<1>6. CASE o = "sent" /\ ~IsLast(w) /\ ~late
  <2>1. next = Ready(w, w.plan, w.cursor + 1, t)
    BY <1>6 DEF AfterAnswer, Advances
  <2>2. w.cursor + 1 \in Nat /\ w.cursor + 1 <= PartsOf[w.plan]
    BY <1>1, <1>6 DEF IsLast
  <2> QED BY <1>6, <2>1, <2>2
<1>7. CASE again
  <2>1. next = Ready(w, w.plan, w.cursor, Max({t, retryAt}))
    BY <1>7 DEF AfterAnswer, Advances
  <2> QED BY <1>1, <1>3, <2>1
<1>8. CASE o = "failed" /\ ~late
  <2>1. next = failed
    BY <1>8 DEF AfterAnswer, Advances
  <2> QED BY <1>4, <2>1
<1>9. CASE \/ o = "sent" /\ (IsLast(w) \/ late)
           \/ o = "retryable" /\ ~again
           \/ o = "failed" /\ late
           \/ o \in {"rejected", "ambiguous", "expired"}
  <2>1. \/ next = Stop(w, "expired")
        \/ next = Stop(w, o) /\ o \notin {"retryable", "failed"}
    BY <1>9 DEF AfterAnswer, Advances
  <2>2. o \notin {"retryable", "failed"} => o \in Outcomes
    BY DEF Outcomes, Answers
  <2> QED BY <1>5, <2>1, <2>2
<1> QED BY <1>6, <1>7, <1>8, <1>9 DEF Answers

LEMMA SettleStep ==
  ASSUME IInv, NEW s \in Slots, Settle(s)
  PROVE  IInv'
<1> DEFINE m == Msg(s)
           v == task[s].work
           w == AfterAnswer(v, task[s].reply, task[s].at, task[s].retryAt)
<1>1. /\ m \in Messages /\ v \in Works /\ works[m] \in Works /\ OfMessage(m) /\ Types
      /\ task[s].pc = "answered" /\ generation \in Nat
      /\ task[s].reply \in Answers /\ task[s].at \in Nat /\ task[s].retryAt \in Nat
      /\ UNCHANGED <<now, activation, handler, accepted, issued, receipts>>
  BY SlotTypes DEF IInv, Settle, accountVars, histories, Types, Tasks
<1>2. /\ v.kind = "delivering" /\ Valid(v)
      /\ task[s].reply = "sent" => accepted[<<m, v.cursor>>] # NoPlan
  BY <1>1 DEF OfMessage, Tasked, Holds
<1>3. CASE ~Matches(s)
  BY <1>1, <1>3, Superseded DEF Settle
<1>4. CASE Matches(s)
  <2>1. /\ Commit([works EXCEPT ![m] = w], generation)
        /\ Finish(s) \/ Enter(s, "run")
    BY <1>4 DEF Settle, Captured
  <2>2. /\ works[m].kind = "delivering" /\ works[m].received = v.received
        /\ works[m].plan = v.plan /\ works[m].cursor = v.cursor
        /\ works[m].claim = v.claim /\ Alike(v, works[m])
    BY <1>1, <1>2, <1>4, Matched DEF Alike
  <2>3. \A r \in Slots : Msg(r) = m /\ r # s => ~Holds(task[r])
    BY <1>1 DEF OfMessage, Apart, Holds
  <2>4. Planned(m, works[m], issued, accepted) /\ Fenced(works[m], generation)
    BY <1>1 DEF OfMessage
  <2>5. ASSUME NEW d \in Outcomes, w = Stop(v, d)
        PROVE  IInv'
    <3>1. Commit([works EXCEPT ![m] = Stop(v, d)], generation)
      BY <2>1, <2>5
    <3>2. works[m].kind # "none"
      BY <2>2
    <3> HIDE DEF w
    <3> QED BY <1>1, <2>1, <2>2, <3>1, <3>2, Stops
  <2>6. ASSUME NEW k \in Nat, NEW u \in Nat, w = Ready(v, v.plan, k, u),
               \/ k = v.cursor
               \/ task[s].reply = "sent" /\ k = v.cursor + 1 /\ k <= PartsOf[v.plan]
        PROVE  IInv'
    <3> HIDE DEF w
    <3>1. v.plan \in Plans /\ v.cursor \in 1..PartsOf[v.plan] /\ PartsOf[v.plan] \in Nat
      BY <1>2, PartsKnown DEF Valid
    <3>2. /\ w \in Works /\ w.kind = "ready" /\ w.received = works[m].received
          /\ w.plan = v.plan /\ w.cursor = k
      <4>1. /\ v \in Works /\ v.plan \in Plans /\ works[m].received = v.received
            /\ k \in Nat /\ u \in Nat
        BY <1>1, <2>2, <3>1
      <4> HIDE DEF v
      <4>2. \A p \in Plans :
              /\ Ready(v, p, k, u) \in Works /\ Ready(v, p, k, u).kind = "ready"
              /\ Ready(v, p, k, u).received = v.received
              /\ Ready(v, p, k, u).plan = p /\ Ready(v, p, k, u).cursor = k
        BY <4>1, ReadyTypes
      <4> QED BY <2>6, <4>1, <4>2
    <3>3. Valid(w)
      BY <2>6, <3>1, <3>2 DEF Valid
    <3>4. w.cursor > 1 => accepted[<<m, w.cursor - 1>>] # NoPlan
      <4>1. CASE k = v.cursor
        BY <2>2, <2>4, <3>2, <4>1 DEF Planned, Started
      <4>2. CASE task[s].reply = "sent" /\ k = v.cursor + 1
        <5>1. k - 1 = v.cursor
          BY <3>1, <4>2
        <5> QED BY <1>2, <3>2, <4>2, <5>1
      <4> QED BY <2>6, <4>1, <4>2
    <3>5. Planned(m, w, issued, accepted)
      BY <2>2, <2>4, <3>2, <3>3, <3>4 DEF Planned, Started
    <3>6. Fenced(w, generation)
      BY <3>2 DEF Fenced, Owned
    <3>7. \A r \in Slots : Msg(r) = m /\ r # s =>
            Spares(task[r], works[m], generation, w, generation)
      BY <1>1, <2>2, <2>3, <3>2 DEF Spares
    <3>8. works[m].kind # "none" /\ w.kind # "none"
      BY <2>2, <3>2
    <3> QED BY <1>1, <2>1, <3>2, <3>5, <3>6, <3>7, <3>8, Becomes
  <2>7. ASSUME w \in Works, w.kind = "delivering", Alike(w, v),
               w.claim.generation = v.claim.generation
        PROVE  IInv'
    <3> HIDE DEF w
    <3>1. /\ w.received = works[m].received /\ w.plan = works[m].plan
          /\ w.cursor = works[m].cursor /\ w.kind = works[m].kind
          /\ w.claim.generation = works[m].claim.generation
      BY <2>2, <2>7 DEF Alike
    <3>2. Planned(m, w, issued, accepted)
      BY <2>4, <3>1 DEF Planned, Started, Valid
    <3>3. Fenced(w, generation)
      BY <2>4, <3>1 DEF Fenced, Owned
    <3>4. \A r \in Slots : Msg(r) = m /\ r # s =>
            Spares(task[r], works[m], generation, w, generation)
      BY <1>1, <2>2, <2>3, <3>1 DEF Spares, Alike, Owned
    <3>5. works[m].kind # "none" /\ w.kind # "none"
      BY <2>2, <2>7
    <3> QED BY <1>1, <2>1, <2>7, <3>1, <3>2, <3>3, <3>4, <3>5, Becomes
  <2>8. \/ \E d \in Outcomes : w = Stop(v, d)
        \/ \E k, u \in Nat :
             /\ w = Ready(v, v.plan, k, u)
             /\ \/ k = v.cursor
                \/ task[s].reply = "sent" /\ k = v.cursor + 1 /\ k <= PartsOf[v.plan]
        \/ /\ w \in Works /\ w.kind = "delivering" /\ Alike(w, v)
           /\ w.claim.generation = v.claim.generation
    BY <1>1, <1>2, AfterAnswerTypes
  <2> HIDE DEF w
  <2> QED BY <2>5, <2>6, <2>7, <2>8
<1> QED BY <1>3, <1>4

-----------------------------------------------------------------------------
(***************************************************************************)
(* run.                                                                    *)
(***************************************************************************)
\* run starts the computation again.
LEMMA Recomputes ==
  ASSUME IInv, NEW s \in Slots, NEW m, m = Msg(s), NEW w \in Works,
         works[m].kind = "computing",
         w.kind = "computing", w.received = works[m].received,
         w.claim.generation = generation + 1,
         Commit([works EXCEPT ![m] = w], generation + 1),
         task' = [task EXCEPT ![s] = [@ EXCEPT !.pc = "compute", !.work = w]],
         UNCHANGED <<now, activation, handler, inFlight, accepted, issued, receipts>>
  PROVE  IInv'
<1> DEFINE x == [task[s] EXCEPT !.pc = "compute", !.work = w]
<1>1. /\ Types /\ m \in Messages /\ OfMessage(m) /\ task[s] \in Tasks
      /\ generation \in Nat /\ generation + 1 \in Nat
  BY SlotTypes DEF IInv, Types
<1>2. x \in Tasks /\ x.pc = "compute" /\ x.work = w /\ x.open = task[s].open
  BY <1>1 DEF Tasks, Phases
<1>3. task' = [task EXCEPT ![s] = x]
  OBVIOUS
<1> HIDE DEF x
<1>4. task' \in [Slots -> Tasks] /\ task'[s] = x /\ \A r \in Slots \ {s} : task'[r] = task[r]
  BY <1>1, <1>2, <1>3, SetTask
<1>5. /\ generation' = generation + 1 /\ wiping' = FALSE
      /\ works' \in [Messages -> Works] /\ works'[m] = w
      /\ \A n \in Messages \ {m} : works'[n] = works[n]
  BY <1>1, CommitOne
<1>6. Types'
  BY <1>1, <1>4, <1>5 DEF Types
<1>7. Planned(m, works'[m], issued', accepted)
  BY <1>1, <1>5 DEF OfMessage, Planned, Started
<1>8. Fenced(works'[m], generation')
  BY <1>1, <1>5 DEF Fenced
<1>9. receipts[m] # {}
  BY <1>1 DEF OfMessage, Dated
<1>10. Tasked(m, task'[s], works'[m], generation', accepted)
  <2>1. \A g \in task[s].open : g \in Nat /\ g <= generation
    BY <1>1 DEF OfMessage, Tasked, Tasks
  <2> QED BY <1>1, <1>2, <1>4, <1>5, <2>1 DEF Tasked, Holds, Alike
<1>11. Calling(task'[s], works'[m], inFlight'[m], activation) /\ ~Holds(task'[s])
  BY <1>2, <1>4 DEF Calling, Holds
<1>12. ASSUME NEW r \in Slots, Msg(r) = m, r # s
       PROVE  /\ Spares(task[r], works[m], generation, works'[m], generation')
              /\ ~Holds(task[r])
              /\ Apart(task'[s], task[r], works'[m]) /\ Apart(task[r], task'[s], works'[m])
  <2>1. ~Holds(task[r])
    BY <1>1, <1>12 DEF OfMessage, Calling
  <2> QED BY <1>1, <1>5, <1>11, <2>1 DEF Spares, Owned, Apart
<1>13. \A n \in Messages \ {m} :
         works'[n] = works[n] /\ inFlight'[n] = inFlight[n]
         /\ \A k \in Parts : issued'[<<n, k>>] = issued[<<n, k>>]
  BY <1>5
<1>14. generation' >= generation
  BY <1>1, <1>5
<1> QED BY <1>1, <1>4, <1>5, <1>6, <1>7, <1>8, <1>9, <1>10, <1>11, <1>12, <1>13, <1>14, OneFiber

\* run waits for the delivery that is registered.
LEMMA Joins ==
  ASSUME IInv, NEW s \in Slots, NEW m, m = Msg(s), works[m].kind = "delivering",
         Commit(works, generation),
         task' = [task EXCEPT ![s] = [@ EXCEPT !.pc = "join", !.work = works[m]]],
         UNCHANGED <<now, activation, handler, inFlight, accepted, issued, receipts>>
  PROVE  IInv'
<1> DEFINE x == [task[s] EXCEPT !.pc = "join", !.work = works[m]]
<1>1. /\ Types /\ m \in Messages /\ OfMessage(m) /\ task[s] \in Tasks
      /\ generation \in Nat /\ works[m] \in Works
  BY SlotTypes DEF IInv, Types
<1>2. x \in Tasks /\ x.pc = "join" /\ x.work = works[m] /\ x.open = task[s].open
  BY <1>1 DEF Tasks, Phases
<1>3. task' = [task EXCEPT ![s] = x]
  OBVIOUS
<1> HIDE DEF x
<1>4. task' \in [Slots -> Tasks] /\ task'[s] = x /\ \A r \in Slots \ {s} : task'[r] = task[r]
  BY <1>1, <1>2, <1>3, SetTask
<1>5. /\ works' = works /\ generation' = generation /\ wiping' \in BOOLEAN
      /\ wiping' => \A n \in Messages : works[n].kind = "none"
  BY <1>1, CommitSame
<1>6. Types'
  BY <1>1, <1>4, <1>5 DEF Types
<1>7. Planned(m, works'[m], issued', accepted) /\ Fenced(works'[m], generation')
  BY <1>1, <1>5 DEF OfMessage
<1>8. receipts[m] # {}
  BY <1>1 DEF OfMessage, Dated
<1>9. Tasked(m, task'[s], works'[m], generation', accepted)
  <2>1. Valid(works[m]) /\ works[m].claim.generation <= generation
    BY <1>1 DEF OfMessage, Planned, Started, Fenced, Owned
  <2>2. \A g \in task[s].open : g <= generation
    BY <1>1 DEF OfMessage, Tasked
  <2> QED BY <1>1, <1>2, <1>4, <1>5, <2>1, <2>2 DEF Tasked, Holds, Alike
<1>10. Calling(task'[s], works'[m], inFlight'[m], activation) /\ ~Holds(task'[s])
  BY <1>2, <1>4 DEF Calling, Holds
<1>11. ASSUME NEW r \in Slots, Msg(r) = m, r # s
       PROVE  /\ Spares(task[r], works[m], generation, works'[m], generation')
              /\ Apart(task'[s], task[r], works'[m]) /\ Apart(task[r], task'[s], works'[m])
  <2>1. Apart(task[r], task[s], works[m])
    BY <1>1, <1>11 DEF OfMessage
  <2> QED BY <1>1, <1>2, <1>4, <1>5, <1>10, <2>1 DEF Spares, Apart
<1>12. \A n \in Messages \ {m} :
         works'[n] = works[n] /\ inFlight'[n] = inFlight[n]
         /\ \A k \in Parts : issued'[<<n, k>>] = issued[<<n, k>>]
  BY <1>5
<1> QED BY <1>1, <1>4, <1>5, <1>6, <1>7, <1>8, <1>9, <1>10, <1>11, <1>12, OneFiber

\* run claims the next part and calls the account, or stops at the deadline.
LEMMA Delivers ==
  ASSUME IInv, NEW s \in Slots, NEW m, m = Msg(s), NEW w \in Works, Started(works[m]),
         works[m].kind = "delivering" => ~Registered(m),
         w.kind = "delivering", w.received = works[m].received, w.plan = works[m].plan,
         w.cursor = works[m].cursor, w.claim.generation = generation + 1,
         w.claim.activation = activation,
         Commit([works EXCEPT ![m] = w], generation + 1),
         inFlight' = [inFlight EXCEPT ![m] = generation + 1],
         task' \in [Slots -> Tasks], \A r \in Slots \ {s} : task'[r] = task[r],
         task'[s].pc \in {"late", "calling"}, task'[s].work = w,
         task'[s].open = task[s].open \cup {generation + 1},
         \/ issued' = issued
         \/ issued' = [issued EXCEPT ![<<m, w.cursor>>] = @ \cup {w.plan}],
         UNCHANGED <<now, activation, handler, accepted, receipts>>
  PROVE  IInv'
<1>1. /\ Types /\ m \in Messages /\ OfMessage(m) /\ task[s] \in Tasks
      /\ generation \in Nat /\ generation + 1 \in Nat /\ works[m] \in Works
  BY SlotTypes DEF IInv, Types
<1>2. /\ task' \in [Slots -> Tasks] /\ \A r \in Slots \ {s} : task'[r] = task[r]
      /\ task'[s].pc \in {"late", "calling"} /\ task'[s].work = w
      /\ task'[s].open = task[s].open \cup {generation + 1}
  OBVIOUS
<1>5. /\ generation' = generation + 1 /\ wiping' = FALSE
      /\ works' \in [Messages -> Works] /\ works'[m] = w
      /\ \A n \in Messages \ {m} : works'[n] = works[n]
  <2>1. Commit([works EXCEPT ![m] = w], generation + 1) /\ w.kind # "none"
    OBVIOUS
  <2> QED BY <1>1, <2>1, CommitOne
<1>6. /\ inFlight' \in [Messages -> Nat] /\ inFlight'[m] = generation + 1
      /\ \A n \in Messages \ {m} : inFlight'[n] = inFlight[n]
  BY <1>1 DEF Types
<1>7. Planned(m, works[m], issued, accepted) /\ Valid(works[m])
  BY <1>1 DEF OfMessage, Planned
<1>8. /\ w.plan \in Plans /\ w.cursor \in Parts /\ <<m, w.cursor>> \in Attempts /\ Valid(w)
  <2>1. w.plan \in Plans /\ w.cursor \in 1..PartsOf[w.plan]
    BY <1>7 DEF Valid
  <2>2. w.cursor \in Parts
    BY <2>1, PartsKnown
  <2> QED BY <1>1, <2>1, <2>2, PartsKnown DEF Valid
<1>9. /\ issued' \in [Attempts -> SUBSET Plans]
      /\ \A k \in Parts :
           \/ issued'[<<m, k>>] = issued[<<m, k>>]
           \/ k = w.cursor /\ issued'[<<m, k>>] = issued[<<m, k>>] \cup {w.plan}
      /\ \A n \in Messages \ {m}, k \in Parts : issued'[<<n, k>>] = issued[<<n, k>>]
  <2>1. CASE issued' = issued
    BY <1>1, <2>1 DEF Types
  <2>2. CASE issued' = [issued EXCEPT ![<<m, w.cursor>>] = @ \cup {w.plan}]
    <3>1. issued \in [Attempts -> SUBSET Plans]
      BY <1>1 DEF Types
    <3>2. issued' \in [Attempts -> SUBSET Plans]
      BY <1>8, <2>2, <3>1
    <3>3. ASSUME NEW k \in Parts
          PROVE  \/ issued'[<<m, k>>] = issued[<<m, k>>]
                 \/ k = w.cursor /\ issued'[<<m, k>>] = issued[<<m, k>>] \cup {w.plan}
      BY <1>1, <1>8, <2>2, <3>1, <3>3, PartsKnown
    <3>4. ASSUME NEW n \in Messages \ {m}, NEW k \in Parts
          PROVE  issued'[<<n, k>>] = issued[<<n, k>>]
      <4>1. <<n, k>> # <<m, w.cursor>>
        BY <3>4
      <4>2. <<n, k>> \in Attempts
        BY PartsKnown
      <4> QED BY <2>2, <3>1, <4>1, <4>2
    <3> QED BY <3>2, <3>3, <3>4
  <2> QED BY <2>1, <2>2
<1>10. Types'
  BY <1>1, <1>2, <1>5, <1>6, <1>9 DEF Types
<1>11. Planned(m, works'[m], issued', accepted)
  <2>1. \A k \in Parts : issued'[<<m, k>>] \subseteq {w.plan}
    BY <1>7, <1>9 DEF Planned
  <2>2. w.cursor > 1 => accepted[<<m, w.cursor - 1>>] # NoPlan
    BY <1>7 DEF Planned
  <2>3. \A k \in Parts : k > 1 /\ issued'[<<m, k>>] # {} => accepted[<<m, k - 1>>] # NoPlan
    BY <1>7, <1>9, <2>2 DEF Planned
  <2> QED BY <1>5, <1>8, <2>1, <2>2, <2>3 DEF Planned, Started
<1>12. Fenced(works'[m], generation')
  BY <1>1, <1>5 DEF Fenced
<1>13. receipts[m] # {}
  BY <1>1 DEF OfMessage, Dated, Started
<1>14. ASSUME NEW r \in Slots, Msg(r) = m
       PROVE  \A g \in task[r].open : g \in Nat /\ g <= generation
  <2>1. Tasked(m, task[r], works[m], generation, accepted) /\ task[r] \in Tasks
    BY <1>1, <1>14 DEF OfMessage, Types
  <2> QED BY <2>1 DEF Tasked, Started, Tasks
<1>15. Tasked(m, task'[s], works'[m], generation', accepted)
  <2>1. \A g \in task'[s].open : g <= generation + 1
    <3>1. Msg(s) = m /\ task'[s].open = task[s].open \cup {generation + 1}
      BY <1>2
    <3>2. \A g \in task[s].open : g \in Nat /\ g <= generation
      BY <1>14, <3>1
    <3> QED BY <1>1, <3>1, <3>2
  <2> QED BY <1>1, <1>2, <1>5, <1>8, <2>1 DEF Tasked, Holds, Alike
<1>16. Calling(task'[s], works'[m], inFlight'[m], activation)
  BY <1>2, <1>5, <1>6 DEF Calling
<1>17. ASSUME NEW r \in Slots, Msg(r) = m, r # s
       PROVE  /\ Spares(task[r], works[m], generation, works'[m], generation')
              /\ ~Holds(task[r])
              /\ Apart(task'[s], task[r], works'[m]) /\ Apart(task[r], task'[s], works'[m])
  <2>1. ~Holds(task[r])
    <3> SUFFICES ASSUME Holds(task[r])
                 PROVE  FALSE
      OBVIOUS
    <3>1. Calling(task[r], works[m], inFlight[m], activation) /\ Fenced(works[m], generation)
      BY <1>1, <1>17 DEF OfMessage
    <3>2. works[m].kind = "delivering" /\ Registered(m)
      BY <3>1 DEF Calling, Fenced, Owned, Registered, Started
    <3> QED BY <3>2
  <2>2. generation + 1 \notin task[r].open
    BY <1>1, <1>14, <1>17
  <2>3. Spares(task[r], works[m], generation, works'[m], generation')
    BY <1>1, <1>5, <2>1 DEF Spares, Owned, Started
  <2> QED BY <1>2, <2>1, <2>2, <2>3 DEF Apart
<1>18. \A n \in Messages \ {m} :
         works'[n] = works[n] /\ inFlight'[n] = inFlight[n]
         /\ \A k \in Parts : issued'[<<n, k>>] = issued[<<n, k>>]
  BY <1>5, <1>6, <1>9
<1>19. generation' >= generation /\ works[m].kind # "none"
  BY <1>1, <1>5 DEF Started
<1> QED BY <1>1, <1>2, <1>5, <1>10, <1>11, <1>12, <1>13, <1>15, <1>16, <1>17, <1>18, <1>19,
           OneFiber

LEMMA RunStep ==
  ASSUME IInv, NEW s \in Slots, Run(s)
  PROVE  IInv'
<1> DEFINE m == Msg(s)
           v == works[m]
           t == task[s].at
           over == Pending(v) /\ t >= DeadlineOf(v)
           busy == v.kind \in {"computing", "delivering"} /\ Mine(v, t)
           free == Pending(v) /\ ~over /\ ~busy
           joins == v.kind = "delivering" /\ Registered(m)
           length == IF v.kind = "computing" THEN Lease ELSE DeliveryLease
           until == Min({DeadlineOf(v), t + length})
           c == NewClaim(generation + 1, until)
           w == Claimed(v, IF v.kind = "computing" THEN "computing" ELSE "delivering", c)
<1>1. /\ Types /\ m \in Messages /\ v \in Works /\ t \in Nat
      /\ generation \in Nat /\ generation + 1 \in Nat
      /\ UNCHANGED <<now, activation, handler, accepted, receipts>>
  BY SlotTypes DEF IInv, Types, Run, accountVars
<1>2. /\ w \in Works
      /\ w.kind = IF v.kind = "computing" THEN "computing" ELSE "delivering"
      /\ w.received = v.received /\ w.plan = v.plan /\ w.cursor = v.cursor
      /\ w.claim.generation = generation + 1 /\ w.claim.activation = activation
  <2>1. until \in Nat
    <3>1. DeadlineOf(v) \in Nat /\ t + length \in Nat
      BY <1>1, WorkTypes, Policy
    <3> HIDE DEF length
    <3> QED BY <3>1, MinTwo
  <2> HIDE DEF until
  <2>2. /\ c \in Claims /\ c.generation = generation + 1 /\ c.activation = activation
    BY <1>1, <2>1, NewClaimTypes
  <2> HIDE DEF c, v
  <2> DEFINE kind == IF v.kind = "computing" THEN "computing" ELSE "delivering"
  <2>3. kind \in {"computing", "delivering"} /\ v \in Works
    BY <1>1
  <2> HIDE DEF kind
  <2>4. /\ Claimed(v, kind, c) \in Works /\ Claimed(v, kind, c).kind = kind
        /\ Claimed(v, kind, c).received = v.received /\ Claimed(v, kind, c).claim = c
        /\ Claimed(v, kind, c).plan = v.plan /\ Claimed(v, kind, c).cursor = v.cursor
    BY <2>2, <2>3, ClaimedTypes
  <2> QED BY <2>2, <2>4 DEF kind
<1>3. CASE Commit(works, generation) /\ Finish(s) /\ UNCHANGED issued
  BY <1>1, <1>3, Superseded
<1>4. CASE over /\ Commit([works EXCEPT ![m] = Stop(v, "expired")], generation)
           /\ Finish(s) /\ UNCHANGED issued
  <2>1. v.kind # "none" /\ "expired" \in Outcomes
    BY <1>4 DEF Pending, Outcomes
  <2> QED BY <1>1, <1>4, <2>1, Stops
<1>5. CASE free /\ v.kind = "computing" /\ Commit([works EXCEPT ![m] = w], generation + 1)
           /\ task' = [task EXCEPT ![s] = [@ EXCEPT !.pc = "compute", !.work = w]]
           /\ UNCHANGED <<inFlight, issued>>
  <2>1. w.kind = "computing"
    BY <1>2, <1>5
  <2> HIDE DEF w
  <2> QED BY <1>1, <1>2, <1>5, <2>1, Recomputes
<1>6. CASE free /\ joins /\ Commit(works, generation)
           /\ task' = [task EXCEPT ![s] = [@ EXCEPT !.pc = "join", !.work = v]]
           /\ UNCHANGED <<inFlight, issued>>
  BY <1>1, <1>6, Joins
<1>7. CASE /\ free /\ ~joins
           /\ (v.kind = "delivering" \/ (v.kind = "ready" /\ t >= v.retryAt))
           /\ Commit([works EXCEPT ![m] = w], generation + 1)
           /\ inFlight' = [inFlight EXCEPT ![m] = generation + 1]
           /\ task' = [task EXCEPT ![s] =
                 [@ EXCEPT !.pc = IF now >= DeadlineOf(v) THEN "late" ELSE "calling",
                           !.at = now, !.work = w,
                           !.open = task[s].open \cup {generation + 1}]]
           /\ issued' = IF now >= DeadlineOf(v) THEN issued
                        ELSE [issued EXCEPT ![Attempt(v, m)] = @ \cup {v.plan}]
  <2>1. Started(v) /\ w.kind = "delivering" /\ (v.kind = "delivering" => ~Registered(m))
    BY <1>2, <1>7 DEF Started
  <2>2. \/ issued' = issued
        \/ issued' = [issued EXCEPT ![<<m, w.cursor>>] = @ \cup {w.plan}]
    <3>1. <<m, w.cursor>> = Attempt(v, m) /\ w.plan = v.plan
      BY <1>2 DEF Attempt
    <3> HIDE DEF w
    <3> QED BY <1>7, <3>1
  <2> HIDE DEF w
  <2>3. task[s] \in Tasks /\ task \in [Slots -> Tasks] /\ now \in Nat /\ w \in Works
    BY <1>1, <1>2 DEF Types
  <2>4. \A r \in Slots \ {s} : task'[r] = task[r]
    BY <1>7, <2>3
  <2> DEFINE x == [task[s] EXCEPT !.pc = IF now >= DeadlineOf(v) THEN "late" ELSE "calling",
                                  !.at = now, !.work = w,
                                  !.open = task[s].open \cup {generation + 1}]
  <2>5. task'[s] = x
    BY <1>7, <2>3
  <2>6. /\ x \in Tasks /\ x.pc \in {"late", "calling"} /\ x.work = w
        /\ x.open = task[s].open \cup {generation + 1}
    BY <1>1, <2>3 DEF Tasks, Phases
  <2> HIDE DEF x
  <2>7. task' \in [Slots -> Tasks]
    BY <1>7, <2>3, <2>5, <2>6
  <2> QED BY <1>1, <1>2, <1>7, <2>1, <2>2, <2>4, <2>5, <2>6, <2>7, Delivers
<1> QED BY <1>3, <1>4, <1>5, <1>6, <1>7 DEF Run, Work

-----------------------------------------------------------------------------
(***************************************************************************)
(* Steps that start no delivery: records are kept, or forgotten when their *)
(* receipt is long past, and fibers are kept or end.                       *)
(***************************************************************************)
Past(m, t) == \A a \in receipts[m] : a + Budget + Retention <= t
Quiet(x) == x.pc \in {"idle", "run"} /\ x.work.kind = "none" /\ x.open = {}

LEMMA Sweep ==
  ASSUME IInv, Types', now' >= now, NEW m \in Messages,
         receipts'[m] = receipts[m],
         \A k \in Parts : /\ issued'[<<m, k>>] = issued[<<m, k>>]
                          /\ accepted[<<m, k>>] # NoPlan => accepted'[<<m, k>>] # NoPlan,
         \/ works'[m] = works[m] /\ generation' >= generation
         \/ works'[m].kind = "none" /\ Past(m, now),
         wiping' => Past(m, now),
         \A s \in Slots : Msg(s) = m => task'[s] = task[s] \/ Quiet(task'[s]),
         \/ activation' = activation /\ inFlight'[m] = inFlight[m]
         \/ \A s \in Slots : Msg(s) = m => Quiet(task'[s])
  PROVE  OfMessage(m)'
<1>1. /\ OfMessage(m) /\ works[m] \in Works /\ works'[m] \in Works /\ now \in Nat /\ now' \in Nat
      /\ generation \in Nat /\ generation' \in Nat /\ \A a \in receipts[m] : a \in Nat
      /\ task \in [Slots -> Tasks]
  BY DEF IInv, Types
<1>2. Dated(m, works[m], receipts[m], wiping, now)'
  <2>1. Dated(m, works[m], receipts[m], wiping, now)
    BY <1>1 DEF OfMessage
  <2>2. works'[m].kind # "none" => receipts'[m] = {works'[m].received}
    BY <2>1 DEF Dated
  <2>3. ASSUME NEW a \in receipts'[m], works'[m].kind = "none" \/ wiping'
        PROVE  a + Budget + Retention <= now'
    <3>1. a + Budget + Retention <= now
      BY <2>1, <2>3 DEF Dated, Past
    <3>2. a + Budget + Retention \in Nat
      BY <1>1, Policy
    <3> QED BY <1>1, <3>1, <3>2
  <2> QED BY <2>1, <2>2, <2>3 DEF Dated
<1>3. Planned(m, works[m], issued, accepted)'
  <2>1. Planned(m, works[m], issued, accepted)
    BY <1>1 DEF OfMessage
  <2>2. works'[m] = works[m] \/ works'[m].kind = "none"
    OBVIOUS
  <2>3. Started(works[m]) /\ works[m].cursor > 1 => works[m].cursor - 1 \in Parts
    BY <2>1, PartsKnown DEF Planned, Valid
  <2>4. \A k \in Parts : k > 1 => k - 1 \in Parts
    BY PartsKnown
  <2>5. Started(works'[m]) => Started(works[m]) /\ works'[m] = works[m]
    BY <2>2 DEF Started
  <2>6. Started(works'[m]) /\ works'[m].cursor > 1 => accepted'[<<m, works'[m].cursor - 1>>] # NoPlan
    BY <2>1, <2>3, <2>5 DEF Planned
  <2>7. \A k \in Parts : k > 1 /\ issued'[<<m, k>>] # {} => accepted'[<<m, k - 1>>] # NoPlan
    BY <2>1, <2>4 DEF Planned
  <2> QED BY <2>1, <2>2, <2>5, <2>6, <2>7 DEF Planned
<1>4. Fenced(works[m], generation)'
  BY <1>1, WorkTypes DEF OfMessage, Fenced, Owned
<1>5. (receipts[m] = {} => Untouched(m))'
  BY <1>1 DEF OfMessage, Untouched, Quiet
<1>6. ASSUME NEW s \in Slots, Msg(s) = m
      PROVE  /\ Tasked(m, task[s], works[m], generation, accepted)'
             /\ Calling(task[s], works[m], inFlight[m], activation)'
             /\ \A r \in Slots : Msg(r) = m /\ r # s => Apart(task[s], task[r], works[m])'
  <2>1. CASE Quiet(task'[s])
    BY <2>1 DEF Quiet, Tasked, Calling, Apart, Holds
  <2>2. CASE task'[s] = task[s] /\ ~Quiet(task'[s])
    <3>1. /\ Tasked(m, task[s], works[m], generation, accepted)
          /\ Calling(task[s], works[m], inFlight[m], activation)
          /\ \A r \in Slots : Msg(r) = m /\ r # s => Apart(task[s], task[r], works[m])
      BY <1>1, <1>6 DEF OfMessage
    <3>2. /\ task[s].work.claim.generation \in Nat /\ \A g \in task[s].open : g \in Nat
      BY <1>1, WorkTypes DEF Tasks
    <3>3. activation' = activation /\ inFlight'[m] = inFlight[m]
      BY <1>6, <2>2
    <3>4. Holds(task[s]) => task[s].work.cursor \in Parts
      BY <3>1, PartsKnown DEF Tasked, Valid
    <3>5. Tasked(m, task[s], works[m], generation, accepted)'
      <4>1. CASE works'[m] = works[m] /\ generation' >= generation
        BY <1>1, <2>2, <3>1, <3>2, <3>4, <4>1 DEF Tasked, Holds
      <4>2. CASE works'[m].kind = "none"
        BY <2>2, <3>1, <3>4, <4>2 DEF Tasked, Holds, Owned
      <4> QED BY <4>1, <4>2
    <3>6. Calling(task[s], works[m], inFlight[m], activation)'
      BY <2>2, <3>1, <3>3 DEF Calling
    <3>7. \A r \in Slots : Msg(r) = m /\ r # s => Apart(task[s], task[r], works[m])'
      BY <2>2, <3>1 DEF Apart, Quiet, Holds
    <3> QED BY <3>5, <3>6, <3>7
  <2> QED BY <1>6, <2>1, <2>2
<1> QED BY <1>2, <1>3, <1>4, <1>5, <1>6 DEF OfMessage

\* The same for every message at once.
LEMMA Sweeps ==
  ASSUME IInv, Types', now' >= now, UNCHANGED <<issued, receipts>>, generation' >= generation,
         \A m \in Messages, k \in Parts :
           accepted[<<m, k>>] # NoPlan => accepted'[<<m, k>>] # NoPlan,
         \A m \in Messages : /\ works'[m] = works[m] \/ (works'[m].kind = "none" /\ Past(m, now))
                             /\ wiping' => Past(m, now),
         \A s \in Slots : task'[s] = task[s] \/ Quiet(task'[s]),
         \/ activation' = activation /\ inFlight' = inFlight
         \/ \A s \in Slots : Quiet(task'[s])
  PROVE  IInv'
<1> SUFFICES ASSUME NEW m \in Messages
             PROVE  OfMessage(m)'
  BY DEF IInv
<1> QED BY Sweep

\* reclaim in a transaction whose clock reading is in the past.
LEMMA CommitReclaimed ==
  ASSUME IInv, NEW t \in Nat, t <= now, NEW gen \in Nat, gen >= generation,
         Commit(ReclaimedWorks(t), gen)
  PROVE  /\ works' \in [Messages -> Works] /\ generation' \in Nat /\ generation' >= generation
         /\ wiping' \in BOOLEAN
         /\ \A m \in Messages :
              /\ works'[m] = works[m] \/ (works'[m].kind = "none" /\ Past(m, now))
              /\ wiping' => Past(m, now)
<1> DEFINE ws == ReclaimedWorks(t)
<1>1. /\ Types /\ generation \in Nat /\ now \in Nat /\ works \in [Messages -> Works]
  BY DEF IInv, Types
<1>2. \A m \in Messages : ws[m] = IF RetainUntil(works[m]) <= t THEN NoWork ELSE works[m]
  BY DEF ReclaimedWorks
<1>3. ws \in [Messages -> Works]
  BY <1>1, RecordTypes DEF ReclaimedWorks
<1>4. ASSUME NEW m \in Messages, ws[m].kind = "none"
      PROVE  Past(m, now)
  <2>1. /\ Dated(m, works[m], receipts[m], wiping, now) /\ works[m].received \in Nat
    BY <1>1, <1>4, WorkTypes DEF IInv, OfMessage
  <2>2. CASE works[m].kind = "none"
    BY <2>1, <2>2 DEF Dated, Past
  <2>3. CASE works[m].kind # "none"
    <3>1. RetainUntil(works[m]) <= t
      BY <1>2, <1>4, <2>3
    <3>2. works[m].received + Budget + Retention \in Nat
      BY <2>1, Policy
    <3>3. works[m].received + Budget + Retention <= now
      BY <1>1, <3>1, <3>2 DEF RetainUntil, DeadlineOf
    <3> QED BY <2>1, <2>3, <3>3 DEF Dated, Past
  <2> QED BY <2>2, <2>3
<1>5. \A m \in Messages : ws[m] = works[m] \/ (ws[m].kind = "none" /\ Past(m, now))
  BY <1>2, <1>4, RecordTypes
<1>6. Commit(ws, gen)
  OBVIOUS
<1> HIDE DEF ws
<1>7. CASE Held(ws) = {}
  <2>1. works' = works /\ generation' = generation /\ wiping' = TRUE
    BY <1>6, <1>7 DEF Commit, Update
  <2>2. \A m \in Messages : ws[m].kind = "none"
    BY <1>7 DEF Held
  <2> QED BY <1>1, <1>4, <2>1, <2>2
<1>8. CASE Held(ws) # {}
  <2>1. works' = ws /\ generation' = gen /\ wiping' = wiping /\ ~wiping
    BY <1>6, <1>8 DEF Commit, Update
  <2>2. wiping' = FALSE
    BY <1>1, <2>1 DEF Types
  <2> QED BY <1>3, <1>5, <2>1, <2>2
<1> QED BY <1>7, <1>8

\* An admission finds no earlier receipt: the record of one would still be there.
LEMMA FirstReceipt ==
  ASSUME IInv, NEW m \in Messages, NEW at \in Nat, NEW t \in Nat,
         t <= now, now <= t + MaxStale, Fresh(m, at), t <= at + MaxDelay,
         ReclaimedWorks(t)[m].kind = "none"
  PROVE  receipts[m] = {} /\ works[m].kind = "none"
<1>1. /\ Dated(m, works[m], receipts[m], wiping, now) /\ works[m].received \in Nat
      /\ now \in Nat /\ \A a \in receipts[m] : a \in Nat
  BY WorkTypes DEF IInv, OfMessage, Types
<1>2. ASSUME NEW a \in receipts[m]
      PROVE  FALSE
  <2>1. a + Budget + Retention <= now
    <3>1. CASE works[m].kind = "none"
      BY <1>1, <3>1 DEF Dated
    <3>2. CASE works[m].kind # "none"
      <4>1. RetainUntil(works[m]) <= t
        BY <3>2 DEF ReclaimedWorks
      <4>2. a = works[m].received
        BY <1>1, <3>2 DEF Dated
      <4> QED BY <1>1, <4>1, <4>2, Policy DEF RetainUntil, DeadlineOf
    <3> QED BY <3>1, <3>2
  <2>2. SentAt[m] <= a + FutureSkew /\ at <= SentAt[m] + MaxAge
    BY <1>1 DEF Dated, Fresh
  <2>3. SentAt[m] \in Nat /\ a \in Nat
    BY <1>1, Policy
  <2> QED BY <1>1, <2>1, <2>2, <2>3, Policy, RetentionAssumption
<1> QED BY <1>1, <1>2 DEF Dated

LEMMA ReceiveStep ==
  ASSUME IInv, NEW m \in Messages, NEW at \in 0..MaxTime, NEW t \in 0..MaxTime, Receive(m, at, t)
  PROVE  IInv'
<1> DEFINE ws == ReclaimedWorks(t)
           w == Admitted(m, at, t, generation + 1)
           new == [ws EXCEPT ![m] = w]
           unknown == ws[m].kind = "none" /\ t < at + Budget
           launch == <<m, "launch">>
<1>1. /\ Types /\ at \in Nat /\ t \in Nat /\ now \in Nat /\ t <= now /\ now <= t + MaxStale
      /\ Fresh(m, at) /\ generation \in Nat /\ generation + 1 \in Nat
      /\ UNCHANGED <<now, activation, handler, inFlight, issued, accepted>>
  BY Policy DEF IInv, Types, Receive, accountVars
<1>2. CASE /\ Commit(ws, IF unknown THEN generation + 1 ELSE generation)
           /\ UNCHANGED <<task, receipts>>
  <2> DEFINE gen == IF unknown THEN generation + 1 ELSE generation
  <2>1. gen \in Nat /\ gen >= generation /\ Commit(ws, gen)
    BY <1>1, <1>2
  <2> HIDE DEF gen
  <2>2. /\ works' \in [Messages -> Works] /\ generation' \in Nat /\ generation' >= generation
        /\ wiping' \in BOOLEAN
        /\ \A n \in Messages :
             /\ works'[n] = works[n] \/ (works'[n].kind = "none" /\ Past(n, now))
             /\ wiping' => Past(n, now)
    BY <1>1, <2>1, CommitReclaimed
  <2>3. Types' /\ now' >= now
    BY <1>1, <1>2, <2>2 DEF Types
  <2> QED BY <1>1, <1>2, <2>2, <2>3, Sweeps
<1>3. CASE /\ unknown /\ at <= LastReceipt /\ t <= at + MaxDelay /\ task[launch].pc = "idle"
           /\ Commit(new, generation + 1)
           /\ task' = [task EXCEPT ![launch] = [NoTask EXCEPT !.pc = "compute", !.work = new[m]]]
           /\ receipts' = [receipts EXCEPT ![m] = @ \cup {at}]
  <2>1. receipts[m] = {} /\ works[m].kind = "none"
    BY <1>1, <1>3, FirstReceipt
  <2>2. /\ w \in Works /\ w.kind = "computing" /\ w.received = at
        /\ w.claim.generation = generation + 1
    <3> DEFINE until == Min({at + Budget, t + Lease})
    <3>1. until \in Nat
      <4>1. at + Budget \in Nat /\ t + Lease \in Nat
        BY <1>1, Policy
      <4> QED BY <4>1, MinTwo
    <3> HIDE DEF until
    <3> DEFINE c == NewClaim(generation + 1, until)
    <3>2. c \in Claims /\ c.generation = generation + 1
      BY <1>1, <3>1, NewClaimTypes
    <3> HIDE DEF c
    <3>3. w = [NoWork EXCEPT !.kind = "computing", !.received = at, !.claim = c]
      BY DEF Admitted, c, until
    <3> HIDE DEF w
    <3> QED BY <1>1, <3>2, <3>3, RecordTypes DEF Works
  <2>3. ws \in [Messages -> Works]
    BY <1>1, RecordTypes DEF ReclaimedWorks, Types
  <2>4. \A n \in Messages : ws[n] = works[n] \/ (ws[n].kind = "none" /\ Past(n, now))
    <3> SUFFICES ASSUME NEW n \in Messages, ws[n] # works[n]
                 PROVE  ws[n].kind = "none" /\ Past(n, now)
      OBVIOUS
    <3>1. ws[n] = NoWork /\ RetainUntil(works[n]) <= t
      BY DEF ReclaimedWorks
    <3>2. Dated(n, works[n], receipts[n], wiping, now) /\ works[n].received \in Nat
      BY <1>1, WorkTypes DEF IInv, OfMessage, Types
    <3>3. works[n].received + Budget + Retention <= now
      BY <1>1, <3>1, <3>2, Policy DEF RetainUntil, DeadlineOf
    <3> QED BY <3>1, <3>2, <3>3, RecordTypes DEF Dated, Past
  <2> HIDE DEF ws, w
  <2>5. new \in [Messages -> Works] /\ new[m] = w /\ \A n \in Messages \ {m} : new[n] = ws[n]
    BY <2>2, <2>3
  <2>6. Commit(new, generation + 1)
    BY <1>3
  <2>7. task' = [task EXCEPT ![launch] = [NoTask EXCEPT !.pc = "compute", !.work = w]]
    BY <1>3, <2>5
  <2> HIDE DEF new
  <2>8. works' = new /\ generation' = generation + 1 /\ wiping' = FALSE
    <3>1. Held(new) # {}
      BY <2>2, <2>5 DEF Held
    <3> QED BY <1>1, <2>6, <3>1 DEF Commit, Update, Types
  <2>9. /\ receipts' \in [Messages -> SUBSET Nat] /\ receipts'[m] = {at}
        /\ \A n \in Messages \ {m} : receipts'[n] = receipts[n]
    BY <1>1, <1>3, <2>1 DEF Types
  <2> DEFINE x == [NoTask EXCEPT !.pc = "compute", !.work = w]
  <2>10. x \in Tasks /\ x.pc = "compute" /\ x.work = w /\ x.open = {}
    BY <2>2, RecordTypes DEF Tasks, Phases
  <2> HIDE DEF x
  <2>11. launch \in Slots /\ Msg(launch) = m
    BY DEF Slots, Msg
  <2>12. /\ task' \in [Slots -> Tasks] /\ task'[launch] = x
         /\ \A r \in Slots \ {launch} : task'[r] = task[r]
    BY <1>1, <2>7, <2>10, <2>11, SetTask DEF x
  <2> HIDE DEF launch
  <2>13. Types'
    BY <1>1, <2>5, <2>8, <2>9, <2>12 DEF Types
  <2>14. ASSUME NEW n \in Messages \ {m}
         PROVE  OfMessage(n)'
    <3>1. works'[n] = works[n] \/ (works'[n].kind = "none" /\ Past(n, now))
      BY <2>4, <2>5, <2>8
    <3>2. \A s \in Slots : Msg(s) = n => task'[s] = task[s]
      BY <2>11, <2>12
    <3>3. now' >= now /\ generation' >= generation
      BY <1>1, <2>8
    <3> QED BY <1>1, <2>8, <2>9, <2>13, <3>1, <3>2, <3>3, Sweep
  <2>15. OfMessage(m)'
    <3>1. Untouched(m) /\ OfMessage(m)
      BY <2>1 DEF IInv, OfMessage
    <3>2. Dated(m, works[m], receipts[m], wiping, now)'
      BY <1>1, <2>2, <2>5, <2>8, <2>9 DEF Dated, Fresh
    <3>3. Planned(m, works[m], issued, accepted)'
      BY <1>1, <2>2, <2>5, <2>8, <3>1 DEF Planned, Started, Untouched
    <3>4. Fenced(works[m], generation)'
      BY <1>1, <2>2, <2>5, <2>8 DEF Fenced
    <3>5. ASSUME NEW s \in Slots, Msg(s) = m
          PROVE  Tasked(m, task[s], works[m], generation, accepted)' /\ ~Holds(task'[s])
      <4>1. CASE s = launch
        BY <1>1, <2>2, <2>5, <2>8, <2>10, <2>12, <4>1 DEF Tasked, Holds, Alike
      <4>2. CASE s # launch
        <5>1. /\ task'[s] = task[s] /\ task[s].work.kind = "none" /\ task[s].open = {}
              /\ Tasked(m, task[s], works[m], generation, accepted)
          BY <2>12, <3>1, <3>5, <4>2 DEF OfMessage, Untouched
        <5> QED BY <1>1, <5>1 DEF Tasked, Holds
      <4> QED BY <4>1, <4>2
    <3>6. \A s \in Slots : Msg(s) = m =>
            /\ Calling(task[s], works[m], inFlight[m], activation)'
            /\ \A r \in Slots : Msg(r) = m /\ r # s => Apart(task[s], task[r], works[m])'
      BY <3>5 DEF Calling, Apart
    <3> QED BY <2>9, <3>2, <3>3, <3>4, <3>5, <3>6 DEF OfMessage
  <2> QED BY <2>13, <2>14, <2>15 DEF IInv
<1> QED BY <1>2, <1>3 DEF Receive

LEMMA RecoverStep ==
  ASSUME IInv, Recover
  PROVE  IInv'
<1> DEFINE t == handler.at
           run == [NoTask EXCEPT !.pc = "run", !.at = now]
<1>1. /\ Types /\ t \in Nat /\ t <= now /\ now \in Nat /\ generation \in Nat
      /\ Commit(ReclaimedWorks(t), generation)
      /\ UNCHANGED <<now, activation, inFlight, accepted, issued, receipts>>
      /\ handler' = [handler EXCEPT !.pc = "run", !.at = 0]
  BY DEF IInv, Types, Handlers, Recover, accountVars, histories
<1>2. /\ works' \in [Messages -> Works] /\ generation' \in Nat /\ generation' >= generation
      /\ wiping' \in BOOLEAN
      /\ \A m \in Messages :
           /\ works'[m] = works[m] \/ (works'[m].kind = "none" /\ Past(m, now))
           /\ wiping' => Past(m, now)
  BY <1>1, CommitReclaimed
<1>3. run \in Tasks /\ Quiet(run)
  BY <1>1, RecordTypes DEF Quiet, Tasks, Phases
<1> HIDE DEF run
<1>4. PICK due \in SUBSET Messages :
        task' = [s \in Slots |-> IF s[2] = "recover" /\ Msg(s) \in due THEN run ELSE task[s]]
  BY DEF Recover, run
<1>5. task' \in [Slots -> Tasks] /\ \A s \in Slots : task'[s] = task[s] \/ Quiet(task'[s])
  BY <1>1, <1>3, <1>4 DEF Types
<1>6. handler' \in Handlers /\ handler'.at <= now'
  <2>1. handler \in Handlers
    BY <1>1 DEF Types
  <2>2. handler'.at = 0 /\ handler' \in Handlers
    BY <1>1, <2>1 DEF Handlers
  <2> QED BY <1>1, <2>2
<1>7. Types' /\ now' >= now
  BY <1>1, <1>2, <1>5, <1>6 DEF Types
<1> QED BY <1>1, <1>2, <1>5, <1>7, Sweeps

LEMMA AcceptStep ==
  ASSUME IInv, NEW a \in Attempts, AccountAccepts(a)
  PROVE  IInv'
<1>1. /\ Types /\ now \in Nat /\ generation \in Nat
      /\ UNCHANGED <<now, activation, works, generation, alarm, wiping, handler, task, inFlight,
                     issued, receipts>>
  BY DEF IInv, Types, AccountAccepts, stored, histories
<1>2. PICK p \in issued[a] : accepted[a] = NoPlan /\ accepted' = [accepted EXCEPT ![a] = p]
  BY DEF AccountAccepts, Account!Accept
<1>3. p \in Plans /\ accepted' \in [Attempts -> Plans \cup {NoPlan}]
  BY <1>1, <1>2 DEF Types
<1>4. \A m \in Messages, k \in Parts : accepted[<<m, k>>] # NoPlan => accepted'[<<m, k>>] # NoPlan
  BY <1>1, <1>2, PartsKnown DEF Types
<1>5. Types' /\ now' >= now /\ generation' >= generation
  BY <1>1, <1>3 DEF Types
<1>6. \A m \in Messages : works'[m] = works[m] /\ (wiping' => Past(m, now))
  BY <1>1 DEF IInv, OfMessage, Dated, Past
<1> QED BY <1>1, <1>4, <1>5, <1>6, Sweeps

\* Steps of the alarm and of the clock.
LEMMA AlarmStep ==
  ASSUME IInv, AlarmFires \/ HandlerEnds \/ Tick
  PROVE  IInv'
<1>1. /\ Types /\ now \in Nat /\ generation \in Nat
      /\ UNCHANGED <<activation, works, generation, wiping, task, inFlight, issued, accepted,
                     receipts>>
  BY DEF IInv, Types, AlarmFires, HandlerEnds, Tick, stored, accountVars, histories
<1>2. now' \in Nat /\ now' >= now
  BY <1>1 DEF AlarmFires, HandlerEnds, Tick
<1>3. handler' \in Handlers /\ handler'.at <= now'
  BY <1>1, <1>2 DEF Types, Handlers, AlarmFires, HandlerEnds, Tick
<1>4. Types' /\ generation' >= generation
  BY <1>1, <1>2, <1>3 DEF Types
<1>5. \A m \in Messages : works'[m] = works[m] /\ (wiping' => Past(m, now))
  BY <1>1 DEF IInv, OfMessage, Dated, Past
<1> QED BY <1>1, <1>2, <1>4, <1>5, Sweeps

LEMMA CrashStep ==
  ASSUME IInv, Crash
  PROVE  IInv'
<1>1. /\ Types /\ now \in Nat /\ generation \in Nat /\ activation' \in Nat
      /\ UNCHANGED <<now, works, generation, issued, accepted, receipts>> /\ wiping' = FALSE
      /\ task' = [s \in Slots |-> NoTask] /\ inFlight' = [m \in Messages |-> 0]
      /\ handler' = [pc |-> IF handler.pc = "idle" THEN "idle" ELSE "retry", at |-> 0]
  BY DEF IInv, Types, Crash, LoseStorageCall, accountVars, histories
<1>2. task' \in [Slots -> Tasks] /\ \A s \in Slots : Quiet(task'[s])
  BY <1>1, RecordTypes DEF Quiet
<1>3. handler' \in Handlers /\ handler'.at <= now'
  BY <1>1 DEF Types, Handlers
<1>4. inFlight' \in [Messages -> Nat] /\ wiping' \in BOOLEAN
  BY <1>1
<1>5. Types' /\ now' >= now /\ generation' >= generation
  BY <1>1, <1>2, <1>3, <1>4 DEF Types
<1> QED BY <1>1, <1>2, <1>5, Sweeps

LEMMA WipeStep ==
  ASSUME IInv, Wipe
  PROVE  IInv'
<1>1. /\ Types /\ now \in Nat /\ wiping /\ wiping' = FALSE /\ generation' = 0
      /\ works' = [m \in Messages |-> NoWork]
      /\ UNCHANGED <<now, activation, handler, task, inFlight, issued, accepted, receipts>>
  BY DEF IInv, Types, Wipe, DeleteAll, accountVars, histories
<1>2. Types' /\ now' >= now
  <2>1. works' \in [Messages -> Works] /\ wiping' \in BOOLEAN /\ generation' \in Nat
    BY <1>1, RecordTypes
  <2> QED BY <1>1, <2>1 DEF Types
<1> SUFFICES ASSUME NEW m \in Messages
             PROVE  OfMessage(m)'
  BY <1>2 DEF IInv
<1>3. Past(m, now)
  BY <1>1 DEF IInv, OfMessage, Dated, Past
<1>4. works'[m].kind = "none"
  BY <1>1, RecordTypes
<1> QED BY <1>1, <1>2, <1>3, <1>4, Sweep

LEMMA StutterStep ==
  ASSUME IInv, UNCHANGED vars
  PROVE  IInv'
<1>1. /\ Types /\ now \in Nat /\ generation \in Nat
      /\ UNCHANGED <<now, activation, works, generation, wiping, handler, task, inFlight, issued,
                     accepted, receipts>>
  BY DEF IInv, Types, vars
<1>2. Types' /\ now' >= now /\ generation' >= generation
  BY <1>1 DEF Types
<1>3. \A m \in Messages : works'[m] = works[m] /\ (wiping' => Past(m, now))
  BY <1>1 DEF IInv, OfMessage, Dated, Past
<1> QED BY <1>1, <1>2, <1>3, Sweeps

-----------------------------------------------------------------------------
(***************************************************************************)
(* The invariant, and the properties that follow from it.                  *)
(***************************************************************************)
LEMMA Initially == Init => IInv
<1> SUFFICES ASSUME Init
             PROVE  IInv
  OBVIOUS
<1>1. Types
  <2>1. now \in Nat /\ generation \in Nat /\ activation \in Nat /\ wiping \in BOOLEAN
    BY DEF Init
  <2>2. works \in [Messages -> Works] /\ task \in [Slots -> Tasks]
    BY RecordTypes DEF Init
  <2>3. handler \in Handlers /\ handler.at <= now
    BY DEF Init, Handlers
  <2>4. inFlight \in [Messages -> Nat] /\ receipts \in [Messages -> SUBSET Nat]
    BY DEF Init
  <2>5. issued \in [Attempts -> SUBSET Plans] /\ accepted \in [Attempts -> Plans \cup {NoPlan}]
    BY DEF Init, Account!OutboxInit
  <2> QED BY <2>1, <2>2, <2>3, <2>4, <2>5 DEF Types
<1>2. ASSUME NEW m \in Messages
      PROVE  OfMessage(m)
  <2>1. /\ works[m].kind = "none" /\ receipts[m] = {} /\ wiping = FALSE
        /\ \A k \in Parts : issued[<<m, k>>] = {}
        /\ \A s \in Slots : task[s] = NoTask
    BY RecordTypes, PartsKnown DEF Init
  <2>2. Dated(m, works[m], receipts[m], wiping, now)
    BY <2>1 DEF Dated
  <2>3. Planned(m, works[m], issued, accepted) /\ Fenced(works[m], generation)
    BY <2>1 DEF Planned, Started, Fenced, Owned
  <2>4. Untouched(m)
    BY <2>1, RecordTypes DEF Untouched
  <2>5. \A s \in Slots : Quiet(task[s])
    BY <2>1, RecordTypes DEF Quiet
  <2> QED BY <2>1, <2>2, <2>3, <2>4, <2>5 DEF OfMessage, Tasked, Calling, Apart, Quiet, Holds
<1> QED BY <1>1, <1>2 DEF IInv

LEMMA Inductive == IInv /\ [Next]_vars => IInv'
<1> SUFFICES ASSUME IInv, [Next]_vars
             PROVE  IInv'
  OBVIOUS
<1>1. CASE \E m \in Messages, at, t \in 0..MaxTime : Receive(m, at, t)
  BY <1>1, ReceiveStep
<1>2. CASE \E s \in Slots : Step(s)
  BY <1>2, ComputeStep, CommitPlanStep, RunStep, ExpireStep, JoinedStep, AnswerStep, SettleStep
     DEF Step
<1>3. CASE \E a \in Attempts : AccountAccepts(a)
  BY <1>3, AcceptStep
<1>4. CASE AlarmFires \/ HandlerEnds \/ Tick
  BY <1>4, AlarmStep
<1>5. CASE Recover
  BY <1>5, RecoverStep
<1>6. CASE Wipe
  BY <1>6, WipeStep
<1>7. CASE Crash
  BY <1>7, CrashStep
<1>8. CASE UNCHANGED vars
  BY <1>8, StutterStep
<1> QED BY <1>1, <1>2, <1>3, <1>4, <1>5, <1>6, <1>7, <1>8 DEF Next

\* What tenant.ts keeps of every message through admissions, claims, answers, alarms,
\* reconstructions and the deletion of its storage.
THEOREM Invariance == Spec => []IInv
BY Initially, Inductive, PTL DEF Spec

LEMMA AtMostOne ==
  ASSUME NEW S, \A x, y \in S : x = y
  PROVE  Cardinality(S) <= 1
<1>1. CASE S = {}
  BY <1>1, FS_EmptySet
<1>2. CASE S # {}
  <2>1. PICK x : S = {x}
    BY <1>2
  <2> QED BY <2>1, FS_Singleton
<1> QED BY <1>1, <1>2

\* computeTwitch freezes a message's plan once: whatever is computed again after an expired
\* lease or a reconstruction, every dispatch of the message carries that one plan.
THEOREM PlanFrozen == Spec => []OnePlan
<1>1. IInv => OnePlan
  <2> SUFFICES ASSUME IInv, NEW m \in Messages
               PROVE  Cardinality(UNION {issued[<<m, k>>] : k \in Parts}) <= 1
    BY DEF OnePlan
  <2> DEFINE all == UNION {issued[<<m, k>>] : k \in Parts}
  <2>1. \A p, q \in all : p = q
    <3>1. Planned(m, works[m], issued, accepted)
      BY DEF IInv, OfMessage
    <3>2. \A k, l \in Parts : \A p \in issued[<<m, k>>], q \in issued[<<m, l>>] : p = q
      BY <3>1 DEF Planned
    <3>3. \A p \in all : \E k \in Parts : p \in issued[<<m, k>>]
      OBVIOUS
    <3> HIDE DEF all
    <3> TAKE p, q \in all
    <3>4. PICK k \in Parts : p \in issued[<<m, k>>]
      BY <3>3
    <3>5. PICK l \in Parts : q \in issued[<<m, l>>]
      BY <3>3
    <3> QED BY <3>2, <3>4, <3>5
  <2> HIDE DEF all
  <2>2. Cardinality(all) <= 1
    BY <2>1, AtMostOne
  <2> QED BY <2>2 DEF all
<1> QED BY <1>1, Invariance, PTL

\* dispatchWork moves the cursor only after an accepted part: no part of a reply is posted
\* before Twitch accepted the one before it, in any later activation either.
THEOREM PartsFollow == Spec => []PartsInOrder
<1>1. IInv => PartsInOrder
  BY DEF IInv, OfMessage, Planned, PartsInOrder
<1> QED BY <1>1, Invariance, PTL

\* The in-memory delivery map of tenant.ts: one fiber at a time calls the account for a
\* message, although the claim of a running call may expire and be taken over.
THEOREM OneCaller == Spec => []SingleCaller
<1>1. IInv => SingleCaller
  <2> SUFFICES ASSUME IInv, NEW s \in Slots, NEW r \in Slots, task[s].pc = "calling",
                      task[r].pc = "calling", Msg(s) = Msg(r), s # r
               PROVE  FALSE
    BY DEF SingleCaller
  <2>1. Msg(s) \in Messages
    BY SlotTypes DEF IInv
  <2>2. Apart(task[s], task[r], works[Msg(s)])
    BY <2>1 DEF IInv, OfMessage
  <2> QED BY <2>2 DEF Apart, Holds
<1> QED BY <1>1, Invariance, PTL

\* acceptTwitch, reclaim and the freshness check of ingress.ts: no redelivery that is still
\* fresh is admitted after the record of the first has gone, so it never gets a new deadline.
THEOREM DeadlineKept == Spec => []DeadlineNeverExtended
<1>1. IInv => DeadlineNeverExtended
  <2> SUFFICES ASSUME IInv, NEW m \in Messages
               PROVE  Cardinality(receipts[m]) <= 1
    BY DEF DeadlineNeverExtended
  <2>1. \A a, b \in receipts[m] : a = b
    BY DEF IInv, OfMessage, Dated
  <2> QED BY <2>1, AtMostOne
<1> QED BY <1>1, Invariance, PTL

-----------------------------------------------------------------------------
(***************************************************************************)
(* The whole type invariant: the alarm is a time, the account's promises   *)
(* keep their type, and the records and what the fibers captured of them   *)
(* have a claim, a plan and an outcome exactly in the states that need     *)
(* them.                                                                   *)
(***************************************************************************)
Promised == [Attempts -> [Plans -> SUBSET Account!Promises]]

Shaped ==
  /\ alarm \in Nat /\ told \in Promised
  /\ \A m \in Messages : WorkOK(works[m])
  /\ \A s \in Slots : WorkOK(task[s].work)

LEMMA LeastOfNats == ASSUME NEW S \in SUBSET Nat, S # {} PROVE \E m \in S : \A n \in S : m <= n
<1> DEFINE T == {0..m : m \in S}
<1>1. T \in SUBSET FiniteSubsetsOf(Nat) /\ T # {}
  <2>1. ASSUME NEW m \in S PROVE 0..m \in FiniteSubsetsOf(Nat)
    <3>1. m \in Int /\ 0 \in Int /\ 0..m \subseteq Nat
      OBVIOUS
    <3>2. IsFiniteSet(0..m)
      BY <3>1, FS_Interval
    <3>3. QED
      BY <3>1, <3>2 DEF FiniteSubsetsOf
  <2>2. QED
    BY <2>1
<1>2. PICK x \in T : \A y \in T : ~(<<y, x>> \in StrictSubsetOrdering(Nat))
  <2> HIDE DEF T
  <2>1. QED
    BY <1>1, FS_StrictSubsetOrderingWellFounded, WFMin
<1>3. PICK m \in S : x = 0..m
  OBVIOUS
<1>4. ASSUME NEW n \in S, n < m PROVE FALSE
  <2> DEFINE a == 0..n  b == 0..m
  <2>1. m \in Nat /\ n \in Nat
    OBVIOUS
  <2>2. a \in SUBSET Nat /\ b \in SUBSET Nat /\ a \subseteq b /\ m \in b /\ m \notin a
    BY <1>4, <2>1
  <2>3. a \in T /\ b = x
    BY <1>3
  <2> HIDE DEF a, b
  <2>4. <<a, b>> \in StrictSubsetOrdering(Nat)
    BY <2>2 DEF StrictSubsetOrdering
  <2>5. QED
    BY <1>2, <2>3, <2>4
<1>5. QED
  BY <1>4

LEMMA AlarmTyped ==
  ASSUME NEW ws \in [Messages -> Works], Held(ws) # {}
  PROVE  NextAlarm(ws) \in Nat
<1> DEFINE retained == {RetainUntil(ws[m]) : m \in Held(ws)}
           pending == {n \in Held(ws) : Pending(ws[n])}
           due == UNION {{DueAt(ws[m]), DeadlineOf(ws[m])} : m \in pending}
           times == retained \cup due
<1>1. ASSUME NEW m \in Messages
      PROVE  RetainUntil(ws[m]) \in Nat /\ DueAt(ws[m]) \in Nat /\ DeadlineOf(ws[m]) \in Nat
  BY Policy, WorkTypes DEF RetainUntil, DueAt
<1>2. retained \subseteq Nat /\ retained # {}
  BY <1>1 DEF Held
<1>3. due \subseteq Nat
  BY <1>1 DEF Held
<1> HIDE DEF retained, due
<1>4. times \in SUBSET Nat /\ times # {}
  BY <1>2, <1>3
<1> HIDE DEF times
<1>5. Min(times) \in Nat
  BY <1>4, LeastOfNats DEF Min
<1> QED BY <1>5 DEF NextAlarm, times, retained, due, pending

LEMMA CommitShaped ==
  ASSUME Types, Shaped, NEW ws \in [Messages -> Works], NEW gen,
         \A m \in Messages : WorkOK(ws[m]), Commit(ws, gen)
  PROVE  alarm' \in Nat /\ \A m \in Messages : WorkOK(works'[m])
<1>1. CASE Held(ws) = {}
  <2>1. works' = works /\ alarm' = now + WipeDelay
    BY <1>1 DEF Commit, Update, WipeAlarm
  <2>2. alarm' \in Nat
    BY <2>1, TenantStorageAssumption DEF Types
  <2> QED BY <2>1, <2>2 DEF Shaped
<1>2. CASE Held(ws) # {}
  <2>1. works' = ws /\ alarm' = NextAlarm(ws)
    BY <1>2 DEF Commit, Update
  <2> QED BY <1>2, <2>1, AlarmTyped
<1> QED BY <1>1, <1>2

\* A transaction of one message.
LEMMA OneShaped ==
  ASSUME Types, Shaped, NEW m \in Messages, NEW w \in Works, WorkOK(w), NEW gen,
         Commit([works EXCEPT ![m] = w], gen)
  PROVE  alarm' \in Nat /\ \A n \in Messages : WorkOK(works'[n])
<1> DEFINE ws == [works EXCEPT ![m] = w]
<1>1. ws \in [Messages -> Works] /\ \A n \in Messages : WorkOK(ws[n])
  BY DEF Types, Shaped
<1> HIDE DEF ws
<1>2. Commit(ws, gen)
  BY DEF ws
<1> QED BY <1>1, <1>2, CommitShaped

LEMMA SameShaped ==
  ASSUME Types, Shaped, NEW gen, Commit(works, gen)
  PROVE  alarm' \in Nat /\ \A m \in Messages : WorkOK(works'[m])
BY CommitShaped DEF Types, Shaped

LEMMA NoWorkOK == WorkOK(NoWork)
BY DEF WorkOK, NoWork

LEMMA StopOK ==
  ASSUME NEW w, NEW o \in Outcomes \ {"none"}
  PROVE  WorkOK(Stop(w, o))
BY DEF WorkOK, Stop, NoWork

LEMMA ReadyOK ==
  ASSUME NEW w, NEW p \in Plans, NEW k \in 1..PartsOf[p], NEW t
  PROVE  WorkOK(Ready(w, p, k, t))
BY PartsKnown DEF WorkOK, Ready, NoWork

LEMMA ClaimedOK ==
  ASSUME NEW w \in Works, WorkOK(w), NEW kind \in {"computing", "delivering"}, NEW c \in Claims,
         c.generation # 0, Pending(w), kind = "computing" <=> w.kind = "computing"
  PROVE  WorkOK(Claimed(w, kind, c))
<1> DEFINE v == Claimed(w, kind, c)
<1>1. /\ v.kind = kind /\ v.claim = c /\ v.plan = w.plan /\ v.cursor = w.cursor
      /\ v.outcome = w.outcome
  BY DEF Claimed, Works
<1>2. c # NoClaim
  BY DEF NoClaim
<1> HIDE DEF v
<1>3. WorkOK(v)
  BY <1>1, <1>2 DEF WorkOK, Pending
<1> QED BY <1>3 DEF v

\* A fiber that ends or goes on captures nothing.
LEMMA MovedShaped ==
  ASSUME Types, Shaped, NEW s \in Slots, Finish(s) \/ \E pc \in Phases : Enter(s, pc)
  PROVE  \A r \in Slots : WorkOK(task'[r].work)
<1>1. task'[s].work = NoWork /\ \A r \in Slots \ {s} : task'[r] = task[r]
  BY Finished, Entered, RecordTypes
<1> QED BY <1>1, NoWorkOK DEF Shaped

LEMMA SetShaped ==
  ASSUME Types, Shaped, NEW s \in Slots, NEW x, WorkOK(x.work), task' = [task EXCEPT ![s] = x]
  PROVE  \A r \in Slots : WorkOK(task'[r].work)
<1>1. task'[s] = x /\ \A r \in Slots \ {s} : task'[r] = task[r]
  BY DEF Types
<1> QED BY <1>1 DEF Shaped

LEMMA AfterAnswerOK ==
  ASSUME NEW w \in Works, w.kind = "delivering", Valid(w), WorkOK(w), w.claim.generation # 0,
         NEW o \in Answers, NEW t \in Nat, NEW retryAt \in Nat
  PROVE  AfterAnswer(w, o, t, retryAt) \in Works /\ WorkOK(AfterAnswer(w, o, t, retryAt))
<1> DEFINE next == AfterAnswer(w, o, t, retryAt)
           late == t >= DeadlineOf(w)
           again == o = "retryable" /\ ~late /\ retryAt < DeadlineOf(w)
           until == Min({DeadlineOf(w), t + FailureLease})
           failed == [w EXCEPT !.claim = [@ EXCEPT !.until = until]]
<1>1. /\ w.plan \in Plans /\ PartsOf[w.plan] \in Nat /\ w.cursor \in 1..PartsOf[w.plan]
      /\ w.cursor \in Nat /\ DeadlineOf(w) \in Nat
  BY PartsKnown, WorkTypes DEF Valid
<1>2. until \in Nat
  <2>1. t + FailureLease \in Nat
    BY Policy
  <2> QED BY <1>1, <2>1, MinTwo
<1>3. Max({t, retryAt}) \in Nat
  BY MaxTwo
<1>4. failed \in Works /\ WorkOK(failed)
  <2> HIDE DEF until
  <2>1. /\ failed \in Works /\ failed.kind = w.kind /\ failed.plan = w.plan
        /\ failed.cursor = w.cursor /\ failed.outcome = w.outcome
        /\ failed.claim.generation # 0
    BY <1>2 DEF Works, Claims
  <2> HIDE DEF failed
  <2>2. failed.claim # NoClaim
    BY <2>1 DEF NoClaim
  <2> QED BY <2>1, <2>2 DEF WorkOK
<1>5. CASE o = "sent" /\ ~IsLast(w) /\ ~late
  <2>1. next = Ready(w, w.plan, w.cursor + 1, t)
    BY <1>5 DEF AfterAnswer, Advances
  <2>2. w.cursor + 1 \in Nat /\ w.cursor + 1 \in 1..PartsOf[w.plan]
    BY <1>1, <1>5 DEF IsLast
  <2>3. Ready(w, w.plan, w.cursor + 1, t) \in Works
    BY <1>1, <2>2, ReadyTypes
  <2>4. WorkOK(Ready(w, w.plan, w.cursor + 1, t))
    BY <1>1, <2>2, ReadyOK
  <2> QED BY <2>1, <2>3, <2>4
<1>6. CASE again
  <2>1. next = Ready(w, w.plan, w.cursor, Max({t, retryAt}))
    BY <1>6 DEF AfterAnswer, Advances
  <2>2. Ready(w, w.plan, w.cursor, Max({t, retryAt})) \in Works
    BY <1>1, <1>3, ReadyTypes
  <2>3. WorkOK(Ready(w, w.plan, w.cursor, Max({t, retryAt})))
    BY <1>1, ReadyOK
  <2> QED BY <2>1, <2>2, <2>3
<1>7. CASE o = "failed" /\ ~late
  <2>1. next = failed
    BY <1>7 DEF AfterAnswer, Advances
  <2> QED BY <1>4, <2>1
<1>8. CASE \/ o = "sent" /\ (IsLast(w) \/ late)
           \/ o = "retryable" /\ ~again
           \/ o = "failed" /\ late
           \/ o \in {"rejected", "ambiguous", "expired"}
  <2>1. \/ next = Stop(w, "expired")
        \/ next = Stop(w, o) /\ o \notin {"retryable", "failed"}
    BY <1>8 DEF AfterAnswer, Advances
  <2>2. PICK d \in Outcomes \ {"none"} : next = Stop(w, d)
    BY <2>1 DEF Outcomes, Answers
  <2> QED BY <2>2, StopTypes, StopOK
<1> QED BY <1>5, <1>6, <1>7, <1>8 DEF Answers

\* What the invariant says of the record a fiber captured.
LEMMA OwnClaim ==
  ASSUME IInv, NEW s \in Slots, Matches(s)
  PROVE  Captured(s).claim.generation # 0 /\ Owned(Work(s)) /\ Captured(s).claim = Work(s).claim
<1>1. Fenced(works[Msg(s)], generation)
  BY SlotTypes DEF IInv, OfMessage
<1> QED BY <1>1 DEF Matches, Fenced, Owned, Work, Captured

LEMMA ReceiveShaped ==
  ASSUME IInv, Shaped, NEW m \in Messages, NEW at \in 0..MaxTime, NEW t \in 0..MaxTime,
         Receive(m, at, t)
  PROVE  Shaped'
<1> DEFINE ws == ReclaimedWorks(t)
           w == Admitted(m, at, t, generation + 1)
           new == [ws EXCEPT ![m] = w]
           launch == <<m, "launch">>
<1>1. Types /\ at \in Nat /\ t \in Nat /\ generation + 1 \in Nat
  BY Policy DEF IInv, Types
<1>2. ws \in [Messages -> Works] /\ \A n \in Messages : WorkOK(ws[n])
  BY <1>1, RecordTypes, NoWorkOK DEF ReclaimedWorks, Types, Shaped
<1>3. w \in Works /\ WorkOK(w)
  <2> DEFINE until == Min({at + Budget, t + Lease})
             c == NewClaim(generation + 1, until)
  <2>1. until \in Nat
    <3>1. at + Budget \in Nat /\ t + Lease \in Nat
      BY <1>1, Policy
    <3> QED BY <3>1, MinTwo
  <2> HIDE DEF until
  <2>2. c \in Claims /\ c.generation = generation + 1
    BY <1>1, <2>1, NewClaimTypes
  <2>3. c # NoClaim
    BY <1>1, <2>2 DEF NoClaim, Types
  <2>4. w = [NoWork EXCEPT !.kind = "computing", !.received = at, !.claim = c]
    BY DEF Admitted, until
  <2> HIDE DEF c, w
  <2>5. NoWork \in Works /\ NoWork.plan = NoPlan /\ NoWork.outcome = "none"
    BY RecordTypes DEF NoWork
  <2>6. /\ w \in Works /\ w.kind = "computing" /\ w.claim = c /\ w.plan = NoPlan
        /\ w.outcome = "none"
    BY <1>1, <2>2, <2>4, <2>5 DEF Works
  <2> QED BY <2>3, <2>6 DEF WorkOK
<1> HIDE DEF ws, w
<1>4. new \in [Messages -> Works] /\ new[m] = w /\ \A n \in Messages : WorkOK(new[n])
  BY <1>2, <1>3
<1> HIDE DEF new
<1>5. told' = told
  BY DEF Receive, accountVars
<1>6. ASSUME NEW gen, Commit(ws, gen), UNCHANGED task
      PROVE  Shaped'
  <2>1. alarm' \in Nat /\ \A n \in Messages : WorkOK(works'[n])
    BY <1>1, <1>2, <1>6, CommitShaped
  <2> QED BY <1>5, <1>6, <2>1 DEF Shaped
<1>7. ASSUME Commit(new, generation + 1),
             task' = [task EXCEPT ![launch] = [NoTask EXCEPT !.pc = "compute", !.work = new[m]]]
      PROVE  Shaped'
  <2> DEFINE x == [NoTask EXCEPT !.pc = "compute", !.work = new[m]]
  <2>1. x.work = w
    BY <1>4 DEF NoTask
  <2>2. task' = [task EXCEPT ![launch] = x]
    BY <1>7
  <2>3. launch \in Slots
    BY DEF Slots
  <2> HIDE DEF x, launch
  <2>4. \A s \in Slots : WorkOK(task'[s].work)
    BY <1>1, <1>3, <2>1, <2>2, <2>3, SetShaped
  <2>5. alarm' \in Nat /\ \A n \in Messages : WorkOK(works'[n])
    BY <1>1, <1>4, <1>7, CommitShaped
  <2> QED BY <1>5, <2>4, <2>5 DEF Shaped
<1> QED BY <1>6, <1>7 DEF Receive, new, ws, w, launch

LEMMA CommitPlanShaped ==
  ASSUME IInv, Shaped, NEW s \in Slots, CommitPlan(s)
  PROVE  Shaped'
<1> DEFINE w == Captured(s)
           stopped == Stop(w, "expired")
           frozen == Ready(w, task[s].plan, 1, task[s].at)
<1>1. /\ Types /\ w \in Works /\ task[s].at \in Nat /\ task[s].plan \in Plans
      /\ Msg(s) \in Messages /\ told' = told /\ generation \in Nat
  <2>1. Tasked(Msg(s), task[s], works[Msg(s)], generation, accepted)
    BY SlotTypes DEF IInv, OfMessage
  <2> QED BY <2>1, SlotTypes DEF IInv, Types, CommitPlan, accountVars, Tasked
<1>2. stopped \in Works /\ WorkOK(stopped)
  <2>1. "expired" \in Outcomes \ {"none"}
    BY DEF Outcomes
  <2> QED BY <1>1, <2>1, StopTypes, StopOK
<1>3. frozen \in Works /\ WorkOK(frozen)
  <2>1. 1 \in 1..PartsOf[task[s].plan]
    BY <1>1, PartsKnown
  <2> QED BY <1>1, <2>1, ReadyTypes, ReadyOK
<1>4. Finish(s) \/ \E pc \in Phases : Enter(s, pc)
  BY DEF CommitPlan, Phases
<1>5. \A r \in Slots : WorkOK(task'[r].work)
  BY <1>1, <1>4, MovedShaped
<1>6. \/ Commit(works, generation)
      \/ Commit([works EXCEPT ![Msg(s)] = stopped], generation)
      \/ Commit([works EXCEPT ![Msg(s)] = frozen], generation)
  BY DEF CommitPlan
<1> HIDE DEF stopped, frozen
<1>7. alarm' \in Nat /\ \A m \in Messages : WorkOK(works'[m])
  BY <1>1, <1>2, <1>3, <1>6, OneShaped, SameShaped
<1> QED BY <1>1, <1>5, <1>7 DEF Shaped

LEMMA RunShaped ==
  ASSUME IInv, Shaped, NEW s \in Slots, Run(s)
  PROVE  Shaped'
<1> DEFINE m == Msg(s)
           v == works[m]
           t == task[s].at
           over == Pending(v) /\ t >= DeadlineOf(v)
           length == IF v.kind = "computing" THEN Lease ELSE DeliveryLease
           until == Min({DeadlineOf(v), t + length})
           c == NewClaim(generation + 1, until)
           kind == IF v.kind = "computing" THEN "computing" ELSE "delivering"
           w == Claimed(v, kind, c)
           stopped == Stop(v, "expired")
<1>1. /\ Types /\ m \in Messages /\ v \in Works /\ t \in Nat /\ WorkOK(v)
      /\ generation \in Nat /\ generation + 1 \in Nat /\ generation + 1 # 0 /\ told' = told
  BY SlotTypes DEF IInv, Types, Run, accountVars, Shaped
<1>2. ASSUME Pending(v)
      PROVE  w \in Works /\ WorkOK(w)
  <2>1. until \in Nat
    <3>1. DeadlineOf(v) \in Nat /\ t + length \in Nat
      BY <1>1, WorkTypes, Policy
    <3> HIDE DEF length
    <3> QED BY <3>1, MinTwo
  <2> HIDE DEF until
  <2>2. c \in Claims /\ c.generation # 0
    BY <1>1, <2>1, NewClaimTypes
  <2>3. kind \in {"computing", "delivering"} /\ (kind = "computing" <=> v.kind = "computing")
    OBVIOUS
  <2> HIDE DEF c, v, kind
  <2> QED BY <1>1, <1>2, <2>2, <2>3, ClaimedTypes, ClaimedOK
<1>3. stopped \in Works /\ WorkOK(stopped)
  <2>1. "expired" \in Outcomes \ {"none"}
    BY DEF Outcomes
  <2> QED BY <1>1, <2>1, StopTypes, StopOK
<1>4. CASE Commit(works, generation) /\ Finish(s)
  <2>1. \A r \in Slots : WorkOK(task'[r].work)
    BY <1>1, <1>4, MovedShaped
  <2>2. alarm' \in Nat /\ \A n \in Messages : WorkOK(works'[n])
    BY <1>1, <1>4, SameShaped
  <2> QED BY <1>1, <2>1, <2>2 DEF Shaped
<1>5. CASE Commit([works EXCEPT ![m] = stopped], generation) /\ Finish(s)
  <2>1. \A r \in Slots : WorkOK(task'[r].work)
    BY <1>1, <1>5, MovedShaped
  <2> HIDE DEF stopped
  <2>2. alarm' \in Nat /\ \A n \in Messages : WorkOK(works'[n])
    BY <1>1, <1>3, <1>5, OneShaped
  <2> QED BY <1>1, <2>1, <2>2 DEF Shaped
<1>6. CASE /\ Commit(works, generation)
           /\ task' = [task EXCEPT ![s] = [@ EXCEPT !.pc = "join", !.work = v]]
  <2> DEFINE x == [task[s] EXCEPT !.pc = "join", !.work = v]
  <2>1. x.work = v
    BY <1>1 DEF Types, Tasks
  <2>2. task' = [task EXCEPT ![s] = x]
    BY <1>6
  <2> HIDE DEF x
  <2>3. \A r \in Slots : WorkOK(task'[r].work)
    BY <1>1, <2>1, <2>2, SetShaped
  <2>4. alarm' \in Nat /\ \A n \in Messages : WorkOK(works'[n])
    BY <1>1, <1>6, SameShaped
  <2> QED BY <1>1, <2>3, <2>4 DEF Shaped
<1>7. ASSUME Pending(v), Commit([works EXCEPT ![m] = w], generation + 1),
             NEW x, x.work = w, task' = [task EXCEPT ![s] = x]
      PROVE  Shaped'
  <2>1. w \in Works /\ WorkOK(w)
    BY <1>2, <1>7
  <2> HIDE DEF w
  <2>2. \A r \in Slots : WorkOK(task'[r].work)
    BY <1>1, <1>7, <2>1, SetShaped
  <2>3. alarm' \in Nat /\ \A n \in Messages : WorkOK(works'[n])
    BY <1>1, <1>7, <2>1, OneShaped
  <2> QED BY <1>1, <2>2, <2>3 DEF Shaped
<1>8. ASSUME Pending(v), Commit([works EXCEPT ![m] = w], generation + 1),
             task' = [task EXCEPT ![s] = [@ EXCEPT !.pc = "compute", !.work = w]]
      PROVE  Shaped'
  <2> DEFINE x == [task[s] EXCEPT !.pc = "compute", !.work = w]
  <2>1. task' = [task EXCEPT ![s] = x] /\ x.work = w
    BY <1>1, <1>8 DEF Types, Tasks
  <2> HIDE DEF x
  <2> QED BY <1>7, <1>8, <2>1
<1>9. ASSUME Pending(v), Commit([works EXCEPT ![m] = w], generation + 1), NEW pc,
             task' = [task EXCEPT ![s] =
                        [@ EXCEPT !.pc = pc, !.at = now, !.work = w,
                                  !.open = task[s].open \cup {generation + 1}]]
      PROVE  Shaped'
  <2> DEFINE x == [task[s] EXCEPT !.pc = pc, !.at = now, !.work = w,
                                  !.open = task[s].open \cup {generation + 1}]
  <2>1. task' = [task EXCEPT ![s] = x] /\ x.work = w
    BY <1>1, <1>9 DEF Types, Tasks
  <2> HIDE DEF x
  <2> QED BY <1>7, <1>9, <2>1
<1> HIDE DEF w
<1> QED BY <1>4, <1>5, <1>6, <1>8, <1>9 DEF Run, Work, w, kind, c, until, length, stopped

LEMMA SettleShaped ==
  ASSUME IInv, Shaped, NEW s \in Slots, Settle(s)
  PROVE  Shaped'
<1> DEFINE m == Msg(s)
           v == task[s].work
           w == AfterAnswer(v, task[s].reply, task[s].at, task[s].retryAt)
<1>1. /\ Types /\ m \in Messages /\ v \in Works /\ task[s].pc = "answered" /\ told' = told
      /\ task[s].reply \in Answers /\ task[s].at \in Nat /\ task[s].retryAt \in Nat
      /\ v.kind = "delivering" /\ Valid(v) /\ WorkOK(v) /\ Captured(s) = v
  <2>1. Tasked(m, task[s], works[m], generation, accepted)
    BY SlotTypes DEF IInv, OfMessage
  <2> QED BY <2>1, SlotTypes DEF IInv, Settle, accountVars, Types, Tasks, Tasked, Holds, Shaped
<1>2. Finish(s) \/ \E pc \in Phases : Enter(s, pc)
  BY DEF Settle, Phases
<1>3. \A r \in Slots : WorkOK(task'[r].work)
  BY <1>1, <1>2, MovedShaped
<1>4. CASE Matches(s) /\ Commit([works EXCEPT ![m] = w], generation)
  <2>1. v.claim.generation # 0
    BY <1>1, <1>4, OwnClaim
  <2>2. w \in Works /\ WorkOK(w)
    BY <1>1, <2>1, AfterAnswerOK
  <2> HIDE DEF w
  <2>3. alarm' \in Nat /\ \A n \in Messages : WorkOK(works'[n])
    BY <1>1, <1>4, <2>2, OneShaped
  <2> QED BY <1>1, <1>3, <2>3 DEF Shaped
<1>5. CASE Commit(works, generation)
  <2>1. alarm' \in Nat /\ \A n \in Messages : WorkOK(works'[n])
    BY <1>1, <1>5, SameShaped
  <2> QED BY <1>1, <1>3, <2>1 DEF Shaped
<1> QED BY <1>4, <1>5 DEF Settle, Captured

LEMMA ExpireShaped ==
  ASSUME IInv, Shaped, NEW s \in Slots, ExpireDelivery(s)
  PROVE  Shaped'
<1> DEFINE stopped == Stop(Captured(s), "expired")
<1>1. /\ Types /\ Msg(s) \in Messages /\ told' = told
      /\ \/ Commit(works, generation)
         \/ Commit([works EXCEPT ![Msg(s)] = stopped], generation)
  BY SlotTypes DEF IInv, ExpireDelivery, accountVars
<1>2. stopped \in Works /\ WorkOK(stopped)
  <2>1. "expired" \in Outcomes \ {"none"}
    BY DEF Outcomes
  <2> QED BY <1>1, <2>1, SlotTypes, StopTypes, StopOK
<1> HIDE DEF stopped
<1>3. alarm' \in Nat /\ \A n \in Messages : WorkOK(works'[n])
  BY <1>1, <1>2, OneShaped, SameShaped
<1>4. \A r \in Slots : WorkOK(task'[r].work)
  BY <1>1, MovedShaped DEF ExpireDelivery
<1> QED BY <1>1, <1>3, <1>4 DEF Shaped

LEMMA AnswersShaped ==
  ASSUME IInv, Shaped, NEW s \in Slots, AccountAnswers(s)
  PROVE  Shaped'
<1> DEFINE w == task[s].work
           a == <<Msg(s), w.cursor>>
<1>1. Types /\ task[s] \in Tasks /\ WorkOK(w) /\ UNCHANGED <<works, alarm>>
  BY SlotTypes DEF IInv, AccountAnswers, stored, Shaped
<1>2. PICK o, retryAt : Answered(s, o, retryAt)
  BY DEF AccountAnswers
<1>3. \A r \in Slots : WorkOK(task'[r].work)
  <2> DEFINE x == [task[s] EXCEPT !.pc = "answered", !.at = now, !.reply = o,
                                  !.retryAt = retryAt]
  <2>1. x.work = w /\ task' = [task EXCEPT ![s] = x]
    BY <1>1, <1>2 DEF Answered, Tasks
  <2> HIDE DEF x
  <2> QED BY <1>1, <2>1, SetShaped
<1>4. told' \in Promised
  <2>1. CASE told' = told
    BY <2>1 DEF Shaped
  <2>2. CASE \E d \in {"sent", "rejected"} : Account!Tell(a, w.plan, d)
    <3>1. PICK d \in {"sent", "rejected"} : Account!Tell(a, w.plan, d)
      BY <2>2
    <3>2. d \in Account!Promises /\ told' = [told EXCEPT ![a][w.plan] = @ \cup {d}]
      BY <3>1 DEF Account!Tell, Account!Promises
    <3> QED BY <3>2 DEF Shaped, Promised
  <2> QED BY <2>1, <2>2 DEF AccountAnswers, Captured, Attempt, accountVars
<1> QED BY <1>1, <1>3, <1>4 DEF Shaped

LEMMA RecoverShaped ==
  ASSUME IInv, Shaped, Recover
  PROVE  Shaped'
<1> DEFINE ws == ReclaimedWorks(handler.at)
<1>1. Types /\ told' = told /\ Commit(ws, generation)
  BY DEF IInv, Recover, accountVars
<1>2. ws \in [Messages -> Works] /\ \A m \in Messages : WorkOK(ws[m])
  BY <1>1, RecordTypes, NoWorkOK DEF ReclaimedWorks, Types, Shaped
<1> HIDE DEF ws
<1>3. alarm' \in Nat /\ \A m \in Messages : WorkOK(works'[m])
  BY <1>1, <1>2, CommitShaped
<1>4. \A s \in Slots : WorkOK(task'[s].work)
  <2> SUFFICES ASSUME NEW s \in Slots
               PROVE  WorkOK(task'[s].work)
    OBVIOUS
  <2>1. task'[s] = [NoTask EXCEPT !.pc = "run", !.at = now] \/ task'[s] = task[s]
    BY DEF Recover
  <2>2. [NoTask EXCEPT !.pc = "run", !.at = now].work = NoWork
    BY DEF NoTask
  <2> QED BY <2>1, <2>2, NoWorkOK DEF Shaped
<1> QED BY <1>1, <1>3, <1>4 DEF Shaped

LEMMA NextShaped ==
  ASSUME IInv, Shaped, [Next]_vars
  PROVE  Shaped'
<1>1. Types
  BY DEF IInv
<1>2. ASSUME NEW s \in Slots, Compute(s)
      PROVE  Shaped'
  <2>1. PICK p \in Plans :
          task' = [task EXCEPT ![s] = [@ EXCEPT !.pc = "plan", !.at = now, !.plan = p]]
    BY <1>2 DEF Compute
  <2> DEFINE x == [task[s] EXCEPT !.pc = "plan", !.at = now, !.plan = p]
  <2>2. task' = [task EXCEPT ![s] = x] /\ WorkOK(x.work)
    BY <1>1, <2>1, SlotTypes DEF Tasks, Shaped
  <2> HIDE DEF x
  <2>3. \A r \in Slots : WorkOK(task'[r].work)
    BY <1>1, <2>2, SetShaped
  <2> QED BY <1>2, <2>3 DEF Compute, stored, accountVars, Shaped
<1>3. ASSUME NEW s \in Slots, Joined(s)
      PROVE  Shaped'
  <2>1. \A r \in Slots : WorkOK(task'[r].work)
    BY <1>1, <1>3, MovedShaped DEF Joined, Phases
  <2> QED BY <1>3, <2>1 DEF Joined, stored, accountVars, Shaped
<1>4. CASE \E s \in Slots : Step(s)
  BY <1>2, <1>3, <1>4, CommitPlanShaped, RunShaped, ExpireShaped, AnswersShaped, SettleShaped
     DEF Step
<1>5. CASE \E m \in Messages, at, t \in 0..MaxTime : Receive(m, at, t)
  BY <1>5, ReceiveShaped
<1>6. CASE \E a \in Attempts : AccountAccepts(a)
  BY <1>6 DEF AccountAccepts, Account!Accept, stored, Shaped
<1>7. CASE AlarmFires
  BY <1>7, TenantStorageAssumption DEF AlarmFires, accountVars, Shaped
<1>8. CASE HandlerEnds \/ Tick \/ UNCHANGED vars
  BY <1>8 DEF HandlerEnds, Tick, stored, accountVars, vars, Shaped
<1>9. CASE Wipe
  BY <1>9, NoWorkOK, TenantStorageAssumption DEF Wipe, DeleteAll, accountVars, Shaped
<1>10. CASE Crash
  BY <1>10, NoWorkOK, RecordTypes DEF Crash, LoseStorageCall, accountVars, Shaped
<1> QED BY <1>4, <1>5, <1>6, <1>7, <1>8, <1>9, <1>10, RecoverShaped DEF Next

\* The record, the fibers, the alarm and the account keep their types, and a work has a
\* claim, a plan with a part of it, and an outcome exactly in the states that need them.
THEOREM DeliveryTypes == Spec => []TypeOK
<1>1. Init => Shaped
  BY NoWorkOK, RecordTypes, TenantStorageAssumption
     DEF Init, Shaped, Promised, Account!OutboxInit
<1>2. IInv /\ Shaped /\ [Next]_vars => Shaped'
  BY NextShaped
<1>3. IInv /\ Shaped => TypeOK
  BY DEF IInv, Types, Handlers, Shaped, Promised, TypeOK, Account!OutboxTypeOK
<1> QED BY <1>1, <1>2, <1>3, Invariance, PTL DEF Spec
=============================================================================
