---------------------------- MODULE Storage_proofs ----------------------------
(***************************************************************************)
(* Theorems about what two Durable Objects store: the rows of ArcCache,    *)
(* for every set of keys and reads, every policy and every bound; and the  *)
(* keys and the alarm of AccountStorage, for any channels, sessions,       *)
(* subscriptions and times.                                                *)
(***************************************************************************)
EXTENDS ArcCache, AccountStorage, FiniteSetTheorems, WellFoundedInduction, TLAPS

-----------------------------------------------------------------------------
(***************************************************************************)
(* ArcCache: the shape of the state.  It needs two facts about a read's    *)
(* phase: a read that has not fetched yet has no response, and a response  *)
(* that is about to be stored has a size.                                  *)
(***************************************************************************)
RowOK(row) == row \in Rows /\ (row.version > 0 <=> row.bytes > 0)
ReadOK(rec) ==
  /\ rec \in CallRecords
  /\ rec.pc \in {"queue", "claim", "fetch"} => rec.version = 0
  /\ rec.pc = "complete" /\ rec.version > 0 => rec.bytes > 0

Shape ==
  /\ now \in Nat /\ instance \in Nat /\ generation \in Nat
  /\ upstream \in [Keys -> Nat]
  /\ rows \in [Keys -> Rows]
  /\ \A k \in Keys : RowOK(rows[k])
  /\ call \in [Calls -> CallRecords]
  /\ \A c \in Calls : ReadOK(call[c])

LEMMA ShapeTypeOK == Shape => TypeOK
BY DEF Shape, TypeOK, RowOK

LEMMA ShapeInit == Init => Shape
BY ArcCacheAssumption
   DEF Init, Shape, RowOK, ReadOK, Rows, NoRow, NoCall, CallRecords, Phases

\* What becomes of a row when it is leased, filled or cooled down.
LEMMA LeasedRow ==
  ASSUME NEW row, RowOK(row), NEW t \in Nat, generation \in Nat
  PROVE  /\ RowOK(Leased(row, t))
         /\ Leased(row, t).version = row.version
         /\ Leased(row, t).bytes = row.bytes
         /\ Leased(row, t).generation = generation + 1
         /\ Leased(row, t).kind = "row"
         /\ Leased(row, t).leaseUntil = t + Timeout + Margin
<1>1. LeaseUntil(t) \in Nat /\ LeaseUntil(t) = t + Timeout + Margin
  BY ArcCacheAssumption DEF LeaseUntil
<1>2. generation + 1 \in Nat
  OBVIOUS
<1>3. /\ Leased(row, t) \in Rows
      /\ Leased(row, t).version = row.version
      /\ Leased(row, t).bytes = row.bytes
      /\ Leased(row, t).generation = generation + 1
      /\ Leased(row, t).kind = "row"
      /\ Leased(row, t).leaseUntil = LeaseUntil(t)
  BY <1>1, <1>2, Zenon DEF Leased, RowOK, Rows
<1>4. QED
  BY <1>1, <1>3 DEF RowOK

LEMMA FilledRow ==
  ASSUME NEW row, RowOK(row), NEW c \in Calls, ReadOK(call[c]),
         call[c].pc = "complete", call[c].version > 0
  PROVE  /\ RowOK(Filled(row, c))
         /\ Filled(row, c).version = call[c].version
         /\ Filled(row, c).bytes = call[c].bytes
         /\ Filled(row, c).generation = row.generation
         /\ Filled(row, c).kind = row.kind
<1>1. call[c] \in CallRecords /\ call[c].bytes > 0
  BY DEF ReadOK
<1>2. /\ Filled(row, c) \in Rows
      /\ Filled(row, c).version = call[c].version
      /\ Filled(row, c).bytes = call[c].bytes
      /\ Filled(row, c).generation = row.generation
      /\ Filled(row, c).kind = row.kind
  BY <1>1, Zenon DEF Filled, RowOK, Rows, CallRecords
<1>3. QED
  BY <1>1, <1>2 DEF RowOK

LEMMA CoolingRow ==
  ASSUME NEW row, RowOK(row), NEW t \in Nat
  PROVE  /\ RowOK(Cooling(row, t))
         /\ Cooling(row, t).version = row.version
         /\ Cooling(row, t).bytes = row.bytes
         /\ Cooling(row, t).generation = row.generation
         /\ Cooling(row, t).kind = row.kind
<1>1. t + Cooldown \in Nat
  BY ArcCacheAssumption
<1>2. QED
  BY <1>1 DEF Cooling, RowOK, Rows

\* A read that becomes another one of the right shape keeps the shape of them all.
LEMMA OneRead ==
  ASSUME Shape, NEW c \in Calls, NEW rec, ReadOK(rec), call' = [call EXCEPT ![c] = rec]
  PROVE  call' \in [Calls -> CallRecords] /\ \A d \in Calls : ReadOK(call'[d])
BY DEF Shape, ReadOK

\* Each action keeps the shape.
LEMMA ShapeStep == Shape /\ [Next]_vars => Shape'
<1> SUFFICES ASSUME Shape, [Next]_vars PROVE Shape'
  OBVIOUS
<1> USE DEF Shape
<1>1. ASSUME NEW c \in Calls, NEW k \in Keys, Start(c, k) PROVE Shape'
  <2> DEFINE rec == [NoCall(k) EXCEPT !.pc = "queue", !.instance = instance]
  <2>1. ReadOK(rec)
    BY DEF ReadOK, CallRecords, Phases, NoCall
  <2>2. QED
    BY <1>1, <2>1, OneRead DEF Start
<1>2. ASSUME NEW c \in Calls, EnterLock(c) PROVE Shape'
  <2> DEFINE rec == [call[c] EXCEPT !.pc = "claim", !.at = now]
  <2>1. ReadOK(rec)
    BY <1>2 DEF EnterLock, ReadOK, CallRecords, Phases
  <2>2. call' = [call EXCEPT ![c] = rec]
    BY <1>2 DEF EnterLock, Goto
  <2>3. QED
    BY <1>2, <2>1, <2>2, OneRead DEF EnterLock
<1>3. ASSUME NEW c \in Calls, Claim(c) PROVE Shape'
  <2> DEFINE k == Key(c)
  <2>1. k \in Keys /\ call[c].at \in Nat
    BY DEF Key, CallRecords
  <2>2. call' = [call EXCEPT ![c] = call'[c]] /\ ReadOK(call'[c])
    BY <1>3, <2>1 DEF Claim, Answer, ReadOK, CallRecords, Phases, Rows
  <2>3. generation' \in Nat
    BY <1>3 DEF Claim
  <2>4. \A j \in Keys : RowOK(rows'[j])
    <3>1. RowOK(NoRow)
      BY DEF RowOK, Rows, NoRow
    <3>2. RowOK(Leased(rows[k], call[c].at))
      BY <2>1, LeasedRow
    <3>3. QED
      BY <1>3, <2>1, <3>1, <3>2 DEF Claim
  <2>5. rows' \in [Keys -> Rows]
    BY <1>3, <2>4 DEF Claim, RowOK
  <2>6. QED
    BY <1>3, <2>2, <2>3, <2>4, <2>5, OneRead DEF Claim
<1>4. ASSUME NEW c \in Calls, Fetch(c) PROVE Shape'
  <2>1. call' = [call EXCEPT ![c] = call'[c]] /\ ReadOK(call'[c])
    BY <1>4, ArcCacheAssumption DEF Fetch, Goto, Key, ReadOK, CallRecords, Phases
  <2>2. QED
    BY <1>4, <2>1, OneRead DEF Fetch
<1>5. ASSUME NEW c \in Calls, Complete(c) PROVE Shape'
  <2> DEFINE k == Key(c)
  <2>1. k \in Keys /\ call[c].at \in Nat
    BY DEF Key, CallRecords
  <2>2. call' = [call EXCEPT ![c] = call'[c]] /\ ReadOK(call'[c])
    BY <1>5, <2>1 DEF Complete, Answer, ReadOK, CallRecords, Phases, Rows
  <2>3. rows' = [rows EXCEPT ![k] = rows'[k]] /\ RowOK(rows'[k])
    <3>1. RowOK(Cooling(rows[k], call[c].at))
      BY <2>1, CoolingRow
    <3>2. call[c].pc = "complete" /\ call[c].version > 0 => RowOK(Filled(rows[k], c))
      BY <2>1, FilledRow
    <3>3. QED
      BY <1>5, <2>1, <3>1, <3>2 DEF Complete
  <2>4. QED
    BY <1>5, <2>1, <2>2, <2>3, OneRead DEF Complete, RowOK
<1>6. ASSUME NEW c \in Calls, Lose(c) PROVE Shape'
  <2>1. call' = [call EXCEPT ![c] = call'[c]] /\ ReadOK(call'[c])
    BY <1>6 DEF Lose, ReadOK, CallRecords, Phases
  <2>2. QED
    BY <1>6, <2>1, OneRead DEF Lose
<1>7. ASSUME NEW k \in Keys, Publish(k) PROVE Shape'
  BY <1>7 DEF Publish
<1>8. CASE Reset
  BY <1>8 DEF Reset, NoRow, KeptGeneration, RowOK, Rows
<1>9. CASE Reconstruct
  BY <1>9 DEF Reconstruct
<1>10. CASE Tick
  BY <1>10 DEF Tick
<1>11. CASE UNCHANGED vars
  BY <1>11 DEF vars
<1>12. QED
  BY <1>1, <1>2, <1>3, <1>4, <1>5, <1>6, <1>7, <1>8, <1>9, <1>10, <1>11 DEF Next, Read

\* The cache's rows and reads keep their shape, and a row counts bytes exactly
\* when it has a value.
THEOREM TypeCorrect == Spec => []TypeOK
<1>1. Spec => []Shape
  BY ShapeInit, ShapeStep, PTL DEF Spec
<1>2. QED
  BY <1>1, ShapeTypeOK, PTL
-----------------------------------------------------------------------------
(***************************************************************************)
(* Generations fence off superseded refreshes.  GenerationsFence is        *)
(* inductive over the shape: a claim takes a generation above all others,  *)
(* and nothing ever lowers the counter, not even a reset.                  *)
(***************************************************************************)
LEMMA FenceInit == Init => GenerationsFence
BY DEF Init, GenerationsFence, NoCall, NoRow

\* What every step does to a read: it keeps its generation, or starts without one,
\* or takes the next one.
LEMMA ReadGeneration ==
  ASSUME Shape, [Next]_vars, NEW c \in Calls
  PROVE  \/ /\ call'[c].generation = call[c].generation
            /\ call'[c].pc \in {"fetch", "complete"} => call[c].pc \in {"fetch", "complete"}
         \/ call'[c].generation = 0 /\ call'[c].pc \notin {"fetch", "complete"}
         \/ Claim(c) /\ call'[c].generation = generation + 1 /\ generation' = generation + 1
<1>1. ASSUME NEW d \in Calls, NEW k \in Keys, Start(d, k) PROVE
        \/ call'[c] = call[c]
        \/ call'[c].generation = 0 /\ call'[c].pc \notin {"fetch", "complete"}
  BY <1>1 DEF Start, NoCall, Shape
<1>2. ASSUME NEW d \in Calls, EnterLock(d) \/ Fetch(d) \/ Complete(d) \/ Lose(d) PROVE
        /\ call'[c].generation = call[c].generation
        /\ call'[c].pc \in {"fetch", "complete"} => call[c].pc \in {"fetch", "complete"}
  <2>1. CASE EnterLock(d)
    BY <2>1 DEF EnterLock, Goto, Shape, CallRecords
  <2>2. CASE Fetch(d)
    BY <2>2 DEF Fetch, Goto, Shape, CallRecords
  <2>3. CASE Complete(d)
    BY <2>3 DEF Complete, Answer, Shape, CallRecords
  <2>4. CASE Lose(d)
    BY <2>4 DEF Lose, Shape, CallRecords
  <2>5. QED
    BY <1>2, <2>1, <2>2, <2>3, <2>4
<1>3. ASSUME NEW d \in Calls, Claim(d) PROVE
        \/ /\ call'[c].generation = call[c].generation
           /\ call'[c].pc \in {"fetch", "complete"} => call[c].pc \in {"fetch", "complete"}
        \/ c = d /\ call'[c].generation = generation + 1 /\ generation' = generation + 1
  BY <1>3 DEF Claim, Answer, Shape, CallRecords
<1>4. CASE Reset \/ Reconstruct \/ Tick \/ (\E k \in Keys : Publish(k)) \/ UNCHANGED vars
  BY <1>4 DEF Reset, Reconstruct, Tick, Publish, vars
<1>5. QED
  BY <1>1, <1>2, <1>3, <1>4 DEF Next, Read

\* The counter never decreases, and only one read claims in a step.
LEMMA CounterGrows ==
  ASSUME Shape, [Next]_vars
  PROVE  /\ generation' \in Nat /\ generation <= generation'
         /\ \A k \in Keys : \/ rows'[k].generation = rows[k].generation
                            \/ rows'[k].generation = 0
                            \/ rows'[k].generation = generation'
<1>1. ASSUME NEW c \in Calls, Claim(c) PROVE
        /\ generation' \in Nat /\ generation <= generation'
        /\ \A k \in Keys : \/ rows'[k].generation = rows[k].generation
                           \/ rows'[k].generation = 0
                           \/ rows'[k].generation = generation'
  <2>1. Key(c) \in Keys /\ call[c].at \in Nat /\ RowOK(rows[Key(c)])
    BY DEF Shape, Key, CallRecords
  <2>2. Leased(rows[Key(c)], call[c].at).generation = generation + 1
    BY <2>1, LeasedRow DEF Shape
  <2>3. QED
    BY <1>1, <2>1, <2>2 DEF Claim, NoRow, Shape
<1>2. ASSUME NEW c \in Calls, Complete(c) PROVE
        /\ generation' = generation
        /\ \A k \in Keys : rows'[k].generation = rows[k].generation
  <2>1. Key(c) \in Keys /\ call[c].at \in Nat /\ RowOK(rows[Key(c)]) /\ ReadOK(call[c])
    BY DEF Shape, Key, CallRecords
  <2>2. Cooling(rows[Key(c)], call[c].at).generation = rows[Key(c)].generation
    BY <2>1, CoolingRow
  <2>3. call[c].pc = "complete" /\ call[c].version > 0
          => Filled(rows[Key(c)], c).generation = rows[Key(c)].generation
    BY <2>1, FilledRow
  <2>4. QED
    BY <1>2, <2>1, <2>2, <2>3 DEF Complete, Shape
<1>3. CASE Reset
  BY <1>3 DEF Reset, KeptGeneration, NoRow, Shape
<1>4. ASSUME \/ \E c \in Calls : EnterLock(c) \/ Fetch(c) \/ Lose(c) \/ \E k \in Keys : Start(c, k)
             \/ \E k \in Keys : Publish(k)
             \/ Reconstruct \/ Tick \/ UNCHANGED vars
      PROVE  generation' = generation /\ rows' = rows
  BY <1>4 DEF EnterLock, Fetch, Lose, Start, Publish, Reconstruct, Tick, vars
<1>5. QED
  BY <1>1, <1>2, <1>3, <1>4 DEF Next, Read, Shape

LEMMA FenceStep == Shape /\ GenerationsFence /\ [Next]_vars => GenerationsFence'
<1> SUFFICES ASSUME Shape, GenerationsFence, [Next]_vars PROVE GenerationsFence'
  OBVIOUS
<1>1. generation \in Nat /\ \A c \in Calls : call[c].generation \in Nat
  BY DEF Shape, CallRecords
<1>2. ASSUME NEW c \in Calls, NEW d \in Calls,
             call'[c].pc \in {"fetch", "complete"}, call'[d].pc \in {"fetch", "complete"},
             call'[c].generation = call'[d].generation
      PROVE  c = d
  <2>1. CASE Claim(c) /\ call'[c].generation = generation + 1 /\ c # d
    <3>1. call'[d] = call[d]
      BY <2>1 DEF Claim, Answer, Shape
    <3>2. call[d].generation \in Nat /\ call[d].generation <= generation
      BY <1>1 DEF GenerationsFence
    <3>3. call[d].generation = generation + 1
      BY <1>2, <2>1, <3>1, Zenon
    <3>4. QED
      BY <1>1, <3>2, <3>3
  <2>2. CASE Claim(d) /\ call'[d].generation = generation + 1 /\ c # d
    <3>1. call'[c] = call[c]
      BY <2>2 DEF Claim, Answer, Shape
    <3>2. call[c].generation \in Nat /\ call[c].generation <= generation
      BY <1>1 DEF GenerationsFence
    <3>3. QED
      BY <1>1, <1>2, <2>2, <3>1, <3>2
  <2>3. QED
    BY <1>2, <2>1, <2>2, ReadGeneration DEF GenerationsFence
<1>3. \A k \in Keys : rows'[k].generation <= generation'
  BY <1>1, CounterGrows DEF GenerationsFence, Shape, Rows
<1>4. \A c \in Calls : call'[c].generation <= generation'
  BY <1>1, CounterGrows, ReadGeneration DEF GenerationsFence
<1>5. QED
  BY <1>2, <1>3, <1>4 DEF GenerationsFence

\* No two refreshes ever hold the same generation, whatever resets, instances and
\* expired leases come between, and no row or read is ahead of the counter.
THEOREM Fenced == Spec => []GenerationsFence
<1>1. Spec => []Shape
  BY ShapeInit, ShapeStep, PTL DEF Spec
<1>2. QED
  BY <1>1, FenceInit, FenceStep, PTL DEF Spec
-----------------------------------------------------------------------------
(***************************************************************************)
(* An older response never replaces a newer one.  While a refresh holds    *)
(* its row's generation, the row has the value it had at the claim, and    *)
(* the source's data are at least that new when the refresh fetches them.  *)
(***************************************************************************)
Versions ==
  /\ \A k \in Keys : rows[k].version <= upstream[k]
  /\ \A c \in Calls :
       call[c].pc = "complete" /\ call[c].version > 0 =>
         /\ call[c].version <= upstream[Key(c)]
         /\ Owns(c) => rows[Key(c)].version <= call[c].version

LEMMA VersionsInit == Init => Versions
BY DEF Init, Versions, NoCall, NoRow, Key

\* The actions that neither store nor fetch.
LEMMA QuietVersions ==
  ASSUME Shape, Versions,
         \/ \E c \in Calls : EnterLock(c) \/ Lose(c) \/ \E k \in Keys : Start(c, k)
         \/ \E k \in Keys : Publish(k)
         \/ Reset \/ Reconstruct \/ Tick \/ UNCHANGED vars
  PROVE  Versions'
<1>1. ASSUME NEW c \in Calls, NEW k \in Keys, Start(c, k) PROVE Versions'
  BY <1>1 DEF Start, NoCall, Shape, Versions, Key, Owns
<1>2. ASSUME NEW c \in Calls, EnterLock(c) PROVE Versions'
  BY <1>2 DEF EnterLock, Goto, Shape, Versions, Key, Owns
<1>3. ASSUME NEW c \in Calls, Lose(c) PROVE Versions'
  BY <1>3 DEF Lose, Shape, Versions, Key, Owns
<1>4. ASSUME NEW k \in Keys, Publish(k) PROVE Versions'
  BY <1>4 DEF Publish, Shape, Versions, Key, Owns, CallRecords, Rows
<1>5. CASE Reset
  BY <1>5 DEF Reset, NoRow, Shape, Versions, Key, Owns, CallRecords
<1>6. CASE Reconstruct \/ Tick \/ UNCHANGED vars
  BY <1>6 DEF Reconstruct, Tick, vars, Versions, Key, Owns
<1>7. QED
  BY <1>1, <1>2, <1>3, <1>4, <1>5, <1>6

\* A claim and a fetch keep the versions in order too.
LEMMA RefreshVersions ==
  ASSUME Shape, GenerationsFence, Versions, NEW c \in Calls, Claim(c) \/ Fetch(c)
  PROVE  Versions'
<1> DEFINE k == Key(c)
<1>1. k \in Keys /\ call[c].at \in Nat /\ RowOK(rows[k])
  BY DEF Shape, Key, CallRecords
<1>2. CASE Claim(c)
  <2>1. \A d \in Calls : Key(d)' = Key(d)
    BY <1>2 DEF Claim, Answer, Key, Shape, CallRecords
  <2>2. \A d \in Calls : call'[d].pc = "complete" => call'[d] = call[d]
    BY <1>2 DEF Claim, Answer, Shape, CallRecords
  <2>3. Leased(rows[k], call[c].at).version = rows[k].version
        /\ Leased(rows[k], call[c].at).generation = generation + 1
    BY <1>1, LeasedRow DEF Shape
  <2>4. \A j \in Keys : \/ rows'[j] = rows[j] \/ rows'[j] = NoRow
                        \/ /\ rows'[j].version = rows[j].version
                           /\ rows'[j].generation = generation + 1
    BY <1>1, <1>2, <2>3 DEF Claim, Shape
  <2>5. upstream' = upstream
    BY <1>2 DEF Claim
  <2>6. \A j \in Keys : rows'[j].version <= upstream'[j]
    BY <2>4, <2>5 DEF Versions, NoRow, Shape
  <2>7. ASSUME NEW d \in Calls, call'[d].pc = "complete", call'[d].version > 0, Owns(d)'
        PROVE  rows'[Key(d)].version <= call[d].version
    <3>1. Key(d) \in Keys /\ call'[d] = call[d] /\ call[d].generation \in Nat
      BY <2>2, <2>7 DEF Shape, Key, CallRecords
    <3>2. call[d].generation <= generation
      BY DEF GenerationsFence
    <3>3. rows'[Key(d)].kind = "row" /\ rows'[Key(d)].generation = call[d].generation
      BY <2>1, <2>7, <3>1 DEF Owns
    <3>4. rows'[Key(d)] # NoRow
      BY <3>3 DEF NoRow
    <3>5. rows'[Key(d)].generation # generation + 1
      BY <3>1, <3>2, <3>3 DEF Shape
    <3>6. rows'[Key(d)] = rows[Key(d)]
      BY <2>4, <3>1, <3>4, <3>5
    <3>7. call[d].pc = "complete" /\ call[d].version > 0 /\ Owns(d)
      BY <2>7, <3>1, <3>3, <3>6 DEF Owns
    <3>8. QED
      BY <3>6, <3>7 DEF Versions
  <2>8. QED
    BY <2>1, <2>2, <2>5, <2>6, <2>7 DEF Versions
<1>3. CASE Fetch(c)
  <2>1. rows' = rows /\ upstream' = upstream /\ \A d \in Calls : Key(d)' = Key(d)
    BY <1>3 DEF Fetch, Goto, Key, Shape, CallRecords
  <2>2. \A d \in Calls : d # c => call'[d] = call[d]
    BY <1>3 DEF Fetch, Goto, Shape
  <2>3. call'[c].version \in {0, upstream[k]}
    BY <1>3 DEF Fetch, Goto, Shape, CallRecords, ReadOK
  <2>4. upstream[k] \in Nat /\ rows[k].version \in Nat /\ rows[k].version <= upstream[k]
    BY <1>1 DEF Shape, Rows, Versions
  <2>5. QED
    BY <2>1, <2>2, <2>3, <2>4 DEF Versions, Owns
<1>4. QED
  BY <1>2, <1>3

\* A completion stores a response no older than the row's value, and takes the row's
\* generation from no other refresh.
LEMMA CompleteVersions ==
  ASSUME Shape, GenerationsFence, Versions, NEW c \in Calls, Complete(c)
  PROVE  Versions'
<1> DEFINE k == Key(c)
<1>1. k \in Keys /\ call[c].at \in Nat /\ RowOK(rows[k]) /\ ReadOK(call[c])
  BY DEF Shape, Key, CallRecords
<1>2. upstream' = upstream /\ call'[c].pc # "complete"
      /\ \A d \in Calls : Key(d)' = Key(d) /\ (d # c => call'[d] = call[d])
  BY DEF Complete, Answer, Key, Shape, CallRecords
<1>3. Cooling(rows[k], call[c].at).version = rows[k].version
      /\ Cooling(rows[k], call[c].at).generation = rows[k].generation
  BY <1>1, CoolingRow
<1>4. call[c].version > 0 => Filled(rows[k], c).version = call[c].version
  BY <1>1, FilledRow DEF Complete
<1>5. \A j \in Keys : \/ rows'[j] = rows[j]
                      \/ j = k /\ Owns(c) /\ rows'[j].version = rows[j].version
                      \/ /\ j = k /\ Owns(c) /\ call[c].version > 0
                         /\ rows'[j].version = call[c].version
  BY <1>1, <1>3, <1>4 DEF Complete, Shape
<1>6. \A j \in Keys : rows'[j].version <= upstream'[j]
  BY <1>2, <1>5 DEF Versions, Complete
<1>7. ASSUME NEW d \in Calls, call'[d].pc = "complete", call'[d].version > 0, Owns(d)'
      PROVE  call'[d].version <= upstream[Key(d)] /\ rows'[Key(d)].version <= call'[d].version
  <2>1. d # c /\ call'[d] = call[d] /\ Key(d) \in Keys
    BY <1>2, <1>7 DEF Key, Shape, CallRecords
  <2>2. ASSUME Key(d) = k, Owns(c) PROVE FALSE
    <3>1. rows'[k].generation = rows[k].generation
      <4>1. call[c].version > 0 => Filled(rows[k], c).generation = rows[k].generation
        BY <1>1, FilledRow DEF Complete
      <4>2. QED
        BY <1>1, <1>3, <4>1 DEF Complete, Shape
    <3>2. call[d].generation = call[c].generation
      BY <1>2, <1>7, <2>1, <2>2, <3>1 DEF Owns
    <3>3. call[c].pc = "complete" /\ call[d].pc = "complete"
      BY <1>7, <2>1 DEF Complete
    <3>4. QED
      BY <2>1, <3>2, <3>3 DEF GenerationsFence
  <2>3. rows'[Key(d)] = rows[Key(d)]
    <3>1. CASE Key(d) = k
      <4>1. ~Owns(c)
        BY <2>2, <3>1
      <4>2. QED
        BY <1>5, <2>1, <4>1
    <3>2. CASE Key(d) # k
      BY <1>5, <2>1, <3>2
    <3>3. QED
      BY <3>1, <3>2
  <2>4. QED
    BY <1>2, <1>7, <2>1, <2>3 DEF Versions, Owns
<1>8. ASSUME NEW d \in Calls, call'[d].pc = "complete", call'[d].version > 0
      PROVE  call'[d].version <= upstream'[Key(d)]
  BY <1>2, <1>8 DEF Versions
<1>9. QED
  BY <1>2, <1>6, <1>7, <1>8 DEF Versions

LEMMA VersionsStep == Shape /\ GenerationsFence /\ Versions /\ [Next]_vars => Versions'
BY QuietVersions, RefreshVersions, CompleteVersions DEF Next, Read

\* In a state that satisfies the invariants, no step replaces a newer value.
LEMMA NewerStep ==
  ASSUME Shape, Versions, [Next]_vars,
         NEW k \in Keys, rows[k].version > 0, rows'[k].kind = "row"
  PROVE  rows'[k].version >= rows[k].version
<1>1. rows[k] \in Rows /\ rows[k].version \in Nat
  BY DEF Shape, Rows
<1>2. ASSUME NEW c \in Calls, Claim(c) PROVE rows'[k].version = rows[k].version
  <2>1. Key(c) \in Keys /\ call[c].at \in Nat /\ RowOK(rows[Key(c)])
    BY DEF Shape, Key, CallRecords
  <2>2. Leased(rows[Key(c)], call[c].at).version = rows[Key(c)].version
    BY <2>1, LeasedRow DEF Shape
  <2>3. rows'[k] # NoRow
    BY DEF NoRow
  <2>4. QED
    BY <1>2, <2>1, <2>2, <2>3 DEF Claim, Shape
<1>3. ASSUME NEW c \in Calls, Complete(c) PROVE rows'[k].version >= rows[k].version
  <2>1. Key(c) \in Keys /\ call[c].at \in Nat /\ RowOK(rows[Key(c)]) /\ ReadOK(call[c])
    BY DEF Shape, Key, CallRecords
  <2>2. Cooling(rows[Key(c)], call[c].at).version = rows[Key(c)].version
    BY <2>1, CoolingRow
  <2>3. call[c].version > 0 => Filled(rows[Key(c)], c).version = call[c].version
    BY <1>3, <2>1, FilledRow DEF Complete
  <2>4. call[c].version > 0 /\ Owns(c) => rows[Key(c)].version <= call[c].version
    BY <1>3 DEF Versions, Complete
  <2>5. call[c].version \in Nat
    BY DEF Shape, CallRecords
  <2>6. \/ rows'[k].version = rows[k].version
        \/ /\ k = Key(c) /\ call[c].version > 0 /\ Owns(c)
           /\ rows'[k].version = call[c].version
    BY <1>3, <2>1, <2>2, <2>3 DEF Complete, Shape
  <2>7. QED
    BY <1>1, <2>4, <2>5, <2>6
<1>4. CASE Reset
  BY <1>4 DEF Reset, NoRow
<1>5. \/ \E c \in Calls : Claim(c) \/ Complete(c)
      \/ Reset
      \/ rows' = rows
  BY DEF Next, Read, EnterLock, Fetch, Lose, Start, Publish, Reconstruct, Tick, vars
<1>6. rows'[k].version = rows[k].version => rows'[k].version >= rows[k].version
  BY <1>1
<1>7. QED
  BY <1>2, <1>3, <1>4, <1>5, <1>6

\* An older response never overwrites a newer one, across expired leases, resets and
\* instances that do not share a semaphore.
THEOREM NoOlderValue == Spec => NewerStays
<1>1. Spec => [](Shape /\ GenerationsFence /\ Versions)
  BY ShapeInit, ShapeStep, FenceInit, FenceStep, VersionsInit, VersionsStep, PTL DEF Spec
<1>2. Shape /\ Versions /\ [Next]_vars
      => [\A k \in Keys : rows[k].version > 0 /\ rows'[k].kind = "row" =>
            rows'[k].version >= rows[k].version]_vars
  BY NewerStep
<1>3. QED
  BY <1>1, <1>2, PTL DEF Spec, NewerStays

-----------------------------------------------------------------------------
(***************************************************************************)
(* No refresh takes a usable value away.  A read judges rows by a clock    *)
(* reading of the past; what is usable now was usable then.                *)
(***************************************************************************)
PastReadings == \A c \in Calls : call[c].at <= now

LEMMA PastInit == Init => PastReadings
BY DEF Init, PastReadings, NoCall

LEMMA PastStep == Shape /\ PastReadings /\ [Next]_vars => PastReadings'
<1> SUFFICES ASSUME Shape, PastReadings, [Next]_vars PROVE PastReadings'
  OBVIOUS
<1> USE DEF PastReadings
<1>1. now \in Nat /\ \A c \in Calls : call[c].at \in Nat
  BY DEF Shape, CallRecords
<1>2. ASSUME NEW c \in Calls, NEW k \in Keys, Start(c, k) PROVE PastReadings'
  BY <1>1, <1>2 DEF Start, NoCall, Shape
<1>3. ASSUME NEW c \in Calls, EnterLock(c) PROVE PastReadings'
  BY <1>1, <1>3 DEF EnterLock, Goto, Shape, CallRecords
<1>4. ASSUME NEW c \in Calls, Claim(c) PROVE PastReadings'
  BY <1>1, <1>4 DEF Claim, Answer, Shape, CallRecords
<1>5. ASSUME NEW c \in Calls, Fetch(c) PROVE PastReadings'
  BY <1>1, <1>5 DEF Fetch, Goto, Shape, CallRecords
<1>6. ASSUME NEW c \in Calls, Complete(c) PROVE PastReadings'
  BY <1>1, <1>6 DEF Complete, Answer, Shape, CallRecords
<1>7. ASSUME NEW c \in Calls, Lose(c) PROVE PastReadings'
  BY <1>1, <1>7 DEF Lose, Shape, CallRecords
<1>8. CASE (\E k \in Keys : Publish(k)) \/ Reset \/ Reconstruct \/ Tick \/ UNCHANGED vars
  BY <1>1, <1>8 DEF Publish, Reset, Reconstruct, Tick, vars
<1>9. QED
  BY <1>2, <1>3, <1>4, <1>5, <1>6, <1>7, <1>8 DEF Next, Read

\* Usability only fades.
LEMMA UsableEarlier ==
  ASSUME Shape, NEW k \in Keys, NEW t \in Nat, t <= now, Usable(k, now)
  PROVE  Usable(k, t)
<1>1. rows[k].fetchedAt \in Nat /\ now \in Nat
  BY DEF Shape, Rows
<1>2. ScheduleFresh \in Nat /\ Fallback \in Nat
  BY ArcCacheAssumption
<1>3. CASE k \in Schedules
  BY <1>1, <1>2, <1>3 DEF Usable
<1>4. CASE k \notin Schedules
  <2>1. rows[k].version > 0 /\ now <= rows[k].fetchedAt + Fallback
    BY <1>4 DEF Usable
  <2>2. t <= rows[k].fetchedAt + Fallback
    BY <1>1, <1>2, <2>1
  <2>3. QED
    BY <1>4, <2>1, <2>2 DEF Usable
<1>5. QED
  BY <1>3, <1>4

LEMMA UsableStep ==
  ASSUME Shape, PastReadings, [Next]_vars, NEW k \in Keys, Usable(k, now),
         ~(MayReset /\ rows' = [j \in Keys |-> NoRow])
  PROVE  rows'[k].version > 0
<1>1. rows[k].version > 0
  BY DEF Usable
<1>2. ASSUME NEW c \in Calls, Claim(c) PROVE rows'[k].version > 0
  <2>1. Key(c) \in Keys /\ call[c].at \in Nat /\ RowOK(rows[Key(c)])
    BY DEF Shape, Key, CallRecords
  <2>2. Leased(rows[Key(c)], call[c].at).version = rows[Key(c)].version
    BY <2>1, LeasedRow DEF Shape
  <2>3. ~Spent(k, call[c].at)
    BY <2>1, UsableEarlier DEF PastReadings, Spent
  <2>4. QED
    BY <1>1, <1>2, <2>1, <2>2, <2>3 DEF Claim, Shape
<1>3. ASSUME NEW c \in Calls, Complete(c) PROVE rows'[k].version > 0
  <2>1. Key(c) \in Keys /\ call[c].at \in Nat /\ RowOK(rows[Key(c)]) /\ ReadOK(call[c])
    BY DEF Shape, Key, CallRecords
  <2>2. Cooling(rows[Key(c)], call[c].at).version = rows[Key(c)].version
    BY <2>1, CoolingRow
  <2>3. call[c].version > 0 => Filled(rows[Key(c)], c).version = call[c].version
    BY <1>3, <2>1, FilledRow DEF Complete
  <2>4. QED
    BY <1>1, <1>3, <2>1, <2>2, <2>3 DEF Complete, Shape
<1>4. CASE Reset
  BY <1>4 DEF Reset
<1>5. CASE rows' = rows
  BY <1>1, <1>5
<1>6. QED
  BY <1>2, <1>3, <1>4, <1>5
     DEF Next, Read, EnterLock, Fetch, Lose, Start, Publish, Reconstruct, Tick, vars

\* A still usable value is only removed by reset: no other key's refresh, no failure
\* and no oversized response takes it away.
THEOREM UsableValueStays == Spec => UsableStays
<1>1. Spec => [](Shape /\ PastReadings)
  BY ShapeInit, ShapeStep, PastInit, PastStep, PTL DEF Spec
<1>2. Shape /\ PastReadings /\ [Next]_vars
      => [\A k \in Keys : Usable(k, now) /\ ~(MayReset /\ rows' = [j \in Keys |-> NoRow])
            => rows'[k].version > 0]_vars
  BY UsableStep
<1>3. QED
  BY <1>1, <1>2, PTL DEF Spec, UsableStays

-----------------------------------------------------------------------------
(***************************************************************************)
(* A lease covers its fetch.  Without resets, a key is fetched once at a   *)
(* time as long as a clock reading gets no older than the lease's margin   *)
(* before its claim commits.  A fetch keeps its row, under its generation, *)
(* and the row's lease outlasts the fetch's timeout.                       *)
(***************************************************************************)
LeaseHeld ==
  /\ \A c \in Calls :
       /\ call[c].pc = "claim" => now <= call[c].at + MaxStale
       /\ call[c].pc = "fetch" => now <= call[c].at + Timeout
  /\ \A c \in Calls : call[c].pc = "fetch" =>
       /\ rows[Key(c)].kind = "row"
       /\ rows[Key(c)].generation = call[c].generation
       /\ call[c].at + Timeout + Margin <= rows[Key(c)].leaseUntil + MaxStale

LEMMA LeaseInit == Init => LeaseHeld
BY DEF Init, LeaseHeld, NoCall

\* A row under the lease of a fetch waits, seen from any reading of the past.
LEMMA LeasedWaits ==
  ASSUME Shape, LeaseHeld, MaxStale < Margin, NEW c \in Calls, call[c].pc = "fetch",
         NEW t \in Nat, t <= now
  PROVE  rows[Key(c)].leaseUntil > t
<1>1. Timeout \in Nat /\ Margin \in Nat /\ MaxStale \in Nat
  BY ArcCacheAssumption
<1>2. rows[Key(c)].leaseUntil \in Nat /\ call[c].at \in Nat /\ now \in Nat
  BY DEF Shape, Rows, Key, CallRecords
<1>3. now <= call[c].at + Timeout
      /\ call[c].at + Timeout + Margin <= rows[Key(c)].leaseUntil + MaxStale
  BY DEF LeaseHeld
<1>4. QED
  BY <1>1, <1>2, <1>3

\* The clauses about one read, for a read that a step does not touch and whose row
\* it leaves alone.
LeaseOf(c) ==
  /\ call[c].pc = "claim" => now <= call[c].at + MaxStale
  /\ call[c].pc = "fetch" =>
       /\ now <= call[c].at + Timeout
       /\ rows[Key(c)].kind = "row"
       /\ rows[Key(c)].generation = call[c].generation
       /\ call[c].at + Timeout + Margin <= rows[Key(c)].leaseUntil + MaxStale

LEMMA LeaseOfEach == LeaseHeld <=> \A c \in Calls : LeaseOf(c)
BY DEF LeaseHeld, LeaseOf

LEMMA LeaseStep ==
  ASSUME ~MayReset, MaxStale < Margin,
         Shape, GenerationsFence, PastReadings, LeaseHeld, [Next]_vars, NEW d \in Calls
  PROVE  LeaseOf(d)'
<1>1. LeaseOf(d) /\ Key(d) \in Keys /\ call[d].at \in Nat /\ now \in Nat
  BY LeaseOfEach DEF Shape, Key, CallRecords
<1>2. Timeout \in Nat /\ Margin \in Nat /\ MaxStale \in Nat
  BY ArcCacheAssumption
<1>3. ASSUME call'[d] = call[d], now' = now, rows' = rows PROVE LeaseOf(d)'
  BY <1>1, <1>3 DEF LeaseOf, Key
<1>4. ASSUME NEW c \in Calls, NEW k \in Keys, Start(c, k) PROVE LeaseOf(d)'
  <2>1. CASE c = d
    BY <1>4, <2>1 DEF Start, NoCall, LeaseOf, Shape
  <2>2. CASE c # d
    BY <1>3, <1>4, <2>2 DEF Start, Shape
  <2>3. QED
    BY <2>1, <2>2
<1>5. ASSUME NEW c \in Calls, EnterLock(c) PROVE LeaseOf(d)'
  <2>1. CASE c = d
    BY <1>1, <1>2, <1>5, <2>1 DEF EnterLock, Goto, LeaseOf, Shape, CallRecords
  <2>2. CASE c # d
    BY <1>3, <1>5, <2>2 DEF EnterLock, Goto, Shape
  <2>3. QED
    BY <2>1, <2>2
<1>6. ASSUME NEW c \in Calls, Fetch(c) PROVE LeaseOf(d)'
  <2>1. CASE c = d
    BY <1>6, <2>1 DEF Fetch, Goto, LeaseOf, Shape, CallRecords
  <2>2. CASE c # d
    BY <1>3, <1>6, <2>2 DEF Fetch, Goto, Shape
  <2>3. QED
    BY <2>1, <2>2
<1>7. ASSUME NEW c \in Calls, Lose(c) PROVE LeaseOf(d)'
  <2>1. CASE c = d
    BY <1>7, <2>1 DEF Lose, LeaseOf, Shape, CallRecords
  <2>2. CASE c # d
    BY <1>3, <1>7, <2>2 DEF Lose, Shape
  <2>3. QED
    BY <2>1, <2>2
<1>8. ASSUME NEW c \in Calls, Claim(c) PROVE LeaseOf(d)'
  <2> DEFINE t == call[c].at
             k == Key(c)
  <2>1. k \in Keys /\ t \in Nat /\ RowOK(rows[k]) /\ t <= now /\ now <= t + MaxStale
    BY <1>8, LeaseOfEach DEF Shape, Key, CallRecords, PastReadings, LeaseHeld, Claim
  <2>2. /\ Leased(rows[k], t).generation = generation + 1
        /\ Leased(rows[k], t).kind = "row"
        /\ Leased(rows[k], t).leaseUntil = t + Timeout + Margin
    BY <2>1, LeasedRow DEF Shape
  <2>3. now' = now /\ Key(d)' = Key(d)
    BY <1>8 DEF Claim, Answer, Key, Shape, CallRecords
  <2>4. CASE c = d /\ call'[d].pc = "fetch"
    <3>1. rows'[k] = Leased(rows[k], t) /\ call'[d].generation = generation + 1
          /\ call'[d].at = now
      BY <1>8, <2>1, <2>4 DEF Claim, Answer, Shape, CallRecords
    <3>2. QED
      BY <1>2, <2>1, <2>2, <2>3, <2>4, <3>1 DEF LeaseOf, Shape
  <2>5. CASE c = d /\ call'[d].pc # "fetch"
    BY <1>8, <2>5 DEF Claim, Answer, LeaseOf, Shape, CallRecords
  <2>6. CASE c # d /\ call[d].pc = "fetch"
    <3>1. rows[Key(d)].leaseUntil > t
      BY <1>1, <2>1, <2>6, LeasedWaits
    <3>2. call'[d] = call[d]
      BY <1>8, <2>6 DEF Claim, Answer, Shape
    <3>3. ~Spent(Key(d), t) /\ Waits(Key(d), t)
      <4>1. rows[Key(d)].leaseUntil \in Nat
        BY <1>1 DEF Shape, Rows
      <4>2. QED
        BY <2>1, <3>1, <4>1 DEF Spent, Waits
    <3>4. rows'[Key(d)] = rows[Key(d)]
      BY <1>1, <1>8, <2>1, <3>3 DEF Claim
    <3>5. QED
      BY <1>1, <2>3, <2>6, <3>2, <3>4 DEF LeaseOf
  <2>7. CASE c # d /\ call[d].pc # "fetch"
    BY <1>1, <1>8, <2>3, <2>7 DEF Claim, Answer, LeaseOf, Shape
  <2>8. QED
    BY <2>4, <2>5, <2>6, <2>7
<1>9. ASSUME NEW c \in Calls, Complete(c) PROVE LeaseOf(d)'
  <2>1. Key(c) \in Keys /\ now' = now /\ Key(d)' = Key(d)
    BY <1>9 DEF Complete, Answer, Key, Shape, CallRecords
  <2>2. CASE c = d
    BY <1>9, <2>2 DEF Complete, Answer, LeaseOf, Shape, CallRecords
  <2>3. CASE c # d /\ call[d].pc = "fetch"
    <3>1. call'[d] = call[d]
      BY <1>9, <2>3 DEF Complete, Answer, Shape
    <3>2. Key(d) # Key(c) \/ ~Owns(c)
      BY <1>1, <1>9, <2>3 DEF GenerationsFence, Owns, LeaseOf, Complete
    <3>3. rows'[Key(d)] = rows[Key(d)]
      BY <1>1, <1>9, <2>1, <3>2 DEF Complete, Shape
    <3>4. QED
      BY <1>1, <2>1, <2>3, <3>1, <3>3 DEF LeaseOf
  <2>4. CASE c # d /\ call[d].pc # "fetch"
    BY <1>1, <1>9, <2>1, <2>4 DEF Complete, Answer, LeaseOf, Shape
  <2>5. QED
    BY <2>2, <2>3, <2>4
<1>10. CASE Tick
  <2>1. Prompt(d) /\ now' = now + 1 /\ call' = call /\ rows' = rows
    BY <1>10 DEF Tick
  <2>2. QED
    BY <1>1, <1>2, <2>1 DEF Prompt, LeaseOf, Key
<1>11. CASE Reset
  BY <1>11 DEF Reset
<1>12. CASE (\E k \in Keys : Publish(k)) \/ Reconstruct \/ UNCHANGED vars
  BY <1>3, <1>12 DEF Publish, Reconstruct, vars
<1>13. QED
  BY <1>4, <1>5, <1>6, <1>7, <1>8, <1>9, <1>10, <1>11, <1>12 DEF Next, Read

\* Reconstruction never leads to two concurrent fetches of one key.
THEOREM LeaseCoversFetch ==
  ASSUME ~MayReset, MaxStale < Margin
  PROVE  Spec => []OneFetch
<1>1. Shape /\ GenerationsFence /\ PastReadings /\ LeaseHeld /\ [Next]_vars => LeaseHeld'
  <2> SUFFICES ASSUME Shape, GenerationsFence, PastReadings, LeaseHeld, [Next]_vars
               PROVE  LeaseHeld'
    OBVIOUS
  <2>1. \A c \in Calls : LeaseOf(c)'
    BY LeaseStep
  <2>2. QED
    BY <2>1 DEF LeaseHeld, LeaseOf
<1>2. Spec => [](GenerationsFence /\ LeaseHeld)
  BY <1>1, ShapeInit, ShapeStep, FenceInit, FenceStep, PastInit, PastStep, LeaseInit, PTL
     DEF Spec
<1>3. GenerationsFence /\ LeaseHeld => OneFetch
  BY DEF GenerationsFence, LeaseHeld, OneFetch
<1>4. QED
  BY <1>2, <1>3, PTL
-----------------------------------------------------------------------------
(***************************************************************************)
(* The persistent bounds.  The rows of the store are finitely many and so  *)
(* are their bytes; a row that is not there stores none, so what a         *)
(* completion counts, the other stored rows, is what the other keys store. *)
(***************************************************************************)
Capacity ==
  /\ IsFiniteSet(Stored) /\ Cardinality(Stored) <= MaxKeys
  /\ IsFiniteSet(Bytes(Keys)) /\ Cardinality(Bytes(Keys)) <= MaxCache
  /\ \A k \in Keys : /\ rows[k].bytes <= MaxEntry
                     /\ rows[k].kind = "none" => rows[k].bytes = 0

LEMMA NoBytes == ASSUME \A k \in Keys : rows[k].bytes = 0 PROVE Bytes(Keys) = {}
<1>1. ASSUME NEW k \in Keys PROVE {k} \X (1..rows[k].bytes) = {}
  <2>1. 1..rows[k].bytes = {}
    OBVIOUS
  <2>2. QED
    BY <2>1
<1>2. QED
  BY <1>1 DEF Bytes

LEMMA CapacityInit == Init => Capacity
<1> SUFFICES ASSUME Init PROVE Capacity
  OBVIOUS
<1>1. \A k \in Keys : rows[k].kind = "none" /\ rows[k].bytes = 0
  BY DEF Init, NoRow
<1>2. Stored = {} /\ Bytes(Keys) = {}
  BY <1>1, NoBytes DEF Stored
<1>3. QED
  BY <1>1, <1>2, FS_EmptySet, ArcCacheAssumption DEF Capacity

LEMMA Smaller ==
  ASSUME NEW S, IsFiniteSet(S), NEW m \in Nat, Cardinality(S) <= m, NEW T \in SUBSET S
  PROVE  IsFiniteSet(T) /\ Cardinality(T) <= m
<1>1. IsFiniteSet(T) /\ Cardinality(T) <= Cardinality(S)
  BY FS_Subset
<1>2. Cardinality(T) \in Nat /\ Cardinality(S) \in Nat
  BY <1>1, FS_CardinalityType
<1>3. QED
  BY <1>1, <1>2

\* A step that only takes bytes away.
LEMMA BytesShrink ==
  ASSUME Shape, Capacity, \A k \in Keys : rows'[k].bytes \in {rows[k].bytes, 0}
  PROVE  /\ IsFiniteSet(Bytes(Keys)') /\ Cardinality(Bytes(Keys)') <= MaxCache
         /\ \A k \in Keys : rows'[k].bytes <= MaxEntry
<1>1. \A k \in Keys : {k} \X (1..rows'[k].bytes) \subseteq {k} \X (1..rows[k].bytes)
  <2>1. ASSUME NEW k \in Keys PROVE 1..rows'[k].bytes \subseteq 1..rows[k].bytes
    <3>1. rows'[k].bytes \in {rows[k].bytes, 0}
      OBVIOUS
    <3>2. 1..0 = {}
      OBVIOUS
    <3>3. QED
      BY <3>1, <3>2
  <2>2. QED
    BY <2>1
<1>2. Bytes(Keys)' \in SUBSET Bytes(Keys)
  BY <1>1 DEF Bytes
<1>3. MaxCache \in Nat /\ MaxEntry \in Nat
  BY ArcCacheAssumption
<1>4. IsFiniteSet(Bytes(Keys)) /\ Cardinality(Bytes(Keys)) <= MaxCache
  BY DEF Capacity
<1>5. IsFiniteSet(Bytes(Keys)') /\ Cardinality(Bytes(Keys)') <= MaxCache
  <2> DEFINE S == Bytes(Keys)
             T == Bytes(Keys)'
  <2>1. T \in SUBSET S /\ IsFiniteSet(S) /\ Cardinality(S) <= MaxCache
    BY <1>2, <1>4
  <2> HIDE DEF S, T
  <2>2. IsFiniteSet(T) /\ Cardinality(T) <= MaxCache
    BY <1>3, <2>1, Smaller
  <2>3. QED
    BY <2>2 DEF T
<1>6. \A k \in Keys : rows'[k].bytes <= MaxEntry
  BY <1>3 DEF Capacity
<1>7. QED
  BY <1>5, <1>6

\* A claim counts the rows that are left beside its own.
LEMMA ClaimCapacity == ASSUME Shape, Capacity, NEW c \in Calls, Claim(c) PROVE Capacity'
<1> DEFINE k == Key(c)
           t == call[c].at
           spent == {j \in Stored \ {k} : Spent(j, t)}
<1>1. k \in Keys /\ t \in Nat /\ RowOK(rows[k])
  BY DEF Shape, Key, CallRecords
<1>2. CASE rows' = rows
  BY <1>2 DEF Capacity, Stored, Bytes
<1>3. CASE /\ ~(rows[k].kind = "none" /\ Cardinality(Stored \ spent) >= MaxKeys)
           /\ rows' = [j \in Keys |-> IF j = k THEN Leased(rows[k], t)
                                      ELSE IF j \in spent THEN NoRow ELSE rows[j]]
  <2>1. Leased(rows[k], t).bytes = rows[k].bytes /\ Leased(rows[k], t).kind = "row"
    BY <1>1, LeasedRow DEF Shape
  <2>2. \A j \in Keys : rows'[j].bytes \in {rows[j].bytes, 0}
    BY <1>1, <1>3, <2>1 DEF NoRow
  <2>3. \A j \in Keys : rows'[j].kind = "none" => rows'[j].bytes = 0
    BY <1>1, <1>3, <2>1 DEF NoRow, Capacity
  <2>4. Stored' = (Stored \ spent) \cup {k}
    <3>1. \A j \in Keys : rows'[j].kind = "row" <=> j = k \/ (j \notin spent /\ rows[j].kind = "row")
      BY <1>1, <1>3, <2>1 DEF NoRow
    <3>2. QED
      BY <1>1, <3>1 DEF Stored
  <2>5. /\ IsFiniteSet(Stored) /\ Cardinality(Stored) <= MaxKeys /\ Cardinality(Stored) \in Nat
        /\ IsFiniteSet(Stored \ spent) /\ Cardinality(Stored \ spent) <= Cardinality(Stored)
        /\ Cardinality(Stored \ spent) \in Nat /\ MaxKeys \in Nat
    <3>1. IsFiniteSet(Stored) /\ Cardinality(Stored) <= MaxKeys
      BY DEF Capacity
    <3>2. Stored \ spent \in SUBSET Stored
      OBVIOUS
    <3>3. QED
      BY <3>1, <3>2, FS_Subset, FS_CardinalityType, ArcCacheAssumption
  <2>6. IsFiniteSet(Stored') /\ Cardinality(Stored') <= MaxKeys
    <3> DEFINE S == Stored \ spent
    <3>1. /\ IsFiniteSet(S \cup {k})
          /\ Cardinality(S \cup {k}) = IF k \in S THEN Cardinality(S) ELSE Cardinality(S) + 1
      BY <2>5, FS_AddElement
    <3>2. CASE rows[k].kind = "none"
      <4>1. Cardinality(S) < MaxKeys
        BY <1>3, <2>5, <3>2
      <4>2. QED
        BY <2>4, <2>5, <3>1, <4>1
    <3>3. CASE rows[k].kind # "none"
      <4>1. k \in S
        BY <1>1, <3>3 DEF Stored, RowOK, Rows
      <4>2. QED
        BY <2>4, <2>5, <3>1, <4>1
    <3>4. QED
      BY <3>2, <3>3
  <2>7. QED
    BY <2>2, <2>3, <2>6, BytesShrink DEF Capacity
<1>4. QED
  BY <1>2, <1>3, Zenon DEF Claim

\* A completion stores what fits beside the bytes of the other rows.
LEMMA FilledCapacity ==
  ASSUME Shape, Capacity, NEW k \in Keys, NEW b \in Nat, b <= MaxEntry,
         b + Cardinality(Bytes(Stored \ {k})) <= MaxCache,
         rows' \in [Keys -> Rows], rows'[k].bytes = b, rows'[k].kind = "row",
         rows[k].kind = "row", \A j \in Keys \ {k} : rows'[j] = rows[j]
  PROVE  Capacity'
<1>1. Stored' = Stored
  BY DEF Stored
<1>2. Bytes(Keys)' = Bytes(Stored \ {k}) \cup ({k} \X (1..b))
  <2>1. \A j \in Keys \ {k} : j \notin Stored => {j} \X (1..rows[j].bytes) = {}
    <3>1. ASSUME NEW j \in Keys \ {k}, j \notin Stored PROVE {j} \X (1..rows[j].bytes) = {}
      <4>1. rows[j].bytes = 0
        BY <3>1 DEF Stored, Capacity, Shape, Rows
      <4>2. 1..rows[j].bytes = {}
        BY <4>1
      <4>3. QED
        BY <4>2
    <3>2. QED
      BY <3>1
  <2>2. \A j \in Keys \ {k} : {j} \X (1..rows'[j].bytes) = {j} \X (1..rows[j].bytes)
    OBVIOUS
  <2>3. {k} \X (1..rows'[k].bytes) = {k} \X (1..b)
    OBVIOUS
  <2>4. Stored \subseteq Keys
    BY DEF Stored
  <2> DEFINE old(j) == {j} \X (1..rows[j].bytes)
             new(j) == {j} \X (1..rows'[j].bytes)
  <2>5. /\ Bytes(Keys)' = UNION {new(j) : j \in Keys}
        /\ Bytes(Stored \ {k}) = UNION {old(j) : j \in Stored \ {k}}
    BY Zenon DEF Bytes
  <2>6. /\ \A j \in Keys \ {k} : new(j) = old(j) /\ (j \notin Stored => old(j) = {})
        /\ new(k) = {k} \X (1..b)
    BY <2>1, <2>2, <2>3
  <2> HIDE DEF old, new
  <2>7. ASSUME NEW x PROVE x \in Bytes(Keys)' <=> x \in Bytes(Stored \ {k}) \/ x \in new(k)
    <3>1. x \in Bytes(Keys)' <=> \E j \in Keys : x \in new(j)
      BY <2>5
    <3>2. x \in Bytes(Stored \ {k}) <=> \E j \in Stored \ {k} : x \in old(j)
      BY <2>5
    <3>3. \A j \in Keys \ {k} : x \in new(j) => x \in old(j) /\ j \in Stored
      BY <2>6
    <3>4. \A j \in Stored \ {k} : x \in old(j) => x \in new(j) /\ j \in Keys
      BY <2>4, <2>6
    <3>5. QED
      BY <3>1, <3>2, <3>3, <3>4
  <2>8. QED
    BY <2>6, <2>7
<1> DEFINE A == Bytes(Stored \ {k})
           B == {k} \X (1..b)
<1>3. IsFiniteSet(A) /\ Cardinality(A) \in Nat
  <2>1. A \in SUBSET Bytes(Keys)
    BY DEF Bytes, Stored
  <2>2. IsFiniteSet(Bytes(Keys))
    BY DEF Capacity
  <2> HIDE DEF A
  <2>3. QED
    BY <2>1, <2>2, FS_Subset, FS_CardinalityType
<1>4. IsFiniteSet(B) /\ Cardinality(B) = b
  <2>1. 1 \in Int /\ b \in Int
    OBVIOUS
  <2>2. IsFiniteSet(1..b) /\ Cardinality(1..b) = b
    BY <2>1, FS_Interval
  <2>3. IsFiniteSet({k}) /\ Cardinality({k}) = 1
    BY FS_Singleton
  <2>4. IsFiniteSet(B) /\ Cardinality(B) = Cardinality({k}) * Cardinality(1..b)
    BY <2>2, <2>3, FS_Product
  <2>5. QED
    BY <2>2, <2>3, <2>4
<1>5. IsFiniteSet(A \cup B) /\ Cardinality(A \cup B) <= b + Cardinality(A)
  <2>1. A \cap B \in SUBSET A
    OBVIOUS
  <2> HIDE DEF A, B
  <2>2. Cardinality(A \cap B) \in Nat
    BY <1>3, <2>1, FS_Subset, FS_CardinalityType
  <2>3. /\ IsFiniteSet(A \cup B)
        /\ Cardinality(A \cup B) = Cardinality(A) + Cardinality(B) - Cardinality(A \cap B)
    BY <1>3, <1>4, FS_Union
  <2>4. QED
    BY <1>3, <1>4, <2>2, <2>3
<1>6. IsFiniteSet(Bytes(Keys)') /\ Cardinality(Bytes(Keys)') <= MaxCache
  <2>1. Cardinality(A \cup B) \in Nat /\ MaxCache \in Nat
    BY <1>5, FS_CardinalityType, ArcCacheAssumption
  <2>2. QED
    BY <1>2, <1>3, <1>5, <2>1
<1>7. \A j \in Keys : /\ rows'[j].bytes <= MaxEntry
                      /\ rows'[j].kind = "none" => rows'[j].bytes = 0
  BY DEF Capacity
<1>8. QED
  BY <1>1, <1>6, <1>7 DEF Capacity

LEMMA CompleteCapacity == ASSUME Shape, Capacity, NEW c \in Calls, Complete(c) PROVE Capacity'
<1> DEFINE k == Key(c)
           t == call[c].at
<1>1. k \in Keys /\ t \in Nat /\ RowOK(rows[k]) /\ ReadOK(call[c]) /\ call[c].bytes \in Nat
  BY DEF Shape, Key, CallRecords
<1>2. CASE rows' = rows
  BY <1>2 DEF Capacity, Stored, Bytes
<1>3. CASE /\ Owns(c) /\ call[c].version > 0 /\ Room(c)
           /\ rows' = [rows EXCEPT ![k] = Filled(rows[k], c)]
  <2>1. /\ Filled(rows[k], c).bytes = call[c].bytes
        /\ Filled(rows[k], c).kind = rows[k].kind /\ rows[k].kind = "row"
        /\ RowOK(Filled(rows[k], c))
    BY <1>1, <1>3, FilledRow DEF Complete, Owns
  <2>2. /\ rows' \in [Keys -> Rows] /\ rows'[k] = Filled(rows[k], c)
        /\ \A j \in Keys \ {k} : rows'[j] = rows[j]
    BY <1>1, <1>3, <2>1 DEF Shape, RowOK
  <2>3. call[c].bytes <= MaxEntry /\ call[c].bytes + Cardinality(Bytes(Stored \ {k})) <= MaxCache
    BY <1>3 DEF Room
  <2>4. QED
    BY <1>1, <2>1, <2>2, <2>3, FilledCapacity
<1>4. CASE rows' = [rows EXCEPT ![k] = Cooling(rows[k], t)]
  <2>1. Cooling(rows[k], t).bytes = rows[k].bytes /\ Cooling(rows[k], t).kind = rows[k].kind
    BY <1>1, CoolingRow
  <2>2. \A j \in Keys : rows'[j].bytes = rows[j].bytes /\ rows'[j].kind = rows[j].kind
    BY <1>1, <1>4, <2>1 DEF Shape
  <2>3. Stored' = Stored
    BY <2>2 DEF Stored
  <2>4. QED
    BY <2>2, <2>3, BytesShrink DEF Capacity
<1>5. QED
  BY <1>2, <1>3, <1>4 DEF Complete

LEMMA CapacityStep == Shape /\ Capacity /\ [Next]_vars => Capacity'
<1> SUFFICES ASSUME Shape, Capacity, [Next]_vars PROVE Capacity'
  OBVIOUS
<1>1. CASE Reset
  <2>1. \A k \in Keys : rows'[k].kind = "none" /\ rows'[k].bytes = 0
    BY <1>1 DEF Reset, NoRow
  <2>2. Stored' = {}
    BY <2>1 DEF Stored
  <2>3. QED
    BY <2>1, <2>2, BytesShrink, FS_EmptySet, ArcCacheAssumption DEF Capacity
<1>2. CASE rows' = rows
  BY <1>2 DEF Capacity, Stored, Bytes
<1>3. QED
  BY <1>1, <1>2, ClaimCapacity, CompleteCapacity
     DEF Next, Read, EnterLock, Fetch, Lose, Start, Publish, Reconstruct, Tick, vars

\* The persistent bounds of cache.ts hold whatever is admitted, replaced, reclaimed
\* or reset, by reads of any number of instances.
THEOREM WithinBounds == Spec => []Bounded
<1>1. Spec => [](Shape /\ Capacity)
  BY ShapeInit, ShapeStep, CapacityInit, CapacityStep, PTL DEF Spec
<1>2. Capacity => Bounded
  BY DEF Capacity, Bounded
<1>3. QED
  BY <1>1, <1>2, PTL

-----------------------------------------------------------------------------
(***************************************************************************)
(* AccountStorage, for any channels, sessions, subscriptions and times.    *)
(* The stored keys hold one state of the account: the keys are those of    *)
(* the state's parts, and each has the part's value.  Only what the shared *)
(* key says of the next cleanup and the next recovery may be older; it is  *)
(* never later than what it stands for.                                    *)
(***************************************************************************)
IsFunction(f) == f = [x \in DOMAIN f |-> f[x]]

\* A state of the account.
IsAccount(acc) ==
  /\ acc = [configured |-> acc.configured, public |-> acc.public, life |-> acc.life,
            subscription |-> acc.subscription, revoked |-> acc.revoked, oauth |-> acc.oauth,
            attempts |-> acc.attempts, left |-> acc.left, enrollments |-> acc.enrollments,
            reservations |-> acc.reservations, sweep |-> acc.sweep]
  /\ acc.configured \in Seq(Channels) /\ acc.public \in Seq(Channels)
  /\ IsFunction(acc.life) /\ IsFunction(acc.subscription) /\ IsFunction(acc.revoked)
  /\ IsFunction(acc.left) /\ IsFunction(acc.enrollments)
  /\ UNION Range(acc.life) \subseteq Nat /\ Range(acc.revoked) \subseteq Nat
  /\ Range(acc.left) \subseteq Nat /\ Range(acc.enrollments) \subseteq Nat
  /\ acc.oauth \subseteq Nat /\ acc.attempts \subseteq Nat
  /\ acc.reservations \subseteq Nat /\ acc.sweep \subseteq Nat

\* What the shared key's cleanup and recovery stand for.
CleanupDues(acc) ==
  acc.oauth \cup Range(acc.enrollments) \cup Range(acc.left) \cup Range(acc.revoked)
    \cup acc.attempts \cup acc.reservations
RecoveryDues(acc) == UNION Range(acc.life)

Covers(early, dues) == early \subseteq Nat /\ \A d \in dues : \E e \in early : e <= d

SharedOf(x, acc) ==
  /\ x = [reservations |-> x.reservations, sweep |-> x.sweep, cleanup |-> x.cleanup,
          recovery |-> x.recovery]
  /\ x.reservations = acc.reservations /\ x.sweep = acc.sweep
  /\ Covers(x.cleanup, CleanupDues(acc)) /\ Covers(x.recovery, RecoveryDues(acc))

\* The keys that are always there, and those of a state.
Fixed == {Shared, OAuth, Attempts, Enrollments}
KeysOf(acc) ==
  Fixed \cup {Channel(c) : c \in Mentioned(acc)}
    \cup {Tombstone(id) : id \in DOMAIN acc.revoked}
    \cup {LeftKey(s) : s \in DOMAIN acc.left}

\* The keys of a store hold a state.
Holds(stored, acc) ==
  /\ DOMAIN stored = KeysOf(acc)
  /\ \A key \in KeysOf(acc) \ {Shared} : stored[key] = Value(acc, key)
  /\ SharedOf(stored[Shared], acc)

StorageInv ==
  /\ IsAccount(Join(Authority)) /\ Holds(Authority, Join(Authority))
  /\ ~fired => alarm = NextAlarm(Authority[Shared])

(***************************************************************************)
(* Keys.                                                                   *)
(***************************************************************************)
\* No two keys are the same.
LEMMA KeysApart ==
  /\ \A c : /\ Channel(c) \notin Fixed /\ Channel(c)[1] = "channel" /\ Channel(c)[2] = c
            /\ Tombstone(c) \notin Fixed /\ Tombstone(c)[1] = "tombstone"
            /\ Tombstone(c)[2] = c
            /\ LeftKey(c) \notin Fixed /\ LeftKey(c)[1] = "left" /\ LeftKey(c)[2] = c
  /\ \A key \in Fixed : key[1] \notin {"channel", "tombstone", "left"}
  /\ Shared # OAuth /\ Shared # Attempts /\ Shared # Enrollments
  /\ OAuth # Attempts /\ OAuth # Enrollments /\ Attempts # Enrollments
  BY DEF Fixed, Shared, OAuth, Attempts, Enrollments, Channel, Tombstone, LeftKey

LEMMA Values ==
  ASSUME NEW acc
  PROVE  /\ Value(acc, OAuth) = acc.oauth /\ Value(acc, Attempts) = acc.attempts
         /\ Value(acc, Enrollments) = acc.enrollments
         /\ Value(acc, Shared) = [reservations |-> acc.reservations, sweep |-> acc.sweep,
                                  cleanup |-> Cleanup(acc), recovery |-> Recovery(acc)]
         /\ \A c : Value(acc, Channel(c)) = Record(acc, c)
         /\ \A id : Value(acc, Tombstone(id)) = acc.revoked[id]
         /\ \A s : Value(acc, LeftKey(s)) = acc.left[s]
<1>1. /\ Value(acc, OAuth) = acc.oauth /\ Value(acc, Attempts) = acc.attempts
      /\ Value(acc, Enrollments) = acc.enrollments
      /\ Value(acc, Shared) = [reservations |-> acc.reservations, sweep |-> acc.sweep,
                               cleanup |-> Cleanup(acc), recovery |-> Recovery(acc)]
  BY KeysApart DEF Value, Fixed
<1>2. ASSUME NEW c
      PROVE  Value(acc, Channel(c)) = Record(acc, c)
  BY KeysApart DEF Value, Fixed
<1>3. ASSUME NEW id
      PROVE  Value(acc, Tombstone(id)) = acc.revoked[id]
  BY KeysApart DEF Value, Fixed
<1>4. ASSUME NEW s
      PROVE  Value(acc, LeftKey(s)) = acc.left[s]
  BY KeysApart DEF Value, Fixed
<1> QED
  BY <1>1, <1>2, <1>3, <1>4

\* What a store that holds a state has under a prefix.
LEMMA UnderPrefixes ==
  ASSUME NEW stored, NEW acc, DOMAIN stored = KeysOf(acc)
  PROVE  /\ Under(stored, "channel") = Mentioned(acc)
         /\ Under(stored, "tombstone") = DOMAIN acc.revoked
         /\ Under(stored, "left") = DOMAIN acc.left
<1>1. ASSUME NEW key \in KeysOf(acc)
      PROVE  \/ key \in Fixed
             \/ \E c \in Mentioned(acc) : key = Channel(c)
             \/ \E id \in DOMAIN acc.revoked : key = Tombstone(id)
             \/ \E s \in DOMAIN acc.left : key = LeftKey(s)
  BY DEF KeysOf
<1>2. /\ \A c \in Mentioned(acc) : Channel(c) \in KeysOf(acc)
      /\ \A id \in DOMAIN acc.revoked : Tombstone(id) \in KeysOf(acc)
      /\ \A s \in DOMAIN acc.left : LeftKey(s) \in KeysOf(acc)
  BY DEF KeysOf
<1>3. Under(stored, "channel") = Mentioned(acc)
  <2>1. ASSUME NEW c \in Mentioned(acc)
        PROVE  c \in Under(stored, "channel")
    BY <1>2, KeysApart DEF Under
  <2>2. ASSUME NEW c \in Under(stored, "channel")
        PROVE  c \in Mentioned(acc)
    <3>1. PICK key \in KeysOf(acc) : key[1] = "channel" /\ c = key[2]
      BY DEF Under
    <3> QED
      BY <1>1, <3>1, KeysApart
  <2> QED
    BY <2>1, <2>2
<1>4. Under(stored, "tombstone") = DOMAIN acc.revoked
  <2>1. ASSUME NEW id \in DOMAIN acc.revoked
        PROVE  id \in Under(stored, "tombstone")
    BY <1>2, KeysApart DEF Under
  <2>2. ASSUME NEW id \in Under(stored, "tombstone")
        PROVE  id \in DOMAIN acc.revoked
    <3>1. PICK key \in KeysOf(acc) : key[1] = "tombstone" /\ id = key[2]
      BY DEF Under
    <3> QED
      BY <1>1, <3>1, KeysApart
  <2> QED
    BY <2>1, <2>2
<1>5. Under(stored, "left") = DOMAIN acc.left
  <2>1. ASSUME NEW s \in DOMAIN acc.left
        PROVE  s \in Under(stored, "left")
    BY <1>2, KeysApart DEF Under
  <2>2. ASSUME NEW s \in Under(stored, "left")
        PROVE  s \in DOMAIN acc.left
    <3>1. PICK key \in KeysOf(acc) : key[1] = "left" /\ s = key[2]
      BY DEF Under
    <3> QED
      BY <1>1, <3>1, KeysApart
  <2> QED
    BY <2>1, <2>2
<1> QED
  BY <1>3, <1>4, <1>5

(***************************************************************************)
(* The state read back from the keys: joinDirectory undoes splitAccount.   *)
(***************************************************************************)
\* A list is read back from its members' positions.
LEMMA ListJoined ==
  ASSUME NEW list \in Seq(Channels), NEW stored, NEW field,
         ToSet(list) \subseteq Under(stored, "channel"),
         \A c \in Under(stored, "channel") : stored[Channel(c)][field] = Positions(list, c)
  PROVE  /\ Members(stored, field) = list
         /\ LET entries == Entries(stored, field)
            IN  {e[1] : e \in entries} = 1..Cardinality(entries)
<1> DEFINE n == Len(list)
           entries == {<<i, list[i]>> : i \in 1..n}
<1>1. n \in Nat /\ DOMAIN list = 1..n /\ list = [i \in 1..n |-> list[i]]
  OBVIOUS
<1>2. Entries(stored, field) = entries
  <2>1. ASSUME NEW e \in Entries(stored, field)
        PROVE  e \in entries
    <3>1. PICK c \in Under(stored, "channel") :
                 \E i \in stored[Channel(c)][field] : e = <<i, c>>
      BY DEF Entries
    <3>2. PICK i \in Positions(list, c) : e = <<i, c>>
      BY <3>1
    <3>3. i \in DOMAIN list /\ list[i] = c
      BY <3>2 DEF Positions
    <3> QED
      BY <1>1, <3>2, <3>3
  <2>2. ASSUME NEW i \in 1..n
        PROVE  <<i, list[i]>> \in Entries(stored, field)
    <3>1. list[i] \in Under(stored, "channel")
      BY <1>1 DEF ToSet
    <3>2. i \in stored[Channel(list[i])][field]
      BY <1>1, <3>1 DEF Positions
    <3> QED
      BY <3>1, <3>2 DEF Entries
  <2> QED
    BY <2>1, <2>2
<1>3. Cardinality(entries) = n
  <2> DEFINE f == [i \in 1..n |-> <<i, list[i]>>]
  <2>1. f \in Bijection(1..n, entries)
    <3>1. f \in [1..n -> entries]
      OBVIOUS
    <3>2. \A i, j \in 1..n : f[i] = f[j] => i = j
      OBVIOUS
    <3>3. \A e \in entries : \E i \in 1..n : f[i] = e
      OBVIOUS
    <3> QED
      BY <3>1, <3>2, <3>3 DEF Bijection, Injection, Surjection, IsInjective
  <2>2. ExistsBijection(1..n, entries)
    BY <2>1 DEF ExistsBijection
  <2>3. IsFiniteSet(1..n) /\ Cardinality(1..n) = n
    <3> HIDE DEF n
    <3>1. 1 \in Int /\ n \in Int /\ (IF 1 > n THEN 0 ELSE n - 1 + 1) = n
      BY <1>1
    <3> QED
      BY <3>1, FS_Interval
  <2> HIDE DEF entries, n
  <2> QED
    BY <2>2, <2>3, FS_Bijection
<1>4. {e[1] : e \in entries} = 1..n
  <2>1. \A e \in entries : e[1] \in 1..n
    OBVIOUS
  <2>2. ASSUME NEW i \in 1..n
        PROVE  i \in {e[1] : e \in entries}
    <3>1. <<i, list[i]>> \in entries /\ <<i, list[i]>>[1] = i
      OBVIOUS
    <3> HIDE DEF entries
    <3> QED
      BY <3>1
  <2> QED
    BY <2>1, <2>2
<1>5. ASSUME NEW i \in 1..n
      PROVE  (CHOOSE e \in entries : e[1] = i)[2] = list[i]
  <2>1. <<i, list[i]>> \in entries /\ <<i, list[i]>>[1] = i
    OBVIOUS
  <2>2. \A e \in entries : e[1] = i => e[2] = list[i]
    OBVIOUS
  <2> HIDE DEF entries
  <2> QED
    BY <2>1, <2>2
<1> HIDE DEF entries, n
<1>6. Members(stored, field) = [i \in 1..n |-> (CHOOSE e \in entries : e[1] = i)[2]]
  <2> DEFINE read == Entries(stored, field)
  <2>1. Members(stored, field)
        = [i \in 1..Cardinality(read) |-> (CHOOSE e \in read : e[1] = i)[2]]
    BY DEF Members
  <2>2. read = entries /\ Cardinality(read) = n
    BY <1>2, <1>3
  <2> HIDE DEF read
  <2> QED
    BY <2>1, <2>2
<1> QED
  BY <1>1, <1>2, <1>3, <1>4, <1>5, <1>6

\* So is what is kept by channel.
LEMMA PartJoined ==
  ASSUME NEW f, IsFunction(f), NEW stored, NEW field,
         DOMAIN f \subseteq Under(stored, "channel"),
         \A c \in Under(stored, "channel") : stored[Channel(c)][field] = Part(f, c)
  PROVE  Parts(stored, field) = f
<1>1. \A c \in Under(stored, "channel") :
        stored[Channel(c)][field] = IF c \in DOMAIN f THEN {f[c]} ELSE {}
  BY DEF Part
<1>2. {d \in Under(stored, "channel") : stored[Channel(d)][field] # {}} = DOMAIN f
  BY <1>1
<1>3. ASSUME NEW c \in DOMAIN f
      PROVE  (CHOOSE x \in stored[Channel(c)][field] : TRUE) = f[c]
  BY <1>1
<1>4. Parts(stored, field)
      = [c \in DOMAIN f |-> CHOOSE x \in stored[Channel(c)][field] : TRUE]
  BY <1>2 DEF Parts
<1> QED
  BY <1>3, <1>4 DEF IsFunction

\* What the keys of a state have.
LEMMA Held ==
  ASSUME NEW stored, NEW acc, Holds(stored, acc)
  PROVE  /\ \A c \in Mentioned(acc) : stored[Channel(c)] = Record(acc, c)
         /\ \A id \in DOMAIN acc.revoked : stored[Tombstone(id)] = acc.revoked[id]
         /\ \A s \in DOMAIN acc.left : stored[LeftKey(s)] = acc.left[s]
         /\ stored[OAuth] = acc.oauth /\ stored[Attempts] = acc.attempts
         /\ stored[Enrollments] = acc.enrollments
<1>1. \A key \in KeysOf(acc) \ {Shared} : stored[key] = Value(acc, key)
  BY DEF Holds
<1>2. Shared \in Fixed /\ OAuth \in Fixed /\ Attempts \in Fixed /\ Enrollments \in Fixed
  BY DEF Fixed
<1>3. ASSUME NEW c \in Mentioned(acc)
      PROVE  stored[Channel(c)] = Record(acc, c)
  <2>1. Channel(c) \in KeysOf(acc)
    BY DEF KeysOf
  <2>2. Channel(c) # Shared
    BY <1>2, KeysApart
  <2>3. stored[Channel(c)] = Value(acc, Channel(c))
    BY <1>1, <2>1, <2>2
  <2> QED
    BY <2>3, Values
<1>4. ASSUME NEW id \in DOMAIN acc.revoked
      PROVE  stored[Tombstone(id)] = acc.revoked[id]
  <2>1. Tombstone(id) \in KeysOf(acc)
    BY DEF KeysOf
  <2>2. Tombstone(id) # Shared
    BY <1>2, KeysApart
  <2>3. stored[Tombstone(id)] = Value(acc, Tombstone(id))
    BY <1>1, <2>1, <2>2
  <2> QED
    BY <2>3, Values
<1>5. ASSUME NEW s \in DOMAIN acc.left
      PROVE  stored[LeftKey(s)] = acc.left[s]
  <2>1. LeftKey(s) \in KeysOf(acc)
    BY DEF KeysOf
  <2>2. LeftKey(s) # Shared
    BY <1>2, KeysApart
  <2>3. stored[LeftKey(s)] = Value(acc, LeftKey(s))
    BY <1>1, <2>1, <2>2
  <2> QED
    BY <2>3, Values
<1>6. /\ stored[OAuth] = acc.oauth /\ stored[Attempts] = acc.attempts
      /\ stored[Enrollments] = acc.enrollments
  <2>1. OAuth \in KeysOf(acc) /\ Attempts \in KeysOf(acc) /\ Enrollments \in KeysOf(acc)
    BY <1>2 DEF KeysOf
  <2>2. OAuth # Shared /\ Attempts # Shared /\ Enrollments # Shared
    BY KeysApart
  <2>3. /\ stored[OAuth] = Value(acc, OAuth) /\ stored[Attempts] = Value(acc, Attempts)
        /\ stored[Enrollments] = Value(acc, Enrollments)
    BY <1>1, <2>1, <2>2
  <2> QED
    BY <2>3, Values
<1> QED
  BY <1>3, <1>4, <1>5, <1>6

LEMMA JoinHolds ==
  ASSUME NEW stored, NEW acc, IsAccount(acc), Holds(stored, acc)
  PROVE  Join(stored) = acc /\ Joinable(stored)
<1>1. /\ Under(stored, "channel") = Mentioned(acc)
      /\ Under(stored, "tombstone") = DOMAIN acc.revoked
      /\ Under(stored, "left") = DOMAIN acc.left
  BY UnderPrefixes DEF Holds
<1>2. /\ ToSet(acc.configured) \subseteq Mentioned(acc)
      /\ ToSet(acc.public) \subseteq Mentioned(acc)
      /\ DOMAIN acc.life \subseteq Mentioned(acc)
      /\ DOMAIN acc.subscription \subseteq Mentioned(acc)
  BY DEF Mentioned
<1>3. \A c \in Mentioned(acc) : stored[Channel(c)] = Record(acc, c)
  BY Held
<1>4. ASSUME NEW c \in Mentioned(acc)
      PROVE  /\ stored[Channel(c)]["configured"] = Positions(acc.configured, c)
             /\ stored[Channel(c)]["public"] = Positions(acc.public, c)
             /\ stored[Channel(c)]["life"] = Part(acc.life, c)
             /\ stored[Channel(c)]["subscription"] = Part(acc.subscription, c)
  <2>1. /\ Record(acc, c).configured = Positions(acc.configured, c)
        /\ Record(acc, c).public = Positions(acc.public, c)
        /\ Record(acc, c).life = Part(acc.life, c)
        /\ Record(acc, c).subscription = Part(acc.subscription, c)
    BY DEF Record
  <2>2. stored[Channel(c)] = Record(acc, c)
    BY <1>3
  <2> QED
    BY <2>1, <2>2
<1>5. /\ Members(stored, "configured") = acc.configured
      /\ LET entries == Entries(stored, "configured")
         IN  {e[1] : e \in entries} = 1..Cardinality(entries)
  <2>1. acc.configured \in Seq(Channels)
    BY DEF IsAccount
  <2> QED
    BY <1>1, <1>2, <1>4, <2>1, ListJoined
<1>6. /\ Members(stored, "public") = acc.public
      /\ LET entries == Entries(stored, "public")
         IN  {e[1] : e \in entries} = 1..Cardinality(entries)
  <2>1. acc.public \in Seq(Channels)
    BY DEF IsAccount
  <2> QED
    BY <1>1, <1>2, <1>4, <2>1, ListJoined
<1>7. Parts(stored, "life") = acc.life /\ Parts(stored, "subscription") = acc.subscription
  <2>1. IsFunction(acc.life) /\ IsFunction(acc.subscription)
    BY DEF IsAccount
  <2> QED
    BY <1>1, <1>2, <1>4, <2>1, PartJoined
<1>8. [id \in Under(stored, "tombstone") |-> stored[Tombstone(id)]] = acc.revoked
  <2>1. \A id \in DOMAIN acc.revoked : stored[Tombstone(id)] = acc.revoked[id]
    BY Held
  <2> QED
    BY <1>1, <2>1 DEF IsAccount, IsFunction
<1>9. [s \in Under(stored, "left") |-> stored[LeftKey(s)]] = acc.left
  <2>1. \A s \in DOMAIN acc.left : stored[LeftKey(s)] = acc.left[s]
    BY Held
  <2> QED
    BY <1>1, <2>1 DEF IsAccount, IsFunction
<1>10. /\ stored[OAuth] = acc.oauth /\ stored[Attempts] = acc.attempts
       /\ stored[Enrollments] = acc.enrollments
  BY Held
<1>11. stored[Shared].reservations = acc.reservations /\ stored[Shared].sweep = acc.sweep
  BY DEF Holds, SharedOf
<1>12. Join(stored) = acc
  <2>1. Join(stored) =
          [configured |-> acc.configured, public |-> acc.public, life |-> acc.life,
           subscription |-> acc.subscription, revoked |-> acc.revoked, oauth |-> acc.oauth,
           attempts |-> acc.attempts, left |-> acc.left, enrollments |-> acc.enrollments,
           reservations |-> acc.reservations, sweep |-> acc.sweep]
    BY <1>5, <1>6, <1>7, <1>8, <1>9, <1>10, <1>11 DEF Join
  <2> QED
    BY <2>1 DEF IsAccount
<1>13. Joinable(stored)
  BY <1>5, <1>6 DEF Joinable
<1> QED
  BY <1>12, <1>13

(***************************************************************************)
(* Times.  The library's well-founded order is that of finite sets under   *)
(* inclusion, which the sets 0..m inherit.                                 *)
(***************************************************************************)
LEMMA LeastTime ==
  ASSUME NEW S \in SUBSET Nat, S # {}
  PROVE  \E m \in S : \A n \in S : m <= n
<1> DEFINE T == {0..m : m \in S}
<1>1. T \subseteq FiniteSubsetsOf(Nat) /\ T # {}
  <2>1. ASSUME NEW m \in S
        PROVE  0..m \in FiniteSubsetsOf(Nat)
    <3>1. m \in Int /\ 0 \in Int /\ 0..m \subseteq Nat
      OBVIOUS
    <3>2. IsFiniteSet(0..m)
      BY <3>1, FS_Interval
    <3> QED
      BY <3>1, <3>2 DEF FiniteSubsetsOf
  <2> QED
    BY <2>1
<1>2. PICK x \in T : \A y \in T : <<y, x>> \notin StrictSubsetOrdering(Nat)
  <2> HIDE DEF T
  <2> QED
    BY <1>1, FS_StrictSubsetOrderingWellFounded, WFMin
<1>3. PICK m \in S : x = 0..m
  OBVIOUS
<1>4. ASSUME NEW n \in S, n < m
      PROVE  FALSE
  <2> DEFINE a == 0..n
             b == 0..m
  <2>1. m \in Nat /\ n \in Nat
    OBVIOUS
  <2>2. a \in SUBSET Nat /\ b \in SUBSET Nat /\ a \subseteq b /\ m \in b /\ m \notin a
    BY <1>4, <2>1
  <2>3. a \in T /\ b = x
    BY <1>3
  <2> HIDE DEF a, b
  <2>4. <<a, b>> \in StrictSubsetOrdering(Nat)
    BY <2>2 DEF StrictSubsetOrdering
  <2> QED
    BY <1>2, <2>3, <2>4
<1> QED
  BY <1>4

LEMMA FirstCovers ==
  ASSUME NEW S \in SUBSET Nat
  PROVE  /\ First(S) \subseteq S /\ Covers(First(S), S)
         /\ S # {} => First(S) = {Min(S)} /\ Min(S) \in S /\ \A n \in S : Min(S) <= n
<1>1. CASE S = {}
  BY <1>1 DEF First, Covers
<1>2. CASE S # {}
  <2>1. Min(S) \in S /\ \A n \in S : Min(S) <= n
    BY <1>2, LeastTime DEF Min
  <2> QED
    BY <1>2, <2>1 DEF First, Covers
<1> QED
  BY <1>1, <1>2

LEMMA Covering ==
  ASSUME NEW early, NEW middle, NEW dues, dues \subseteq Nat,
         Covers(early, middle), Covers(middle, dues)
  PROVE  Covers(early, dues)
<1>1. ASSUME NEW d \in dues
      PROVE  \E e \in early : e <= d
  <2>1. PICK m \in middle : m <= d
    BY DEF Covers
  <2>2. PICK e \in early : e <= m
    BY DEF Covers
  <2>3. d \in Nat /\ m \in Nat /\ e \in Nat
    BY DEF Covers
  <2> QED
    BY <2>1, <2>2, <2>3
<1> QED
  BY <1>1 DEF Covers

LEMMA DuesTyped ==
  ASSUME NEW acc, IsAccount(acc)
  PROVE  CleanupDues(acc) \subseteq Nat /\ RecoveryDues(acc) \subseteq Nat
  BY DEF IsAccount, CleanupDues, RecoveryDues

\* What splitAccount says of the next cleanup and the next recovery is right.
LEMMA CleanupCovers ==
  ASSUME NEW acc, IsAccount(acc)
  PROVE  /\ Cleanup(acc) \subseteq CleanupDues(acc)
         /\ Covers(Cleanup(acc), CleanupDues(acc))
         /\ Recovery(acc) \subseteq RecoveryDues(acc)
         /\ Covers(Recovery(acc), RecoveryDues(acc))
<1>1. Cleanup(acc) = First(CleanupDues(acc)) /\ Recovery(acc) = First(RecoveryDues(acc))
  BY DEF Cleanup, CleanupDues, Recovery, RecoveryDues
<1> QED
  BY <1>1, DuesTyped, FirstCovers

(***************************************************************************)
(* The state written to the keys.                                          *)
(***************************************************************************)
LEMMA SplitKeys ==
  ASSUME NEW acc
  PROVE  /\ DOMAIN Split(acc) = KeysOf(acc)
         /\ \A key \in KeysOf(acc) : Split(acc)[key] = Value(acc, key)
<1>1. Split(acc) = [key \in KeysOf(acc) |-> Value(acc, key)]
  BY DEF Split, KeysOf, Fixed
<1> QED
  BY <1>1

LEMMA SharedWritten ==
  ASSUME NEW acc, IsAccount(acc)
  PROVE  SharedOf(Value(acc, Shared), acc)
<1>1. Value(acc, Shared) = [reservations |-> acc.reservations, sweep |-> acc.sweep,
                            cleanup |-> Cleanup(acc), recovery |-> Recovery(acc)]
  BY Values
<1> QED
  BY <1>1, CleanupCovers DEF SharedOf

LEMMA SplitHolds ==
  ASSUME NEW acc, IsAccount(acc)
  PROVE  Holds(Split(acc), acc)
<1>1. Shared \in KeysOf(acc)
  BY DEF KeysOf, Fixed
<1> QED
  BY <1>1, SplitKeys, SharedWritten DEF Holds

\* persistDirectory: what changed is written and what is gone is deleted, which
\* leaves the new state.  A shared key that stays as it is covers the new state too.
LEMMA PersistedHolds ==
  ASSUME NEW stored, NEW before, IsAccount(before), Holds(stored, before),
         NEW acc, IsAccount(acc)
  PROVE  Holds(Persisted(stored, Split(before), Split(acc)), acc)
<1> DEFINE written == Changed(Split(before), Split(acc))
           gone == Gone(Split(before), Split(acc))
           new == Persisted(stored, Split(before), Split(acc))
<1>1. written = {key \in KeysOf(acc) : \/ key \notin KeysOf(before)
                                       \/ Value(before, key) # Value(acc, key)}
  <2>1. \A key \in KeysOf(acc) : Split(acc)[key] = Value(acc, key)
    BY SplitKeys
  <2>2. \A key \in KeysOf(before) : Split(before)[key] = Value(before, key)
    BY SplitKeys
  <2> QED
    BY <2>1, <2>2, SplitKeys DEF Changed
<1>2. gone = KeysOf(before) \ KeysOf(acc)
  BY SplitKeys DEF Gone
<1>3. new = [key \in (DOMAIN stored \cup written) \ gone |->
               IF key \in written THEN Split(acc)[key] ELSE stored[key]]
  BY DEF Persisted
<1> HIDE DEF written, gone, new
<1>4. (DOMAIN stored \cup written) \ gone = KeysOf(acc)
  BY <1>1, <1>2 DEF Holds
<1>5. /\ DOMAIN new = KeysOf(acc)
      /\ \A key \in KeysOf(acc) :
           new[key] = IF key \in written THEN Value(acc, key) ELSE stored[key]
  BY <1>3, <1>4, SplitKeys
<1>6. ASSUME NEW key \in KeysOf(acc) \ {Shared}
      PROVE  new[key] = Value(acc, key)
  <2>1. CASE key \in written
    BY <1>5, <2>1
  <2>2. CASE key \notin written
    <3>1. key \in KeysOf(before) /\ Value(before, key) = Value(acc, key)
      BY <1>1, <2>2
    <3>2. stored[key] = Value(before, key)
      BY <3>1 DEF Holds
    <3> QED
      BY <1>5, <2>2, <3>1, <3>2
  <2> QED
    BY <2>1, <2>2
<1>7. Shared \in KeysOf(acc) /\ Shared \in KeysOf(before)
  BY DEF KeysOf, Fixed
<1>8. SharedOf(new[Shared], acc)
  <2>1. CASE Shared \in written
    BY <1>5, <1>7, <2>1, SharedWritten
  <2>2. CASE Shared \notin written
    <3> DEFINE x == stored[Shared]
    <3>1. new[Shared] = x
      BY <1>5, <1>7, <2>2
    <3>2. Value(before, Shared) = Value(acc, Shared)
      BY <1>1, <1>7, <2>2
    <3>3. /\ before.reservations = acc.reservations /\ before.sweep = acc.sweep
          /\ Cleanup(before) = Cleanup(acc) /\ Recovery(before) = Recovery(acc)
      <4> DEFINE b == Value(before, Shared)
                 a == Value(acc, Shared)
      <4>1. /\ b.reservations = before.reservations /\ b.sweep = before.sweep
            /\ b.cleanup = Cleanup(before) /\ b.recovery = Recovery(before)
        BY Values
      <4>2. /\ a.reservations = acc.reservations /\ a.sweep = acc.sweep
            /\ a.cleanup = Cleanup(acc) /\ a.recovery = Recovery(acc)
        BY Values
      <4> QED
        BY <3>2, <4>1, <4>2
    <3>4. SharedOf(x, before)
      BY DEF Holds
    <3>5. Covers(x.cleanup, Cleanup(acc)) /\ Covers(x.recovery, Recovery(acc))
      BY <3>3, <3>4, CleanupCovers DEF SharedOf, Covers
    <3>6. /\ Covers(x.cleanup, CleanupDues(acc)) /\ Covers(x.recovery, RecoveryDues(acc))
      BY <3>5, CleanupCovers, DuesTyped, Covering
    <3> QED
      BY <3>1, <3>3, <3>4, <3>6 DEF SharedOf
  <2> QED
    BY <2>1, <2>2
<1> QED
  BY <1>5, <1>6, <1>8 DEF Holds, new

(***************************************************************************)
(* The functions of the transactions make states of states.                *)
(***************************************************************************)
\* A list without a member is a list of the others.  The function that builds it exists
\* up to every position, since there is no first position up to which it does not.
LEMMA WithoutTyped ==
  ASSUME NEW list \in Seq(Channels), NEW c
  PROVE  Account!Without(list, c) \in Seq(Channels)
<1> DEFINE Step(f, i) == IF i = 0 THEN <<>> ELSE IF list[i] = c THEN f[i - 1]
                         ELSE Append(f[i - 1], list[i])
           Kept(n) == {f \in [0..n -> Seq(Channels)] : \A i \in 0..n : f[i] = Step(f, i)}
           Failing == {n \in 0..Len(list) : Kept(n) = {}}
<1>1. Failing = {}
  <2> SUFFICES ASSUME Failing # {}
               PROVE  FALSE
    OBVIOUS
  <2>1. Failing \in SUBSET Nat
    OBVIOUS
  <2> HIDE DEF Failing
  <2>2. PICK n \in Failing : \A m \in Failing : n <= m
    BY <2>1, LeastTime
  <2>3. n \in 0..Len(list) /\ Kept(n) = {}
    BY DEF Failing
  <2>4. CASE n = 0
    <3> DEFINE f == [i \in 0..0 |-> <<>>]
    <3>1. f \in [0..0 -> Seq(Channels)] /\ \A i \in 0..0 : f[i] = <<>> /\ i = 0
      OBVIOUS
    <3>2. f \in Kept(0)
      BY <3>1
    <3> QED
      BY <2>3, <2>4, <3>2
  <2>5. CASE n # 0
    <3>1. n - 1 \in 0..Len(list) /\ n - 1 \notin Failing
      BY <2>1, <2>2, <2>3, <2>5
    <3>2. PICK f \in [0..(n - 1) -> Seq(Channels)] : \A i \in 0..(n - 1) : f[i] = Step(f, i)
      BY <3>1 DEF Failing
    <3> DEFINE x == IF list[n] = c THEN f[n - 1] ELSE Append(f[n - 1], list[n])
               g == [i \in 0..n |-> IF i = n THEN x ELSE f[i]]
    <3>3. n \in 1..Len(list) /\ list[n] \in Channels /\ n - 1 \in 0..(n - 1)
      BY <2>3, <2>5
    <3>4. f[n - 1] \in Seq(Channels)
      BY <3>3
    <3>5. x \in Seq(Channels)
      BY <3>3, <3>4
    <3> HIDE DEF x
    <3>6. \A i \in 0..n : i # n => i \in 0..(n - 1)
      BY <3>3
    <3>7. g \in [0..n -> Seq(Channels)]
      BY <3>5, <3>6
    <3>8. \A i \in 0..(n - 1) : i \in 0..n /\ i # n /\ g[i] = f[i]
      BY <3>3
    <3>9. n \in 0..n /\ g[n] = x
      BY <3>3
    <3> HIDE DEF g
    <3>10. ASSUME NEW i \in 0..n
           PROVE  g[i] = Step(g, i)
      <4>1. CASE i = n
        <5>1. g[n - 1] = f[n - 1]
          BY <3>3, <3>8
        <5> QED
          BY <2>5, <3>9, <4>1, <5>1 DEF x
      <4>2. CASE i = 0
        BY <2>5, <3>2, <3>3, <3>8, <4>2
      <4>3. CASE i # n /\ i # 0
        <5>1. i \in 0..(n - 1) /\ i - 1 \in 0..(n - 1)
          BY <3>3, <4>3
        <5>2. f[i] = Step(f, i) /\ g[i] = f[i] /\ g[i - 1] = f[i - 1]
          BY <3>2, <3>8, <5>1
        <5> QED
          BY <4>3, <5>2
      <4> QED
        BY <4>1, <4>2, <4>3
    <3>11. g \in Kept(n)
      BY <3>7, <3>10
    <3> QED
      BY <2>3, <3>11
  <2> QED
    BY <2>4, <2>5
<1>2. Len(list) \in 0..Len(list)
  OBVIOUS
<1>3. PICK f \in [0..Len(list) -> Seq(Channels)] : \A i \in 0..Len(list) : f[i] = Step(f, i)
  BY <1>1, <1>2
<1>4. f = [i \in 0..Len(list) |-> Step(f, i)]
  BY <1>3
<1> DEFINE kept == CHOOSE g : g = [i \in 0..Len(list) |-> Step(g, i)]
<1>5. kept = [i \in 0..Len(list) |-> Step(kept, i)]
  BY <1>4
<1>6. Account!Without(list, c) = kept[Len(list)]
  BY DEF Account!Without
<1> HIDE DEF kept
<1>7. \A i \in 0..Len(list) : kept[i] \in Seq(Channels)
  <2> DEFINE Bad == {i \in 0..Len(list) : kept[i] \notin Seq(Channels)}
  <2> SUFFICES ASSUME Bad # {}
               PROVE  FALSE
    OBVIOUS
  <2>1. Bad \in SUBSET Nat
    OBVIOUS
  <2> HIDE DEF Bad
  <2>2. PICK n \in Bad : \A m \in Bad : n <= m
    BY <2>1, LeastTime
  <2>3. n \in 0..Len(list) /\ kept[n] \notin Seq(Channels) /\ kept[n] = Step(kept, n)
    BY <1>5 DEF Bad
  <2>4. n # 0
    BY <2>3
  <2>5. n - 1 \in 0..Len(list) /\ n - 1 \notin Bad /\ n \in 1..Len(list)
    BY <2>1, <2>2, <2>3, <2>4
  <2>6. kept[n - 1] \in Seq(Channels) /\ list[n] \in Channels
    BY <2>5 DEF Bad
  <2> QED
    BY <2>3, <2>4, <2>6
<1> QED
  BY <1>2, <1>6, <1>7

LEMMA PutTyped ==
  ASSUME NEW f, NEW x, NEW y
  PROVE  /\ IsFunction(Account!Put(f, x, y))
         /\ \A v \in Range(Account!Put(f, x, y)) : v = y \/ v \in Range(f)
<1> DEFINE g == [z \in DOMAIN f \cup {x} |-> IF z = x THEN y ELSE f[z]]
<1>1. Account!Put(f, x, y) = g
  BY DEF Account!Put
<1>2. IsFunction(g)
  BY DEF IsFunction
<1>3. ASSUME NEW v \in Range(g)
      PROVE  v = y \/ v \in Range(f)
  <2>1. PICK z \in DOMAIN f \cup {x} : v = IF z = x THEN y ELSE f[z]
    BY DEF Range
  <2> QED
    BY <2>1 DEF Range
<1> HIDE DEF g
<1> QED
  BY <1>1, <1>2, <1>3

LEMMA RestrictTyped ==
  ASSUME NEW f, NEW S \in SUBSET DOMAIN f
  PROVE  /\ IsFunction(Restrict(f, S)) /\ DOMAIN Restrict(f, S) = S
         /\ Range(Restrict(f, S)) \subseteq Range(f)
         /\ \A x \in S : Restrict(f, S)[x] = f[x]
  BY DEF Restrict, IsFunction, Range

LEMMA DropTyped ==
  ASSUME NEW f, NEW X
  PROVE  /\ IsFunction(Account!Drop(f, X)) /\ DOMAIN Account!Drop(f, X) = DOMAIN f \ X
         /\ Range(Account!Drop(f, X)) \subseteq Range(f)
         /\ \A x \in DOMAIN f \ X : Account!Drop(f, X)[x] = f[x]
<1>1. DOMAIN f \ X \in SUBSET DOMAIN f
  OBVIOUS
<1>2. Account!Drop(f, X) = Restrict(f, DOMAIN f \ X)
  BY DEF Account!Drop, Account!Restrict, Restrict
<1> QED
  BY <1>1, <1>2, RestrictTyped

LEMMA LaterTyped ==
  ASSUME NEW f, NEW t
  PROVE  /\ IsFunction(Account!Later(f, t))
         /\ Range(Account!Later(f, t)) \subseteq Range(f)
<1> DEFINE S == {x \in DOMAIN f : f[x] > t}
<1>1. Account!Later(f, t) = Restrict(f, S) /\ S \in SUBSET DOMAIN f
  BY DEF Account!Later, Account!Restrict, Restrict
<1> HIDE DEF S
<1> QED
  BY <1>1, RestrictTyped

\* The recoveries of the channels, after one was put.
LEMMA LifePut ==
  ASSUME NEW f, UNION Range(f) \subseteq Nat, NEW c, NEW due \in SUBSET Nat
  PROVE  UNION Range(Account!Put(f, c, due)) \subseteq Nat
  BY PutTyped

LEMMA RetiredTyped ==
  ASSUME NEW acc, IsAccount(acc), NEW c, NEW t \in Nat
  PROVE  IsAccount(Account!Retired(acc, c, t))
<1>1. CASE Account!Missing(acc.subscription, c)
  BY <1>1 DEF Account!Retired
<1>2. CASE ~Account!Missing(acc.subscription, c)
  <2> DEFINE subscription == Account!Drop(acc.subscription, {c})
             revoked == Account!Put(acc.revoked, acc.subscription[c], t)
  <2>1. IsFunction(subscription) /\ IsFunction(revoked) /\ Range(revoked) \subseteq Nat
    BY DropTyped, PutTyped DEF IsAccount
  <2>2. Account!Retired(acc, c, t)
        = [acc EXCEPT !.subscription = subscription, !.revoked = revoked]
    BY <1>2 DEF Account!Retired, IsAccount
  <2> HIDE DEF subscription, revoked
  <2> QED
    BY <2>1, <2>2 DEF IsAccount
<1> QED
  BY <1>1, <1>2

LEMMA EnrolledTyped ==
  ASSUME NEW acc, IsAccount(acc), NEW c \in Channels, NEW s, NEW t \in Nat
  PROVE  IsAccount(Account!Enrolled(acc, c, s, t))
<1> DEFINE ret == Account!Retired(acc, c, t)
           public == IF Account!Member(acc, c) THEN ret.public ELSE Append(ret.public, c)
           life == Account!Put(ret.life, c, {t})
           enrollments == Account!Put(ret.enrollments, s, t)
           left == Account!Drop(ret.left, {s})
<1>1. IsAccount(ret)
  BY RetiredTyped
<1>2. Account!Enrolled(acc, c, s, t)
      = [ret EXCEPT !.public = public, !.life = life, !.enrollments = enrollments,
                    !.left = left]
  BY <1>1 DEF Account!Enrolled, IsAccount
<1> HIDE DEF ret
<1>3. public \in Seq(Channels)
  BY <1>1 DEF IsAccount
<1>4. IsFunction(life) /\ UNION Range(life) \subseteq Nat
  BY <1>1, PutTyped, LifePut DEF IsAccount
<1>5. IsFunction(enrollments) /\ Range(enrollments) \subseteq Nat
  BY <1>1, PutTyped DEF IsAccount
<1>6. IsFunction(left) /\ Range(left) \subseteq Nat
  BY <1>1, DropTyped DEF IsAccount
<1> HIDE DEF public, life, enrollments, left
<1> QED
  BY <1>1, <1>2, <1>3, <1>4, <1>5, <1>6 DEF IsAccount

LEMMA RemovedTyped ==
  ASSUME NEW acc, IsAccount(acc), NEW c \in Channels, NEW s, NEW t \in Nat
  PROVE  IsAccount(Account!Removed(acc, c, s, t))
<1> DEFINE ret == Account!Retired(acc, c, t)
           configured == Account!Without(ret.configured, c)
           public == Account!Without(ret.public, c)
           life == Account!Put(ret.life, c, {})
           enrollments == Account!Drop(ret.enrollments, {s})
           left == IF Account!Missing(acc.enrollments, s) THEN ret.left
                   ELSE Account!Put(ret.left, s, t)
<1>1. IsAccount(ret)
  BY RetiredTyped
<1>2. Account!Removed(acc, c, s, t)
      = [ret EXCEPT !.configured = configured, !.public = public, !.life = life,
                    !.enrollments = enrollments, !.left = left]
  BY <1>1 DEF Account!Removed, IsAccount
<1> HIDE DEF ret
<1>3. configured \in Seq(Channels) /\ public \in Seq(Channels)
  BY <1>1, WithoutTyped DEF IsAccount
<1>4. IsFunction(life) /\ UNION Range(life) \subseteq Nat
  BY <1>1, PutTyped, LifePut DEF IsAccount
<1>5. IsFunction(enrollments) /\ Range(enrollments) \subseteq Nat
  BY <1>1, DropTyped DEF IsAccount
<1>6. IsFunction(left) /\ Range(left) \subseteq Nat
  BY <1>1, PutTyped DEF IsAccount
<1> HIDE DEF configured, public, life, enrollments, left
<1> QED
  BY <1>1, <1>2, <1>3, <1>4, <1>5, <1>6 DEF IsAccount

LEMMA ConfiguredTyped ==
  ASSUME NEW acc, IsAccount(acc), NEW cs \in Seq(Channels), NEW t \in Nat
  PROVE  IsAccount(Account!Configured(acc, cs, t))
<1>1. Account!Configured(acc, cs, t)
      = [acc EXCEPT !.configured = cs, !.oauth = acc.oauth \cup {t}, !.sweep = {t}]
  BY DEF Account!Configured, IsAccount
<1> QED
  BY <1>1 DEF IsAccount

LEMMA CreatedTyped ==
  ASSUME NEW acc, IsAccount(acc), NEW c, NEW id
  PROVE  IsAccount(Account!Created(acc, c, id))
<1> DEFINE subscription == Account!Put(acc.subscription, c, id)
           life == Account!Put(acc.life, c, {})
<1>1. Account!Created(acc, c, id) = [acc EXCEPT !.subscription = subscription, !.life = life]
  BY DEF Account!Created, IsAccount
<1>2. IsFunction(subscription)
  BY PutTyped
<1>3. IsFunction(life) /\ UNION Range(life) \subseteq Nat
  BY PutTyped, LifePut DEF IsAccount
<1> HIDE DEF subscription, life
<1> QED
  BY <1>1, <1>2, <1>3 DEF IsAccount

LEMMA ReclaimedTyped ==
  ASSUME NEW acc, IsAccount(acc), NEW t
  PROVE  IsAccount(Account!Reclaimed(acc, t))
<1> DEFINE sent == Account!ReclaimedSend(acc, t)
           oauth == {d \in sent.oauth : d > t}
           revoked == Account!Later(sent.revoked, t)
           enrollments == Account!Later(sent.enrollments, t)
           left == Account!Later(sent.left, t)
<1>1. IsAccount(sent)
  <2> DEFINE attempts == {d \in acc.attempts : d > t}
             reservations == {d \in acc.reservations : d > t}
  <2>1. sent = [acc EXCEPT !.attempts = attempts, !.reservations = reservations]
    BY DEF Account!ReclaimedSend, IsAccount
  <2>2. attempts \subseteq Nat /\ reservations \subseteq Nat
    BY DEF IsAccount
  <2> HIDE DEF attempts, reservations, sent
  <2> QED
    BY <2>1, <2>2 DEF IsAccount
<1>2. Account!Reclaimed(acc, t)
      = [sent EXCEPT !.oauth = oauth, !.revoked = revoked, !.enrollments = enrollments,
                     !.left = left]
  BY <1>1 DEF Account!Reclaimed, IsAccount
<1> HIDE DEF sent
<1>3. /\ oauth \subseteq Nat /\ IsFunction(revoked) /\ Range(revoked) \subseteq Nat
      /\ IsFunction(enrollments) /\ Range(enrollments) \subseteq Nat
      /\ IsFunction(left) /\ Range(left) \subseteq Nat
  BY <1>1, LaterTyped DEF IsAccount
<1> HIDE DEF oauth, revoked, enrollments, left
<1> QED
  BY <1>1, <1>2, <1>3 DEF IsAccount

LEMMA UpdatesTyped ==
  ASSUME NEW acc, IsAccount(acc), NEW new \in Account!Updates(acc)
  PROVE  IsAccount(new)
<1>1. Times \subseteq Nat
  BY StorageAssumption DEF StorageAssumption
<1>2. CASE \E c \in Channels, s \in Sessions, t \in Times :
             new = Account!Enrolled(acc, c, s, t) \/ new = Account!Removed(acc, c, s, t)
  BY <1>1, <1>2, EnrolledTyped, RemovedTyped
<1>3. CASE \E cs \in Account!SetToSeqs(Channels) \cup {<<>>}, t \in Times :
             new = Account!Configured(acc, cs, t)
  <2>1. Cardinality(Channels) \in Nat
    BY StorageAssumption, FS_CardinalityType DEF StorageAssumption
  <2>2. Account!SetToSeqs(Channels) \cup {<<>>} \subseteq Seq(Channels)
    <3> DEFINE n == Cardinality(Channels)
    <3>1. Account!Cardinality(Channels) = n
      BY DEF Account!Cardinality, Cardinality
    <3>2. n \in Nat
      BY <2>1
    <3> HIDE DEF n
    <3>3. Account!SetToSeqs(Channels) \subseteq [1..n -> Channels]
      BY <3>1 DEF Account!SetToSeqs
    <3>4. [1..n -> Channels] \subseteq Seq(Channels)
      BY <3>2
    <3>5. <<>> \in Seq(Channels)
      OBVIOUS
    <3> QED
      BY <3>3, <3>4, <3>5
  <2> QED
    BY <1>1, <1>3, <2>2, ConfiguredTyped
<1>4. CASE \E c \in Channels, id \in Subs : new = Account!Created(acc, c, id)
  BY <1>4, CreatedTyped
<1>5. CASE \E t \in Times : new = Account!Reclaimed(acc, t)
  BY <1>5, ReclaimedTyped
<1> QED
  BY <1>2, <1>3, <1>4, <1>5 DEF Account!Updates

(***************************************************************************)
(* Transactions that see a part of the state.                              *)
(***************************************************************************)
\* What dispatch makes of a state's attempts and reservations, whatever else the value
\* has that it is given.
After(times, t) == {d \in times : d > t}
More == {{}} \cup {{t} : t \in Times}
Sent(w, t, more) == [w EXCEPT !.attempts = After(w.attempts, t) \cup more,
                              !.reservations = After(w.reservations, t) \cup more]

LEMMA DispatchedIs ==
  ASSUME NEW w, "attempts" \in DOMAIN w, "reservations" \in DOMAIN w, NEW state
  PROVE  state \in Account!Dispatched(w)
           <=> \E t \in {0} \cup Times : \E more \in More : state = Sent(w, t, more)
<1> DEFINE reclaimed == {Account!ReclaimedSend(w, t) : t \in {0} \cup Times}
           Added(a, u) == [a EXCEPT !.attempts = @ \cup {u}, !.reservations = @ \cup {u}]
<1>1. state \in Account!Dispatched(w)
        <=> state \in reclaimed \/ \E a \in reclaimed : \E u \in Times : state = Added(a, u)
  BY DEF Account!Dispatched
<1>2. ASSUME NEW t
      PROVE  /\ Account!ReclaimedSend(w, t) = Sent(w, t, {})
             /\ \A u : Added(Account!ReclaimedSend(w, t), u) = Sent(w, t, {u})
  <2> DEFINE a == Account!ReclaimedSend(w, t)
             A == After(w.attempts, t)
             R == After(w.reservations, t)
  <2>1. a = [w EXCEPT !.attempts = A, !.reservations = R]
    BY DEF Account!ReclaimedSend, After
  <2>2. a = Sent(w, t, {})
    BY <2>1 DEF Sent
  <2> HIDE DEF a, A, R
  <2>3. ASSUME NEW u
        PROVE  Added(a, u) = [w EXCEPT !.attempts = A \cup {u}, !.reservations = R \cup {u}]
    BY <2>1
  <2> QED
    BY <2>2, <2>3 DEF Sent, A, R, a
<1> HIDE DEF Added
<1>3. state \in reclaimed <=> \E t \in {0} \cup Times : state = Sent(w, t, {})
  BY <1>2
<1>4. (\E a \in reclaimed : \E u \in Times : state = Added(a, u))
        <=> \E t \in {0} \cup Times : \E u \in Times : state = Sent(w, t, {u})
  <2>1. ASSUME NEW a \in reclaimed, NEW u \in Times, state = Added(a, u)
        PROVE  \E t \in {0} \cup Times : \E v \in Times : state = Sent(w, t, {v})
    <3>1. PICK t \in {0} \cup Times : a = Account!ReclaimedSend(w, t)
      OBVIOUS
    <3> QED
      BY <1>2, <2>1, <3>1
  <2>2. ASSUME NEW t \in {0} \cup Times, NEW u \in Times, state = Sent(w, t, {u})
        PROVE  \E a \in reclaimed : \E v \in Times : state = Added(a, v)
    <3>1. Account!ReclaimedSend(w, t) \in reclaimed
      OBVIOUS
    <3>2. state = Added(Account!ReclaimedSend(w, t), u)
      BY <1>2, <2>2
    <3> HIDE DEF reclaimed
    <3> QED
      BY <3>1, <3>2
  <2> QED
    BY <2>1, <2>2
<1> HIDE DEF reclaimed
<1> QED
  BY <1>1, <1>3, <1>4 DEF More

With(acc, attempts, reservations) ==
  [acc EXCEPT !.attempts = attempts, !.reservations = reservations]

LEMMA SentTyped ==
  ASSUME NEW acc, IsAccount(acc), NEW t \in {0} \cup Times, NEW more \in More, NEW new,
         new = Sent(acc, t, more)
  PROVE  /\ IsAccount(new) /\ new \in Account!Dispatched(acc)
         /\ new = With(acc, new.attempts, new.reservations)
         /\ new.attempts = After(acc.attempts, t) \cup more
         /\ new.reservations = After(acc.reservations, t) \cup more
<1> DEFINE A == After(acc.attempts, t) \cup more
           R == After(acc.reservations, t) \cup more
<1>1. new = [acc EXCEPT !.attempts = A, !.reservations = R]
  BY DEF Sent
<1>2. more \subseteq Nat
  BY StorageAssumption DEF StorageAssumption, More
<1>3. A \subseteq Nat /\ R \subseteq Nat
  BY <1>2 DEF IsAccount, After
<1>4. "attempts" \in DOMAIN acc /\ "reservations" \in DOMAIN acc
  BY DEF IsAccount
<1>5. new \in Account!Dispatched(acc)
  BY <1>4, DispatchedIs
<1> HIDE DEF A, R
<1>6. IsAccount(new)
  BY <1>1, <1>3 DEF IsAccount
<1>7. new.attempts = A /\ new.reservations = R
  BY <1>1, <1>4
<1> QED
  BY <1>1, <1>5, <1>6, <1>7 DEF A, R, With

\* The value of a key in two states that agree on its part.
LEMMA SameValues ==
  ASSUME NEW acc, NEW new, NEW key \in KeysOf(acc) \ {Shared},
         new.configured = acc.configured, new.public = acc.public, new.life = acc.life,
         new.subscription = acc.subscription, new.oauth = acc.oauth,
         new.left = acc.left, new.enrollments = acc.enrollments,
         key = Attempts => new.attempts = acc.attempts,
         \A id \in DOMAIN acc.revoked : key = Tombstone(id) => new.revoked[id] = acc.revoked[id]
  PROVE  Value(new, key) = Value(acc, key)
<1>1. \/ key = OAuth \/ key = Enrollments \/ key = Attempts
      \/ \E c \in Mentioned(acc) : key = Channel(c)
      \/ \E id \in DOMAIN acc.revoked : key = Tombstone(id)
      \/ \E s \in DOMAIN acc.left : key = LeftKey(s)
  BY DEF KeysOf, Fixed
<1>2. CASE key = OAuth \/ key = Enrollments \/ key = Attempts
  <2>1. /\ Value(acc, OAuth) = acc.oauth /\ Value(new, OAuth) = new.oauth
        /\ Value(acc, Enrollments) = acc.enrollments
        /\ Value(new, Enrollments) = new.enrollments
        /\ Value(acc, Attempts) = acc.attempts /\ Value(new, Attempts) = new.attempts
    BY Values
  <2> QED
    BY <1>2, <2>1
<1>3. CASE \E c \in Mentioned(acc) : key = Channel(c)
  <2>1. PICK c \in Mentioned(acc) : key = Channel(c)
    BY <1>3
  <2>2. Value(acc, Channel(c)) = Record(acc, c) /\ Value(new, Channel(c)) = Record(new, c)
    BY Values
  <2>3. Record(new, c) = Record(acc, c)
    BY DEF Record
  <2> QED
    BY <2>1, <2>2, <2>3
<1>4. CASE \E id \in DOMAIN acc.revoked : key = Tombstone(id)
  <2>1. PICK id \in DOMAIN acc.revoked : key = Tombstone(id)
    BY <1>4
  <2>2. /\ Value(acc, Tombstone(id)) = acc.revoked[id]
        /\ Value(new, Tombstone(id)) = new.revoked[id]
    BY Values
  <2> QED
    BY <2>1, <2>2
<1>5. CASE \E s \in DOMAIN acc.left : key = LeftKey(s)
  <2>1. PICK s \in DOMAIN acc.left : key = LeftKey(s)
    BY <1>5
  <2>2. Value(acc, LeftKey(s)) = acc.left[s] /\ Value(new, LeftKey(s)) = new.left[s]
    BY Values
  <2> QED
    BY <2>1, <2>2
<1> QED
  BY <1>1, <1>2, <1>3, <1>4, <1>5

\* The keys of a state in which only attempts and reservations differ.
LEMMA SentKeys ==
  ASSUME NEW acc, IsAccount(acc), NEW A, NEW R, NEW new,
         new = With(acc, A, R)
  PROVE  /\ KeysOf(new) = KeysOf(acc)
         /\ \A key \in KeysOf(acc) \ {Shared, Attempts} : Value(new, key) = Value(acc, key)
         /\ CleanupDues(new) \subseteq CleanupDues(acc) \cup A \cup R
         /\ RecoveryDues(new) = RecoveryDues(acc)
         /\ new.attempts = A /\ new.reservations = R /\ new.sweep = acc.sweep
<1>1. /\ new.configured = acc.configured /\ new.public = acc.public /\ new.life = acc.life
      /\ new.subscription = acc.subscription /\ new.revoked = acc.revoked
      /\ new.oauth = acc.oauth /\ new.left = acc.left
      /\ new.enrollments = acc.enrollments /\ new.sweep = acc.sweep
      /\ new.attempts = A /\ new.reservations = R
  BY DEF IsAccount, With
<1>2. Mentioned(new) = Mentioned(acc)
  BY <1>1 DEF Mentioned
<1>3. KeysOf(new) = KeysOf(acc)
  BY <1>1, <1>2 DEF KeysOf
<1>4. ASSUME NEW key \in KeysOf(acc) \ {Shared, Attempts}
      PROVE  Value(new, key) = Value(acc, key)
  BY <1>1, SameValues
<1> QED
  BY <1>1, <1>3, <1>4 DEF CleanupDues, RecoveryDues

\* withAttempt: the attempts are written, and the cleanup is at most brought forward.
LEMMA SavedHolds ==
  ASSUME NEW stored, NEW acc, IsAccount(acc), Holds(stored, acc),
         NEW state \in Account!Dispatched(WithAttempt(stored))
  PROVE  \E new \in Account!Dispatched(acc) :
           IsAccount(new) /\ Holds(Saved(stored, state), new)
<1> DEFINE w == WithAttempt(stored)
           x == stored[Shared]
<1>1. /\ stored[Attempts] = acc.attempts /\ x.reservations = acc.reservations
      /\ x.sweep = acc.sweep
      /\ x = [reservations |-> x.reservations, sweep |-> x.sweep, cleanup |-> x.cleanup,
              recovery |-> x.recovery]
      /\ Covers(x.cleanup, CleanupDues(acc)) /\ Covers(x.recovery, RecoveryDues(acc))
  BY Held DEF Holds, SharedOf
<1>2. /\ "attempts" \in DOMAIN w /\ "reservations" \in DOMAIN w
      /\ w.attempts = acc.attempts /\ w.reservations = acc.reservations
  <2>1. "reservations" \in DOMAIN x
    BY <1>1
  <2>2. w = Put(x, "attempts", stored[Attempts])
    BY DEF WithAttempt
  <2> HIDE DEF x, w
  <2> QED
    BY <1>1, <2>1, <2>2 DEF Put
<1>3. PICK t \in {0} \cup Times, more \in More : state = Sent(w, t, more)
  BY <1>2, DispatchedIs
<1> DEFINE new == Sent(acc, t, more)
<1> HIDE DEF w, x, new
<1>4. /\ IsAccount(new) /\ new \in Account!Dispatched(acc)
      /\ new = With(acc, new.attempts, new.reservations)
      /\ new.attempts = After(acc.attempts, t) \cup more
      /\ new.reservations = After(acc.reservations, t) \cup more
  <2>1. new = Sent(acc, t, more)
    BY DEF new
  <2> QED
    BY <1>3, <2>1, SentTyped
<1>5. state.attempts = new.attempts /\ state.reservations = new.reservations
  BY <1>2, <1>3, <1>4 DEF Sent
<1>6. /\ KeysOf(new) = KeysOf(acc)
      /\ \A key \in KeysOf(acc) \ {Shared, Attempts} : Value(new, key) = Value(acc, key)
      /\ CleanupDues(new) \subseteq CleanupDues(acc) \cup new.attempts \cup new.reservations
      /\ RecoveryDues(new) = RecoveryDues(acc) /\ new.sweep = acc.sweep
  BY <1>4, SentKeys
<1> USE DEF x
<1> DEFINE cleanup == Sooner(x.cleanup, state)
           saved == Saved(stored, state)
           y == [x EXCEPT !.reservations = new.reservations, !.cleanup = cleanup]
<1>7. Shared \in DOMAIN stored /\ Attempts \in DOMAIN stored /\ Shared # Attempts
  BY KeysApart DEF Holds, KeysOf, Fixed
<1>8. /\ DOMAIN saved = DOMAIN stored /\ saved[Attempts] = new.attempts
      /\ saved[Shared] = y
      /\ \A key \in DOMAIN stored \ {Shared, Attempts} : saved[key] = stored[key]
  BY <1>5, <1>7 DEF Saved
<1>9. /\ y = [reservations |-> new.reservations, sweep |-> x.sweep, cleanup |-> cleanup,
              recovery |-> x.recovery]
      /\ y.reservations = new.reservations /\ y.sweep = x.sweep /\ y.cleanup = cleanup
      /\ y.recovery = x.recovery
  <2> DEFINE r == new.reservations
  <2>1. x = [reservations |-> x.reservations, sweep |-> x.sweep, cleanup |-> x.cleanup,
             recovery |-> x.recovery]
    BY <1>1
  <2>2. y = [x EXCEPT !.reservations = r, !.cleanup = cleanup]
    OBVIOUS
  <2> HIDE DEF cleanup, x, y, r
  <2>3. /\ y = [reservations |-> r, sweep |-> x.sweep, cleanup |-> cleanup,
                recovery |-> x.recovery]
        /\ y.reservations = r /\ y.sweep = x.sweep /\ y.cleanup = cleanup
        /\ y.recovery = x.recovery
    BY <2>1, <2>2
  <2> QED
    BY <2>3 DEF r
<1>10. Covers(cleanup, CleanupDues(new))
  <2> DEFINE all == x.cleanup \cup new.attempts \cup new.reservations
  <2>1. all \subseteq Nat
    BY <1>1, <1>4 DEF Covers, IsAccount
  <2>2. cleanup = First(all)
    BY <1>5 DEF Sooner
  <2>3. Covers(cleanup, all)
    BY <2>1, <2>2, FirstCovers
  <2>4. CleanupDues(new) \subseteq Nat
    BY <1>4, DuesTyped
  <2>5. Covers(all, CleanupDues(new))
    <3>1. ASSUME NEW d \in CleanupDues(new)
          PROVE  \E e \in all : e <= d
      <4>1. CASE d \in CleanupDues(acc)
        BY <1>1, <4>1 DEF Covers
      <4>2. CASE d \in new.attempts \cup new.reservations
        <5>1. d \in all /\ d \in Nat
          BY <2>1, <4>2
        <5> HIDE DEF all
        <5> QED
          BY <5>1
      <4> QED
        BY <1>6, <4>1, <4>2
    <3> QED
      BY <2>1, <3>1 DEF Covers
  <2> HIDE DEF all, cleanup
  <2> QED
    BY <2>3, <2>4, <2>5, Covering
<1> HIDE DEF cleanup, y, saved
<1>11. SharedOf(saved[Shared], new)
  BY <1>1, <1>6, <1>8, <1>9, <1>10 DEF SharedOf
<1>12. ASSUME NEW key \in KeysOf(new) \ {Shared}
       PROVE  saved[key] = Value(new, key)
  <2>1. CASE key = Attempts
    BY <1>8, <2>1, Values
  <2>2. CASE key # Attempts
    BY <1>6, <1>8, <2>2 DEF Holds
  <2> QED
    BY <2>1, <2>2
<1>13. Holds(saved, new)
  BY <1>6, <1>8, <1>11, <1>12 DEF Holds
<1> QED
  BY <1>4, <1>13 DEF saved

LEMMA HoldsAlike ==
  ASSUME NEW stored, NEW acc, Holds(stored, acc), NEW other, DOMAIN other = DOMAIN stored,
         \A key \in DOMAIN stored : other[key] = stored[key]
  PROVE  Holds(other, acc)
<1>1. Shared \in KeysOf(acc)
  BY DEF KeysOf, Fixed
<1> QED
  BY <1>1 DEF Holds

\* channelDispatch forgets the tombstone of the channel's subscription: its key.
LEMMA ForgottenHolds ==
  ASSUME NEW stored, NEW acc, IsAccount(acc), Holds(stored, acc),
         NEW c \in DOMAIN acc.subscription, NEW id, id = acc.subscription[c],
         NEW new, new = Account!Forgotten(acc, c)
  PROVE  /\ IsAccount(new)
         /\ Holds(Restrict(stored, DOMAIN stored \ {Tombstone(id)}), new)
<1> DEFINE revoked == Account!Drop(acc.revoked, {id})
           other == Restrict(stored, DOMAIN stored \ {Tombstone(id)})
<1>1. new = [acc EXCEPT !.revoked = revoked]
  BY DEF Account!Forgotten, Account!Missing, IsAccount
<1>2. /\ IsFunction(revoked) /\ DOMAIN revoked = DOMAIN acc.revoked \ {id}
      /\ Range(revoked) \subseteq Range(acc.revoked)
      /\ \A i \in DOMAIN acc.revoked \ {id} : revoked[i] = acc.revoked[i]
  BY DropTyped
<1> HIDE DEF revoked
<1>3. /\ new.configured = acc.configured /\ new.public = acc.public /\ new.life = acc.life
      /\ new.subscription = acc.subscription /\ new.revoked = revoked
      /\ new.oauth = acc.oauth /\ new.attempts = acc.attempts /\ new.left = acc.left
      /\ new.enrollments = acc.enrollments /\ new.sweep = acc.sweep
      /\ new.reservations = acc.reservations
  BY <1>1 DEF IsAccount
<1>4. IsAccount(new)
  BY <1>1, <1>2 DEF IsAccount
<1>5. Mentioned(new) = Mentioned(acc)
  BY <1>3 DEF Mentioned
<1>6. KeysOf(new) = KeysOf(acc) \ {Tombstone(id)}
  <2>1. /\ Tombstone(id) \notin Fixed
        /\ \A d : Tombstone(id) # Channel(d) /\ Tombstone(id) # LeftKey(d)
        /\ \A i : Tombstone(i) = Tombstone(id) => i = id
    BY KeysApart
  <2>2. /\ {Channel(d) : d \in Mentioned(new)} = {Channel(d) : d \in Mentioned(acc)}
        /\ {LeftKey(s) : s \in DOMAIN new.left} = {LeftKey(s) : s \in DOMAIN acc.left}
    BY <1>3, <1>5
  <2>3. {Tombstone(i) : i \in DOMAIN new.revoked}
        = {Tombstone(i) : i \in DOMAIN acc.revoked} \ {Tombstone(id)}
    BY <1>2, <1>3, <2>1
  <2>4. /\ Tombstone(id) \notin {Channel(d) : d \in Mentioned(acc)}
        /\ Tombstone(id) \notin {LeftKey(s) : s \in DOMAIN acc.left}
    BY <2>1
  <2> QED
    BY <2>1, <2>2, <2>3, <2>4 DEF KeysOf
<1>7. DOMAIN other = KeysOf(new) /\ \A key \in KeysOf(new) : other[key] = stored[key]
  BY <1>6, RestrictTyped DEF Holds
<1> HIDE DEF other
<1>8. Shared \in KeysOf(new)
  BY DEF KeysOf, Fixed
<1>9. ASSUME NEW key \in KeysOf(new) \ {Shared}
      PROVE  other[key] = Value(new, key)
  <2>1. other[key] = stored[key] /\ key \in KeysOf(acc) /\ stored[key] = Value(acc, key)
    BY <1>6, <1>7 DEF Holds
  <2>2. ASSUME NEW i \in DOMAIN acc.revoked, key = Tombstone(i)
        PROVE  new.revoked[i] = acc.revoked[i]
    BY <1>2, <1>3, <1>6, <2>2
  <2>3. Value(new, key) = Value(acc, key)
    BY <1>3, <2>1, <2>2, SameValues
  <2> QED
    BY <2>1, <2>3
<1>10. SharedOf(other[Shared], new)
  <2> DEFINE x == other[Shared]
  <2>1. x = stored[Shared] /\ SharedOf(x, acc)
    BY <1>7, <1>8 DEF Holds
  <2> HIDE DEF x
  <2>2. CleanupDues(new) \subseteq CleanupDues(acc) /\ RecoveryDues(new) = RecoveryDues(acc)
    BY <1>2, <1>3 DEF CleanupDues, RecoveryDues
  <2> QED
    BY <1>3, <2>1, <2>2 DEF SharedOf, Covers, x
<1> QED
  BY <1>4, <1>7, <1>9, <1>10 DEF Holds, other

\* Writing the attempts and forgetting a tombstone do not meet.
LEMMA SavedRestricted ==
  ASSUME NEW stored, NEW acc, Holds(stored, acc), NEW state, NEW id,
         NEW rest, rest = Restrict(stored, DOMAIN stored \ {Tombstone(id)})
  PROVE  /\ WithAttempt(rest) = WithAttempt(stored)
         /\ LET other == Restrict(Saved(stored, state), DOMAIN stored \ {Tombstone(id)})
            IN  /\ DOMAIN other = DOMAIN Saved(rest, state)
                /\ \A key \in DOMAIN other : other[key] = Saved(rest, state)[key]
<1> DEFINE D == DOMAIN stored \ {Tombstone(id)}
           a == Saved(stored, state)
           b == Saved(rest, state)
<1>1. Shared \in D /\ Attempts \in D /\ Shared # Attempts
  <2>1. Tombstone(id) \notin Fixed /\ Shared # Attempts
    BY KeysApart
  <2>2. Shared \in Fixed /\ Attempts \in Fixed /\ Fixed \subseteq DOMAIN stored
    BY DEF Holds, KeysOf, Fixed
  <2> QED
    BY <2>1, <2>2
<1>2. D \in SUBSET DOMAIN stored
  OBVIOUS
<1> HIDE DEF D
<1>3. DOMAIN rest = D /\ \A key \in D : rest[key] = stored[key]
  BY <1>2, RestrictTyped DEF D
<1>4. rest[Shared] = stored[Shared] /\ rest[Attempts] = stored[Attempts]
  BY <1>1, <1>3
<1>5. DOMAIN a = DOMAIN stored /\ DOMAIN b = D
  BY <1>3 DEF Saved
<1>6. ASSUME NEW key \in D
      PROVE  a[key] = b[key]
  BY <1>1, <1>2, <1>3, <1>4 DEF Saved
<1> HIDE DEF a, b
<1>7. DOMAIN Restrict(a, D) = D /\ \A key \in D : Restrict(a, D)[key] = a[key]
  BY <1>2, <1>5, RestrictTyped
<1> QED
  BY <1>4, <1>5, <1>6, <1>7 DEF WithAttempt, D, a, b

(***************************************************************************)
(* The transactions.                                                       *)
(***************************************************************************)
\* A transaction that leaves keys which hold a state leaves the invariant and this state.
LEMMA CommitKeeps ==
  ASSUME NEW stored, NEW acc, IsAccount(acc), Holds(stored, acc), Commits(stored)
  PROVE  StorageInv' /\ Join(Authority)' = acc
<1>1. Shared \in DOMAIN stored
  BY DEF Holds, KeysOf, Fixed
<1>2. kv' = stored /\ alarm' = NextAlarm(stored[Shared])
  BY DEF Commits
<1>3. Authority' = stored
  BY <1>1, <1>2 DEF Authority
<1>4. Join(stored) = acc
  BY JoinHolds
<1>5. Join(Authority)' = acc
  BY <1>3, <1>4
<1> QED
  BY <1>2, <1>3, <1>5 DEF StorageInv

LEMMA UpdateKeeps ==
  ASSUME StorageInv, Update
  PROVE  StorageInv' /\ Account!Next
<1> DEFINE before == Join(Authority)
<1>1. PICK acc \in Account!Updates(before) :
             Commits(Persisted(Authority, Split(before), Split(acc)))
  BY DEF Update
<1>2. IsAccount(before) /\ Holds(Authority, before)
  BY DEF StorageInv
<1> HIDE DEF before
<1>3. IsAccount(acc)
  BY <1>1, <1>2, UpdatesTyped
<1>4. Holds(Persisted(Authority, Split(before), Split(acc)), acc)
  BY <1>2, <1>3, PersistedHolds
<1>5. StorageInv' /\ Join(Authority)' = acc
  BY <1>1, <1>3, <1>4, CommitKeeps
<1> QED
  BY <1>1, <1>5 DEF Account!Next, before

LEMMA SharedKeeps ==
  ASSUME StorageInv, UpdateShared
  PROVE  StorageInv' /\ Account!Next
<1> DEFINE stored == Authority
           acc == Join(Authority)
           x == stored[Shared]
<1>1. PICK shared \in Account!Swept(x) : Commits([stored EXCEPT ![Shared] = shared])
  BY DEF UpdateShared
<1>2. IsAccount(acc) /\ Holds(stored, acc)
  BY DEF StorageInv
<1>3. PICK due \in {{}} \cup {{t} : t \in Times} : shared = [x EXCEPT !.sweep = due]
  BY <1>1 DEF Account!Swept
<1>4. due \subseteq Nat
  BY <1>3, StorageAssumption DEF StorageAssumption
<1> DEFINE new == [acc EXCEPT !.sweep = due]
           after == [stored EXCEPT ![Shared] = shared]
<1>5. new \in Account!Swept(acc)
  BY <1>3 DEF Account!Swept
<1> HIDE DEF acc, stored, after, x
<1>6. acc = [configured |-> acc.configured, public |-> acc.public, life |-> acc.life,
             subscription |-> acc.subscription, revoked |-> acc.revoked,
             oauth |-> acc.oauth, attempts |-> acc.attempts, left |-> acc.left,
             enrollments |-> acc.enrollments, reservations |-> acc.reservations,
             sweep |-> acc.sweep]
  BY <1>2 DEF IsAccount
<1>7. new = [configured |-> acc.configured, public |-> acc.public, life |-> acc.life,
             subscription |-> acc.subscription, revoked |-> acc.revoked,
             oauth |-> acc.oauth, attempts |-> acc.attempts, left |-> acc.left,
             enrollments |-> acc.enrollments, reservations |-> acc.reservations,
             sweep |-> due]
  BY <1>6
<1> HIDE DEF new
<1>8. IsAccount(new)
  BY <1>2, <1>4, <1>7 DEF IsAccount
<1>9. /\ new.configured = acc.configured /\ new.public = acc.public /\ new.life = acc.life
      /\ new.subscription = acc.subscription /\ new.revoked = acc.revoked
      /\ new.oauth = acc.oauth /\ new.attempts = acc.attempts /\ new.left = acc.left
      /\ new.enrollments = acc.enrollments /\ new.sweep = due
      /\ new.reservations = acc.reservations
  BY <1>7
<1>10. /\ KeysOf(new) = KeysOf(acc)
       /\ CleanupDues(new) = CleanupDues(acc) /\ RecoveryDues(new) = RecoveryDues(acc)
  BY <1>9 DEF KeysOf, Mentioned, CleanupDues, RecoveryDues
<1>11. Shared \in DOMAIN stored
  BY <1>2 DEF Holds, KeysOf, Fixed
<1>12. /\ DOMAIN after = DOMAIN stored /\ after[Shared] = shared
       /\ \A key \in DOMAIN stored \ {Shared} : after[key] = stored[key]
  BY <1>11 DEF after
<1>13. SharedOf(shared, new)
  <2>1. SharedOf(x, acc)
    BY <1>2 DEF Holds, x
  <2>2. /\ shared = [reservations |-> x.reservations, sweep |-> due, cleanup |-> x.cleanup,
                     recovery |-> x.recovery]
        /\ shared.reservations = x.reservations /\ shared.sweep = due
        /\ shared.cleanup = x.cleanup /\ shared.recovery = x.recovery
    BY <1>3, <2>1 DEF SharedOf
  <2> QED
    BY <1>9, <1>10, <2>1, <2>2 DEF SharedOf
<1>14. ASSUME NEW key \in KeysOf(new) \ {Shared}
       PROVE  after[key] = Value(new, key)
  <2>1. after[key] = stored[key] /\ stored[key] = Value(acc, key)
    BY <1>2, <1>10, <1>12 DEF Holds
  <2>2. Value(new, key) = Value(acc, key)
    BY <1>2, <1>9, <1>10, SameValues
  <2> QED
    BY <2>1, <2>2
<1>15. Holds(after, new)
  BY <1>2, <1>10, <1>12, <1>13, <1>14 DEF Holds
<1>16. StorageInv' /\ Join(Authority)' = new
  BY <1>1, <1>8, <1>15, CommitKeeps DEF after
<1> QED
  BY <1>5, <1>16 DEF Account!Next, acc

LEMMA SendKeeps ==
  ASSUME StorageInv, SendAttempt
  PROVE  StorageInv' /\ Account!Next
<1> DEFINE stored == Authority
           acc == Join(Authority)
<1>1. PICK state \in Account!Dispatched(WithAttempt(stored)) : Commits(Saved(stored, state))
  BY DEF SendAttempt
<1>2. IsAccount(acc) /\ Holds(stored, acc)
  BY DEF StorageInv
<1> HIDE DEF acc, stored
<1>3. PICK new \in Account!Dispatched(acc) : IsAccount(new) /\ Holds(Saved(stored, state), new)
  BY <1>2, SavedHolds
<1>4. StorageInv' /\ Join(Authority)' = new
  BY <1>1, <1>3, CommitKeeps
<1> QED
  BY <1>3, <1>4 DEF Account!Next, acc

LEMMA ChannelKeeps ==
  ASSUME StorageInv, NEW c \in Channels, ChannelDispatch(c)
  PROVE  StorageInv' /\ Account!Next
<1> DEFINE stored == Authority
           acc == Join(Authority)
           record == IF Channel(c) \in DOMAIN stored THEN stored[Channel(c)].subscription
                     ELSE {}
<1>1. PICK state \in Account!Dispatched(WithAttempt(stored)),
           forgotten \in SUBSET {Tombstone(id) : id \in record} :
             Commits(Restrict(Saved(stored, state), DOMAIN stored \ forgotten))
  BY DEF ChannelDispatch
<1>2. IsAccount(acc) /\ Holds(stored, acc)
  BY DEF StorageInv
<1> HIDE DEF acc, stored
<1>3. record \subseteq Part(acc.subscription, c)
  <2>1. CASE Channel(c) \in DOMAIN stored
    <3>1. Channel(c) \in KeysOf(acc)
      BY <1>2, <2>1 DEF Holds
    <3>2. c \in Mentioned(acc)
      <4>1. Channel(c) \in DOMAIN stored /\ Channel(c)[1] = "channel" /\ Channel(c)[2] = c
        BY <2>1, KeysApart
      <4>2. c \in Under(stored, "channel")
        BY <4>1 DEF Under
      <4> QED
        BY <1>2, <4>2, UnderPrefixes DEF Holds
    <3>3. stored[Channel(c)] = Record(acc, c)
      BY <1>2, <3>2, Held
    <3>4. Record(acc, c).subscription = Part(acc.subscription, c)
      BY DEF Record
    <3> QED
      BY <2>1, <3>3, <3>4
  <2>2. CASE Channel(c) \notin DOMAIN stored
    BY <2>2
  <2> QED
    BY <2>1, <2>2
<1> HIDE DEF record
<1>4. \/ forgotten = {}
      \/ /\ c \in DOMAIN acc.subscription
         /\ forgotten = {Tombstone(acc.subscription[c])}
  <2>1. CASE c \in DOMAIN acc.subscription
    <3> DEFINE T == Tombstone(acc.subscription[c])
    <3>1. record \subseteq {acc.subscription[c]}
      BY <1>3, <2>1 DEF Part
    <3>2. forgotten \subseteq {T}
      BY <1>1, <3>1
    <3> HIDE DEF T
    <3>3. forgotten = {} \/ forgotten = {T}
      BY <3>2
    <3> QED
      BY <2>1, <3>3 DEF T
  <2>2. CASE c \notin DOMAIN acc.subscription
    <3>1. record = {}
      BY <1>3, <2>2 DEF Part
    <3> QED
      BY <1>1, <3>1
  <2> QED
    BY <2>1, <2>2
<1> DEFINE saved == Saved(stored, state)
           after == Restrict(saved, DOMAIN stored \ forgotten)
<1>5. CASE forgotten = {}
  <2>1. PICK new \in Account!Dispatched(acc) : IsAccount(new) /\ Holds(saved, new)
    BY <1>2, SavedHolds
  <2>2. DOMAIN saved = DOMAIN stored
    BY DEF Saved
  <2> HIDE DEF saved
  <2>3. DOMAIN after = DOMAIN saved /\ \A key \in DOMAIN saved : after[key] = saved[key]
    BY <1>5, <2>2, RestrictTyped
  <2>4. Holds(after, new)
    BY <2>1, <2>3, HoldsAlike
  <2>5. Commits(after)
    BY <1>1 DEF saved
  <2> HIDE DEF after
  <2>6. StorageInv' /\ Join(Authority)' = new
    BY <2>1, <2>4, <2>5, CommitKeeps
  <2> QED
    BY <2>1, <2>6 DEF Account!Next, acc
<1>6. CASE /\ c \in DOMAIN acc.subscription
           /\ forgotten = {Tombstone(acc.subscription[c])}
  <2> DEFINE id == acc.subscription[c]
             rest == Restrict(stored, DOMAIN stored \ {Tombstone(id)})
             less == Account!Forgotten(acc, c)
  <2>1. forgotten = {Tombstone(id)}
    BY <1>6
  <2> HIDE DEF id, less
  <2>2. IsAccount(less) /\ Holds(rest, less)
    BY <1>2, <1>6, ForgottenHolds DEF id, less
  <2> HIDE DEF rest
  <2>3. /\ WithAttempt(rest) = WithAttempt(stored)
        /\ DOMAIN after = DOMAIN Saved(rest, state)
        /\ \A key \in DOMAIN after : after[key] = Saved(rest, state)[key]
    BY <1>2, <2>1, SavedRestricted DEF rest
  <2>4. PICK new \in Account!Dispatched(less) : IsAccount(new) /\ Holds(Saved(rest, state), new)
    BY <1>1, <2>2, <2>3, SavedHolds
  <2>5. Commits(after)
    BY <1>1
  <2> HIDE DEF after
  <2>6. Holds(after, new)
    BY <2>3, <2>4, HoldsAlike
  <2>7. StorageInv' /\ Join(Authority)' = new
    BY <2>4, <2>5, <2>6, CommitKeeps
  <2> QED
    BY <2>4, <2>7 DEF Account!Next, acc, less
<1> QED
  BY <1>4, <1>5, <1>6

-----------------------------------------------------------------------------
(***************************************************************************)
(* The invariant of the account's keys, and what follows from it.          *)
(***************************************************************************)
LEMMA StorageBegins ==
  ASSUME StorageInit
  PROVE  StorageInv /\ Account!Init
<1>1. /\ Empty.configured = <<>> /\ Empty.public = <<>> /\ Empty.life = <<>>
      /\ Empty.subscription = <<>> /\ Empty.revoked = <<>> /\ Empty.oauth = {}
      /\ Empty.attempts = {} /\ Empty.left = <<>> /\ Empty.enrollments = <<>>
      /\ Empty.reservations = {} /\ Empty.sweep = {}
  BY DEF Empty
<1>2. <<>> \in Seq(Channels) /\ IsFunction(<<>>) /\ Range(<<>>) = {}
  BY DEF IsFunction, Range
<1>3. Empty = [configured |-> Empty.configured, public |-> Empty.public, life |-> Empty.life,
               subscription |-> Empty.subscription, revoked |-> Empty.revoked,
               oauth |-> Empty.oauth, attempts |-> Empty.attempts, left |-> Empty.left,
               enrollments |-> Empty.enrollments, reservations |-> Empty.reservations,
               sweep |-> Empty.sweep]
  BY DEF Empty
<1>4. IsAccount(Empty)
  BY <1>1, <1>2, <1>3 DEF IsAccount
<1>5. Authority = Split(Empty)
  BY DEF Authority, StorageInit
<1>6. Holds(Authority, Empty)
  BY <1>4, <1>5, SplitHolds
<1>7. Join(Authority) = Empty
  BY <1>4, <1>6, JoinHolds
<1>8. alarm = NextAlarm(Authority[Shared])
  <2>1. CleanupDues(Empty) = {} /\ RecoveryDues(Empty) = {}
    BY <1>1, <1>2 DEF CleanupDues, RecoveryDues
  <2>2. Cleanup(Empty) = {} /\ Recovery(Empty) = {}
    BY <1>4, <2>1, CleanupCovers
  <2>3. Shared \in KeysOf(Empty)
    BY DEF KeysOf, Fixed
  <2>4. Authority[Shared] = [reservations |-> Empty.reservations, sweep |-> Empty.sweep,
                             cleanup |-> Cleanup(Empty), recovery |-> Recovery(Empty)]
    BY <1>5, <2>3, SplitKeys, Values
  <2>5. NextAlarm(Authority[Shared]) = First({})
    BY <1>1, <2>2, <2>4 DEF NextAlarm
  <2> QED
    BY <2>5 DEF First, StorageInit
<1>9. Account!Init
  BY <1>7 DEF Account!Init, Account!None, Empty
<1> QED
  BY <1>4, <1>6, <1>7, <1>8, <1>9 DEF StorageInv

LEMMA StorageKeeps ==
  ASSUME StorageInv, [StorageNext]_storageVars
  PROVE  StorageInv' /\ (Account!Next \/ UNCHANGED Join(Authority))
<1>1. ASSUME kv' = kv, (alarm' = alarm /\ fired' = fired) \/ fired' = TRUE
      PROVE  StorageInv' /\ UNCHANGED Join(Authority)
  <2>1. Authority' = Authority
    BY <1>1 DEF Authority
  <2> QED
    BY <1>1, <2>1 DEF StorageInv
<1>2. CASE AlarmFires
  BY <1>1, <1>2 DEF AlarmFires
<1>3. CASE UNCHANGED storageVars
  BY <1>1, <1>3 DEF storageVars
<1> QED
  BY <1>2, <1>3, UpdateKeeps, SharedKeeps, SendKeeps, ChannelKeeps DEF StorageNext

\* The keys always hold one state of the account, and what the shared key says of it is
\* never too late (persistDirectory, withAttempt).
THEOREM KeysKept == StorageSpec => []StorageInv
  BY StorageBegins, StorageKeeps, PTL DEF StorageSpec

\* Each transaction, of whatever part of the keys, replaces the one state that the account's
\* operations see by what its function makes of it (AccountStore).
THEOREM OneState == StorageSpec => KeepsAccount
<1>1. StorageSpec => Account!Init /\ [][Account!Next]_(Join(Authority))
  BY KeysKept, StorageBegins, StorageKeeps, PTL DEF StorageSpec
<1> QED
  BY <1>1 DEF KeepsAccount, Account!Spec

\* No state is due before the alarm that the last transaction left (nextAlarm).
LEMMA InvCovers ==
  ASSUME StorageInv
  PROVE  AlarmCovers
<1> DEFINE acc == Join(Authority)
           x == Authority[Shared]
           dues == Account!Dues(acc)
           all == x.cleanup \cup x.recovery \cup x.sweep
<1>1. IsAccount(acc) /\ SharedOf(x, acc)
  BY DEF StorageInv, Holds
<1>2. ~fired => alarm = First(all)
  BY DEF StorageInv, NextAlarm
<1>3. dues = CleanupDues(acc) \cup RecoveryDues(acc) \cup acc.sweep
  BY DEF Account!Dues, CleanupDues, RecoveryDues, Account!Range, Range
<1> HIDE DEF acc, x
<1>4. dues \subseteq Nat
  BY <1>1, <1>3, DuesTyped DEF IsAccount
<1>5. all \subseteq Nat
  BY <1>1 DEF SharedOf, Covers, IsAccount
<1> HIDE DEF dues, all
<1>6. ASSUME NEW d \in dues
      PROVE  \E e \in all : e <= d
  <2>1. CASE d \in CleanupDues(acc) \cup RecoveryDues(acc)
    BY <1>1, <2>1 DEF SharedOf, Covers, all
  <2>2. CASE d \in acc.sweep
    BY <1>1, <1>4, <2>2 DEF SharedOf, all
  <2> QED
    BY <1>3, <2>1, <2>2
<1>7. SUFFICES ASSUME dues # {}, ~fired
               PROVE  alarm # {} /\ Min(alarm) <= Min(dues)
  BY DEF AlarmCovers, dues, acc
<1>8. Min(dues) \in dues
  BY <1>4, <1>7, FirstCovers
<1>9. PICK e \in all : e <= Min(dues)
  BY <1>6, <1>8
<1> DEFINE m == Min(all)
<1>10. alarm = {m} /\ m \in all /\ m <= e
  BY <1>2, <1>5, <1>7, <1>9, FirstCovers
<1>11. m \in Nat /\ e \in Nat /\ Min(dues) \in Nat
  BY <1>4, <1>5, <1>8, <1>10
<1> HIDE DEF m
<1>12. Min(alarm) = m
  BY <1>10, <1>11 DEF Min
<1> QED
  BY <1>9, <1>10, <1>11, <1>12

\* Nothing the account has to do is due before its alarm, although three of the four kinds
\* of transaction do not look at most of it.
THEOREM AlarmInTime == StorageSpec => []AlarmCovers
  BY KeysKept, InvCovers, PTL
=============================================================================
