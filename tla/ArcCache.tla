------------------------------ MODULE ArcCache ------------------------------
(***************************************************************************)
(* The game data cache, one Durable Object (packages/arc-data/src/cache.ts,*)
(* its policy in source.ts).  A read holds its key's semaphore through two *)
(* transactions with the upstream fetch between them: the claim answers    *)
(* from the stored row or leases a refresh under a new generation, the     *)
(* completion stores the result if the row still has that generation.  The *)
(* object may be reconstructed while reads of the old instance run: they   *)
(* share its storage but not its semaphores.                               *)
(***************************************************************************)
EXTENDS Naturals, FiniteSets

CONSTANTS
  Keys, Schedules,           \* cache keys; those of the event schedule
  Calls,                     \* slots for read calls
  Fresh, ScheduleFresh,      \* metadataFreshMs, scheduleFreshMs
  Fallback,                  \* metadataFallbackMs
  Cooldown,                  \* retryCooldownMs
  Timeout, Margin,           \* source or catalog timeout, and the lease's 1_000 ms more
  MaxKeys, MaxEntry, MaxCache, \* maxKeys, maxEntryBytes, maxCacheBytes
  Sizes,                     \* encoded sizes a response may have
  MaxStale,                  \* how old a clock reading gets before its transaction commits
  MayReset,                  \* is reset used?
  MaxTime, MaxVersion, MaxInstance, MaxGeneration \* bounds of the model

ASSUME ArcCacheAssumption ==
  /\ Schedules \subseteq Keys
  /\ {Fresh, ScheduleFresh, Fallback, Cooldown, Timeout, Margin, MaxKeys, MaxEntry, MaxCache,
      MaxStale, MaxTime, MaxVersion, MaxInstance, MaxGeneration} \subseteq Nat
  /\ Sizes \subseteq Nat \ {0}
  /\ MayReset \in BOOLEAN
  /\ IsFiniteSet(Calls)

VARIABLES
  now,        \* the clock
  instance,   \* the instance constructed last
  upstream,   \* version of the data the source would return for a key
  rows,       \* stored: the cache rows
  generation, \* stored: the generation counter
  call        \* one record per read

vars == <<now, instance, upstream, rows, generation, call>>

\* Version 0 is the absent value.
Rows == [kind : {"none", "row"}, generation : Nat, version : Nat, bytes : Nat,
         fetchedAt : Nat, retryAt : Nat, leaseUntil : Nat]
NoRow == [kind |-> "none", generation |-> 0, version |-> 0, bytes |-> 0, fetchedAt |-> 0,
          retryAt |-> 0, leaseUntil |-> 0]

Stored == {k \in Keys : rows[k].kind = "row"}

IsFresh(k, t) ==
  rows[k].version > 0
  /\ t < rows[k].fetchedAt + (IF k \in Schedules THEN ScheduleFresh ELSE Fresh)
Usable(k, t) ==
  rows[k].version > 0
  /\ IF k \in Schedules THEN t < rows[k].fetchedAt + ScheduleFresh
     ELSE t <= rows[k].fetchedAt + Fallback
HasFallback(k, t) == k \notin Schedules /\ Usable(k, t)
\* May another key's refresh remove the row?  The mutant ignores the fallback.
MutantSpent(k, t) == ~IsFresh(k, t) /\ rows[k].retryAt <= t /\ rows[k].leaseUntil <= t
Spent(k, t) == ~Usable(k, t) /\ rows[k].retryAt <= t /\ rows[k].leaseUntil <= t
Waits(k, t) == rows[k].retryAt > t \/ rows[k].leaseUntil > t

(***************************************************************************)
(* Reads.  `at` is the clock reading held, `generation` the one claimed,   *)
(* `version` and `bytes` the response of the source (0: it failed).        *)
(***************************************************************************)
Phases == {"idle", "queue", "claim", "fetch", "complete", "answered", "failed", "lost"}
CallRecords == [pc : Phases, key : Keys, instance : Nat, at : Nat, generation : Nat,
                version : Nat, bytes : Nat]

Key(c) == call[c].key
Goto(c, pc) == call' = [call EXCEPT ![c].pc = pc, ![c].at = now]
Answer(c, v) ==
  call' = [call EXCEPT ![c].pc = IF v = 0 THEN "failed" ELSE "answered", ![c].version = v]

\* The key's semaphore.
HoldsLock(c) == call[c].pc \in {"claim", "fetch", "complete"}

NoCall(k) == [pc |-> "idle", key |-> k, instance |-> 1, at |-> 0, generation |-> 0,
              version |-> 0, bytes |-> 0]
Over(c) == call[c].pc \in {"idle", "answered", "failed", "lost"}

Init ==
  /\ now = 0
  /\ instance = 1
  /\ upstream = [k \in Keys |-> 1]
  /\ rows = [k \in Keys |-> NoRow]
  /\ generation = 0
  /\ \E k \in Keys : call = [c \in Calls |-> NoCall(k)]

-----------------------------------------------------------------------------
\* read: take the key's lock object.  A slot is used again for the next read, as
\* long as the generations allow (MaxGeneration).
Start(c, k) ==
  /\ Over(c)
  /\ generation + Cardinality({d \in Calls : ~Over(d)}) < MaxGeneration
  /\ call' = [call EXCEPT ![c] = [NoCall(k) EXCEPT !.pc = "queue", !.instance = instance]]
  /\ UNCHANGED <<now, instance, upstream, rows, generation>>

\* The semaphore of the key is one instance's; the clock is read under it.
EnterLock(c) ==
  /\ call[c].pc = "queue"
  /\ \A d \in Calls : ~(HoldsLock(d) /\ Key(d) = Key(c) /\ call[d].instance = call[c].instance)
  /\ Goto(c, "claim")
  /\ UNCHANGED <<now, instance, upstream, rows, generation>>

(***************************************************************************)
(* The claim transaction.  A refresh first removes every other row that    *)
(* holds nothing usable, no cooldown and no lease.                         *)
(***************************************************************************)
LeaseUntil(t) == t + Timeout + Margin

\* The row under a new generation's lease, which keeps the value.
Leased(row, t) ==
  [row EXCEPT !.kind = "row", !.generation = generation + 1, !.retryAt = 0,
              !.leaseUntil = LeaseUntil(t)]

Claim(c) ==
  LET k == Key(c)
      t == call[c].at
      asked == ~IsFresh(k, t) /\ ~Waits(k, t)
      spent == {j \in Stored \ {k} : Spent(j, t)}
      full == rows[k].kind = "none" /\ Cardinality(Stored \ spent) >= MaxKeys
  IN  /\ call[c].pc = "claim"
      /\ \/ /\ IsFresh(k, t)
            /\ Answer(c, rows[k].version)
            /\ UNCHANGED <<rows, generation>>
         \/ /\ ~IsFresh(k, t) /\ Waits(k, t)
            /\ Answer(c, IF HasFallback(k, t) THEN rows[k].version ELSE 0)
            /\ UNCHANGED <<rows, generation>>
         \/ /\ asked /\ full
            /\ Answer(c, 0)
            /\ UNCHANGED <<rows, generation>>
         \/ /\ asked /\ ~full
            /\ generation' = generation + 1
            /\ rows' = [j \in Keys |-> IF j = k THEN Leased(rows[k], t)
                                       ELSE IF j \in spent THEN NoRow ELSE rows[j]]
            /\ call' = [call EXCEPT ![c].pc = "fetch", ![c].at = now,
                                    ![c].generation = generation + 1]
      /\ UNCHANGED <<now, instance, upstream>>

\* The source answers with its current data, or fails; the clock is read.
Fetch(c) ==
  /\ call[c].pc = "fetch"
  /\ \/ \E b \in Sizes :
          call' = [call EXCEPT ![c].pc = "complete", ![c].at = now,
                               ![c].version = upstream[Key(c)], ![c].bytes = b]
     \/ Goto(c, "complete")
  /\ UNCHANGED <<now, instance, upstream, rows, generation>>

(***************************************************************************)
(* The completion transaction.                                             *)
(***************************************************************************)
\* Does the row still carry this refresh's generation?  The mutant does not ask.
MutantOwns(c) == rows[Key(c)].kind = "row"
Owns(c) == rows[Key(c)].kind = "row" /\ rows[Key(c)].generation = call[c].generation

\* The bytes that the rows of K store.
Bytes(K) == UNION {{k} \X (1..rows[k].bytes) : k \in K}

\* Is there room for the response?  The mutant forgets the other rows.
MutantRoom(c) == call[c].bytes <= MaxEntry /\ call[c].bytes <= MaxCache
Room(c) ==
  /\ call[c].bytes <= MaxEntry
  /\ call[c].bytes + Cardinality(Bytes(Stored \ {Key(c)})) <= MaxCache

\* The row with the response.
Filled(row, c) ==
  [row EXCEPT !.version = call[c].version, !.bytes = call[c].bytes, !.fetchedAt = call[c].at,
              !.retryAt = 0, !.leaseUntil = 0]

\* The row after a refresh that failed: the value stays, a cooldown begins.
Cooling(row, t) == [row EXCEPT !.retryAt = t + Cooldown, !.leaseUntil = 0]

Complete(c) ==
  LET k == Key(c)
      t == call[c].at
      fits == call[c].version > 0 /\ Room(c)
  IN  /\ call[c].pc = "complete"
      /\ \/ /\ ~Owns(c)
            /\ Answer(c, 0)
            /\ UNCHANGED rows
         \/ /\ Owns(c) /\ fits
            /\ rows' = [rows EXCEPT ![k] = Filled(@, c)]
            /\ Answer(c, call[c].version)
         \/ /\ Owns(c) /\ ~fits
            /\ rows' = [rows EXCEPT ![k] = Cooling(@, t)]
            /\ Answer(c, IF HasFallback(k, t) THEN rows[k].version ELSE 0)
      /\ UNCHANGED <<now, instance, upstream, generation>>

\* reset removes the rows and keeps the generation counter.
KeptGeneration == generation

Reset ==
  /\ MayReset
  /\ rows' = [k \in Keys |-> NoRow]
  /\ generation' = KeptGeneration
  /\ UNCHANGED <<now, instance, upstream, call>>

-----------------------------------------------------------------------------
\* The object is reconstructed; reads of older instances go on or are lost.
Reconstruct ==
  /\ instance < MaxInstance
  /\ instance' = instance + 1
  /\ UNCHANGED <<now, upstream, rows, generation, call>>

Lose(c) ==
  /\ call[c].instance < instance
  /\ ~Over(c)
  /\ call' = [call EXCEPT ![c].pc = "lost"]
  /\ UNCHANGED <<now, instance, upstream, rows, generation>>

\* The source publishes new data.
Publish(k) ==
  /\ upstream[k] < MaxVersion
  /\ upstream' = [upstream EXCEPT ![k] = @ + 1]
  /\ UNCHANGED <<now, instance, rows, generation, call>>

\* Fetches end by their timeout, transactions are not delayed for ever.
Prompt(c) ==
  /\ call[c].pc = "fetch" => now < call[c].at + Timeout
  /\ call[c].pc \in {"claim", "complete"} => now < call[c].at + MaxStale

Tick ==
  /\ now < MaxTime
  /\ \A c \in Calls : Prompt(c)
  /\ now' = now + 1
  /\ UNCHANGED <<instance, upstream, rows, generation, call>>

Read(c) == EnterLock(c) \/ Claim(c) \/ Fetch(c) \/ Complete(c)

Next ==
  \/ \E c \in Calls : Read(c) \/ Lose(c) \/ \E k \in Keys : Start(c, k)
  \/ \E k \in Keys : Publish(k)
  \/ Reset \/ Reconstruct \/ Tick

Spec == Init /\ [][Next]_vars

-----------------------------------------------------------------------------
(***************************************************************************)
(* Properties.                                                             *)
(***************************************************************************)
\* The stored rows and the reads keep their shape; a row counts bytes exactly when
\* it has a value.
TypeOK ==
  /\ now \in Nat /\ instance \in Nat /\ generation \in Nat
  /\ upstream \in [Keys -> Nat]
  /\ rows \in [Keys -> Rows]
  /\ \A k \in Keys : rows[k].version > 0 <=> rows[k].bytes > 0
  /\ call \in [Calls -> CallRecords]

\* An older response never overwrites a newer one, across expired leases,
\* resets and instances that do not share a semaphore.
NewerStays ==
  [][\A k \in Keys : rows[k].version > 0 /\ rows'[k].kind = "row" =>
       rows'[k].version >= rows[k].version]_vars

\* ... because no two refreshes ever hold the same generation, and the rows
\* refer to generations the counter has passed.
GenerationsFence ==
  /\ \A c, d \in Calls :
       /\ call[c].pc \in {"fetch", "complete"} /\ call[d].pc \in {"fetch", "complete"}
       /\ call[c].generation = call[d].generation
       => c = d
  /\ \A k \in Keys : rows[k].generation <= generation
  /\ \A c \in Calls : call[c].generation <= generation

\* A still usable value is only removed by reset: no other key's refresh, no
\* failure and no oversized response takes it away.
UsableStays ==
  [][\A k \in Keys : Usable(k, now) /\ ~(MayReset /\ rows' = [j \in Keys |-> NoRow])
       => rows'[k].version > 0]_vars

\* The persistent bounds hold whatever is admitted, replaced or reclaimed.
Bounded ==
  /\ Cardinality(Stored) <= MaxKeys
  /\ Cardinality(Bytes(Keys)) <= MaxCache
  /\ \A k \in Keys : rows[k].bytes <= MaxEntry

\* Without resets a lease covers its fetch: reconstruction never leads to two
\* concurrent fetches of one key.
OneFetch ==
  \A c, d \in Calls :
    call[c].pc = "fetch" /\ call[d].pc = "fetch" /\ Key(c) = Key(d) => c = d
=============================================================================
