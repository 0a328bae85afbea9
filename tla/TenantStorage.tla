--------------------------- MODULE TenantStorage ----------------------------
(***************************************************************************)
(* The durable storage of a Tenant object (apps/bot/src/tenant.ts,         *)
(* makeTenantStorage): one record with a work map and a claim generation,  *)
(* and the object's alarm.                                                 *)
(*                                                                         *)
(* A work map without works is never written.  The transaction that finds  *)
(* it empty only moves the alarm a little ahead, and deleteAll follows     *)
(* outside the transaction, under the same writes semaphore: if the object *)
(* is lost in between, the old rows and that alarm are still there.        *)
(***************************************************************************)
EXTENDS Naturals, FiniteSets

CONSTANTS Messages,  \* work ids
          WipeDelay, \* the 1_000 ms alarm set before storage is deleted
          NoAlarm    \* later than any time

ASSUME TenantStorageAssumption == WipeDelay \in Nat /\ NoAlarm \in Nat

VARIABLES
  now,        \* the clock
  works,      \* stored: the work map
  generation, \* stored: the claim generation
  alarm,      \* stored: the object's alarm, or NoAlarm
  wiping      \* is deleteAll between its transaction and its end?

stored == <<works, generation, alarm, wiping>>

Held(ws) == {m \in Messages : ws[m].kind # "none"}

\* The alarm left by a transaction that found no works.
WipeAlarm == now + WipeDelay

\* update: commit the work map ws, whose earliest due time is next.
Update(ws, gen, next) ==
  /\ ~wiping
  /\ IF Held(ws) = {}
     THEN /\ wiping' = TRUE
          /\ alarm' = WipeAlarm
          /\ UNCHANGED <<works, generation>>
     ELSE /\ works' = ws
          /\ generation' = gen
          /\ alarm' = next
          /\ UNCHANGED wiping

\* deleteAll removes the record and the alarm, and the permit is released.  The
\* mutant keeps the permit.
MutantDeleteAll(empty) ==
  /\ wiping
  /\ works' = empty
  /\ generation' = 0
  /\ alarm' = NoAlarm
  /\ UNCHANGED wiping
DeleteAll(empty) ==
  /\ wiping
  /\ wiping' = FALSE
  /\ works' = empty
  /\ generation' = 0
  /\ alarm' = NoAlarm

\* The object is lost: an unfinished deleteAll never happens.
LoseStorageCall ==
  /\ wiping' = FALSE
  /\ UNCHANGED <<works, generation, alarm>>
=============================================================================
