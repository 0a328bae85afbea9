-------------------------- MODULE Lifecycle_proofs --------------------------
(***************************************************************************)
(* Proofs about Lifecycle, for any channels, operators, configurations and *)
(* bounds.  What a step may do to one call, one record, one channel and    *)
(* one tombstone is said once, as a relation between the state before and  *)
(* after; the invariant then follows from those relations alone.           *)
(***************************************************************************)
EXTENDS Lifecycle, FiniteSetTheorems, TLAPS

LifeRecords == [kind : {"none", "installed", "removed"}, sequence : Nat,
                creator : Procs \cup {NoProc}, negative : Subs \cup {None},
                recovery : BOOLEAN]
Records == [id : Subs \cup {None}, status : Statuses, target : Nat]
Tombs == [kept : BOOLEAN, authorization : BOOLEAN, due : BOOLEAN,
          claim : Procs \cup {NoProc}]
Leases == [owner : Procs \cup {NoProc}, revision : Nat]
TwitchSubs == [status : Statuses \cup {"unmade", "deleted", "vanished"},
               channel : Channels \cup {NoProc}, target : Nat]
Sights == [Subs -> Statuses \cup {"unseen"}]
Outcomes == {"none", "created", "conflict", "unknown", "error", "ok"}
Calls == [pc : Pcs, revision : Nat, kind : {"none", "setup", "repair", "sweep"},
          target : Nat, seen : Sights, ids : SUBSET Subs, id : Subs \cup {None},
          sweeps : BOOLEAN, due : SUBSET Channels, todo : SUBSET Channels,
          channel : Channels \cup {NoProc}, repaired : Channels \cup {NoProc},
          installation : Nat, intent : Nat, outcome : Outcomes]

StoredTypes ==
  /\ config \in Configs
  /\ sender \in BOOLEAN
  /\ configured \subseteq config.channels /\ members \subseteq Channels
  /\ granted \subseteq Channels \cup {Sender}
  /\ life \in [Channels -> LifeRecords]
  /\ recorded \in [Channels -> Records]
  /\ tomb \in [Subs -> Tombs]
  /\ setupLease \in Leases /\ sweepLease \in Leases /\ sweepArmed \in BOOLEAN
  /\ twitch \in [Subs -> TwitchSubs]
  /\ moved \subseteq Procs
  /\ fresh \subseteq Procs \cup Subs

Counted == revision \in 1..(events + 1) /\ events \in 0..MaxEvent

CallTypes == proc \in [Procs -> Calls]

Types == StoredTypes /\ Counted /\ CallTypes

\* The subscriptions that Twitch made.
Known == {s \in Subs : twitch[s].status # "unmade"}

\* Only what Twitch made has a tombstone, and only a due deletion is claimed.
TombsKnown ==
  \A s \in Subs : /\ tomb[s].due => tomb[s].kept
                  /\ tomb[s].claim # NoProc => tomb[s].due
                  /\ tomb[s].kept => s \in Known

\* A call works on subscriptions that Twitch made, and one it deleted is gone.
CallsKnow ==
  \A p \in Procs :
    /\ proc[p].ids \subseteq Known
    /\ \A s \in Subs : proc[p].seen[s] # "unseen" => s \in Known
    /\ proc[p].pc \in {"owner", "obligation", "delete", "settle"} => proc[p].id \in Known
    /\ proc[p].pc \in {"intent", "create", "complete"} => proc[p].channel \in Channels
    /\ proc[p].pc = "settle" /\ proc[p].outcome = "ok"
         => twitch[proc[p].id].status \notin Live

\* A subscription whose creation was answered and not yet completed is nobody else's.
InFlight(p) == proc[p].pc = "complete" /\ proc[p].outcome = "created"

FlightsApart ==
  \A p \in Procs : InFlight(p) =>
    /\ proc[p].id \in Known /\ twitch[proc[p].id].channel = proc[p].channel
    /\ \A c \in Channels : recorded[c].id # proc[p].id
    /\ \A q \in Procs : q # p /\ InFlight(q) => proc[q].id # proc[p].id

\* A record is of its channel, and of the channel as it is now.
RecordsCurrent ==
  \A c \in Channels : recorded[c].id # None =>
    /\ recorded[c].id \in Known /\ twitch[recorded[c].id].channel = c
    /\ life[c].kind = "installed" /\ recorded[c].id \in fresh

\* The creator of a channel works for the channel as it is now.
CreatorsCurrent ==
  \A p \in Procs :
    /\ proc[p].pc = "create" /\ life[proc[p].channel].creator = p => p \in fresh
    /\ InFlight(p) /\ life[proc[p].channel].creator = p => proc[p].id \in fresh

\* What a channel that consented in this revision has recorded is of this revision,
\* and where its recovery is not armed it has an enabled record.
GrantsRecorded ==
  \A c \in Channels \cap granted :
    /\ life[c].kind = "installed"
    /\ recorded[c].id # None => Matches(c, recorded[c].target)
    /\ ~life[c].recovery => recorded[c].id # None /\ recorded[c].status = "enabled"

LiveRecord(c) == recorded[c].id # None /\ recorded[c].status \in Live

\* Subscriptions that must not be deleted: recorded live ones of channels that
\* consented, and those whose creation may still be accepted.
Wanted(s) ==
  \/ \E c \in Channels \cap granted : recorded[c].id = s /\ LiveRecord(c)
  \/ \E p \in Procs : InFlight(p) /\ OwnsSetup(p) /\ proc[p].id = s

WantedKept ==
  \A s \in Subs : Wanted(s) =>
    /\ ~tomb[s].kept /\ twitch[s].status # "deleted"
    /\ \A q \in Procs : proc[q].pc = "delete" => proc[q].id # s

\* While a call creates for a channel, the channel gets no live record otherwise.
CreatesNeeded ==
  \A p \in Procs :
    /\ proc[p].pc \in {"intent", "create", "complete"} /\ OwnsSetup(p)
    /\ proc[p].channel \in granted
    => ~LiveRecord(proc[p].channel)

UnarmedBare ==
  \A c \in Channels : life[c].kind # "installed" => ~life[c].recovery /\ life[c].negative = None

IInv ==
  /\ Types
  /\ TombsKnown /\ CallsKnow /\ FlightsApart
  /\ RecordsCurrent /\ CreatorsCurrent
  /\ GrantsRecorded /\ WantedKept /\ CreatesNeeded

-----------------------------------------------------------------------------
(***************************************************************************)
(* Types.                                                                  *)
(***************************************************************************)
LEMMA ConfigTyped ==
  ASSUME config \in Configs
  PROVE  config.channels \subseteq Channels /\ config.target \in Nat
  BY LifecycleAssumption

LEMMA CallTyped ==
  ASSUME CallTypes, NEW p \in Procs
  PROVE  /\ proc[p] \in Calls
         /\ proc[p].pc \in Pcs /\ proc[p].revision \in Nat
         /\ proc[p].kind \in {"none", "setup", "repair", "sweep"}
         /\ proc[p].target \in Nat /\ proc[p].seen \in Sights
         /\ proc[p].ids \subseteq Subs /\ proc[p].id \in Subs \cup {None}
         /\ proc[p].sweeps \in BOOLEAN
         /\ proc[p].due \subseteq Channels /\ proc[p].todo \subseteq Channels
         /\ proc[p].channel \in Channels \cup {NoProc}
         /\ proc[p].repaired \in Channels \cup {NoProc}
         /\ proc[p].installation \in Nat /\ proc[p].intent \in Nat
         /\ proc[p].outcome \in Outcomes
  BY DEF CallTypes, Calls

LEMMA NoCallTyped == NoCall \in Calls /\ Unseen \in Sights
  BY DEF NoCall, Calls, Unseen, Sights, Pcs, Outcomes

LEMMA BackTyped ==
  ASSUME CallTypes, NEW p \in Procs, NEW pc \in Pcs
  PROVE  /\ Back(p, pc) \in Calls
         /\ Back(p, pc).pc = pc /\ Back(p, pc).ids \subseteq proc[p].ids
         /\ Back(p, pc).seen = proc[p].seen /\ Back(p, pc).channel = NoProc
         /\ Back(p, pc).revision = proc[p].revision
<1>1. proc[p] \in Calls
  BY DEF CallTypes
<1>2. QED
  BY <1>1 DEF Back, Calls, Outcomes

LEMMA SeenTyped == ASSUME StoredTypes PROVE Seen \in Sights
  BY DEF Seen, Sights, AtTwitch, StoredTypes, TwitchSubs

LEMMA NoLifeTyped ==
  /\ NoLife \in LifeRecords
  /\ \A n \in Nat : Installed(n) \in LifeRecords
  /\ NoRecord \in Records /\ NoTomb \in Tombs /\ NoLease \in Leases /\ Unmade \in TwitchSubs
  BY DEF NoLife, Installed, LifeRecords, NoRecord, Records, NoTomb, Tombs, NoLease, Leases,
         Unmade, TwitchSubs, Statuses

LEMMA RetiredTyped ==
  ASSUME tomb \in [Subs -> Tombs], NEW ids
  PROVE  Retired(tomb, ids) \in [Subs -> Tombs] /\ Lost(tomb, ids) \in [Subs -> Tombs]
  BY DEF Retired, Lost, Tombs

LEMMA InitTypes == Init => Types
<1>1. NoCall \in Calls /\ NoLease \in Leases /\ NoLife \in LifeRecords /\ NoRecord \in Records
      /\ NoTomb \in Tombs /\ Unmade \in TwitchSubs
  BY NoCallTyped, NoLifeTyped
<1>2. ASSUME Init PROVE StoredTypes
  <2>1. /\ life \in [Channels -> LifeRecords] /\ recorded \in [Channels -> Records]
        /\ tomb \in [Subs -> Tombs] /\ twitch \in [Subs -> TwitchSubs]
    BY <1>1, <1>2 DEF Init
  <2>2. QED
    BY <1>1, <1>2, <2>1 DEF Init, StoredTypes
<1>3. ASSUME Init PROVE Counted /\ CallTypes
  BY <1>1, <1>3, LifecycleAssumption DEF Init, Counted, CallTypes
<1>4. QED
  BY <1>2, <1>3 DEF Types

LEMMA RemoveTyped ==
  ASSUME StoredTypes, NEW cs, Remove(cs)
  PROVE  /\ life' \in [Channels -> LifeRecords] /\ fresh' \subseteq Procs \cup Subs
         /\ configured' \subseteq configured /\ members' \subseteq members
         /\ granted' \subseteq granted
         /\ setupLease' \in Leases /\ moved' \subseteq Procs
<1>1. ASSUME NEW l \in LifeRecords PROVE Removed(l) \in LifeRecords
  <2>1. l.sequence + 1 \in Nat
    BY DEF LifeRecords
  <2> DEFINE n == l.sequence + 1
  <2>a. Removed(l) = [NoLife EXCEPT !.kind = "removed", !.sequence = n]
    BY DEF Removed
  <2> HIDE DEF n
  <2>2. Removed(l) = [kind |-> "removed", sequence |-> n, creator |-> NoProc,
                      negative |-> None, recovery |-> FALSE]
    BY <2>a DEF NoLife
  <2>3. \A m \in Nat : [kind |-> "removed", sequence |-> m, creator |-> NoProc,
                        negative |-> None, recovery |-> FALSE] \in LifeRecords
    BY DEF LifeRecords
  <2>4. QED
    BY <2>1, <2>2, <2>3 DEF n
<1>2. life' \in [Channels -> LifeRecords]
  BY <1>1 DEF Remove, StoredTypes
<1>3. setupLease' \in Leases
  BY NoLifeTyped DEF Remove, StoredTypes
<1>4. fresh' \subseteq Procs \cup Subs /\ moved' \subseteq Procs
  BY DEF Remove, StoredTypes, Holders
<1>5. QED
  BY <1>2, <1>3, <1>4 DEF Remove

\* The stored state is typed whatever step is taken.
LEMMA StoredTyped == ASSUME Types, Next PROVE StoredTypes'
<1> USE NoLifeTyped DEF Types
<1>a. CASE UNCHANGED <<place, consents, recorded, tomb, leases, twitch, lives>>
  BY <1>a DEF StoredTypes, place, consents, leases, lives
<1>1. ASSUME NEW p \in Procs, StartSetup(p) PROVE StoredTypes'
  BY <1>1 DEF StartSetup, StoredTypes, Counted, Leases, place, consents, lives
<1>2. ASSUME NEW p \in Procs, Resolve(p) PROVE StoredTypes'
  <2>1. \A c \in Channels : [Installed(0) EXCEPT !.recovery = Authorized(c)] \in LifeRecords
    BY DEF Installed, NoLife, LifeRecords, Authorized
  <2>2. config.channels \subseteq Channels
    BY ConfigTyped DEF StoredTypes
  <2>3. life' \in [Channels -> LifeRecords]
    BY <1>2, <2>1 DEF Resolve, StoredTypes
  <2>4. moved' \subseteq Procs
    BY <1>2 DEF Resolve, StoredTypes, Holders
  <2>5. sender' \in BOOLEAN /\ configured' \subseteq config'.channels /\ config' = config
    BY <1>2 DEF Resolve, StoredTypes, place
  <2>6. QED
    BY <1>2, <2>3, <2>4, <2>5 DEF Resolve, StoredTypes, leases
<1>3. ASSUME NEW p \in Procs, FinishSetup(p) PROVE StoredTypes'
  BY <1>3 DEF FinishSetup, StoredTypes, place, consents, lives
<1>4. ASSUME NEW p \in Procs, Snapshot(p) \/ List(p) PROVE StoredTypes'
  BY <1>4 DEF Snapshot, List, StoredTypes, place, consents, leases, lives
<1>5. ASSUME NEW p \in Procs, CleanUp(p) PROVE StoredTypes'
  <2>1. CASE ~(OwnsSetup(p) /\ p \notin moved)
    BY <1>5, <2>1 DEF CleanUp, StoredTypes, place, consents
  <2>2. CASE OwnsSetup(p) /\ p \notin moved
    <3>1. PICK cs : Remove(cs)
      BY <1>5, <2>2 DEF CleanUp
    <3>2. tomb' \in [Subs -> Tombs]
      BY <1>5, <2>2, RetiredTyped DEF CleanUp, StoredTypes
    <3>3. \A c \in Channels : Keeps(p, c) => proc[p].seen[recorded[c].id] \in Statuses
      BY DEF Keeps, Statuses
    <3>4. \A c \in Channels : Keeps(p, c)
            => [recorded[c] EXCEPT !.status = proc[p].seen[recorded[c].id]] \in Records
      BY <3>3 DEF StoredTypes, Records
    <3>5. recorded' \in [Channels -> Records]
      BY <1>5, <2>2, <3>4 DEF CleanUp, StoredTypes
    <3>6. QED
      BY <1>5, <2>2, <3>1, <3>2, <3>5, RemoveTyped DEF CleanUp, StoredTypes, place
  <2>3. QED
    BY <2>1, <2>2
<1>6. ASSUME NEW p \in Procs, NEW s \in Subs, Retire(p, s) PROVE StoredTypes'
  <2>1. CASE ~OwnsSetup(p)
    BY <1>6, <2>1 DEF Retire, StoredTypes, place, consents, leases
  <2>2. CASE OwnsSetup(p)
    <3>1. tomb' \in [Subs -> Tombs]
      BY <1>6, <2>2, RetiredTyped DEF Retire, StoredTypes
    <3>2. \A l \in LifeRecords : \A n \in Subs \cup {None} :
            Recovering([l EXCEPT !.negative = n]) \in LifeRecords
      BY DEF Recovering, LifeRecords
    <3>a. \A c \in Channels : life[c] \in LifeRecords /\ life[c].negative \in Subs \cup {None}
      BY DEF StoredTypes, LifeRecords
    <3>b. \A c \in Channels : \E n \in Subs \cup {None} :
            life'[c] = Recovering([life[c] EXCEPT !.negative = n]) \/ life'[c] = life[c]
      BY <1>6, <2>2, <3>a DEF Retire
    <3>c. \A c \in Channels : life'[c] \in LifeRecords
      BY <3>2, <3>a, <3>b
    <3>3. life' \in [Channels -> LifeRecords]
      BY <1>6, <2>2, <3>c DEF Retire
    <3>4. recorded' \in [Channels -> Records]
      BY <1>6, <2>2 DEF Retire, StoredTypes
    <3>5. QED
      BY <1>6, <2>2, <3>1, <3>3, <3>4 DEF Retire, StoredTypes, place, consents, leases, Holders
  <2>3. QED
    BY <2>1, <2>2
<1>7. ASSUME NEW p \in Procs, Intent(p) PROVE StoredTypes'
  <2>1. life' \in [Channels -> LifeRecords]
    BY <1>7 DEF Intent, StoredTypes, LifeRecords
  <2>2. QED
    BY <1>7, <2>1 DEF Intent, StoredTypes, place, consents, Holders
<1>8. ASSUME NEW p \in Procs, Create(p) \/ CreateFails(p) PROVE StoredTypes'
  <2>1. proc[p].channel \in Channels \cup {NoProc} /\ proc[p].target \in Nat
    BY CallTyped
  <2>2. twitch' \in [Subs -> TwitchSubs] /\ fresh' \subseteq Procs \cup Subs
    <3>1. CASE UNCHANGED <<twitch, fresh>>
      BY <3>1 DEF StoredTypes
    <3>2. ASSUME NEW s \in Subs, Make(p, s)
          PROVE  twitch' \in [Subs -> TwitchSubs] /\ fresh' \subseteq Procs \cup Subs
      <4>1. [status |-> "pending", channel |-> proc[p].channel, target |-> proc[p].target]
              \in TwitchSubs
        BY <2>1 DEF TwitchSubs, Statuses, Live
      <4>2. QED
        BY <3>2, <4>1 DEF Make, StoredTypes
    <3>3. QED
      BY <1>8, <3>1, <3>2 DEF Create, CreateFails
  <2>3. QED
    BY <1>8, <2>2 DEF Create, CreateFails, StoredTypes, place, consents, leases
<1>9. ASSUME NEW p \in Procs, Complete(p) PROVE StoredTypes'
  <2> DEFINE c == proc[p].channel
             s == proc[p].id
             closed == IF life[c].kind = "installed" /\ life[c].creator = p
                       THEN [life[c] EXCEPT !.creator = NoProc] ELSE life[c]
  <2>1. c \in Channels \cup {NoProc} /\ s \in Subs \cup {None} /\ proc[p].target \in Nat
    BY CallTyped
  <2>2. c \in Channels => closed \in LifeRecords
    BY DEF StoredTypes, LifeRecords
  <2> HIDE DEF closed
  <2>3. \A status \in Live : /\ [closed EXCEPT !.negative = None,
                                               !.recovery = @ /\ status # "enabled"]
                                  \in LifeRecords \/ c \notin Channels
                             /\ s # None => [id |-> s, status |-> status,
                                             target |-> proc[p].target] \in Records
    BY <2>1, <2>2 DEF LifeRecords, Records, Statuses, Live
  <2>4. CASE \E status \in Live :
               /\ recorded' = [recorded EXCEPT ![c] =
                     [id |-> s, status |-> status, target |-> proc[p].target]]
               /\ life' = [life EXCEPT ![c] =
                     [closed EXCEPT !.negative = None, !.recovery = @ /\ status # "enabled"]]
               /\ moved' = Holders /\ fresh' = fresh \ {p}
               /\ UNCHANGED <<configured, members, granted, setupLease, tomb>>
    <3>1. PICK status \in Live :
               /\ recorded' = [recorded EXCEPT ![c] =
                     [id |-> s, status |-> status, target |-> proc[p].target]]
               /\ life' = [life EXCEPT ![c] =
                     [closed EXCEPT !.negative = None, !.recovery = @ /\ status # "enabled"]]
      BY <2>4
    <3>2. [id |-> s, status |-> status, target |-> proc[p].target] \in Records
      BY <2>1 DEF Records, Statuses, Live
    <3>3. recorded' \in [Channels -> Records]
      BY <3>1, <3>2 DEF StoredTypes
    <3>4. life' \in [Channels -> LifeRecords]
      BY <3>1, <2>3 DEF StoredTypes
    <3>5. QED
      BY <1>9, <2>4, <3>3, <3>4 DEF Complete, StoredTypes, place, Holders
  <2>5. CASE \E ids : /\ Remove({c}) /\ recorded' = [recorded EXCEPT ![c] = NoRecord]
                      /\ tomb' = Retired(tomb, ids)
    <3>1. tomb' \in [Subs -> Tombs]
      BY <2>5, RetiredTyped DEF StoredTypes
    <3>2. recorded' \in [Channels -> Records]
      BY <2>5 DEF StoredTypes
    <3>3. Remove({c})
      BY <2>5
    <3>4. config' = config /\ sender' = sender /\ sweepLease' = sweepLease
          /\ sweepArmed' = sweepArmed /\ twitch' = twitch
      BY <1>9 DEF Complete, place
    <3>5. QED
      BY <3>1, <3>2, <3>3, <3>4, RemoveTyped DEF StoredTypes
  <2>6. CASE /\ life' = [life EXCEPT ![c] = closed] /\ moved' \in {Holders, moved}
             /\ tomb' = tomb \/ tomb' = Retired(tomb, {s})
             /\ fresh' = fresh \ {p}
             /\ UNCHANGED <<configured, members, granted, setupLease, recorded>>
    <3>1. tomb' \in [Subs -> Tombs]
      BY <2>6, RetiredTyped DEF StoredTypes
    <3>2. QED
      BY <1>9, <2>2, <2>6, <3>1 DEF Complete, StoredTypes, place, Holders
  <2>7. QED
    BY <1>9, <2>4, <2>5, <2>6 DEF Complete, closed
<1>10. ASSUME NEW p \in Procs, Claim(p) PROVE StoredTypes'
  BY <1>10 DEF Claim, StoredTypes, Tombs, place, consents, leases, lives
<1>11. ASSUME NEW p \in Procs, Delete(p) \/ DeleteFails(p) PROVE StoredTypes'
  <2>1. twitch' \in [Subs -> TwitchSubs]
    BY <1>11 DEF Delete, DeleteFails, StoredTypes, TwitchSubs, Gone
  <2>2. QED
    BY <1>11, <2>1 DEF Delete, DeleteFails, StoredTypes, place, consents, leases, lives
<1>12. ASSUME NEW p \in Procs, Settle(p) PROVE StoredTypes'
  BY <1>12 DEF Settle, StoredTypes, Tombs, place, consents, lives, StillDue
<1>13. ASSUME NEW c \in Channels, Repair(c) PROVE StoredTypes'
  BY <1>13 DEF Repair, StoredTypes, Counted, Leases, place, consents, lives, Procs
<1>14. CASE FinishRepair
  BY <1>14 DEF FinishRepair, StoredTypes, LifeRecords, place, consents
<1>15. CASE Work
  BY <1>15 DEF Work, StoredTypes, Counted, Leases, place, consents, Procs
<1>16. CASE SweepOne
  BY <1>16, RetiredTyped DEF SweepOne, StoredTypes, place, consents, leases, lives
<1>17. CASE FinishSweep
  BY <1>17 DEF FinishSweep, StoredTypes, place, consents
<1>18. CASE AuthorizeSender
  BY <1>18 DEF AuthorizeSender, StoredTypes, place, leases, lives
<1>19. ASSUME NEW c \in Channels, Consent(c), members' \subseteq Channels PROVE StoredTypes'
  <2>1. tomb' \in [Subs -> Tombs]
    BY <1>19, RetiredTyped DEF Consent, StoredTypes
  <2>2. Consented(life[c]) \in LifeRecords
    BY DEF Consented, StoredTypes, LifeRecords, Installed, NoLife
  <2>3. QED
    BY <1>19, <2>1, <2>2 DEF Consent, StoredTypes, place, leases, Holders
<1>20. ASSUME NEW c \in Channels, CompleteOAuth(c) \/ CompleteEnrollment(c) PROVE StoredTypes'
  BY <1>19, <1>20 DEF CompleteOAuth, CompleteEnrollment, StoredTypes
<1>21. ASSUME NEW c \in Channels, Leave(c) PROVE StoredTypes'
  <2>1. tomb' \in [Subs -> Tombs]
    BY <1>21, RetiredTyped DEF Leave, StoredTypes
  <2>2. Remove({c})
    BY <1>21 DEF Leave
  <2>3. QED
    BY <1>21, <2>1, <2>2, RemoveTyped DEF Leave, StoredTypes, place
<1>22. ASSUME NEW s \in Subs, NEW status \in Statuses, Observe(s, status) PROVE StoredTypes'
  <2> DEFINE c == twitch[s].channel
  <2>1. CASE /\ Remove({c}) /\ recorded' = [recorded EXCEPT ![c] = NoRecord]
             /\ \E ids : tomb' = Retired(tomb, ids) \/ tomb' = Lost(tomb, ids)
    <3>1. tomb' \in [Subs -> Tombs]
      BY <2>1, RetiredTyped DEF StoredTypes
    <3>2. QED
      BY <1>22, <2>1, <3>1, RemoveTyped DEF Observe, StoredTypes, place
  <2>2. CASE /\ \/ recorded' = recorded
                \/ recorded' = [recorded EXCEPT ![c] = [recorded[c] EXCEPT !.status = status]]
             /\ \/ life' = life
                \/ life' = [life EXCEPT ![c] = Recovering(@)]
                \/ life' = [life EXCEPT ![c] = [@ EXCEPT !.recovery = FALSE]]
             /\ moved' = Holders \/ moved' = moved
             /\ UNCHANGED <<configured, members, granted, setupLease, tomb, fresh>>
    <3>1. recorded' \in [Channels -> Records]
      BY <2>2 DEF StoredTypes, Records
    <3>a. \A l \in LifeRecords : /\ Recovering(l) \in LifeRecords
                                 /\ [l EXCEPT !.recovery = FALSE] \in LifeRecords
      BY DEF LifeRecords, Recovering
    <3>2. life' \in [Channels -> LifeRecords]
      BY <2>2, <3>a DEF StoredTypes
    <3>3. QED
      BY <1>22, <2>2, <3>1, <3>2 DEF Observe, StoredTypes, place, Holders
  <2>3. QED
    <3>1. QED
      BY <1>22, <2>1, <2>2 DEF Observe, StoredTypes
<1>23. ASSUME NEW s \in Subs, TwitchMoves(s) \/ TwitchDrops(s) PROVE StoredTypes'
  <2>1. twitch' \in [Subs -> TwitchSubs]
    BY <1>23 DEF TwitchMoves, TwitchDrops, StoredTypes, TwitchSubs, Gone, Statuses, Live
  <2>2. QED
    BY <1>23, <2>1 DEF TwitchMoves, TwitchDrops, StoredTypes, place, consents, leases, lives
<1>24. CASE Deploy
  BY <1>24 DEF Deploy, StoredTypes, lives
<1>25. CASE Expires(TRUE) \/ Expires(FALSE)
  BY <1>25 DEF Expires, StoredTypes, LifeRecords, place, consents
<1>26. ASSUME NEW s \in Subs, Reclaim(s) PROVE StoredTypes'
  BY <1>26 DEF Reclaim, StoredTypes, place, consents, leases, lives
<1>27. ASSUME NEW p \in Procs, Authorize(p) \/ AssertDelete(p) \/ Reconciled(p) \/ Fails(p) \/ Skips(p)
       PROVE StoredTypes'
  BY <1>27, <1>a DEF Authorize, AssertDelete, Reconciled, Fails, Skips
<1>28. ASSUME NEW p \in Procs, NEW c \in Channels, Decide(p, c) PROVE StoredTypes'
  BY <1>28, <1>a DEF Decide
<1>29. CASE AlarmFires \/ NextDue \/ Crash
  BY <1>29, <1>a DEF AlarmFires, NextDue, Crash
<1>30. ASSUME NEW p \in Procs, Step(p) PROVE StoredTypes'
  BY <1>30, <1>1, <1>2, <1>3, <1>4, <1>5, <1>6, <1>7, <1>8, <1>9, <1>10, <1>11, <1>12, <1>27,
     <1>28 DEF Step
<1>31. CASE AlarmFires \/ AlarmStep
  BY <1>31, <1>13, <1>14, <1>15, <1>16, <1>17, <1>29, <1>30 DEF AlarmStep, Procs
<1>32. CASE Environment
  BY <1>32, <1>11, <1>18, <1>22, <1>23, <1>25, <1>26 DEF Environment
<1>33. CASE Event
  BY <1>33, <1>8, <1>20, <1>21, <1>23, <1>24, <1>25, <1>27, <1>29 DEF Event
<1>34. QED
  BY <1>30, <1>31, <1>32, <1>33 DEF Next, Procs

LEMMA RevisionKeeps ==
  ASSUME Next PROVE revision' = revision \/ (Deploy /\ events' = events + 1)
<1>1. ASSUME NEW p, Step(p) PROVE revision' = revision
  <2>1. CASE StartSetup(p) \/ Resolve(p) \/ Authorize(p) \/ FinishSetup(p) \/ Snapshot(p)
             \/ List(p) \/ CleanUp(p)
    BY <2>1 DEF StartSetup, Resolve, Authorize, FinishSetup, Snapshot, List, CleanUp, place
  <2>2. CASE (\E s \in Subs : Retire(p, s)) \/ AssertDelete(p) \/ Reconciled(p)
             \/ (\E c \in Channels : Decide(p, c))
    BY <2>2 DEF Retire, AssertDelete, Reconciled, Decide, place
  <2>3. CASE Intent(p) \/ Create(p) \/ Complete(p) \/ Claim(p) \/ Delete(p) \/ Settle(p)
    BY <2>3 DEF Intent, Create, Complete, Claim, Delete, Settle, place
  <2>4. QED
    BY <1>1, <2>1, <2>2, <2>3 DEF Step
<1>2. ASSUME NEW c, Repair(c) PROVE revision' = revision
  BY <1>2 DEF Repair, place
<1>3. CASE FinishRepair \/ Work \/ NextDue \/ SweepOne \/ FinishSweep \/ AlarmFires
  BY <1>3 DEF FinishRepair, Work, NextDue, SweepOne, FinishSweep, AlarmFires, place
<1>4. ASSUME NEW s, NEW status, Observe(s, status) PROVE revision' = revision
  BY <1>4 DEF Observe, place
<1>5. ASSUME NEW s, TwitchMoves(s) \/ Reclaim(s) \/ TwitchDrops(s) PROVE revision' = revision
  BY <1>5 DEF TwitchMoves, Reclaim, TwitchDrops, place
<1>6. ASSUME NEW p, DeleteFails(p) \/ CreateFails(p) \/ Fails(p) \/ Skips(p)
      PROVE  revision' = revision
  BY <1>6 DEF DeleteFails, CreateFails, Fails, Skips, place
<1>7. ASSUME NEW c, CompleteOAuth(c) \/ CompleteEnrollment(c) \/ Leave(c)
      PROVE  revision' = revision
  BY <1>7 DEF CompleteOAuth, CompleteEnrollment, Consent, Leave, place
<1>8. CASE AuthorizeSender \/ Crash \/ Expires(TRUE) \/ Expires(FALSE)
  BY <1>8 DEF AuthorizeSender, Crash, Expires, place
<1>10. CASE Environment
  BY <1>10, <1>4, <1>5, <1>6, <1>8 DEF Environment
<1>11. CASE Event /\ events' = events + 1
  BY <1>11, <1>5, <1>6, <1>7, <1>8 DEF Event
<1>12. CASE AlarmStep
  BY <1>12, <1>1, <1>2, <1>3 DEF AlarmStep
<1>13. QED
  BY <1>1, <1>3, <1>10, <1>11, <1>12 DEF Next

LEMMA CountTyped == ASSUME Types, Next PROVE Counted'
<1>1. (events' = events + 1 /\ events < MaxEvent) \/ events' = events
  BY DEF Next
<1>2. revision' = revision \/ (revision' = revision + 1 /\ events' = events + 1)
  BY RevisionKeeps DEF Deploy
<1>3. QED
  BY <1>1, <1>2, LifecycleAssumption DEF Types, Counted

\* The calls are typed whatever step is taken.
LEMMA CallsTyped == ASSUME Types, Next PROVE CallTypes'
<1> USE DEF Types
<1>n. /\ NoCall \in Calls /\ Unseen \in Sights
      /\ config.target \in Nat /\ revision \in Nat /\ None \notin Subs
      /\ \A c \in Channels : life[c] \in LifeRecords /\ life[c].sequence \in Nat
  BY NoCallTyped, ConfigTyped, LifecycleAssumption DEF StoredTypes, LifeRecords, Counted, Subs, None
<1>a. CASE proc' = proc
  BY <1>a DEF CallTypes
<1>b. ASSUME NEW p \in Procs, NEW call \in Calls, proc' = [proc EXCEPT ![p] = call]
      PROVE  CallTypes'
  BY <1>b DEF CallTypes
<1>c. ASSUME NEW p \in Procs, NEW pc \in Pcs, Goto(p, pc) PROVE CallTypes'
  <2>1. [proc[p] EXCEPT !.pc = pc] \in Calls
    BY CallTyped DEF Calls
  <2>2. proc' = [proc EXCEPT ![p] = [proc[p] EXCEPT !.pc = pc]]
    BY <1>c DEF Goto, CallTypes
  <2>3. QED
    BY <1>b, <2>1, <2>2
<1>d. ASSUME NEW p \in Procs, NEW pc \in Pcs, proc' = [proc EXCEPT ![p] = Back(p, pc)]
      PROVE  CallTypes'
  BY <1>b, <1>d, BackTyped
<1>e. /\ "resolve" \in Pcs /\ "authorize" \in Pcs /\ "assert" \in Pcs /\ "list" \in Pcs
      /\ "clean" \in Pcs /\ "retire" \in Pcs /\ "owner" \in Pcs /\ "intent" \in Pcs
      /\ "create" \in Pcs /\ "complete" \in Pcs /\ "obligation" \in Pcs /\ "delete" \in Pcs
      /\ "settle" \in Pcs /\ "repair" \in Pcs /\ "token" \in Pcs /\ "due" \in Pcs
      /\ "strangers" \in Pcs /\ "end" \in Pcs
  BY DEF Pcs
<1>f. /\ "ok" \in Outcomes /\ "error" \in Outcomes /\ "created" \in Outcomes
      /\ "conflict" \in Outcomes /\ "unknown" \in Outcomes
  BY DEF Outcomes
<1>g. ASSUME NEW p \in Procs, NEW s
      PROVE  proc[p].ids \ {s} \in SUBSET Subs /\ proc[p].due \ {s} \in SUBSET Channels
             /\ proc[p].todo \ {s} \in SUBSET Channels
  BY CallTyped
<1>1. ASSUME NEW p \in Procs, StartSetup(p) PROVE CallTypes'
  <2>1. [NoCall EXCEPT !.pc = "resolve", !.kind = "setup", !.revision = revision,
                       !.target = config.target] \in Calls
    BY <1>n, <1>e DEF Calls
  <2>2. QED
    BY <1>1, <1>b, <2>1 DEF StartSetup
<1>2. ASSUME NEW p \in Procs, Resolve(p) PROVE CallTypes'
  BY <1>2, <1>c DEF Resolve, Pcs
<1>3. ASSUME NEW p \in Procs, FinishSetup(p) PROVE CallTypes'
  BY <1>3, <1>b, <1>n DEF FinishSetup
<1>4. ASSUME NEW p \in Procs, Snapshot(p) PROVE CallTypes'
  <2>1. [proc[p] EXCEPT !.pc = "list"] \in Calls
    BY CallTyped, <1>e DEF Calls
  <2>2. QED
    BY <1>4, <1>b, <1>d, <1>e, <2>1 DEF Snapshot
<1>5. ASSUME NEW p \in Procs, List(p) PROVE CallTypes'
  <2> DEFINE made == {s \in Subs : AtTwitch(s) /\ twitch[s].target = proc[p].target}
             swept == [proc[p] EXCEPT !.pc = "strangers", !.seen = Unseen, !.ids = made]
             seen == [proc[p] EXCEPT !.pc = "clean", !.seen = Seen, !.ids = {}]
  <2>1. made \in SUBSET Subs
    OBVIOUS
  <2> HIDE DEF made
  <2>2. swept \in Calls /\ seen \in Calls
    BY <2>1, <1>n, SeenTyped, CallTyped, <1>e DEF Calls
  <2> HIDE DEF swept, seen
  <2>3. proc' = [proc EXCEPT ![p] = swept] \/ proc' = [proc EXCEPT ![p] = seen]
    BY <1>5 DEF List, made, swept, seen, CallTypes
  <2>4. QED
    BY <1>b, <2>2, <2>3
<1>6. ASSUME NEW p \in Procs, CleanUp(p) PROVE CallTypes'
  <2>1. CASE proc' = [proc EXCEPT ![p] = [Back(p, "end") EXCEPT !.seen = Unseen]]
    <3>1. Back(p, "end") \in Calls
      BY BackTyped, <1>e
    <3>2. [Back(p, "end") EXCEPT !.seen = Unseen] \in Calls
      BY <3>1, <1>n DEF Calls
    <3>3. QED
      BY <1>b, <2>1, <3>2
  <2>2. CASE proc' = [proc EXCEPT ![p].pc = "retire", ![p].ids = ToRetire(p), ![p].seen = Unseen]
    <3>1. ToRetire(p) \subseteq Subs
      BY DEF ToRetire, StoredTypes, Records
    <3>2. [proc[p] EXCEPT !.pc = "retire", !.ids = ToRetire(p), !.seen = Unseen] \in Calls
      BY <3>1, <1>n, CallTyped, <1>e DEF Calls
    <3>3. proc' = [proc EXCEPT ![p] = [proc[p] EXCEPT !.pc = "retire", !.ids = ToRetire(p),
                                                      !.seen = Unseen]]
      BY <2>2 DEF CallTypes
    <3>4. QED
      BY <1>b, <3>2, <3>3
  <2>3. QED
    BY <1>6, <2>1, <2>2 DEF CleanUp
<1>7. ASSUME NEW p \in Procs, NEW s \in Subs, Retire(p, s) PROVE CallTypes'
  <2> DEFINE new == [proc[p] EXCEPT !.ids = @ \ {s},
                         !.id = IF twitch[s].channel \in proc[p].todo THEN s ELSE @,
                         !.pc = IF twitch[s].channel \in proc[p].todo THEN "owner" ELSE @]
  <2> DEFINE ids == proc[p].ids \ {s}
             id == IF twitch[s].channel \in proc[p].todo THEN s ELSE proc[p].id
             pc == IF twitch[s].channel \in proc[p].todo THEN "owner" ELSE proc[p].pc
  <2>a. ids \in SUBSET Subs /\ id \in Subs \cup {None} /\ pc \in Pcs
    BY CallTyped, <1>e
  <2>b. new = [proc[p] EXCEPT !.ids = ids, !.id = id, !.pc = pc]
    OBVIOUS
  <2>1. new \in Calls
    <3> HIDE DEF new, ids, id, pc
    <3>1. [proc[p] EXCEPT !.ids = ids, !.id = id, !.pc = pc] \in Calls
      BY <2>a, CallTyped DEF Calls
    <3>2. QED
      BY <2>b, <3>1
  <2>2. proc' = [proc EXCEPT ![p] = new] \/ proc' = [proc EXCEPT ![p] = Back(p, "end")]
    BY <1>7 DEF Retire, CallTypes
  <2>3. QED
    BY <1>b, <1>d, <1>e, <2>1, <2>2
<1>8. ASSUME NEW p \in Procs, AssertDelete(p) PROVE CallTypes'
  <2>1. [proc[p] EXCEPT !.pc = "obligation"] \in Calls
    BY CallTyped, <1>e DEF Calls
  <2>2. QED
    BY <1>8, <1>b, <1>d, <1>e, <2>1 DEF AssertDelete
<1>9. ASSUME NEW p \in Procs, Reconciled(p) PROVE CallTypes'
  BY <1>9, <1>c, <1>e DEF Reconciled
<1>10. ASSUME NEW p \in Procs, NEW c \in Channels, Decide(p, c) PROVE CallTypes'
  <2> DEFINE todo == proc[p].todo \ {c}
             next == [proc[p] EXCEPT !.pc = "intent", !.todo = todo, !.channel = c]
             pass == [proc[p] EXCEPT !.todo = todo]
  <2>1. todo \in SUBSET Channels
    BY CallTyped
  <2>2. \/ proc' = [proc EXCEPT ![p] = next] \/ proc' = [proc EXCEPT ![p] = pass]
        \/ proc' = [proc EXCEPT ![p] = Back(p, "end")]
    BY <1>10 DEF Decide, CallTypes
  <2> HIDE DEF todo
  <2>3. next \in Calls /\ pass \in Calls
    BY <2>1, CallTyped, <1>e DEF Calls
  <2> HIDE DEF next, pass
  <2>4. QED
    BY <1>b, <1>d, <1>e, <2>2, <2>3
<1>11. ASSUME NEW p \in Procs, Intent(p) PROVE CallTypes'
  <2> DEFINE n == life[proc[p].channel].sequence
             new == [proc[p] EXCEPT !.pc = "create", !.intent = n]
  <2>1. CASE MayIntend(p, proc[p].channel) /\ proc' = [proc EXCEPT ![p] = new]
    <3>1. proc[p].channel \in Channels
      BY <2>1, LifecycleAssumption DEF MayIntend, Desired, StoredTypes
    <3>2. n \in Nat
      BY <1>n, <3>1
    <3> HIDE DEF n
    <3>3. new \in Calls
      BY <3>2, CallTyped, <1>e DEF Calls
    <3>4. QED
      BY <1>b, <2>1, <3>3
  <2>2. CASE proc' = [proc EXCEPT ![p] = Back(p, "retire")]
    BY <1>d, <1>e, <2>2
  <2>3. QED
    BY <1>11, <2>1, <2>2 DEF Intent, CallTypes
<1>12. ASSUME NEW p \in Procs, Create(p) \/ CreateFails(p) PROVE CallTypes'
  <2>1. ASSUME NEW s \in Subs \cup {None}, NEW outcome \in Outcomes, Answer(p, outcome, s)
        PROVE  CallTypes'
    <3> DEFINE new == [proc[p] EXCEPT !.pc = "complete", !.outcome = outcome, !.id = s]
    <3>1. new \in Calls
      BY CallTyped, <1>e DEF Calls
    <3>2. proc' = [proc EXCEPT ![p] = new]
      BY <2>1 DEF Answer, CallTypes
    <3>3. QED
      BY <1>b, <3>1, <3>2
  <2>2. \E s \in Subs \cup {None}, outcome \in Outcomes : Answer(p, outcome, s)
    BY <1>12, <1>f DEF Create, CreateFails
  <2>3. QED
    BY <2>1, <2>2
<1>13. ASSUME NEW p \in Procs, Complete(p) PROVE CallTypes'
  BY <1>13, <1>d, <1>e DEF Complete
<1>14. ASSUME NEW p \in Procs, Claim(p) PROVE CallTypes'
  <2>1. [proc[p] EXCEPT !.pc = "delete"] \in Calls
    BY CallTyped, <1>e DEF Calls
  <2>2. QED
    BY <1>14, <1>b, <1>d, <1>e, <2>1 DEF Claim, AfterDeletion
<1>15. ASSUME NEW p \in Procs, Delete(p) \/ DeleteFails(p) PROVE CallTypes'
  <2>1. \A outcome \in {"ok", "error"} :
          [proc[p] EXCEPT !.pc = "settle", !.outcome = outcome] \in Calls
    <3>1. \A outcome \in Outcomes :
            [proc[p] EXCEPT !.pc = "settle", !.outcome = outcome] \in Calls
      BY CallTyped, <1>e DEF Calls
    <3>2. QED
      BY <3>1, <1>f
  <2>2. \E outcome \in {"ok", "error"} :
          proc' = [proc EXCEPT ![p] = [proc[p] EXCEPT !.pc = "settle", !.outcome = outcome]]
    BY <1>15 DEF Delete, DeleteFails, CallTypes
  <2>3. QED
    BY <1>b, <2>1, <2>2
<1>16. ASSUME NEW p \in Procs, Settle(p) PROVE CallTypes'
  BY <1>16, <1>d, <1>e DEF Settle, AfterDeletion
<1>17. ASSUME NEW c \in Channels, Repair(c) PROVE CallTypes'
  <2>1. Alarm \in Procs
    BY DEF Procs
  <2> DEFINE taken == [proc[Alarm] EXCEPT !.pc = "assert", !.due = @ \ {c}, !.todo = {c},
                           !.repaired = c, !.installation = life[c].sequence]
             passed == [proc[Alarm] EXCEPT !.due = @ \ {c}]
  <2>2. taken \in Calls /\ passed \in Calls
    BY <2>1, <1>n, CallTyped, <1>e DEF Calls
  <2>3. proc' = [proc EXCEPT ![Alarm] = taken] \/ proc' = [proc EXCEPT ![Alarm] = passed]
    BY <1>17, <2>1 DEF Repair, CallTypes
  <2>4. QED
    BY <1>b, <2>1, <2>2, <2>3
<1>18. CASE FinishRepair
  <2>1. Alarm \in Procs
    BY DEF Procs
  <2>2. [NoCall EXCEPT !.pc = "repair", !.kind = "repair", !.due = proc[Alarm].due,
                       !.revision = proc[Alarm].revision, !.target = proc[Alarm].target] \in Calls
    BY <2>1, <1>n, CallTyped, <1>e DEF Calls
  <2>3. QED
    BY <1>18, <1>b, <2>1, <2>2 DEF FinishRepair
<1>19. CASE Work
  <2>1. Alarm \in Procs
    BY DEF Procs
  <2> DEFINE todo == {c \in Channels : life[c].creator # NoProc}
             new(ids, sweeps) ==
               [NoCall EXCEPT !.pc = IF ids = {} /\ ~sweeps THEN "end" ELSE "token",
                              !.kind = "sweep", !.ids = ids, !.sweeps = sweeps, !.todo = todo,
                              !.revision = proc[Alarm].revision, !.target = proc[Alarm].target]
  <2>2. todo \subseteq Channels
    OBVIOUS
  <2>3. PICK ids \in SUBSET Subs, sweeps \in BOOLEAN :
               proc' = [proc EXCEPT ![Alarm] = new(ids, sweeps)]
    BY <1>19 DEF Work
  <2> HIDE DEF todo
  <2>4. new(ids, sweeps) \in Calls
    <3>1. proc[Alarm].revision \in Nat /\ proc[Alarm].target \in Nat
      BY <2>1, CallTyped
    <3>2. (IF ids = {} /\ ~sweeps THEN "end" ELSE "token") \in Pcs
      BY <1>e
    <3>3. QED
      BY <2>2, <1>n, <3>1, <3>2 DEF Calls
  <2>5. QED
    BY <1>b, <2>1, <2>3, <2>4
<1>20. CASE NextDue
  <2>1. Alarm \in Procs
    BY DEF Procs
  <2>2. ASSUME NEW s \in proc[Alarm].ids,
               proc' = [proc EXCEPT ![Alarm].pc = "obligation", ![Alarm].id = s,
                                    ![Alarm].ids = @ \ {s}]
        PROVE  CallTypes'
    <3> DEFINE ids == proc[Alarm].ids \ {s}
               new == [proc[Alarm] EXCEPT !.pc = "obligation", !.id = s, !.ids = ids]
    <3>a. ids \in SUBSET Subs /\ s \in Subs
      BY <2>1, CallTyped
    <3>2. proc' = [proc EXCEPT ![Alarm] = new]
      BY <2>1, <2>2 DEF CallTypes
    <3> HIDE DEF ids
    <3>1. new \in Calls
      BY <2>1, <3>a, CallTyped, <1>e DEF Calls
    <3>3. QED
      BY <1>b, <2>1, <3>1, <3>2
  <2>3. QED
    BY <1>20, <1>c, <2>1, <2>2 DEF NextDue, Pcs
<1>21. CASE SweepOne
  <2>1. Alarm \in Procs
    BY DEF Procs
  <2>2. PICK s \in proc[Alarm].ids : proc' = [proc EXCEPT ![Alarm].ids = @ \ {s}]
    BY <1>21 DEF SweepOne
  <2> DEFINE new == [proc[Alarm] EXCEPT !.ids = @ \ {s}]
  <2>3. new \in Calls
    BY <2>1, CallTyped DEF Calls
  <2>4. proc' = [proc EXCEPT ![Alarm] = new]
    BY <2>1, <2>2 DEF CallTypes
  <2>5. QED
    BY <1>b, <2>1, <2>3, <2>4
<1>22. CASE FinishSweep
  BY <1>22, <1>b, <1>n DEF FinishSweep, Procs
<1>23. CASE AlarmFires
  <2>1. PICK due \in SUBSET Channels :
          proc' = [proc EXCEPT ![Alarm] =
                     [NoCall EXCEPT !.pc = "repair", !.kind = "repair", !.due = due,
                                    !.revision = revision, !.target = config.target]]
    BY <1>23 DEF AlarmFires
  <2>2. [NoCall EXCEPT !.pc = "repair", !.kind = "repair", !.due = due, !.revision = revision,
                       !.target = config.target] \in Calls
    BY <1>n, <1>e DEF Calls
  <2>3. QED
    BY <1>b, <2>1, <2>2 DEF Procs
<1>24. ASSUME NEW p \in Procs, Authorize(p) PROVE CallTypes'
  <2>1. CASE proc' = [proc EXCEPT ![p].pc = "assert", ![p].todo = Desired \cap granted]
    <3> DEFINE todo == Desired \cap granted
    <3>1. todo \in SUBSET Channels
      BY ConfigTyped DEF Desired, StoredTypes
    <3>3. proc' = [proc EXCEPT ![p] = [proc[p] EXCEPT !.pc = "assert", !.todo = todo]]
      BY <2>1 DEF CallTypes
    <3> HIDE DEF todo
    <3>2. [proc[p] EXCEPT !.pc = "assert", !.todo = todo] \in Calls
      BY <3>1, CallTyped, <1>e DEF Calls
    <3>4. QED
      BY <1>b, <3>2, <3>3
  <2>2. QED
    BY <1>24, <1>c, <1>e, <2>1 DEF Authorize
<1>25. ASSUME NEW p \in Procs, Fails(p) \/ Skips(p) PROVE CallTypes'
  BY <1>25, <1>d, <1>e DEF Fails, Skips, AfterDeletion
<1>26. CASE Crash
  BY <1>26, <1>n DEF Crash, CallTypes
<1>27. ASSUME NEW p \in Procs, Step(p) PROVE CallTypes'
  BY <1>27, <1>1, <1>2, <1>3, <1>4, <1>5, <1>6, <1>7, <1>8, <1>9, <1>10, <1>11, <1>12, <1>13,
     <1>14, <1>15, <1>16, <1>24 DEF Step
<1>28. CASE AlarmFires \/ AlarmStep
  BY <1>28, <1>17, <1>18, <1>19, <1>20, <1>21, <1>22, <1>23, <1>27 DEF AlarmStep, Procs
<1>29. CASE Environment
  BY <1>29, <1>a, <1>15 DEF Environment, AuthorizeSender, Observe, TwitchMoves, Reclaim, Expires
<1>30. CASE Event
  BY <1>30, <1>a, <1>12, <1>25, <1>26 DEF Event, CompleteOAuth, CompleteEnrollment, Consent, Leave,
     TwitchDrops, Deploy, Expires
<1>31. QED
  BY <1>27, <1>28, <1>29, <1>30 DEF Next, Procs

LEMMA TypesStep == ASSUME Types, Next PROVE Types'
  BY StoredTyped, CountTyped, CallsTyped DEF Types

-----------------------------------------------------------------------------
(***************************************************************************)
(* What a step may do to the subscriptions at Twitch and to a call.        *)
(***************************************************************************)
\* What Twitch made stays made for its channel, and one that is gone stays gone; it
\* is deleted only by a call that deletes it.
TwitchKeeps ==
  \A s \in Known :
    /\ s \in Known' /\ twitch'[s].channel = twitch[s].channel
    /\ twitch[s].status \notin Live => twitch'[s].status \notin Live
    /\ twitch'[s].status = "deleted" =>
         twitch[s].status = "deleted" \/ \E q \in Procs : proc[q].pc = "delete" /\ proc[q].id = s

LEMMA MadeKeeps ==
  ASSUME Types, NEW p, NEW s \in Subs, Make(p, s)
  PROVE  TwitchKeeps /\ s \notin Known /\ s \in Known'
         /\ twitch'[s] = [status |-> "pending", channel |-> proc[p].channel,
                          target |-> proc[p].target]
         /\ \A r \in Subs : r # s => twitch'[r] = twitch[r]
<1>1. /\ twitch[s].status = "unmade"
      /\ twitch' = [twitch EXCEPT ![s] = [status |-> "pending", channel |-> proc[p].channel,
                                          target |-> proc[p].target]]
  BY DEF Make, Unmades
<1>2. /\ twitch'[s] = [status |-> "pending", channel |-> proc[p].channel,
                       target |-> proc[p].target]
      /\ \A r \in Subs : r # s => twitch'[r] = twitch[r]
  BY <1>1 DEF Types, StoredTypes
<1>3. QED
  BY <1>1, <1>2 DEF TwitchKeeps, Known

LEMMA TwitchStep == ASSUME Types, CallsKnow, Next PROVE TwitchKeeps
<1>a. CASE twitch' = twitch
  BY <1>a DEF TwitchKeeps, Known
<1>1. ASSUME NEW p \in Procs, Create(p) \/ CreateFails(p) PROVE TwitchKeeps
  BY <1>1, <1>a, MadeKeeps DEF Create, CreateFails
<1>2. ASSUME NEW p \in Procs, Delete(p) \/ DeleteFails(p) PROVE TwitchKeeps
  <2>1. proc[p].pc = "delete"
    BY <1>2 DEF Delete, DeleteFails
  <2>2. CASE twitch' = [twitch EXCEPT ![proc[p].id].status = Gone(@)]
    BY <2>1, <2>2 DEF TwitchKeeps, Known, Types, StoredTypes, Gone, Live
  <2>3. QED
    BY <1>2, <1>a, <2>2 DEF Delete, DeleteFails
<1>3. ASSUME NEW s \in Subs, TwitchMoves(s) \/ TwitchDrops(s) PROVE TwitchKeeps
  <2>1. CASE twitch[s].status = "pending" /\ twitch' = [twitch EXCEPT ![s].status = "enabled"]
    BY <2>1 DEF TwitchKeeps, Known, Types, StoredTypes, Live
  <2>2. CASE /\ twitch[s].status \in {"lost", "failed"}
             /\ twitch' = [twitch EXCEPT ![s].status = Gone(@)]
    BY <2>2 DEF TwitchKeeps, Known, Types, StoredTypes, Live, Gone
  <2>3. CASE /\ twitch[s].status \in Live
             /\ \E status \in {"lost", "failed"} :
                  twitch' = [twitch EXCEPT ![s].status = status]
    BY <2>3 DEF TwitchKeeps, Known, Types, StoredTypes, Live
  <2>4. QED
    BY <1>3, <2>1, <2>2, <2>3 DEF TwitchMoves, TwitchDrops
<1>4. ASSUME NEW p \in Procs, Step(p) PROVE TwitchKeeps
  <2>1. CASE StartSetup(p) \/ Resolve(p) \/ Authorize(p) \/ FinishSetup(p) \/ Snapshot(p)
             \/ List(p) \/ CleanUp(p)
    BY <2>1, <1>a DEF StartSetup, Resolve, Authorize, FinishSetup, Snapshot, List, CleanUp
  <2>2. CASE (\E s \in Subs : Retire(p, s)) \/ AssertDelete(p) \/ Reconciled(p)
             \/ (\E c \in Channels : Decide(p, c))
    BY <2>2, <1>a DEF Retire, AssertDelete, Reconciled, Decide
  <2>3. CASE Intent(p) \/ Complete(p) \/ Claim(p) \/ Settle(p)
    BY <2>3, <1>a DEF Intent, Complete, Claim, Settle
  <2>4. QED
    BY <1>1, <1>2, <1>4, <2>1, <2>2, <2>3 DEF Step
<1>5. CASE AlarmFires \/ AlarmStep
  BY <1>4, <1>5, <1>a DEF AlarmStep, Procs, AlarmFires, Repair, FinishRepair, Work, NextDue,
                          SweepOne, FinishSweep
<1>6. ASSUME NEW s, NEW status, Observe(s, status) PROVE TwitchKeeps
  BY <1>6, <1>a DEF Observe
<1>7. CASE Environment
  BY <1>2, <1>3, <1>6, <1>7, <1>a DEF Environment, AuthorizeSender, Expires, Reclaim
<1>8. CASE Event
  BY <1>1, <1>3, <1>8, <1>a DEF Event, CompleteOAuth, CompleteEnrollment, Consent, Leave, Fails,
                               Skips, Deploy, Crash, Expires
<1>9. QED
  BY <1>4, <1>5, <1>7, <1>8 DEF Next, Procs

-----------------------------------------------------------------------------
\* Only a call that begins a setup or a repair gets the lease.
LeaseKeeps ==
  \A q \in Procs : setupLease'.owner = q =>
    \/ setupLease' = setupLease /\ revision' = revision
    \/ proc'[q].pc \in {"resolve", "assert"}

LEMMA LeaseStep == ASSUME Types, Next PROVE LeaseKeeps
<1>n. NoLease.owner \notin Procs
  BY LifecycleAssumption DEF NoLease, Procs
<1>r. revision' = revision \/ Deploy
  BY RevisionKeeps
<1>a. CASE setupLease' = setupLease /\ revision' = revision
  BY <1>a DEF LeaseKeeps
<1>b. CASE setupLease' = NoLease
  BY <1>n, <1>b DEF LeaseKeeps
<1>c. CASE setupLease' = NoLease \/ (setupLease' = setupLease /\ revision' = revision)
  BY <1>a, <1>b, <1>c
<1>d. ASSUME NEW cs, Remove(cs), revision' = revision PROVE LeaseKeeps
  BY <1>c, <1>d DEF Remove
<1>1. ASSUME NEW p \in Procs, StartSetup(p) PROVE LeaseKeeps
  <2>1. setupLease'.owner = p /\ proc'[p].pc = "resolve"
    BY <1>1, CallTyped DEF StartSetup, NoCall, Types, CallTypes
  <2>2. QED
    BY <2>1 DEF LeaseKeeps
<1>2. ASSUME NEW c \in Channels, Repair(c) PROVE LeaseKeeps
  <2>1. CASE setupLease' = setupLease
    BY <1>2, <2>1, <1>a DEF Repair, place
  <2>2. CASE MayRepair(c)
    <3>1. setupLease'.owner = Alarm /\ proc'[Alarm].pc = "assert"
      BY <1>2, <2>2 DEF Repair, Types, CallTypes, Calls, Procs
    <3>2. QED
      BY <3>1 DEF LeaseKeeps
  <2>3. QED
    BY <1>2, <2>1, <2>2 DEF Repair
<1>3. ASSUME NEW p \in Procs, CleanUp(p) PROVE LeaseKeeps
  BY <1>3, <1>a, <1>d DEF CleanUp, place
<1>4. ASSUME NEW p \in Procs, Complete(p) PROVE LeaseKeeps
  BY <1>4, <1>a, <1>d DEF Complete, place
<1>5. ASSUME NEW p \in Procs, Step(p) PROVE LeaseKeeps
  <2>1. CASE Resolve(p) \/ Authorize(p) \/ FinishSetup(p) \/ Snapshot(p) \/ List(p)
    BY <2>1, <1>c DEF Resolve, Authorize, FinishSetup, Snapshot, List, place, leases
  <2>2. CASE (\E s \in Subs : Retire(p, s)) \/ AssertDelete(p) \/ Reconciled(p)
             \/ (\E c \in Channels : Decide(p, c))
    BY <2>2, <1>a DEF Retire, AssertDelete, Reconciled, Decide, place, leases
  <2>3. CASE Intent(p) \/ Create(p) \/ Claim(p) \/ Delete(p) \/ Settle(p)
    BY <2>3, <1>a DEF Intent, Create, Claim, Delete, Settle, place, leases
  <2>4. QED
    BY <1>1, <1>3, <1>4, <1>5, <2>1, <2>2, <2>3 DEF Step
<1>6. CASE AlarmFires \/ AlarmStep
  <2>1. CASE AlarmFires \/ FinishRepair \/ Work \/ NextDue \/ SweepOne \/ FinishSweep
    BY <2>1, <1>c DEF AlarmFires, FinishRepair, Work, NextDue, SweepOne, FinishSweep, place, leases
  <2>2. QED
    BY <1>2, <1>5, <1>6, <2>1 DEF AlarmStep, Procs
<1>7. ASSUME NEW s, NEW status, Observe(s, status) PROVE LeaseKeeps
  <2>1. revision' = revision
    BY <1>7 DEF Observe, place
  <2>2. CASE setupLease' = setupLease
    BY <1>a, <2>1, <2>2
  <2>3. CASE Remove({twitch[s].channel})
    BY <1>d, <2>1, <2>3
  <2>4. QED
    BY <1>7, <2>2, <2>3 DEF Observe
<1>8. ASSUME NEW c \in Channels, CompleteOAuth(c) \/ CompleteEnrollment(c) \/ Leave(c)
      PROVE  LeaseKeeps
  BY <1>8, <1>a, <1>d DEF CompleteOAuth, CompleteEnrollment, Consent, Leave, place, leases
<1>9. ASSUME NEW s, TwitchMoves(s) \/ TwitchDrops(s) \/ Reclaim(s) PROVE LeaseKeeps
  BY <1>9, <1>a DEF TwitchMoves, TwitchDrops, Reclaim, place, leases
<1>10. ASSUME NEW p, DeleteFails(p) \/ CreateFails(p) \/ Fails(p) \/ Skips(p) PROVE LeaseKeeps
  BY <1>10, <1>a DEF DeleteFails, CreateFails, Fails, Skips, place, leases
<1>11. CASE AuthorizeSender \/ Deploy \/ Crash \/ Expires(TRUE) \/ Expires(FALSE)
  BY <1>11, <1>c DEF AuthorizeSender, Deploy, Crash, Expires, place, leases
<1>12. CASE Environment
  BY <1>7, <1>9, <1>10, <1>11, <1>12 DEF Environment
<1>13. CASE Event
  BY <1>8, <1>9, <1>10, <1>11, <1>13 DEF Event
<1>14. QED
  BY <1>5, <1>6, <1>12, <1>13 DEF Next, Procs

-----------------------------------------------------------------------------
Busy == {"owner", "obligation", "delete", "settle", "intent", "create", "complete"}

Sees(f) == f.ids \subseteq Known /\ \A s \in Subs : f.seen[s] # "unseen" => s \in Known

Turns(q, f) ==
  /\ f.pc = "intent" /\ f.revision = proc[q].revision /\ OwnsSetup(q)
  /\ f.channel \in Channels \cap granted /\ ~Confirmed(f.channel)
  /\ UNCHANGED <<recorded, granted>>

Intends(q, f) ==
  /\ proc[q].pc = "intent" /\ f.pc = "create"
  /\ f.channel = proc[q].channel /\ f.revision = proc[q].revision
  /\ q \in fresh'

IsAnswered(q, f) ==
  /\ proc[q].pc = "create" /\ f.pc = "complete"
  /\ f.channel = proc[q].channel /\ f.revision = proc[q].revision
  /\ f.outcome = "created" => f.id \in Subs /\ Make(q, f.id)
  /\ UNCHANGED <<place, consents, recorded, tomb, leases, life>>
  /\ \A r \in Procs : r # q => proc'[r] = proc[r]

\* What a step may make of the call q.
CallMoves(q, f) ==
  \/ f = proc[q]
  \/ f.pc \notin Busy
  \/ f.pc \in {"owner", "obligation"} /\ f.id \in Known
  \/ /\ proc[q].pc = "obligation" /\ f.pc = "delete"
     /\ f.id = proc[q].id /\ tomb[f.id].due
  \/ /\ proc[q].pc = "delete" /\ f.pc = "settle" /\ f.id = proc[q].id
     /\ f.outcome = "ok" => twitch'[f.id].status \notin Live
  \/ Turns(q, f) \/ Intends(q, f) \/ IsAnswered(q, f)

LEMMA CallStep ==
  ASSUME Types, TombsKnown, CallsKnow, RecordsCurrent, Next
  PROVE  \A q \in Procs : CallMoves(q, proc'[q]) /\ Sees(proc'[q])
<1> DEFINE Good(q, f) == CallMoves(q, f) /\ Sees(f)
           Goal == \A q \in Procs : Good(q, proc'[q])
<1> SUFFICES Goal
  OBVIOUS
<1>s. \A q \in Procs : Sees(proc[q]) /\ Good(q, proc[q])
  BY DEF CallsKnow, Sees, CallMoves
<1>a. CASE proc' = proc
  BY <1>s, <1>a
<1>b. ASSUME NEW p \in Procs, NEW f, Good(p, f), proc' = [proc EXCEPT ![p] = f] PROVE Goal
  <2>1. proc'[p] = f /\ \A q \in Procs : q # p => proc'[q] = proc[q]
    BY <1>b DEF Types, CallTypes
  <2> HIDE DEF Good
  <2>2. QED
    BY <1>b, <1>s, <2>1
<1>c. ASSUME NEW p \in Procs, NEW f, proc' = [proc EXCEPT ![p] = f],
             f.pc \notin Busy, Sees(f)
      PROVE  Goal
  <2>1. Good(p, f)
    BY <1>c DEF CallMoves
  <2> HIDE DEF Good, Goal
  <2>2. QED
    BY <1>b, <1>c, <2>1
<1>d. ASSUME NEW p \in Procs, NEW pc \in {"retire", "due", "end"},
             proc' = [proc EXCEPT ![p] = Back(p, pc)]
      PROVE  Goal
  <2>1. pc \in Pcs /\ pc \notin Busy
    BY DEF Pcs, Busy
  <2>2. Back(p, pc).pc \notin Busy /\ Sees(Back(p, pc))
    BY <2>1, <1>s, BackTyped DEF Sees, Types
  <2> HIDE DEF Goal
  <2>3. QED
    BY <1>c, <1>d, <2>2
<1>g. ASSUME NEW p \in Procs, NEW pc, Goto(p, pc), pc \notin Busy PROVE Goal
  <2> DEFINE f == [proc[p] EXCEPT !.pc = pc]
  <2>1. f.pc = pc /\ f.ids = proc[p].ids /\ f.seen = proc[p].seen
    BY CallTyped DEF Types, Calls
  <2>2. proc' = [proc EXCEPT ![p] = f]
    BY <1>g DEF Goto, Types, CallTypes
  <2>3. Sees(f)
    BY <2>1, <1>s DEF Sees
  <2> HIDE DEF f, Goal
  <2>4. QED
    BY <1>c, <1>g, <2>1, <2>2, <2>3
<1>n. /\ NoCall.ids = {} /\ NoCall.pc = "idle" /\ NoCall.seen = Unseen
      /\ \A s \in Subs : Unseen[s] = "unseen"
  BY DEF NoCall, Unseen
<1>e. {"resolve", "authorize", "assert", "list", "clean", "retire", "repair", "token", "due",
       "strangers", "end", "idle"} \cap Busy = {}
  BY DEF Busy
<1>t. Alarm \in Procs /\ CallTypes /\ StoredTypes
  BY DEF Procs, Types
<1> HIDE DEF Goal
<1>1. ASSUME NEW p \in Procs, StartSetup(p) PROVE Goal
  <2> DEFINE f == [NoCall EXCEPT !.pc = "resolve", !.kind = "setup", !.revision = revision,
                                 !.target = config.target]
  <2>1. f.pc = "resolve" /\ f.ids = {} /\ f.seen = Unseen
    BY DEF NoCall
  <2>2. Sees(f) /\ f.pc \notin Busy
    BY <2>1, <1>n, <1>e DEF Sees
  <2>3. proc' = [proc EXCEPT ![p] = f]
    BY <1>1 DEF StartSetup
  <2> HIDE DEF f
  <2>4. QED
    BY <1>c, <2>2, <2>3
<1>2. ASSUME NEW p \in Procs, Resolve(p) \/ Reconciled(p) PROVE Goal
  BY <1>2, <1>g, <1>e DEF Resolve, Reconciled
<1>3. ASSUME NEW p \in Procs, FinishSetup(p) PROVE Goal
  <2>1. Sees(NoCall) /\ NoCall.pc \notin Busy
    BY <1>n, <1>e DEF Sees
  <2>2. QED
    BY <1>3, <1>c, <2>1 DEF FinishSetup
<1>4. ASSUME NEW p \in Procs, Snapshot(p) PROVE Goal
  <2> DEFINE f == [proc[p] EXCEPT !.pc = "list"]
  <2>1. f.pc = "list" /\ f.ids = proc[p].ids /\ f.seen = proc[p].seen
    BY <1>t, CallTyped DEF Calls
  <2>2. Sees(f) /\ f.pc \notin Busy
    BY <2>1, <1>s, <1>e DEF Sees
  <2>3. proc' = [proc EXCEPT ![p] = f] \/ proc' = [proc EXCEPT ![p] = Back(p, "end")]
    BY <1>4, <1>t DEF Snapshot, CallTypes
  <2> HIDE DEF f
  <2>4. QED
    BY <1>c, <1>d, <2>2, <2>3
<1>5. ASSUME NEW p \in Procs, List(p) PROVE Goal
  <2> DEFINE made == {s \in Subs : AtTwitch(s) /\ twitch[s].target = proc[p].target}
             swept == [proc[p] EXCEPT !.pc = "strangers", !.seen = Unseen, !.ids = made]
             seen == [proc[p] EXCEPT !.pc = "clean", !.seen = Seen, !.ids = {}]
  <2>1. \A s \in Subs : AtTwitch(s) => s \in Known
    BY DEF AtTwitch, Known, Statuses, Live
  <2>2. made \subseteq Known /\ \A s \in Subs : Seen[s] # "unseen" => s \in Known
    BY <2>1 DEF Seen
  <2> HIDE DEF made
  <2>3. /\ swept.pc = "strangers" /\ swept.seen = Unseen /\ swept.ids = made
        /\ seen.pc = "clean" /\ seen.seen = Seen /\ seen.ids = {}
    BY <1>t, CallTyped DEF Calls
  <2>4. proc' = [proc EXCEPT ![p] = swept] \/ proc' = [proc EXCEPT ![p] = seen]
    BY <1>5, <1>t DEF List, made, CallTypes
  <2> HIDE DEF swept, seen
  <2>5. Sees(swept) /\ Sees(seen) /\ swept.pc \notin Busy /\ seen.pc \notin Busy
    BY <2>2, <2>3, <1>n, <1>e DEF Sees
  <2>6. QED
    BY <1>c, <2>4, <2>5
<1>6. ASSUME NEW p \in Procs, CleanUp(p) PROVE Goal
  <2> DEFINE back == [Back(p, "end") EXCEPT !.seen = Unseen]
             f == [proc[p] EXCEPT !.pc = "retire", !.ids = ToRetire(p), !.seen = Unseen]
  <2>1. ToRetire(p) \subseteq Known
    BY <1>t, <1>s DEF ToRetire, RecordsCurrent, Sees, StoredTypes, Records
  <2>2. back.pc = "end" /\ back.ids \subseteq proc[p].ids /\ back.seen = Unseen
    <3>1. Back(p, "end") \in Calls /\ Back(p, "end").pc = "end"
          /\ Back(p, "end").ids \subseteq proc[p].ids
      BY <1>t, BackTyped DEF Pcs
    <3>2. QED
      BY <3>1 DEF Calls
  <2>3. f.pc = "retire" /\ f.ids = ToRetire(p) /\ f.seen = Unseen
    BY <1>t, CallTyped DEF Calls
  <2>4. proc' = [proc EXCEPT ![p] = back] \/ proc' = [proc EXCEPT ![p] = f]
    BY <1>6, <1>t DEF CleanUp, CallTypes
  <2> HIDE DEF back, f
  <2>5. Sees(back) /\ Sees(f) /\ back.pc \notin Busy /\ f.pc \notin Busy
    BY <2>1, <2>2, <2>3, <1>n, <1>s, <1>e DEF Sees
  <2>6. QED
    BY <1>c, <2>4, <2>5
<1>7. ASSUME NEW p \in Procs, NEW s \in Subs, Retire(p, s) PROVE Goal
  <2> DEFINE ids == proc[p].ids \ {s}
             f == [proc[p] EXCEPT !.ids = ids]
             g == [proc[p] EXCEPT !.ids = ids, !.id = s, !.pc = "owner"]
  <2>1. proc[p].pc = "retire" /\ s \in Known /\ ids \subseteq Known
    BY <1>7, <1>s DEF Retire, Sees
  <2>2. \/ proc' = [proc EXCEPT ![p] = f] \/ proc' = [proc EXCEPT ![p] = g]
        \/ proc' = [proc EXCEPT ![p] = Back(p, "end")]
    <3>1. CASE ~OwnsSetup(p)
      BY <1>7, <3>1 DEF Retire
    <3>2. CASE OwnsSetup(p) /\ twitch[s].channel \in proc[p].todo
      BY <1>7, <1>t, <3>2, CallTyped DEF Retire, CallTypes, Calls
    <3>3. CASE OwnsSetup(p) /\ twitch[s].channel \notin proc[p].todo
      BY <1>7, <1>t, <3>3, CallTyped DEF Retire, CallTypes, Calls
    <3>4. QED
      BY <3>1, <3>2, <3>3
  <2> HIDE DEF ids
  <2>3. /\ f.pc = "retire" /\ f.ids = ids /\ f.seen = proc[p].seen
        /\ g.pc = "owner" /\ g.ids = ids /\ g.seen = proc[p].seen /\ g.id = s
    BY <1>t, <2>1, CallTyped DEF Calls
  <2> HIDE DEF f, g
  <2>4. Sees(f) /\ Sees(g) /\ f.pc \notin Busy /\ CallMoves(p, g)
    BY <2>1, <2>3, <1>s, <1>e DEF Sees, CallMoves
  <2>5. QED
    BY <1>b, <1>c, <1>d, <2>2, <2>4
<1>8. ASSUME NEW p \in Procs, AssertDelete(p) PROVE Goal
  <2> DEFINE f == [proc[p] EXCEPT !.pc = "obligation"]
  <2>1. /\ f.pc = "obligation" /\ f.ids = proc[p].ids /\ f.seen = proc[p].seen
        /\ f.id = proc[p].id
    BY <1>t, CallTyped DEF Calls
  <2>2. proc[p].id \in Known
    BY <1>8 DEF AssertDelete, CallsKnow
  <2>3. proc' = [proc EXCEPT ![p] = f] \/ proc' = [proc EXCEPT ![p] = Back(p, "end")]
    BY <1>8, <1>t DEF AssertDelete, CallTypes
  <2> HIDE DEF f
  <2>4. Sees(f) /\ CallMoves(p, f)
    BY <2>1, <2>2, <1>s DEF Sees, CallMoves
  <2>5. QED
    BY <1>b, <1>d, <2>3, <2>4
<1>9. ASSUME NEW p \in Procs, NEW c \in Channels, Decide(p, c) PROVE Goal
  <2> DEFINE todo == proc[p].todo \ {c}
             f == [proc[p] EXCEPT !.pc = "intent", !.todo = todo, !.channel = c]
             g == [proc[p] EXCEPT !.todo = todo]
  <2>1. proc[p].pc = "retire" /\ UNCHANGED <<recorded, granted>>
    BY <1>9 DEF Decide, consents
  <2>2. \/ /\ proc' = [proc EXCEPT ![p] = f]
           /\ OwnsSetup(p) /\ Authorized(c) /\ ~Confirmed(c)
        \/ proc' = [proc EXCEPT ![p] = g]
        \/ proc' = [proc EXCEPT ![p] = Back(p, "end")]
    BY <1>9, <1>t DEF Decide, CallTypes
  <2> HIDE DEF todo
  <2>3. /\ g.pc = "retire" /\ g.ids = proc[p].ids /\ g.seen = proc[p].seen
        /\ f.pc = "intent" /\ f.ids = proc[p].ids /\ f.seen = proc[p].seen
        /\ f.channel = c /\ f.revision = proc[p].revision
    BY <1>t, <2>1, CallTyped DEF Calls
  <2> HIDE DEF f, g
  <2>4. Sees(f) /\ Sees(g) /\ g.pc \notin Busy
    BY <2>3, <1>s, <1>e DEF Sees
  <2>5. OwnsSetup(p) /\ Authorized(c) /\ ~Confirmed(c) => CallMoves(p, f)
    BY <2>1, <2>3 DEF CallMoves, Turns, Authorized
  <2>6. QED
    BY <1>b, <1>c, <1>d, <2>2, <2>4, <2>5
<1>10. ASSUME NEW p \in Procs, Intent(p) PROVE Goal
  <2> DEFINE n == life[proc[p].channel].sequence
             f == [proc[p] EXCEPT !.pc = "create", !.intent = n]
  <2>1. \/ proc' = [proc EXCEPT ![p] = f] /\ fresh' = fresh \cup {p}
        \/ proc' = [proc EXCEPT ![p] = Back(p, "retire")]
    BY <1>10, <1>t DEF Intent, CallTypes
  <2>2. proc[p].pc = "intent"
    BY <1>10 DEF Intent
  <2> HIDE DEF n
  <2>3. /\ f.pc = "create" /\ f.ids = proc[p].ids /\ f.seen = proc[p].seen
        /\ f.channel = proc[p].channel /\ f.revision = proc[p].revision
    BY <1>t, CallTyped DEF Calls
  <2> HIDE DEF f
  <2>4. Sees(f) /\ (p \in fresh' => CallMoves(p, f))
    BY <2>2, <2>3, <1>s DEF Sees, CallMoves, Intends
  <2>5. QED
    BY <1>b, <1>d, <2>1, <2>4
<1>11. ASSUME NEW p \in Procs, Create(p) \/ CreateFails(p) PROVE Goal
  <2>1. PICK s \in Subs \cup {None}, outcome \in Outcomes :
          Answer(p, outcome, s) /\ (outcome = "created" => s \in Subs /\ Make(p, s))
    BY <1>11 DEF Create, CreateFails, Outcomes
  <2> DEFINE f == [proc[p] EXCEPT !.pc = "complete", !.outcome = outcome, !.id = s]
  <2>2. proc' = [proc EXCEPT ![p] = f]
    BY <2>1, <1>t DEF Answer, CallTypes
  <2>3. /\ f.pc = "complete" /\ f.ids = proc[p].ids /\ f.seen = proc[p].seen
        /\ f.channel = proc[p].channel /\ f.revision = proc[p].revision
        /\ f.outcome = outcome /\ f.id = s
    BY <1>t, CallTyped DEF Calls
  <2>4. /\ UNCHANGED <<place, consents, recorded, tomb, leases, life>>
        /\ proc[p].pc = "create" /\ \A r \in Procs : r # p => proc'[r] = proc[r]
    BY <1>11, <1>t, <2>2 DEF Create, CreateFails, CallTypes
  <2> HIDE DEF f
  <2>5. Sees(f) /\ CallMoves(p, f)
    BY <2>1, <2>3, <2>4, <1>s DEF Sees, CallMoves, IsAnswered
  <2>6. QED
    BY <1>b, <2>2, <2>5
<1>12. ASSUME NEW p \in Procs, Complete(p) PROVE Goal
  BY <1>12, <1>d DEF Complete
<1>13. ASSUME NEW p \in Procs, Claim(p) PROVE Goal
  <2> DEFINE f == [proc[p] EXCEPT !.pc = "delete"]
  <2>1. /\ f.pc = "delete" /\ f.ids = proc[p].ids /\ f.seen = proc[p].seen
        /\ f.id = proc[p].id
    BY <1>t, CallTyped DEF Calls
  <2>2. \/ proc' = [proc EXCEPT ![p] = f] /\ tomb[proc[p].id].due
        \/ proc' = [proc EXCEPT ![p] = Back(p, AfterDeletion(p))]
    BY <1>13, <1>t DEF Claim, CallTypes
  <2>3. proc[p].pc = "obligation" /\ AfterDeletion(p) \in {"due", "retire"}
    BY <1>13 DEF Claim, AfterDeletion
  <2> HIDE DEF f
  <2>4. Sees(f) /\ (tomb[proc[p].id].due => CallMoves(p, f))
    BY <2>1, <2>3, <1>s DEF Sees, CallMoves
  <2>5. QED
    BY <1>b, <1>d, <2>2, <2>3, <2>4
<1>14. ASSUME NEW p \in Procs, Delete(p) \/ DeleteFails(p) PROVE Goal
  <2>1. PICK outcome \in {"ok", "error"} :
          /\ proc' = [proc EXCEPT ![p].pc = "settle", ![p].outcome = outcome]
          /\ outcome = "ok" => Delete(p)
    BY <1>14 DEF Delete, DeleteFails
  <2> DEFINE f == [proc[p] EXCEPT !.pc = "settle", !.outcome = outcome]
  <2>2. proc' = [proc EXCEPT ![p] = f]
    BY <2>1, <1>t DEF CallTypes
  <2>3. /\ f.pc = "settle" /\ f.ids = proc[p].ids /\ f.seen = proc[p].seen
        /\ f.id = proc[p].id /\ f.outcome = outcome
    BY <1>t, CallTyped DEF Calls
  <2>4. proc[p].pc = "delete" /\ proc[p].id \in Subs
    BY <1>14 DEF Delete, DeleteFails, CallsKnow, Known
  <2>5. outcome = "ok" => twitch'[proc[p].id].status \notin Live
    BY <2>1, <2>4, <1>t DEF Delete, AtTwitch, Gone, Statuses, Live, StoredTypes, TwitchSubs
  <2> HIDE DEF f
  <2>6. Sees(f) /\ CallMoves(p, f)
    BY <2>3, <2>4, <2>5, <1>s DEF Sees, CallMoves
  <2>7. QED
    BY <1>b, <2>2, <2>6
<1>15. ASSUME NEW p \in Procs, Settle(p) PROVE Goal
  BY <1>15, <1>d DEF Settle, AfterDeletion
<1>16. ASSUME NEW p \in Procs, Authorize(p) PROVE Goal
  <2> DEFINE todo == Desired \cap granted
             f == [proc[p] EXCEPT !.pc = "assert", !.todo = todo]
  <2>1. proc' = [proc EXCEPT ![p] = f] \/ Goto(p, "end")
    BY <1>16, <1>t DEF Authorize, CallTypes
  <2> HIDE DEF todo
  <2>2. f.pc = "assert" /\ f.ids = proc[p].ids /\ f.seen = proc[p].seen
    BY <1>t, CallTyped DEF Calls
  <2> HIDE DEF f
  <2>3. Sees(f) /\ f.pc \notin Busy
    BY <2>2, <1>s, <1>e DEF Sees
  <2>4. QED
    BY <1>c, <1>e, <1>g, <2>1, <2>3
<1>17. ASSUME NEW c \in Channels, Repair(c) PROVE Goal
  <2> DEFINE due == proc[Alarm].due \ {c}
             taken == [proc[Alarm] EXCEPT !.pc = "assert", !.due = due, !.todo = {c},
                                          !.repaired = c, !.installation = life[c].sequence]
             passed == [proc[Alarm] EXCEPT !.due = due]
  <2>1. proc' = [proc EXCEPT ![Alarm] = taken] \/ proc' = [proc EXCEPT ![Alarm] = passed]
    BY <1>17, <1>t DEF Repair, CallTypes
  <2>2. proc[Alarm].pc = "repair"
    BY <1>17 DEF Repair
  <2> HIDE DEF due
  <2>3. /\ taken.pc = "assert" /\ taken.ids = proc[Alarm].ids /\ taken.seen = proc[Alarm].seen
        /\ passed.pc = "repair" /\ passed.ids = proc[Alarm].ids
        /\ passed.seen = proc[Alarm].seen
    BY <1>t, <2>2, CallTyped DEF Calls
  <2> HIDE DEF taken, passed
  <2>4. Sees(taken) /\ Sees(passed) /\ taken.pc \notin Busy /\ passed.pc \notin Busy
    BY <2>3, <1>t, <1>s, <1>e DEF Sees
  <2>5. QED
    BY <1>c, <1>t, <2>1, <2>4
<1>18. CASE FinishRepair
  <2> DEFINE f == [NoCall EXCEPT !.pc = "repair", !.kind = "repair", !.due = proc[Alarm].due,
                                 !.revision = proc[Alarm].revision,
                                 !.target = proc[Alarm].target]
  <2>1. f.pc = "repair" /\ f.ids = {} /\ f.seen = Unseen
    BY DEF NoCall
  <2>2. Sees(f) /\ f.pc \notin Busy
    BY <2>1, <1>n, <1>e DEF Sees
  <2>3. proc' = [proc EXCEPT ![Alarm] = f]
    BY <1>18 DEF FinishRepair
  <2> HIDE DEF f
  <2>4. QED
    BY <1>c, <1>t, <2>2, <2>3
<1>19. CASE Work
  <2>1. PICK ids \in SUBSET {s \in Subs : tomb[s].due}, sweeps \in BOOLEAN :
          proc' = [proc EXCEPT ![Alarm] =
                     [NoCall EXCEPT !.pc = IF ids = {} /\ ~sweeps THEN "end" ELSE "token",
                                    !.kind = "sweep", !.ids = ids, !.sweeps = sweeps,
                                    !.todo = {c \in Channels : life[c].creator # NoProc},
                                    !.revision = proc[Alarm].revision,
                                    !.target = proc[Alarm].target]]
    BY <1>19 DEF Work
  <2> DEFINE todo == {c \in Channels : life[c].creator # NoProc}
             f == [NoCall EXCEPT !.pc = IF ids = {} /\ ~sweeps THEN "end" ELSE "token",
                                 !.kind = "sweep", !.ids = ids, !.sweeps = sweeps,
                                 !.todo = todo, !.revision = proc[Alarm].revision,
                                 !.target = proc[Alarm].target]
  <2>2. proc' = [proc EXCEPT ![Alarm] = f]
    BY <2>1
  <2> HIDE DEF todo
  <2>3. f.pc \in {"end", "token"} /\ f.ids = ids /\ f.seen = Unseen
    BY DEF NoCall
  <2> HIDE DEF f
  <2>4. ids \subseteq Known
    BY DEF TombsKnown
  <2>5. Sees(f) /\ f.pc \notin Busy
    BY <2>3, <2>4, <1>n, <1>e DEF Sees
  <2>6. QED
    BY <1>c, <1>t, <2>2, <2>5
<1>20. CASE NextDue
  <2>1. ASSUME NEW s \in proc[Alarm].ids,
               proc' = [proc EXCEPT ![Alarm].pc = "obligation", ![Alarm].id = s,
                                    ![Alarm].ids = @ \ {s}]
        PROVE  Goal
    <3> DEFINE ids == proc[Alarm].ids \ {s}
               f == [proc[Alarm] EXCEPT !.pc = "obligation", !.id = s, !.ids = ids]
    <3>1. ids \subseteq Known /\ s \in Known
      BY <1>t, <1>s DEF Sees
    <3>2. proc' = [proc EXCEPT ![Alarm] = f]
      BY <1>t, <2>1 DEF CallTypes
    <3> HIDE DEF ids
    <3>3. f.pc = "obligation" /\ f.id = s /\ f.ids = ids /\ f.seen = proc[Alarm].seen
      BY <1>t, CallTyped DEF Calls
    <3> HIDE DEF f
    <3>4. Sees(f) /\ CallMoves(Alarm, f)
      BY <1>t, <1>s, <3>1, <3>3 DEF Sees, CallMoves
    <3>5. QED
      BY <1>b, <1>t, <3>2, <3>4
  <2>2. QED
    BY <1>20, <1>g, <1>t, <1>e, <2>1 DEF NextDue
<1>21. CASE SweepOne
  <2>1. PICK s \in proc[Alarm].ids : proc' = [proc EXCEPT ![Alarm].ids = @ \ {s}]
    BY <1>21 DEF SweepOne
  <2> DEFINE ids == proc[Alarm].ids \ {s}
             f == [proc[Alarm] EXCEPT !.ids = ids]
  <2>2. proc' = [proc EXCEPT ![Alarm] = f]
    BY <2>1, <1>t DEF CallTypes
  <2>3. ids \subseteq Known /\ proc[Alarm].pc = "strangers"
    BY <1>21, <1>t, <1>s DEF Sees, SweepOne
  <2> HIDE DEF ids
  <2>4. f.pc = "strangers" /\ f.ids = ids /\ f.seen = proc[Alarm].seen
    BY <1>t, <2>3, CallTyped DEF Calls
  <2> HIDE DEF f
  <2>5. Sees(f) /\ f.pc \notin Busy
    BY <1>t, <1>s, <1>e, <2>3, <2>4 DEF Sees
  <2>6. QED
    BY <1>c, <1>t, <2>2, <2>5
<1>22. CASE FinishSweep
  <2>1. Sees(NoCall) /\ NoCall.pc \notin Busy
    BY <1>n, <1>e DEF Sees
  <2>2. QED
    BY <1>22, <1>c, <1>t, <2>1 DEF FinishSweep
<1>23. CASE AlarmFires
  <2>1. PICK due \in SUBSET Channels :
          proc' = [proc EXCEPT ![Alarm] =
                     [NoCall EXCEPT !.pc = "repair", !.kind = "repair", !.due = due,
                                    !.revision = revision, !.target = config.target]]
    BY <1>23 DEF AlarmFires
  <2> DEFINE f == [NoCall EXCEPT !.pc = "repair", !.kind = "repair", !.due = due,
                                 !.revision = revision, !.target = config.target]
  <2>2. f.pc = "repair" /\ f.ids = {} /\ f.seen = Unseen
    BY DEF NoCall
  <2>3. Sees(f) /\ f.pc \notin Busy
    BY <2>2, <1>n, <1>e DEF Sees
  <2>4. proc' = [proc EXCEPT ![Alarm] = f]
    BY <2>1
  <2> HIDE DEF f
  <2>5. QED
    BY <1>c, <1>t, <2>3, <2>4
<1>24. ASSUME NEW p \in Procs, Fails(p) \/ Skips(p) PROVE Goal
  BY <1>24, <1>d DEF Fails, Skips, AfterDeletion
<1>25. CASE Crash
  <2>1. \A q \in Procs : proc'[q] = NoCall
    BY <1>25 DEF Crash
  <2>2. Sees(NoCall) /\ NoCall.pc \notin Busy
    BY <1>n, <1>e DEF Sees
  <2>3. QED
    BY <2>1, <2>2 DEF Goal, CallMoves
<1>26. ASSUME NEW p \in Procs, Step(p) PROVE Goal
  BY <1>26, <1>1, <1>2, <1>3, <1>4, <1>5, <1>6, <1>7, <1>8, <1>9, <1>10, <1>11, <1>12, <1>13,
     <1>14, <1>15, <1>16 DEF Step
<1>27. CASE AlarmFires \/ AlarmStep
  BY <1>27, <1>17, <1>18, <1>19, <1>20, <1>21, <1>22, <1>23, <1>26, <1>t DEF AlarmStep
<1>28. CASE Environment
  BY <1>28, <1>a, <1>14 DEF Environment, AuthorizeSender, Observe, TwitchMoves, Reclaim, Expires
<1>29. CASE Event
  BY <1>29, <1>a, <1>11, <1>24, <1>25 DEF Event, CompleteOAuth, CompleteEnrollment, Consent, Leave,
     TwitchDrops, Deploy, Expires
<1>30. QED
  BY <1>26, <1>27, <1>28, <1>29 DEF Next, Procs

-----------------------------------------------------------------------------
(***************************************************************************)
(* What a step may do to the record, the lifecycle and the consent of a    *)
(* channel.                                                                *)
(***************************************************************************)
\* The completion of p accepts what it created as the record of c.
Accepts(p, c) ==
  /\ InFlight(p) /\ OwnsSetup(p) /\ c = proc[p].channel
  /\ life[c].kind = "installed" /\ life[c].creator = p
  /\ Matches(c, proc[p].target)
  /\ recorded'[c].id = proc[p].id /\ recorded'[c].target = proc[p].target
  /\ recorded'[c].status = "enabled" \/ life'[c].recovery = life[c].recovery
  /\ proc'[p].pc \notin Busy

\* The same record, whose status gets no better than it was.
RecordKept(c) ==
  /\ recorded'[c].id = recorded[c].id /\ recorded'[c].target = recorded[c].target
  /\ recorded'[c].status \in Live => recorded[c].status \in Live

RecordMoves(c) ==
  \/ recorded'[c].id = None
  \/ RecordKept(c)
  \/ \E p \in Procs : Accepts(p, c)

\* A channel is removed or consented to, and has nothing then; or what was decided
\* on for it goes on.
EpochMoves(c) ==
  \/ recorded'[c].id = None /\ life'[c].creator = NoProc
  \/ /\ life[c].kind = "installed" => life'[c].kind = "installed"
     /\ \A p \in Procs : life'[c].creator = p =>
          life[c].creator = p \/ (proc'[p].pc = "create" /\ p \in fresh')
     /\ \A s \in Known : twitch[s].channel = c /\ s \in fresh => s \in fresh'
     /\ \A p \in Procs : /\ proc[p].channel = c /\ p \in fresh
                        /\ proc'[p].pc = "create"
                        => p \in fresh'

\* What keeps a consent of this revision in force, with its record.
GrantMoves(c) ==
  c \in granted' =>
    /\ life'[c].kind = "installed"
    /\ \/ recorded'[c].id = None /\ life'[c].recovery
       \/ /\ c \in granted /\ (sender => sender')
          /\ config'.target = config.target
          /\ c \in Desired => c \in Desired'
          /\ \/ life'[c].recovery
             \/ /\ RecordKept(c) /\ life'[c].recovery = life[c].recovery
                /\ recorded[c].status = "enabled" => recorded'[c].status = "enabled"
             \/ recorded'[c].id # None /\ recorded'[c].status = "enabled"
             \/ \E p \in Procs : Accepts(p, c)

ChannelMoves(c) == RecordMoves(c) /\ EpochMoves(c) /\ GrantMoves(c)

\* The process of a creation is no subscription.
LEMMA Apart == Procs \cap Subs = {} /\ NoProc \notin Procs /\ None \notin Subs
               /\ NoProc \notin Channels /\ Sender \notin Channels
  BY LifecycleAssumption DEF Procs, Subs, None, Sender

LEMMA LifeTyped ==
  ASSUME StoredTypes, NEW c \in Channels
  PROVE  /\ life[c] \in LifeRecords /\ life[c].recovery \in BOOLEAN
         /\ recorded[c] \in Records /\ recorded[c].id \in Subs \cup {None}
         /\ life[c].kind \in {"none", "installed", "removed"}
  BY DEF StoredTypes, LifeRecords, Records

LEMMA QuietChannels ==
  ASSUME IInv, UNCHANGED <<config, consents, recorded, life, fresh>>
  PROVE  \A c \in Channels : ChannelMoves(c)
<1> TAKE c \in Channels
<1>1. RecordMoves(c)
  BY DEF RecordMoves, RecordKept
<1>2. EpochMoves(c)
  BY DEF EpochMoves
<1>3. GrantMoves(c)
  BY DEF GrantMoves, RecordKept, IInv, GrantsRecorded, consents, Desired
<1>4. QED
  BY <1>1, <1>2, <1>3 DEF ChannelMoves

\* Channels that are removed lose their records, and nothing of the others changes.
LEMMA RemoveChannels ==
  ASSUME IInv, NEW cs, Remove(cs), config' = config, sender' = sender,
         \A c \in Channels : c \in cs => recorded'[c].id = None,
         \A c \in Channels : c \notin cs =>
            /\ RecordKept(c)
            /\ recorded[c].status = "enabled" => recorded'[c].status = "enabled"
  PROVE  \A c \in Channels : ChannelMoves(c)
<1> DEFINE gone == {c \in cs : life[c].kind # "removed"}
<1>1. /\ \A c \in Channels : life'[c] = IF c \in gone THEN Removed(life[c]) ELSE life[c]
      /\ fresh' = fresh \ Of(gone)
      /\ configured' = configured \ gone /\ members' = members \ gone
      /\ granted' = granted \ gone
  BY DEF Remove
<1>2. \A c \in Channels : c \in gone => life'[c].creator = NoProc
  BY <1>1 DEF Removed, NoLife
<1>3. /\ \A s \in Subs : s \in Of(gone) => twitch[s].channel \in gone
      /\ \A p \in Procs : p \in Of(gone) => proc[p].channel \in gone
  BY Apart DEF Of
<1> HIDE DEF gone
<1> TAKE c \in Channels
<1>4. CASE c \in gone
  <2>1. recorded'[c].id = None /\ c \notin granted'
    BY <1>1, <1>4 DEF gone
  <2>2. QED
    BY <1>2, <1>4, <2>1 DEF ChannelMoves, RecordMoves, EpochMoves, GrantMoves
<1>5. CASE c \notin gone
  <2>1. life'[c] = life[c]
    BY <1>1, <1>5
  <2>2. RecordMoves(c)
    BY DEF RecordMoves
  <2>3. EpochMoves(c)
    BY <1>1, <1>3, <1>5, <2>1 DEF EpochMoves, Known
  <2>4. ASSUME c \in granted' PROVE c \notin cs /\ c \in granted /\ life[c].kind = "installed"
    BY <1>1, <1>5, <2>4 DEF IInv, GrantsRecorded, gone
  <2>5. c \in Desired => c \in Desired'
    BY <1>1, <1>5, <2>1 DEF Desired
  <2>6. GrantMoves(c)
    BY <2>1, <2>4, <2>5 DEF GrantMoves
  <2>7. QED
    BY <2>2, <2>3, <2>6 DEF ChannelMoves
<1>6. QED
  BY <1>4, <1>5

LEMMA ResolveChannels ==
  ASSUME IInv, NEW p \in Procs, Resolve(p) PROVE \A c \in Channels : ChannelMoves(c)
<1>1. CASE ~OwnsSetup(p)
  BY <1>1, QuietChannels DEF Resolve, place, consents
<1>2. CASE OwnsSetup(p)
  <2>1. /\ sender' = TRUE /\ UNCHANGED <<config, members, granted, recorded, fresh>>
        /\ configured' = {c \in config.channels : life[c].kind # "removed"}
        /\ \A c \in Channels : life'[c] =
             IF c \in config.channels /\ life[c].kind = "none"
             THEN [Installed(0) EXCEPT !.recovery = Authorized(c)] ELSE life[c]
    BY <1>2 DEF Resolve, place
  <2> TAKE c \in Channels
  <2>2. RecordMoves(c)
    BY <2>1 DEF RecordMoves, RecordKept
  <2>3. CASE c \in config.channels /\ life[c].kind = "none"
    <3>1. life'[c].creator = NoProc
      BY <2>1, <2>3 DEF Installed, NoLife
    <3>2. recorded[c].id = None /\ c \notin granted
      BY <2>3 DEF IInv, RecordsCurrent, GrantsRecorded
    <3>3. QED
      BY <2>1, <2>2, <3>1, <3>2 DEF ChannelMoves, EpochMoves, GrantMoves
  <2>4. CASE life'[c] = life[c]
    <3>1. EpochMoves(c)
      BY <2>1, <2>4 DEF EpochMoves
    <3>2. c \in Desired => c \in Desired'
      BY <2>1, <2>4 DEF Desired, IInv, Types, StoredTypes
    <3>3. GrantMoves(c)
      BY <2>1, <2>4, <3>2 DEF GrantMoves, RecordKept, IInv, GrantsRecorded
    <3>4. QED
      BY <2>2, <3>1, <3>3 DEF ChannelMoves
  <2>5. QED
    BY <2>1, <2>3, <2>4
<1>3. QED
  BY <1>1, <1>2

LEMMA CleanUpChannels ==
  ASSUME IInv, NEW p \in Procs, CleanUp(p) PROVE \A c \in Channels : ChannelMoves(c)
<1>1. CASE ~(OwnsSetup(p) /\ p \notin moved)
  BY <1>1, QuietChannels DEF CleanUp, place, consents
<1>2. CASE OwnsSetup(p) /\ p \notin moved
  <2> DEFINE lost == {c \in Channels : Revokes(p, c)}
  <2>1. /\ Remove(lost) /\ config' = config /\ sender' = sender
        /\ \A c \in Channels : recorded'[c] =
             IF c \in lost THEN NoRecord
             ELSE IF Keeps(p, c) /\ recorded[c].status # "enabled"
                  THEN [recorded[c] EXCEPT !.status = proc[p].seen[recorded[c].id]]
             ELSE recorded[c]
    BY <1>2 DEF CleanUp, place
  <2>2. \A c \in Channels : c \in lost => recorded'[c].id = None
    <3> HIDE DEF lost
    <3>1. \A c \in Channels : c \in lost => recorded'[c] = NoRecord
      BY <2>1
    <3>2. NoRecord.id = None
      BY DEF NoRecord
    <3>3. QED
      BY <3>1, <3>2
  <2>3. ASSUME NEW c \in Channels, c \notin lost
        PROVE  /\ RecordKept(c)
               /\ recorded[c].status = "enabled" => recorded'[c].status = "enabled"
    <3>1. CASE recorded'[c] = recorded[c]
      BY <3>1 DEF RecordKept
    <3>2. CASE Keeps(p, c) /\ recorded[c].status # "enabled"
      <4>1. recorded[c].status \in Live
        BY <3>2 DEF Keeps, Confirmed
      <4>2. recorded'[c].id = recorded[c].id /\ recorded'[c].target = recorded[c].target
        BY <2>1, <2>3, <3>2, LifeTyped DEF IInv, Types, Records
      <4>3. QED
        BY <3>2, <4>1, <4>2 DEF RecordKept
    <3>3. QED
      BY <2>1, <2>3, <3>1, <3>2
  <2> HIDE DEF lost
  <2>4. QED
    BY <2>1, <2>2, <2>3, RemoveChannels
<1>3. QED
  BY <1>1, <1>2

LEMMA RetireChannels ==
  ASSUME IInv, NEW p \in Procs, NEW s \in Subs, Retire(p, s)
  PROVE  \A c \in Channels : ChannelMoves(c)
<1>1. CASE ~OwnsSetup(p)
  BY <1>1, QuietChannels DEF Retire, place, consents
<1>2. CASE OwnsSetup(p)
  <2>1. /\ UNCHANGED <<config, sender, configured, members, granted, fresh>>
        /\ \A c \in Channels :
             /\ recorded[c].id = s =>
                  /\ recorded'[c] = NoRecord
                  /\ \E n \in {s, life[c].negative} :
                       life'[c] = Recovering([life[c] EXCEPT !.negative = n])
             /\ recorded[c].id # s => recorded'[c] = recorded[c] /\ life'[c] = life[c]
    BY <1>2 DEF Retire, place, consents
  <2> TAKE c \in Channels
  <2>2. CASE recorded[c].id = s
    <3>1. PICK n : life'[c] = Recovering([life[c] EXCEPT !.negative = n])
      BY <2>1, <2>2
    <3>2. life[c] \in LifeRecords /\ life[c].kind = "installed"
      BY <2>2, LifeTyped, Apart DEF IInv, Types, RecordsCurrent
    <3>3. life'[c].kind = "installed" /\ life'[c].recovery /\ life'[c].creator = life[c].creator
      <4> DEFINE l == [life[c] EXCEPT !.negative = n]
      <4>1. /\ l.kind = "installed" /\ l.creator = life[c].creator
            /\ l.recovery = life[c].recovery /\ l.recovery \in BOOLEAN
        BY <3>2 DEF LifeRecords
      <4>2. life'[c] = IF l.kind = "installed" /\ ~l.recovery
                       THEN [l EXCEPT !.recovery = TRUE] ELSE l
        BY <3>1 DEF Recovering
      <4>3. /\ [l EXCEPT !.recovery = TRUE].kind = l.kind
            /\ [l EXCEPT !.recovery = TRUE].creator = l.creator
            /\ [l EXCEPT !.recovery = TRUE].recovery = TRUE
        BY <3>2 DEF LifeRecords
      <4> HIDE DEF l
      <4>4. QED
        BY <4>1, <4>2, <4>3
    <3>r. recorded'[c] = NoRecord
      BY <2>1, <2>2
    <3>4. recorded'[c].id = None
      BY <3>r DEF NoRecord
    <3>5. RecordMoves(c) /\ EpochMoves(c)
      BY <2>1, <3>3, <3>4 DEF RecordMoves, EpochMoves
    <3>6. GrantMoves(c)
      BY <2>1, <3>3, <3>4 DEF GrantMoves
    <3>7. QED
      BY <3>5, <3>6 DEF ChannelMoves
  <2>3. CASE recorded[c].id # s
    <3>1. recorded'[c] = recorded[c] /\ life'[c] = life[c]
      BY <2>1, <2>3
    <3>2. RecordMoves(c) /\ EpochMoves(c)
      BY <2>1, <3>1 DEF RecordMoves, RecordKept, EpochMoves
    <3>3. GrantMoves(c)
      BY <2>1, <3>1 DEF GrantMoves, RecordKept, IInv, GrantsRecorded, Desired
    <3>4. QED
      BY <3>2, <3>3 DEF ChannelMoves
  <2>4. QED
    BY <2>2, <2>3
<1>3. QED
  BY <1>1, <1>2

LEMMA IntentChannels ==
  ASSUME IInv, NEW p \in Procs, Intent(p) PROVE \A c \in Channels : ChannelMoves(c)
<1>1. CASE ~MayIntend(p, proc[p].channel)
  BY <1>1, QuietChannels DEF Intent, place, consents
<1>2. CASE MayIntend(p, proc[p].channel)
  <2>1. /\ UNCHANGED <<config, consents, recorded>> /\ fresh' = fresh \cup {p}
        /\ life' = [life EXCEPT ![proc[p].channel].creator = p]
        /\ proc' = [proc EXCEPT ![p].pc = "create",
                                ![p].intent = life[proc[p].channel].sequence]
    BY <1>2 DEF Intent, place
  <2>2. proc'[p].pc = "create"
    BY <2>1, CallTyped DEF IInv, Types, CallTypes, Calls
  <2> TAKE c \in Channels
  <2>3. /\ life'[c].kind = life[c].kind /\ life'[c].recovery = life[c].recovery
        /\ life'[c].creator = life[c].creator \/ life'[c].creator = p
    BY <2>1, LifeTyped DEF IInv, Types, StoredTypes, LifeRecords
  <2>4. RecordMoves(c)
    BY <2>1 DEF RecordMoves, RecordKept
  <2>5. EpochMoves(c)
    BY <2>1, <2>2, <2>3 DEF EpochMoves
  <2>6. c \in Desired => c \in Desired'
    BY <2>1, <2>3 DEF Desired, consents
  <2>7. GrantMoves(c)
    BY <2>1, <2>3, <2>6 DEF GrantMoves, RecordKept, consents, IInv, GrantsRecorded
  <2>8. QED
    BY <2>4, <2>5, <2>7 DEF ChannelMoves
<1>3. QED
  BY <1>1, <1>2

LEMMA CreateChannels ==
  ASSUME IInv, NEW p \in Procs, Create(p) \/ CreateFails(p)
  PROVE  \A c \in Channels : ChannelMoves(c)
<1>1. UNCHANGED <<config, consents, recorded, life>> /\ fresh \subseteq fresh'
  BY DEF Create, CreateFails, Make, place
<1> TAKE c \in Channels
<1>2. RecordMoves(c)
  BY <1>1 DEF RecordMoves, RecordKept
<1>3. EpochMoves(c)
  BY <1>1 DEF EpochMoves
<1>4. GrantMoves(c)
  BY <1>1 DEF GrantMoves, RecordKept, IInv, GrantsRecorded, consents, Desired
<1>5. QED
  BY <1>2, <1>3, <1>4 DEF ChannelMoves

LEMMA CompleteChannels ==
  ASSUME IInv, NEW p \in Procs, Complete(p) PROVE \A c \in Channels : ChannelMoves(c)
<1> DEFINE b == proc[p].channel
           s == proc[p].id
           closed == IF life[b].kind = "installed" /\ life[b].creator = p
                     THEN [life[b] EXCEPT !.creator = NoProc] ELSE life[b]
<1>1. proc[p].pc = "complete" /\ b \in Channels /\ life[b] \in LifeRecords
  BY LifeTyped DEF Complete, IInv, CallsKnow, Types
<1>2. /\ closed.kind = life[b].kind /\ closed.recovery = life[b].recovery
      /\ closed.creator = life[b].creator \/ closed.creator = NoProc
      /\ closed \in LifeRecords
  BY <1>1 DEF LifeRecords
<1>3. proc'[p].pc \notin Busy /\ config' = config /\ sender' = sender
  <2>1. PICK pc \in {"end", "retire"} : proc' = [proc EXCEPT ![p] = Back(p, pc)]
    BY DEF Complete
  <2>2. pc \in Pcs /\ pc \notin Busy
    BY DEF Pcs, Busy
  <2>3. proc'[p] = Back(p, pc)
    BY <2>1 DEF IInv, Types, CallTypes
  <2>4. proc'[p].pc \notin Busy
    BY <2>2, <2>3, BackTyped DEF IInv, Types
  <2>5. QED
    BY <2>4 DEF Complete, place
<1>4. CASE /\ InFlight(p) /\ OwnsCreation(p, b) /\ Matches(b, proc[p].target)
           /\ \E status \in Live :
                /\ recorded' = [recorded EXCEPT ![b] =
                      [id |-> s, status |-> status, target |-> proc[p].target]]
                /\ life' = [life EXCEPT ![b] =
                      [closed EXCEPT !.negative = None, !.recovery = @ /\ status # "enabled"]]
           /\ fresh' = fresh \ {p}
           /\ UNCHANGED <<configured, members, granted>>
  <2>1. PICK status \in Live :
          /\ recorded' = [recorded EXCEPT ![b] =
                [id |-> s, status |-> status, target |-> proc[p].target]]
          /\ life' = [life EXCEPT ![b] =
                [closed EXCEPT !.negative = None, !.recovery = @ /\ status # "enabled"]]
    BY <1>4
  <2>2. /\ recorded'[b].id = s /\ recorded'[b].status = status
        /\ recorded'[b].target = proc[p].target
    BY <1>1, <2>1 DEF IInv, Types, StoredTypes
  <2>3. /\ life'[b].kind = life[b].kind
        /\ life'[b].recovery = (life[b].recovery /\ status # "enabled")
        /\ life'[b].creator = life[b].creator \/ life'[b].creator = NoProc
    <3> DEFINE l == [closed EXCEPT !.negative = None, !.recovery = @ /\ status # "enabled"]
    <3>1. /\ l.kind = closed.kind /\ l.creator = closed.creator
          /\ l.recovery = (closed.recovery /\ status # "enabled")
      <4> HIDE DEF closed
      <4>1. QED
        BY <1>2 DEF LifeRecords
    <3>2. life'[b] = l
      BY <1>1, <2>1 DEF IInv, Types, StoredTypes
    <3> HIDE DEF l, closed
    <3>3. QED
      BY <1>2, <3>1, <3>2
  <2>4. life[b].recovery \in BOOLEAN
    BY <1>1 DEF LifeRecords
  <2>5. Accepts(p, b)
    BY <1>3, <1>4, <2>2, <2>3, <2>4 DEF Accepts, OwnsCreation
  <2>6. \A c \in Channels : c # b => recorded'[c] = recorded[c] /\ life'[c] = life[c]
    BY <2>1 DEF IInv, Types, StoredTypes
  <2>7. \A x \in fresh : x # p => x \in fresh'
    BY <1>4
  <2>8. \A c \in Channels : c \in Desired => c \in Desired'
    BY <1>4, <2>3, <2>6 DEF Desired
  <2> HIDE DEF b, s, closed
  <2> TAKE c \in Channels
  <2>9. RecordMoves(c)
    BY <2>5, <2>6 DEF RecordMoves, RecordKept
  <2>10. EpochMoves(c)
    BY <1>3, <2>3, <2>6, <2>7, Apart DEF EpochMoves, Known, Busy
  <2>11. GrantMoves(c)
    <3>1. CASE c = b
      BY <1>3, <1>4, <2>3, <2>5, <2>8, <3>1 DEF GrantMoves, OwnsCreation
    <3>2. CASE c # b
      BY <1>3, <1>4, <2>6, <2>8, <3>2 DEF GrantMoves, RecordKept, IInv, GrantsRecorded
    <3>3. QED
      BY <3>1, <3>2
  <2>12. QED
    BY <2>9, <2>10, <2>11 DEF ChannelMoves
<1>5. CASE Remove({b}) /\ recorded' = [recorded EXCEPT ![b] = NoRecord]
  <2>1. recorded'[b].id = None
    BY <1>1, <1>5 DEF NoRecord, IInv, Types, StoredTypes
  <2>2. \A c \in Channels : c \notin {b} => recorded'[c] = recorded[c]
    BY <1>5 DEF IInv, Types, StoredTypes
  <2> HIDE DEF b
  <2>3. QED
    BY <1>3, <1>5, <2>1, <2>2, RemoveChannels DEF RecordKept
<1>6. CASE /\ life' = [life EXCEPT ![b] = closed] /\ fresh' = fresh \ {p}
           /\ UNCHANGED <<configured, members, granted, recorded>>
  <2>1. life'[b] = closed /\ \A c \in Channels : c # b => life'[c] = life[c]
    BY <1>1, <1>6 DEF IInv, Types, StoredTypes
  <2> HIDE DEF b, closed
  <2>2. \A c \in Channels :
          /\ life'[c].kind = life[c].kind /\ life'[c].recovery = life[c].recovery
          /\ life'[c].creator = life[c].creator \/ life'[c].creator = NoProc
    BY <1>2, <2>1
  <2> TAKE c \in Channels
  <2>3. RecordMoves(c)
    BY <1>6 DEF RecordMoves, RecordKept
  <2>4. EpochMoves(c)
    BY <1>3, <1>6, <2>2, Apart DEF EpochMoves, Known, Busy
  <2>5. c \in Desired => c \in Desired'
    BY <1>6, <2>2 DEF Desired
  <2>6. GrantMoves(c)
    BY <1>3, <1>6, <2>2, <2>5 DEF GrantMoves, RecordKept, IInv, GrantsRecorded
  <2>7. QED
    BY <2>3, <2>4, <2>6 DEF ChannelMoves
<1>7. QED
  BY <1>1, <1>4, <1>5, <1>6 DEF Complete, InFlight

LEMMA FinishRepairChannels ==
  ASSUME IInv, FinishRepair PROVE \A c \in Channels : ChannelMoves(c)
<1>1. CASE life' = life
  BY <1>1, QuietChannels DEF FinishRepair, place
<1>2. ASSUME NEW b, Ready(b), life' = [life EXCEPT ![b].recovery = FALSE]
      PROVE  \A c \in Channels : ChannelMoves(c)
  <2>1. UNCHANGED <<config, consents, recorded, fresh>>
    BY DEF FinishRepair, place
  <2> TAKE c \in Channels
  <2>2. /\ life'[c].kind = life[c].kind /\ life'[c].creator = life[c].creator
        /\ c # b => life'[c] = life[c]
    BY <1>2, LifeTyped DEF IInv, Types, StoredTypes, LifeRecords
  <2>3. RecordMoves(c) /\ EpochMoves(c)
    BY <2>1, <2>2 DEF RecordMoves, RecordKept, EpochMoves
  <2>4. c = b => recorded[c].id # None /\ recorded[c].status = "enabled"
    BY <1>2 DEF Ready, Confirmed
  <2>5. c \in Desired => c \in Desired'
    BY <2>1, <2>2 DEF Desired, consents
  <2>6. GrantMoves(c)
    BY <2>1, <2>2, <2>4, <2>5 DEF GrantMoves, RecordKept, IInv, GrantsRecorded, consents
  <2>7. QED
    BY <2>3, <2>6 DEF ChannelMoves
<1>3. QED
  BY <1>1, <1>2 DEF FinishRepair

LEMMA ConsentChannels ==
  ASSUME IInv, NEW b \in Channels, Consent(b), members \subseteq members'
  PROVE  \A c \in Channels : ChannelMoves(c)
<1>1. /\ recorded'[b].id = None /\ life'[b] = Consented(life[b])
      /\ \A c \in Channels : c # b => recorded'[c] = recorded[c] /\ life'[c] = life[c]
  BY DEF Consent, NoRecord, IInv, Types, StoredTypes
<1>2. life'[b].kind = "installed" /\ life'[b].recovery /\ life'[b].creator = NoProc
  BY <1>1 DEF Consented, Installed, NoLife
<1>3. /\ granted' = granted \cup {b} /\ fresh' = fresh \ Of({b})
      /\ UNCHANGED <<config, sender, configured>>
  BY DEF Consent, place
<1>4. /\ \A s \in Subs : s \in Of({b}) => twitch[s].channel = b
      /\ \A p \in Procs : p \in Of({b}) => proc[p].channel = b
  BY Apart DEF Of
<1> TAKE c \in Channels
<1>5. CASE c = b
  BY <1>1, <1>2, <1>5 DEF ChannelMoves, RecordMoves, EpochMoves, GrantMoves
<1>6. CASE c # b
  <2>r. RecordMoves(c)
    BY <1>1, <1>6 DEF RecordMoves, RecordKept
  <2>e. /\ \A s \in Known : twitch[s].channel = c /\ s \in fresh => s \in fresh'
        /\ \A p \in Procs : proc[p].channel = c /\ p \in fresh => p \in fresh'
    BY <1>3, <1>4, <1>6 DEF Known
  <2>1. RecordMoves(c) /\ EpochMoves(c)
    BY <1>1, <1>6, <2>r, <2>e DEF EpochMoves
  <2>2. c \in Desired => c \in Desired'
    BY <1>1, <1>3, <1>6 DEF Desired
  <2>3. GrantMoves(c)
    BY <1>1, <1>3, <1>6, <2>2 DEF GrantMoves, RecordKept, IInv, GrantsRecorded
  <2>4. QED
    BY <2>1, <2>3 DEF ChannelMoves
<1>7. QED
  BY <1>5, <1>6

LEMMA ObserveChannels ==
  ASSUME IInv, NEW s \in Subs, NEW status \in Statuses, Observe(s, status)
  PROVE  \A c \in Channels : ChannelMoves(c)
<1> DEFINE b == twitch[s].channel
<1>1. b \in Channels /\ config' = config /\ sender' = sender
  BY ConfigTyped DEF Observe, Matches, Desired, place, IInv, Types, StoredTypes
<1>2. CASE Remove({b}) /\ recorded' = [recorded EXCEPT ![b] = NoRecord]
  <2>1. recorded'[b].id = None
    BY <1>1, <1>2 DEF NoRecord, IInv, Types, StoredTypes
  <2>2. \A c \in Channels : c \notin {b} => recorded'[c] = recorded[c]
    BY <1>2 DEF IInv, Types, StoredTypes
  <2> HIDE DEF b
  <2>3. QED
    BY <1>1, <1>2, <2>1, <2>2, RemoveChannels DEF RecordKept
<1>3. CASE /\ recorded[b].id = s
           /\ \/ /\ status = "failed"
                 /\ recorded' = [recorded EXCEPT ![b] = [recorded[b] EXCEPT !.status = status]]
                 /\ life' = [life EXCEPT ![b] = Recovering(life[b])]
              \/ /\ status # "failed" /\ recorded[b].status \in Live
                 /\ \/ recorded' = [recorded EXCEPT ![b] = recorded[b]]
                    \/ /\ recorded[b].status # "enabled"
                       /\ recorded' = [recorded EXCEPT ![b] =
                                         [recorded[b] EXCEPT !.status = status]]
                 /\ \/ life' = [life EXCEPT ![b] = life[b]]
                    \/ /\ recorded'[b].status = "enabled"
                       /\ life' = [life EXCEPT ![b] = [life[b] EXCEPT !.recovery = FALSE]]
           /\ UNCHANGED <<configured, members, granted, fresh>>
  <2>1. recorded[b] \in Records /\ life[b] \in LifeRecords /\ life[b].kind = "installed"
        /\ recorded[b].id # None /\ life[b].recovery \in BOOLEAN
    BY <1>1, <1>3, LifeTyped, Apart DEF IInv, Types, RecordsCurrent
  <2>2. /\ [recorded[b] EXCEPT !.status = status].id = recorded[b].id
        /\ [recorded[b] EXCEPT !.status = status].target = recorded[b].target
        /\ [recorded[b] EXCEPT !.status = status].status = status
    BY <2>1 DEF Records
  <2>3. /\ [life[b] EXCEPT !.recovery = FALSE].kind = "installed"
        /\ [life[b] EXCEPT !.recovery = FALSE].creator = life[b].creator
        /\ Recovering(life[b]).kind = "installed" /\ Recovering(life[b]).recovery
        /\ Recovering(life[b]).creator = life[b].creator
    BY <2>1 DEF LifeRecords, Recovering
  <2>4. /\ \A c \in Channels : c # b => recorded'[c] = recorded[c] /\ life'[c] = life[c]
        /\ \/ recorded'[b] = recorded[b]
           \/ recorded'[b] = [recorded[b] EXCEPT !.status = status]
        /\ \/ life'[b] = Recovering(life[b]) \/ life'[b] = life[b]
           \/ life'[b] = [life[b] EXCEPT !.recovery = FALSE]
    BY <1>1, <1>3 DEF IInv, Types, StoredTypes
  <2>5. recorded'[b].id = recorded[b].id /\ recorded'[b].target = recorded[b].target
    BY <2>2, <2>4
  <2>6. life'[b].kind = "installed" /\ life'[b].creator = life[b].creator
    BY <2>1, <2>3, <2>4
  <2>7. \/ recorded'[b].status \notin Live /\ life'[b].recovery
        \/ /\ recorded[b].status \in Live
           /\ recorded[b].status = "enabled" => recorded'[b].status = "enabled"
           /\ life'[b].recovery = life[b].recovery \/ recorded'[b].status = "enabled"
    <3>1. CASE /\ status = "failed"
               /\ recorded' = [recorded EXCEPT ![b] = [recorded[b] EXCEPT !.status = status]]
               /\ life' = [life EXCEPT ![b] = Recovering(life[b])]
      <4>1. recorded'[b].status = "failed" /\ life'[b].recovery
        BY <1>1, <2>2, <2>3, <3>1 DEF IInv, Types, StoredTypes
      <4>2. QED
        BY <4>1 DEF Live
    <3>2. CASE status # "failed" /\ recorded[b].status \in Live
      <4>1. recorded[b].status = "enabled" => recorded'[b] = recorded[b]
        BY <1>1, <1>3, <3>2 DEF IInv, Types, StoredTypes
      <4>2. life'[b] = life[b] \/ recorded'[b].status = "enabled"
        BY <1>1, <1>3, <3>2 DEF IInv, Types, StoredTypes
      <4> HIDE DEF b
      <4>3. QED
        BY <3>2, <4>1, <4>2
    <3>3. QED
      BY <1>3, <3>1, <3>2
  <2> HIDE DEF b
  <2> TAKE c \in Channels
  <2>8. RecordMoves(c)
    BY <2>4, <2>5, <2>7 DEF RecordMoves, RecordKept
  <2>9. EpochMoves(c)
    BY <1>3, <2>4, <2>6 DEF EpochMoves
  <2>10. c \in Desired => c \in Desired'
    BY <1>1, <1>3, <2>1, <2>4, <2>6 DEF Desired
  <2>11. GrantMoves(c)
    <3>1. CASE c = b
      BY <1>1, <1>3, <2>1, <2>5, <2>6, <2>7, <2>10, <3>1 DEF GrantMoves, RecordKept
    <3>2. CASE c # b
      BY <1>1, <1>3, <2>4, <2>10, <3>2 DEF GrantMoves, RecordKept, IInv, GrantsRecorded
    <3>3. QED
      BY <3>1, <3>2
  <2>12. QED
    BY <2>8, <2>9, <2>11 DEF ChannelMoves
<1>4. QED
  <2> DEFINE r == recorded[b]
             confirmed == r.id = s /\ Matches(b, r.target)
             loses == status = "lost" /\ (life[b].negative = s \/ confirmed)
             lives1 == status \in Live /\ ~tomb[s].kept /\ confirmed /\ r.status \in Live
             now1 == IF lives1 /\ r.status # "enabled" THEN [r EXCEPT !.status = status] ELSE r
             ready == lives1 /\ Authorized(b) /\ now1.status = "enabled"
             fails == confirmed /\ status = "failed"
  <2>1. \/ Remove({b}) /\ recorded' = [recorded EXCEPT ![b] = NoRecord]
        \/ /\ lives1 \/ fails
           /\ recorded' = [recorded EXCEPT ![b] =
                             IF fails THEN [r EXCEPT !.status = status] ELSE now1]
           /\ life' = [life EXCEPT ![b] = IF fails THEN Recovering(@)
                                          ELSE IF ready THEN [@ EXCEPT !.recovery = FALSE]
                                          ELSE @]
           /\ UNCHANGED <<configured, members, granted, fresh>>
    BY DEF Observe
  <2>2. CASE /\ fails /\ recorded' = [recorded EXCEPT ![b] = [r EXCEPT !.status = status]]
             /\ life' = [life EXCEPT ![b] = Recovering(life[b])]
             /\ UNCHANGED <<configured, members, granted, fresh>>
    BY <1>3, <2>2
  <2>3. CASE /\ lives1 /\ ~fails /\ recorded' = [recorded EXCEPT ![b] = now1]
             /\ life' = [life EXCEPT ![b] = IF ready THEN [life[b] EXCEPT !.recovery = FALSE]
                                            ELSE life[b]]
             /\ UNCHANGED <<configured, members, granted, fresh>>
    <3>1. recorded[b].id = s /\ status # "failed" /\ r.status \in Live
      BY <2>3 DEF Live
    <3>2. recorded'[b] = now1
      BY <1>1, <2>3 DEF IInv, Types, StoredTypes
    <3>3. \/ recorded' = [recorded EXCEPT ![b] = recorded[b]]
          \/ /\ recorded[b].status # "enabled"
             /\ recorded' = [recorded EXCEPT ![b] = [recorded[b] EXCEPT !.status = status]]
      BY <2>3
    <3>4. \/ life' = [life EXCEPT ![b] = life[b]]
          \/ /\ recorded'[b].status = "enabled"
             /\ life' = [life EXCEPT ![b] = [life[b] EXCEPT !.recovery = FALSE]]
      BY <2>3, <3>2
    <3>5. QED
      BY <1>3, <2>3, <3>1, <3>3, <3>4
  <2>4. QED
    BY <1>2, <2>1, <2>2, <2>3

LEMMA ChannelStep == ASSUME IInv, Next PROVE \A c \in Channels : ChannelMoves(c)
<1> DEFINE Goal == \A c \in Channels : ChannelMoves(c)
<1>a. CASE UNCHANGED <<config, consents, recorded, life, fresh>>
  BY <1>a, QuietChannels
<1> SUFFICES Goal
  OBVIOUS
<1>1. ASSUME NEW b \in Channels, CompleteOAuth(b) \/ CompleteEnrollment(b) PROVE Goal
  BY <1>1, ConsentChannels DEF CompleteOAuth, CompleteEnrollment
<1>2. ASSUME NEW b \in Channels, Leave(b) PROVE Goal
  <2>1. Remove({b}) /\ recorded' = [recorded EXCEPT ![b] = NoRecord]
        /\ config' = config /\ sender' = sender
    BY <1>2 DEF Leave, place
  <2>2. recorded'[b].id = None /\ \A c \in Channels : c \notin {b} => recorded'[c] = recorded[c]
    BY <2>1 DEF NoRecord, IInv, Types, StoredTypes
  <2>3. QED
    BY <2>1, <2>2, RemoveChannels DEF RecordKept
<1>3. CASE AuthorizeSender
  <2>1. UNCHANGED <<config, sender, configured, members, recorded, life, fresh>>
        /\ granted' = granted \cup {Sender}
    BY <1>3 DEF AuthorizeSender, place, lives
  <2>2. \A c \in Channels : RecordMoves(c) /\ EpochMoves(c)
    BY <2>1 DEF RecordMoves, RecordKept, EpochMoves
  <2>3. \A c \in Channels : GrantMoves(c)
    BY <2>1, Apart DEF GrantMoves, RecordKept, IInv, GrantsRecorded, Desired
  <2>4. QED
    BY <2>2, <2>3 DEF ChannelMoves
<1>4. CASE Deploy
  <2>1. granted' = {} /\ UNCHANGED <<recorded, life, fresh>>
    BY <1>4 DEF Deploy, lives
  <2>2. QED
    BY <2>1 DEF ChannelMoves, RecordMoves, RecordKept, EpochMoves, GrantMoves
<1>5. CASE Expires(TRUE) \/ Expires(FALSE)
  <2>1. UNCHANGED <<config, consents, recorded, fresh>>
    BY <1>5 DEF Expires, place
  <2>2. \A c \in Channels :
          /\ life'[c].kind = life[c].kind /\ life'[c].recovery = life[c].recovery
          /\ life'[c].creator = life[c].creator \/ life'[c].creator = NoProc
    BY <1>5 DEF Expires, IInv, Types, StoredTypes, LifeRecords
  <2>3. \A c \in Channels : RecordMoves(c) /\ EpochMoves(c)
    BY <2>1, <2>2, Apart DEF RecordMoves, RecordKept, EpochMoves
  <2>4. \A c \in Channels : c \in Desired => c \in Desired'
    BY <2>1, <2>2 DEF Desired, consents
  <2>5. \A c \in Channels : GrantMoves(c)
    BY <2>1, <2>2, <2>4 DEF GrantMoves, RecordKept, IInv, GrantsRecorded, consents
  <2>6. QED
    BY <2>3, <2>5 DEF ChannelMoves
<1> HIDE DEF Goal
<1>6. ASSUME NEW p \in Procs, Step(p) PROVE Goal
  <2>1. CASE StartSetup(p) \/ Authorize(p) \/ FinishSetup(p) \/ Snapshot(p) \/ List(p)
    BY <2>1, <1>a DEF StartSetup, Authorize, FinishSetup, Snapshot, List, place, lives, Goal
  <2>2. CASE AssertDelete(p) \/ Reconciled(p) \/ (\E c \in Channels : Decide(p, c))
             \/ Claim(p) \/ Delete(p) \/ Settle(p)
    BY <2>2, <1>a DEF AssertDelete, Reconciled, Decide, Claim, Delete, Settle, place, lives, Goal
  <2>3. CASE Resolve(p) \/ CleanUp(p) \/ (\E s \in Subs : Retire(p, s)) \/ Intent(p) \/ Create(p)
             \/ Complete(p)
    BY <2>3, ResolveChannels, CleanUpChannels, RetireChannels, IntentChannels, CreateChannels,
       CompleteChannels DEF Goal
  <2>4. QED
    BY <1>6, <2>1, <2>2, <2>3 DEF Step
<1>7. CASE AlarmFires \/ AlarmStep
  <2>1. CASE AlarmFires \/ (\E c \in Channels : Repair(c)) \/ Work \/ NextDue \/ SweepOne
             \/ FinishSweep
    BY <2>1, <1>a DEF AlarmFires, Repair, Work, NextDue, SweepOne, FinishSweep, place, lives, Goal
  <2>2. QED
    BY <1>6, <1>7, <2>1, FinishRepairChannels DEF AlarmStep, Procs, Goal
<1>8. ASSUME NEW s, TwitchMoves(s) \/ TwitchDrops(s) \/ Reclaim(s) PROVE Goal
  BY <1>8, <1>a DEF TwitchMoves, TwitchDrops, Reclaim, place, lives, Goal
<1>9. ASSUME NEW p, DeleteFails(p) \/ Fails(p) \/ Skips(p) PROVE Goal
  BY <1>9, <1>a DEF DeleteFails, Fails, Skips, place, lives, Goal
<1>10. CASE Environment
  BY <1>10, <1>3, <1>5, <1>8, <1>9, ObserveChannels DEF Environment, Goal
<1>11. CASE Crash
  BY <1>11, <1>a DEF Crash, place, lives, Goal
<1>12. CASE Event
  BY <1>12, <1>1, <1>2, <1>4, <1>5, <1>8, <1>9, <1>11, CreateChannels DEF Event, Goal
<1>13. QED
  BY <1>6, <1>7, <1>10, <1>12 DEF Next, Procs

-----------------------------------------------------------------------------
(***************************************************************************)
(* What a step may do to a tombstone.                                      *)
(***************************************************************************)
Done(p, s) == proc[p].pc = "settle" /\ proc[p].outcome = "ok" /\ proc[p].id = s

\* Only what nobody wants any more gets a tombstone, and only an answered deletion
\* ends the obligation to delete.
TombMoves(s) ==
  /\ tomb'[s].due => tomb'[s].kept
  /\ tomb'[s].claim # NoProc => tomb'[s].due
  /\ tomb'[s].kept => tomb[s].kept \/ (s \in Known /\ ~Wanted(s)')
  /\ tomb[s].due => tomb'[s].due \/ \E p \in Procs : Done(p, s)

LEMMA SameTombs ==
  ASSUME TombsKnown, NEW s \in Subs, tomb'[s] = tomb[s]
  PROVE  TombMoves(s)
  BY DEF TombMoves, TombsKnown

LEMMA RetiredMoves ==
  ASSUME Types, TombsKnown, NEW ids, tomb' = Retired(tomb, ids) \/ tomb' = Lost(tomb, ids),
         \A s \in Subs : s \in ids => s \in Known /\ ~Wanted(s)'
  PROVE  \A s \in Subs : TombMoves(s)
<1> TAKE s \in Subs
<1>1. CASE s \in ids
  <2>1. tomb[s] \in Tombs
    BY DEF Types, StoredTypes
  <2>2. tomb'[s].due /\ tomb'[s].kept
    <3>1. CASE tomb' = Retired(tomb, ids)
      BY <1>1, <2>1, <3>1 DEF Retired, Tombs
    <3>2. CASE tomb' = Lost(tomb, ids)
      BY <1>1, <3>2 DEF Lost
    <3>3. QED
      BY <3>1, <3>2
  <2>3. s \in Known /\ ~Wanted(s)'
    BY <1>1
  <2>4. QED
    BY <2>2, <2>3 DEF TombMoves
<1>2. CASE s \notin ids
  <2>1. tomb'[s] = tomb[s]
    BY <1>2 DEF Retired, Lost
  <2>2. QED
    BY <2>1, SameTombs
<1>3. QED
  BY <1>1, <1>2

\* Nobody wants the records of channels that lose them: they are of no other channel
\* and no creation's.
LEMMA RecordsGone ==
  ASSUME IInv, NEW cs,
         \A c \in Channels : c \in cs => recorded'[c].id = None,
         \A c \in Channels : c \notin cs => recorded'[c].id = recorded[c].id,
         \A q \in Procs : InFlight(q)' => InFlight(q) /\ proc'[q].id = proc[q].id,
         NEW c \in Channels, c \in cs, NEW s \in Subs, recorded[c].id = s
  PROVE  s \in Known /\ ~Wanted(s)'
<1>2. s # None
  BY Apart
<1>1. s \in Known /\ twitch[s].channel = c
  BY <1>2 DEF IInv, RecordsCurrent
<1>3. \A d \in Channels : recorded'[d].id # s
  <2> SUFFICES ASSUME NEW d \in Channels, recorded'[d].id = s PROVE FALSE
    OBVIOUS
  <2>1. d \notin cs /\ recorded[d].id = s
    BY <1>2
  <2>2. twitch[s].channel = d
    BY <1>2, <2>1 DEF IInv, RecordsCurrent
  <2>3. QED
    BY <1>1, <2>1, <2>2
<1>4. \A q \in Procs : InFlight(q)' => proc'[q].id # s
  BY DEF IInv, FlightsApart
<1>5. ~Wanted(s)'
  BY <1>3, <1>4 DEF Wanted
<1>6. QED
  BY <1>1, <1>5

LEMMA TombCleanUp == ASSUME IInv, NEW p \in Procs, CleanUp(p) PROVE \A s \in Subs : TombMoves(s)
<1>1. CASE ~(OwnsSetup(p) /\ p \notin moved)
  BY <1>1, SameTombs DEF CleanUp, IInv
<1>2. CASE OwnsSetup(p) /\ p \notin moved
  <2> DEFINE lost == {c \in Channels : Revokes(p, c)}
             ids == {recorded[c].id : c \in lost}
  <2>1. /\ tomb' = Lost(tomb, ids)
        /\ \A c \in Channels : recorded'[c] =
             IF c \in lost THEN NoRecord
             ELSE IF Keeps(p, c) /\ recorded[c].status # "enabled"
                  THEN [recorded[c] EXCEPT !.status = proc[p].seen[recorded[c].id]]
             ELSE recorded[c]
        /\ proc' = [proc EXCEPT ![p].pc = "retire", ![p].ids = ToRetire(p), ![p].seen = Unseen]
    BY <1>2 DEF CleanUp
  <2>2. \A q \in Procs : InFlight(q)' => InFlight(q) /\ proc'[q].id = proc[q].id
    <3>1. proc'[p].pc = "retire"
      BY <2>1, CallTyped DEF IInv, Types, CallTypes, Calls
    <3>2. \A q \in Procs : q # p => proc'[q] = proc[q]
      BY <2>1 DEF IInv, Types, CallTypes
    <3>3. QED
      BY <3>1, <3>2 DEF InFlight
  <2> HIDE DEF lost
  <2>4. \A c \in Channels : c \in lost => recorded'[c].id = None
    <3>1. \A c \in Channels : c \in lost => recorded'[c] = NoRecord
      BY <2>1
    <3>2. QED
      BY <3>1 DEF NoRecord
  <2>5. ASSUME NEW c \in Channels, c \notin lost PROVE recorded'[c].id = recorded[c].id
    <3>1. recorded'[c] \in {recorded[c],
                            [recorded[c] EXCEPT !.status = proc[p].seen[recorded[c].id]]}
      BY <2>1, <2>5
    <3>2. QED
      BY <3>1, LifeTyped DEF IInv, Types, Records
  <2>6. ASSUME NEW c \in Channels, c \in lost, NEW s \in Subs, recorded[c].id = s
        PROVE  s \in Known /\ ~Wanted(s)'
    BY <2>2, <2>4, <2>5, <2>6, RecordsGone
  <2>7. lost \subseteq Channels
    BY DEF lost
  <2>8. \A s \in Subs : s \in ids => s \in Known /\ ~Wanted(s)'
    BY <2>6, <2>7
  <2> HIDE DEF ids
  <2>9. QED
    BY <2>1, <2>8, RetiredMoves DEF IInv
<1>3. QED
  BY <1>1, <1>2

LEMMA TombRetire ==
  ASSUME IInv, NEW p \in Procs, NEW r \in Subs, Retire(p, r)
  PROVE  \A s \in Subs : TombMoves(s)
<1>1. CASE ~OwnsSetup(p)
  BY <1>1, SameTombs DEF Retire, IInv
<1>2. CASE OwnsSetup(p)
  <2>1. /\ tomb' = Retired(tomb, {r}) /\ setupLease' = setupLease /\ revision' = revision
        /\ recorded' = [c \in Channels |-> IF c \in {d \in Channels : recorded[d].id = r}
                                           THEN NoRecord ELSE recorded[c]]
        /\ proc[p].pc = "retire" /\ r \in proc[p].ids
    BY <1>2 DEF Retire, place, leases
  <2>2. r \in Known /\ r # None
    BY <2>1, Apart DEF IInv, CallsKnow
  <2>3. \A c \in Channels : recorded'[c].id # r
    BY <2>1, <2>2 DEF NoRecord
  <2>4. \A q \in Procs : q # p => proc'[q] = proc[q]
    BY DEF Retire, IInv, Types, CallTypes
  <2>5. proc'[p].pc # "complete"
    <3>1. proc'[p].pc \in {"owner", "retire"}
      BY <1>2, <2>1, CallTyped DEF Retire, IInv, Types, CallTypes, Calls
    <3>2. QED
      BY <3>1
  <2>6. \A q \in Procs : q # p => ~OwnsSetup(q)'
    BY <1>2, <2>1, <2>4 DEF OwnsSetup
  <2>7. ~Wanted(r)'
    BY <2>3, <2>5, <2>6 DEF Wanted, InFlight
  <2>8. QED
    BY <2>1, <2>2, <2>7, RetiredMoves DEF IInv
<1>3. QED
  BY <1>1, <1>2

LEMMA TombComplete ==
  ASSUME IInv, NEW p \in Procs, Complete(p)
  PROVE  \A s \in Subs : TombMoves(s)
<1> DEFINE c == proc[p].channel
<1>1. proc[p].pc = "complete" /\ c \in Channels
  BY DEF Complete, IInv, CallsKnow
<1>2. /\ proc'[p].pc # "complete"
      /\ \A q \in Procs : q # p => proc'[q] = proc[q]
  <2>1. PICK pc \in {"end", "retire"} : proc' = [proc EXCEPT ![p] = Back(p, pc)]
    BY DEF Complete
  <2>2. pc \in Pcs /\ pc # "complete"
    BY DEF Pcs
  <2>3. proc'[p] = Back(p, pc) /\ \A q \in Procs : q # p => proc'[q] = proc[q]
    BY <2>1 DEF IInv, Types, CallTypes
  <2>4. QED
    BY <2>2, <2>3, BackTyped DEF IInv, Types
<1>3. \A q \in Procs : InFlight(q)' => q # p /\ InFlight(q) /\ proc'[q].id = proc[q].id
  BY <1>2 DEF InFlight
\* What it created itself is nobody else's.
<1>4. ASSUME NEW s \in Subs, proc[p].outcome = "created", proc[p].id = s,
             \A d \in Channels : recorded'[d].id \in {recorded[d].id, None}
      PROVE  s \in Known /\ ~Wanted(s)'
  <2>1. InFlight(p)
    BY <1>1, <1>4 DEF InFlight
  <2>2. s \in Known /\ s # None /\ \A d \in Channels : recorded'[d].id # s
    BY <1>4, <2>1, Apart DEF IInv, FlightsApart
  <2>3. \A q \in Procs : InFlight(q)' => proc'[q].id # s
    BY <1>3, <1>4, <2>1 DEF IInv, FlightsApart
  <2>4. QED
    BY <2>2, <2>3 DEF Wanted
<1>5. CASE tomb' = tomb
  BY <1>5, SameTombs DEF IInv
<1>6. CASE /\ proc[p].outcome = "created" /\ recorded' = recorded
           /\ tomb' = Retired(tomb, {proc[p].id})
  <2>1. \A s \in Subs : s \in {proc[p].id} => s \in Known /\ ~Wanted(s)'
    BY <1>4, <1>6
  <2>2. QED
    BY <1>6, <2>1, RetiredMoves DEF IInv
<1>7. CASE /\ proc[p].outcome = "created" /\ recorded' = [recorded EXCEPT ![c] = NoRecord]
           /\ tomb' = Retired(tomb, {proc[p].id, recorded[c].id} \ {None})
  <2>1. recorded'[c] = NoRecord /\ \A d \in Channels : d # c => recorded'[d] = recorded[d]
    BY <1>1, <1>7 DEF IInv, Types, StoredTypes
  <2>2. recorded'[c].id = None
    BY <2>1 DEF NoRecord
  <2> HIDE DEF c
  <2>3. ASSUME NEW s \in Subs, recorded[c].id = s PROVE s \in Known /\ ~Wanted(s)'
    <3>1. \A d \in Channels : d \in {c} => recorded'[d].id = None
      BY <2>2
    <3>2. \A d \in Channels : d \notin {c} => recorded'[d].id = recorded[d].id
      BY <2>1
    <3>3. \A q \in Procs : InFlight(q)' => InFlight(q) /\ proc'[q].id = proc[q].id
      BY <1>3
    <3>4. c \in {c} /\ c \in Channels
      BY <1>1
    <3>5. QED
      BY <2>3, <3>1, <3>2, <3>3, <3>4, RecordsGone
  <2>4. \A d \in Channels : recorded'[d].id \in {recorded[d].id, None}
    BY <2>1, <2>2
  <2>5. \A s \in Subs : s \in {proc[p].id, recorded[c].id} \ {None} => s \in Known /\ ~Wanted(s)'
    BY <1>4, <1>7, <2>3, <2>4
  <2>6. QED
    BY <1>7, <2>5, RetiredMoves DEF IInv
<1>8. QED
  BY <1>5, <1>6, <1>7 DEF Complete

\* The sweep spares what is recorded, and what is being created holds its gate.
LEMMA TombSweep == ASSUME IInv, SweepOne PROVE \A s \in Subs : TombMoves(s)
<1>1. CASE tomb' = tomb
  BY <1>1, SameTombs DEF IInv
<1>2. ASSUME NEW s \in proc[Alarm].ids, GateFree(twitch[s].channel, proc[Alarm].revision),
             Stranger(s), tomb' = Retired(tomb, {s})
      PROVE  \A r \in Subs : TombMoves(r)
  <2>1. /\ UNCHANGED <<revision, config, sender, configured, members, granted, recorded, life,
                       setupLease>>
        /\ proc[Alarm].pc = "strangers" /\ Alarm \in Procs
    BY DEF SweepOne, place, consents, leases, lives, Procs
  <2>2. s \in Known /\ s \in Subs
    BY <2>1 DEF IInv, CallsKnow, Known
  <2>3. ~ \E c \in Channels \cap granted : recorded[c].id = s /\ LiveRecord(c)
    <3> SUFFICES ASSUME NEW c \in Channels \cap granted, recorded[c].id = s, LiveRecord(c)
                 PROVE  FALSE
      OBVIOUS
    <3>1. Matches(c, recorded[c].target)
      BY DEF LiveRecord, IInv, GrantsRecorded
    <3>2. Holds(Alarm, s)
      BY <1>2, <3>1 DEF Holds, Stranger, LiveRecord
    <3>3. QED
      BY <1>2, <3>2 DEF Stranger
  <2>4. \A q \in Procs : q # Alarm => proc'[q] = proc[q]
    BY DEF SweepOne, IInv, Types, CallTypes
  <2>5. proc'[Alarm].pc = "strangers"
    BY <2>1, CallTyped DEF SweepOne, IInv, Types, CallTypes, Calls
  <2>6. ASSUME NEW q \in Procs, InFlight(q)', OwnsSetup(q)', proc'[q].id = s PROVE FALSE
    <3>1. proc'[q] = proc[q]
      BY <2>4, <2>5, <2>6 DEF InFlight
    <3>2. InFlight(q) /\ OwnsSetup(q) /\ proc[q].id = s
      BY <2>1, <2>6, <3>1 DEF InFlight, OwnsSetup, Current
    <3>3. twitch[s].channel = proc[q].channel
      BY <3>2 DEF IInv, FlightsApart
    <3>4. proc[q].revision = proc[Alarm].revision
      BY <1>2, <3>2 DEF Stranger, OwnsSetup, Current
    <3>5. QED
      BY <1>2, <3>2, <3>3, <3>4 DEF GateFree, HoldsGate, InFlight
  <2>7. ~Wanted(s)'
    BY <2>1, <2>3, <2>6 DEF Wanted, LiveRecord
  <2>8. QED
    BY <1>2, <2>2, <2>7, RetiredMoves DEF IInv
<1>3. QED
  BY <1>1, <1>2 DEF SweepOne

\* A consent, a leave or a loss of the authorization: the record of the channel is retired.
LEMMA TombRecord ==
  ASSUME IInv, NEW c \in Channels, proc' = proc, recorded' = [recorded EXCEPT ![c] = NoRecord],
         \/ tomb' = Retired(tomb, {recorded[c].id} \ {None})
         \/ tomb' = Lost(tomb, {recorded[c].id})
  PROVE  \A s \in Subs : TombMoves(s)
<1>1. recorded'[c].id = None /\ \A d \in Channels : d # c => recorded'[d] = recorded[d]
  BY DEF NoRecord, IInv, Types, StoredTypes
<1>2. ASSUME NEW s \in Subs, recorded[c].id = s PROVE s \in Known /\ ~Wanted(s)'
  <2>1. \A d \in Channels : d \in {c} => recorded'[d].id = None
    BY <1>1
  <2>2. \A d \in Channels : d \notin {c} => recorded'[d].id = recorded[d].id
    BY <1>1
  <2>3. \A q \in Procs : InFlight(q)' => InFlight(q) /\ proc'[q].id = proc[q].id
    BY DEF InFlight
  <2>4. c \in {c}
    OBVIOUS
  <2>5. QED
    BY <1>2, <2>1, <2>2, <2>3, <2>4, RecordsGone
<1>3. CASE tomb' = Retired(tomb, {recorded[c].id} \ {None})
  BY <1>2, <1>3, RetiredMoves DEF IInv
<1>4. CASE tomb' = Lost(tomb, {recorded[c].id})
  BY <1>2, <1>4, RetiredMoves DEF IInv
<1>5. QED
  BY <1>3, <1>4

LEMMA TombObserve ==
  ASSUME IInv, NEW s \in Subs, NEW status \in Statuses, Observe(s, status)
  PROVE  \A r \in Subs : TombMoves(r)
<1> DEFINE c == twitch[s].channel
<1>1. c \in Channels /\ proc' = proc
  BY ConfigTyped DEF Observe, Matches, Desired, place, IInv, Types, StoredTypes
<1>2. CASE tomb' = tomb
  BY <1>2, SameTombs DEF IInv
<1>3. CASE /\ recorded' = [recorded EXCEPT ![c] = NoRecord]
           /\ tomb' = Retired(tomb, {recorded[c].id} \ {None})
  BY <1>1, <1>3, TombRecord
<1>4. CASE /\ recorded' = [recorded EXCEPT ![c] = NoRecord]
           /\ recorded[c].id = s /\ tomb' = Lost(tomb, {s})
  BY <1>1, <1>4, TombRecord
<1>5. QED
  BY <1>2, <1>3, <1>4 DEF Observe

LEMMA TombClaim ==
  ASSUME IInv, NEW p \in Procs, Claim(p) \/ Settle(p)
  PROVE  \A s \in Subs : TombMoves(s)
<1> DEFINE r == proc[p].id
<1>1. CASE tomb' = tomb
  BY <1>1, SameTombs DEF IInv
<1>2. CASE tomb[r].due /\ tomb' = [tomb EXCEPT ![r].claim = p]
  <2> TAKE s \in Subs
  <2>1. tomb[s] \in Tombs
    BY DEF IInv, Types, StoredTypes
  <2>2. CASE s = r
    <3>1. tomb'[s].due = tomb[s].due /\ tomb'[s].kept = tomb[s].kept
      BY <1>2, <2>1, <2>2 DEF IInv, Types, StoredTypes, Tombs
    <3>2. QED
      BY <1>2, <2>2, <3>1 DEF TombMoves, IInv, TombsKnown
  <2>3. CASE s # r
    <3>1. tomb'[s] = tomb[s]
      BY <1>2, <2>3 DEF IInv, Types, StoredTypes
    <3>2. QED
      BY <3>1, SameTombs DEF IInv
  <2>4. QED
    BY <2>2, <2>3
<1>3. CASE /\ proc[p].pc = "settle" /\ tomb[r].claim = p
           /\ tomb' = [tomb EXCEPT ![r].claim = NoProc, ![r].due = StillDue(proc[p].outcome)]
  <2> TAKE s \in Subs
  <2>1. tomb[s] \in Tombs
    BY DEF IInv, Types, StoredTypes
  <2>2. CASE s = r
    <3>1. /\ tomb'[s].due = StillDue(proc[p].outcome) /\ tomb'[s].kept = tomb[s].kept
          /\ tomb'[s].claim = NoProc
      BY <1>3, <2>1, <2>2 DEF IInv, Types, StoredTypes, Tombs
    <3>2. tomb[s].kept
      BY <1>3, <2>2, Apart DEF IInv, TombsKnown
    <3>3. ~tomb'[s].due => Done(p, s)
      BY <1>3, <2>2, <3>1 DEF Done, StillDue
    <3>4. QED
      BY <3>1, <3>2, <3>3 DEF TombMoves
  <2>3. CASE s # r
    <3>1. tomb'[s] = tomb[s]
      BY <1>3, <2>3 DEF IInv, Types, StoredTypes
    <3>2. QED
      BY <3>1, SameTombs DEF IInv
  <2>4. QED
    BY <2>2, <2>3
<1>4. QED
  BY <1>1, <1>2, <1>3 DEF Claim, Settle

LEMMA TombStep == ASSUME IInv, Next PROVE \A s \in Subs : TombMoves(s)
<1> DEFINE Goal == \A s \in Subs : TombMoves(s)
<1> SUFFICES Goal
  OBVIOUS
<1>a. CASE tomb' = tomb
  BY <1>a, SameTombs DEF IInv
<1>1. ASSUME NEW c \in Channels, CompleteOAuth(c) \/ CompleteEnrollment(c) \/ Leave(c)
      PROVE  Goal
  BY <1>1, TombRecord DEF CompleteOAuth, CompleteEnrollment, Consent, Leave
<1>2. ASSUME NEW r \in Subs, Reclaim(r) PROVE Goal
  <2> TAKE s \in Subs
  <2>1. CASE s = r
    <3>1. tomb'[s] = NoTomb /\ ~tomb[s].due
      BY <1>2, <2>1 DEF Reclaim, Forgettable, IInv, Types, StoredTypes
    <3>2. QED
      BY <3>1 DEF TombMoves, NoTomb
  <2>2. CASE s # r
    <3>1. tomb'[s] = tomb[s]
      BY <1>2, <2>2 DEF Reclaim, IInv, Types, StoredTypes
    <3>2. QED
      BY <3>1, SameTombs DEF IInv
  <2>3. QED
    BY <2>1, <2>2
<1> HIDE DEF Goal
<1>3. ASSUME NEW p \in Procs, Step(p) PROVE Goal
  <2>1. CASE StartSetup(p) \/ Resolve(p) \/ Authorize(p) \/ FinishSetup(p) \/ Snapshot(p) \/ List(p)
    BY <2>1, <1>a DEF StartSetup, Resolve, Authorize, FinishSetup, Snapshot, List, Goal
  <2>2. CASE AssertDelete(p) \/ Reconciled(p) \/ (\E c \in Channels : Decide(p, c))
             \/ Intent(p) \/ Create(p) \/ Delete(p)
    BY <2>2, <1>a DEF AssertDelete, Reconciled, Decide, Intent, Create, Delete, Goal
  <2>3. CASE CleanUp(p) \/ (\E s \in Subs : Retire(p, s)) \/ Complete(p) \/ Claim(p) \/ Settle(p)
    BY <2>3, TombCleanUp, TombRetire, TombComplete, TombClaim DEF Goal
  <2>4. QED
    BY <1>3, <2>1, <2>2, <2>3 DEF Step
<1>4. CASE AlarmFires \/ AlarmStep
  <2>1. CASE AlarmFires \/ (\E c \in Channels : Repair(c)) \/ FinishRepair \/ Work \/ NextDue
             \/ FinishSweep
    BY <2>1, <1>a DEF AlarmFires, Repair, FinishRepair, Work, NextDue, FinishSweep, Goal
  <2>2. QED
    BY <1>3, <1>4, <2>1, TombSweep DEF AlarmStep, Procs, Goal
<1>5. ASSUME NEW s, TwitchMoves(s) \/ TwitchDrops(s) PROVE Goal
  BY <1>5, <1>a DEF TwitchMoves, TwitchDrops, Goal
<1>6. ASSUME NEW p, DeleteFails(p) \/ CreateFails(p) \/ Fails(p) \/ Skips(p) PROVE Goal
  BY <1>6, <1>a DEF DeleteFails, CreateFails, Fails, Skips, Goal
<1>7. CASE AuthorizeSender \/ Deploy \/ Crash \/ Expires(TRUE) \/ Expires(FALSE)
  BY <1>7, <1>a DEF AuthorizeSender, Deploy, Crash, Expires, Goal
<1>8. CASE Environment
  BY <1>8, <1>2, <1>5, <1>6, <1>7, TombObserve DEF Environment, Goal
<1>9. CASE Event
  BY <1>9, <1>1, <1>5, <1>6, <1>7 DEF Event
<1>10. QED
  BY <1>3, <1>4, <1>8, <1>9 DEF Next, Procs

-----------------------------------------------------------------------------
(***************************************************************************)
(* The invariant, from what a step may do.                                 *)
(***************************************************************************)
Moves ==
  /\ TwitchKeeps /\ LeaseKeeps
  /\ \A q \in Procs : CallMoves(q, proc'[q]) /\ Sees(proc'[q])
  /\ \A c \in Channels : ChannelMoves(c)
  /\ \A s \in Subs : TombMoves(s)

LEMMA StepMoves == ASSUME IInv, Next PROVE Moves
  BY TwitchStep, LeaseStep, CallStep, ChannelStep, TombStep DEF Moves, IInv

LEMMA TombsKnownStep == ASSUME IInv, Moves PROVE TombsKnown'
<1> SUFFICES ASSUME NEW s \in Subs
             PROVE  /\ tomb'[s].due => tomb'[s].kept
                    /\ tomb'[s].claim # NoProc => tomb'[s].due
                    /\ tomb'[s].kept => s \in Known'
  BY DEF TombsKnown
<1>1. TombMoves(s)
  BY DEF Moves
<1>2. tomb'[s].kept => s \in Known
  BY <1>1 DEF TombMoves, IInv, TombsKnown
<1>3. QED
  BY <1>1, <1>2 DEF TombMoves, Moves, TwitchKeeps

LEMMA CallsKnowStep == ASSUME IInv, Moves PROVE CallsKnow'
<1> SUFFICES ASSUME NEW q \in Procs
             PROVE  /\ proc'[q].ids \subseteq Known'
                    /\ \A s \in Subs : proc'[q].seen[s] # "unseen" => s \in Known'
                    /\ proc'[q].pc \in {"owner", "obligation", "delete", "settle"}
                         => proc'[q].id \in Known'
                    /\ proc'[q].pc \in {"intent", "create", "complete"}
                         => proc'[q].channel \in Channels
                    /\ proc'[q].pc = "settle" /\ proc'[q].outcome = "ok"
                         => twitch'[proc'[q].id].status \notin Live
  BY DEF CallsKnow
<1>1. CallMoves(q, proc'[q]) /\ Sees(proc'[q])
  BY DEF Moves
<1>2. Known \subseteq Known'
  BY DEF Moves, TwitchKeeps
<1>3. /\ proc'[q].ids \subseteq Known'
      /\ \A s \in Subs : proc'[q].seen[s] # "unseen" => s \in Known'
  BY <1>1, <1>2 DEF Sees
<1>4. proc'[q].pc \in {"owner", "obligation", "delete", "settle"} => proc'[q].id \in Known'
  BY <1>1, <1>2 DEF CallMoves, Busy, Turns, Intends, IsAnswered, IInv, CallsKnow
<1>5. proc'[q].pc \in {"intent", "create", "complete"} => proc'[q].channel \in Channels
  BY <1>1 DEF CallMoves, Busy, Turns, Intends, IsAnswered, IInv, CallsKnow
<1>6. ASSUME proc'[q].pc = "settle", proc'[q].outcome = "ok"
      PROVE  twitch'[proc'[q].id].status \notin Live
  <2>1. CASE proc'[q] = proc[q]
    <3>1. proc[q].id \in Known /\ twitch[proc[q].id].status \notin Live
      BY <1>6, <2>1 DEF IInv, CallsKnow
    <3>2. QED
      BY <2>1, <3>1 DEF Moves, TwitchKeeps
  <2>2. QED
    BY <1>1, <1>6, <2>1 DEF CallMoves, Busy, Turns, Intends, IsAnswered
<1>7. QED
  BY <1>3, <1>4, <1>5, <1>6

\* A creation that a step answered is of a subscription that Twitch just made; any
\* other was answered before.
LEMMA FlightMoves ==
  ASSUME IInv, Moves, NEW q \in Procs, InFlight(q)'
  PROVE  \/ InFlight(q) /\ proc'[q] = proc[q]
         \/ /\ IsAnswered(q, proc'[q]) /\ proc'[q].id \in Subs /\ Make(q, proc'[q].id)
<1>1. CallMoves(q, proc'[q])
  BY DEF Moves
<1>2. proc'[q].pc = "complete" /\ proc'[q].outcome = "created"
  BY DEF InFlight
<1>3. CASE proc'[q] = proc[q]
  BY <1>2, <1>3 DEF InFlight
<1>4. CASE IsAnswered(q, proc'[q])
  BY <1>2, <1>4 DEF IsAnswered
<1>5. QED
  BY <1>1, <1>2, <1>3, <1>4 DEF CallMoves, Busy, Turns, Intends

LEMMA MadeFresh ==
  ASSUME IInv, NEW q, NEW s \in Subs, Make(q, s)
  PROVE  /\ s \notin Known /\ s \in Known' /\ twitch'[s].channel = proc[q].channel
         /\ twitch'[s].status = "pending"
         /\ \A c \in Channels : recorded[c].id # s
         /\ \A r \in Procs : InFlight(r) => proc[r].id # s
<1>1. s \notin Known /\ s \in Known' /\ twitch'[s].channel = proc[q].channel
      /\ twitch'[s].status = "pending"
  <2>1. /\ s \notin Known /\ s \in Known'
        /\ twitch'[s] = [status |-> "pending", channel |-> proc[q].channel,
                         target |-> proc[q].target]
    BY MadeKeeps DEF IInv
  <2>2. QED
    BY <2>1
<1>2. \A c \in Channels : recorded[c].id # s
  BY <1>1, Apart DEF IInv, RecordsCurrent
<1>3. \A r \in Procs : InFlight(r) => proc[r].id # s
  BY <1>1 DEF IInv, FlightsApart
<1>4. QED
  BY <1>1, <1>2, <1>3

LEMMA FlightsApartStep == ASSUME IInv, Moves PROVE FlightsApart'
<1> SUFFICES ASSUME NEW p \in Procs, InFlight(p)'
             PROVE  /\ proc'[p].id \in Known' /\ twitch'[proc'[p].id].channel = proc'[p].channel
                    /\ \A c \in Channels : recorded'[c].id # proc'[p].id
                    /\ \A q \in Procs : q # p /\ InFlight(q)' => proc'[q].id # proc'[p].id
  BY DEF FlightsApart
<1>a. proc'[p].pc = "complete" /\ "complete" \in Busy
  BY DEF InFlight, Busy
<1>1. CASE InFlight(p) /\ proc'[p] = proc[p]
  <2> DEFINE s == proc[p].id
  <2>1. /\ s \in Known /\ s \in Subs /\ twitch[s].channel = proc[p].channel
        /\ \A c \in Channels : recorded[c].id # s
        /\ \A q \in Procs : q # p /\ InFlight(q) => proc[q].id # s
    BY <1>1 DEF IInv, FlightsApart, Known
  <2>2. s \in Known' /\ twitch'[s].channel = proc[p].channel
    BY <2>1 DEF Moves, TwitchKeeps
  <2>3. ASSUME NEW c \in Channels PROVE recorded'[c].id # s
    <3>1. RecordMoves(c)
      BY DEF Moves, ChannelMoves
    <3>2. ASSUME NEW q \in Procs, Accepts(q, c) PROVE recorded'[c].id # s
      BY <1>1, <1>a, <2>1, <3>2 DEF Accepts
    <3>3. QED
      BY <2>1, <3>1, <3>2, Apart DEF RecordMoves, RecordKept
  <2>4. ASSUME NEW q \in Procs, q # p, InFlight(q)' PROVE proc'[q].id # s
    <3>1. CASE InFlight(q) /\ proc'[q] = proc[q]
      BY <2>1, <2>4, <3>1
    <3>2. CASE proc'[q].id \in Subs /\ Make(q, proc'[q].id)
      BY <2>1, <3>2, MadeFresh
    <3>3. QED
      BY <2>4, <3>1, <3>2, FlightMoves
  <2>5. QED
    BY <1>1, <2>2, <2>3, <2>4
<1>2. CASE IsAnswered(p, proc'[p]) /\ proc'[p].id \in Subs /\ Make(p, proc'[p].id)
  <2>1. PICK s \in Subs : s = proc'[p].id
    BY <1>2
  <2>2. /\ s \in Known' /\ twitch'[s].channel = proc[p].channel
        /\ \A c \in Channels : recorded[c].id # s
        /\ \A r \in Procs : InFlight(r) => proc[r].id # s
    BY <1>2, <2>1, MadeFresh
  <2>3. /\ recorded' = recorded /\ proc'[p].channel = proc[p].channel
        /\ \A q \in Procs : q # p => proc'[q] = proc[q]
    BY <1>2 DEF IsAnswered
  <2>4. \A q \in Procs : q # p /\ InFlight(q)' => proc'[q].id # s
    BY <2>2, <2>3 DEF InFlight
  <2>5. QED
    BY <2>1, <2>2, <2>3, <2>4
<1>3. QED
  BY <1>1, <1>2, FlightMoves

LEMMA RecordsCurrentStep == ASSUME IInv, Moves PROVE RecordsCurrent'
<1> SUFFICES ASSUME NEW c \in Channels, recorded'[c].id # None
             PROVE  /\ recorded'[c].id \in Known' /\ twitch'[recorded'[c].id].channel = c
                    /\ life'[c].kind = "installed" /\ recorded'[c].id \in fresh'
  BY DEF RecordsCurrent
<1>1. RecordMoves(c) /\ EpochMoves(c)
  BY DEF Moves, ChannelMoves
<1>2. PICK s : s = recorded'[c].id
  OBVIOUS
<1>3. s \in Known /\ twitch[s].channel = c /\ life[c].kind = "installed" /\ s \in fresh
  <2>1. CASE RecordKept(c)
    BY <1>2, <2>1 DEF RecordKept, IInv, RecordsCurrent
  <2>2. ASSUME NEW p \in Procs, Accepts(p, c)
        PROVE  s \in Known /\ twitch[s].channel = c /\ life[c].kind = "installed" /\ s \in fresh
    BY <1>2, <2>2 DEF Accepts, IInv, FlightsApart, CreatorsCurrent
  <2>3. QED
    BY <1>1, <2>1, <2>2 DEF RecordMoves
<1>4. s \in Known' /\ twitch'[s].channel = c
  BY <1>3 DEF Moves, TwitchKeeps
<1>5. life'[c].kind = "installed" /\ s \in fresh'
  BY <1>1, <1>3 DEF EpochMoves
<1>6. QED
  BY <1>2, <1>4, <1>5

LEMMA CreatorsCurrentStep == ASSUME IInv, Moves PROVE CreatorsCurrent'
<1> SUFFICES ASSUME NEW p \in Procs, life'[proc'[p].channel].creator = p
             PROVE  /\ proc'[p].pc = "create" => p \in fresh'
                    /\ InFlight(p)' => proc'[p].id \in fresh'
  BY DEF CreatorsCurrent
<1> DEFINE c == proc'[p].channel
<1>1. CallMoves(p, proc'[p])
  BY DEF Moves
<1>2. proc'[p].pc \in {"create", "complete"} => c \in Channels
  <2>1. CallsKnow'
    BY CallsKnowStep
  <2>2. QED
    BY <2>1 DEF CallsKnow
<1>3. ASSUME proc'[p].pc \in {"create", "complete"}
      PROVE  /\ EpochMoves(c) /\ life'[c].creator # NoProc
             /\ life[c].creator = p \/ (proc'[p].pc = "create" /\ p \in fresh')
  <2>1. EpochMoves(c)
    BY <1>2, <1>3 DEF Moves, ChannelMoves
  <2>2. life'[c].creator # NoProc
    BY Apart
  <2>3. QED
    BY <2>1, <2>2 DEF EpochMoves
<1>4. ASSUME proc'[p].pc = "create", life[c].creator = p PROVE p \in fresh'
  <2>1. CASE proc'[p] = proc[p]
    <3>1. p \in fresh
      BY <1>4, <2>1 DEF IInv, CreatorsCurrent
    <3>2. QED
      BY <1>3, <1>4, <2>1, <3>1 DEF EpochMoves
  <2>2. QED
    BY <1>1, <1>4, <2>1 DEF CallMoves, Busy, Turns, Intends, IsAnswered
<1>5. ASSUME InFlight(p)', life[c].creator = p PROVE proc'[p].id \in fresh'
  <2>1. CASE InFlight(p) /\ proc'[p] = proc[p]
    <3>1. /\ proc[p].id \in fresh /\ proc[p].id \in Known
          /\ twitch[proc[p].id].channel = proc[p].channel
      BY <1>5, <2>1 DEF IInv, CreatorsCurrent, FlightsApart
    <3>2. EpochMoves(c) /\ life'[c].creator # NoProc
      BY <1>3, <1>5 DEF InFlight
    <3>3. QED
      BY <2>1, <3>1, <3>2 DEF EpochMoves
  <2>2. CASE IsAnswered(p, proc'[p]) /\ Make(p, proc'[p].id)
    <3>1. proc[p].pc = "create" /\ proc[p].channel = c
      BY <2>2 DEF IsAnswered
    <3>2. p \in fresh
      BY <1>5, <3>1 DEF IInv, CreatorsCurrent
    <3>3. QED
      BY <2>2, <3>2 DEF Make
  <2>3. QED
    BY <1>5, <2>1, <2>2, FlightMoves
<1>6. QED
  BY <1>3, <1>4, <1>5 DEF InFlight

LEMMA GrantsRecordedStep == ASSUME IInv, Moves PROVE GrantsRecorded'
<1> SUFFICES ASSUME NEW c \in Channels, c \in granted'
             PROVE  /\ life'[c].kind = "installed"
                    /\ recorded'[c].id # None =>
                         c \in Desired' /\ sender' /\ recorded'[c].target = config'.target
                    /\ ~life'[c].recovery =>
                         recorded'[c].id # None /\ recorded'[c].status = "enabled"
  BY DEF GrantsRecorded, Matches
<1>1. RecordMoves(c) /\ GrantMoves(c)
  BY DEF Moves, ChannelMoves
<1>2. CASE recorded'[c].id = None /\ life'[c].recovery
  BY <1>1, <1>2 DEF GrantMoves
<1>3. CASE /\ c \in granted /\ (sender => sender')
           /\ config'.target = config.target
           /\ c \in Desired => c \in Desired'
           /\ \/ life'[c].recovery
              \/ /\ RecordKept(c) /\ life'[c].recovery = life[c].recovery
                 /\ recorded[c].status = "enabled" => recorded'[c].status = "enabled"
              \/ recorded'[c].id # None /\ recorded'[c].status = "enabled"
              \/ \E p \in Procs : Accepts(p, c)
  <2>1. /\ recorded[c].id # None => Matches(c, recorded[c].target)
        /\ ~life[c].recovery => recorded[c].id # None /\ recorded[c].status = "enabled"
    BY <1>3 DEF IInv, GrantsRecorded
  <2>2. \A target : Matches(c, target) =>
                      c \in Desired' /\ sender' /\ target = config'.target
    BY <1>3 DEF Matches
  <2>3. recorded'[c].id # None => Matches(c, recorded[c].target) \/ \E p \in Procs : Accepts(p, c)
    BY <1>1, <2>1 DEF RecordMoves, RecordKept
  <2>4. recorded'[c].id # None =>
          c \in Desired' /\ sender' /\ recorded'[c].target = config'.target
    BY <1>1, <2>1, <2>2 DEF RecordMoves, RecordKept, Accepts
  <2>5. ASSUME ~life'[c].recovery PROVE recorded'[c].id # None /\ recorded'[c].status = "enabled"
    <3>1. CASE /\ RecordKept(c) /\ life'[c].recovery = life[c].recovery
               /\ recorded[c].status = "enabled" => recorded'[c].status = "enabled"
      BY <2>1, <2>5, <3>1 DEF RecordKept
    <3>2. ASSUME NEW p \in Procs, Accepts(p, c)
          PROVE  recorded'[c].id # None /\ recorded'[c].status = "enabled"
      <4>1. proc[p].id \in Subs /\ recorded'[c].id = proc[p].id
        BY <3>2 DEF Accepts, IInv, FlightsApart, Known
      <4>2. ~LiveRecord(c)
        BY <1>3, <3>2 DEF Accepts, InFlight, IInv, CreatesNeeded
      <4>3. life'[c].recovery = life[c].recovery => recorded'[c].status = "enabled"
        BY <2>1, <2>5, <4>2 DEF LiveRecord, Live
      <4>4. QED
        BY <3>2, <4>1, <4>3, Apart DEF Accepts
    <3>3. QED
      BY <1>3, <2>5, <3>1, <3>2
  <2>6. QED
    BY <1>1, <2>4, <2>5 DEF GrantMoves
<1>4. QED
  BY <1>1, <1>2, <1>3 DEF GrantMoves

\* A call that owns the setup in its creation owned it before.
LEMMA OwnsBefore ==
  ASSUME IInv, Moves, NEW q \in Procs, proc'[q].pc \in {"intent", "create", "complete"},
         OwnsSetup(q)'
  PROVE  OwnsSetup(q) /\ setupLease.owner = q
<1>1. CallMoves(q, proc'[q]) /\ setupLease'.owner = q
  BY DEF Moves, OwnsSetup
<1>2. setupLease' = setupLease /\ revision' = revision
  BY <1>1 DEF Moves, LeaseKeeps
<1>3. proc'[q].revision = proc[q].revision
  BY <1>1 DEF CallMoves, Busy, Turns, Intends, IsAnswered
<1>4. QED
  BY <1>1, <1>2, <1>3 DEF OwnsSetup, Current

\* What is wanted was wanted before, unless it was made just now.
LEMMA WantedMoves ==
  ASSUME IInv, Moves, NEW s \in Subs, Wanted(s)'
  PROVE  \/ s \in Known /\ Wanted(s)
         \/ \E q \in Procs : IsAnswered(q, proc'[q]) /\ Make(q, s)
<1>1. ASSUME NEW c \in Channels, c \in granted', recorded'[c].id = s, LiveRecord(c)'
      PROVE  s \in Known /\ Wanted(s)
  <2>1. RecordMoves(c) /\ GrantMoves(c)
    BY DEF Moves, ChannelMoves
  <2>2. recorded'[c].id # None /\ recorded'[c].status \in Live
    BY <1>1 DEF LiveRecord
  <2>3. c \in granted
    BY <1>1, <2>1, <2>2 DEF GrantMoves
  <2>4. CASE RecordKept(c)
    <3>1. recorded[c].id = s /\ LiveRecord(c)
      BY <1>1, <2>2, <2>4 DEF RecordKept, LiveRecord
    <3>2. s \in Known
      BY <2>2, <1>1, <3>1 DEF IInv, RecordsCurrent
    <3>3. QED
      BY <2>3, <3>1, <3>2 DEF Wanted
  <2>5. ASSUME NEW p \in Procs, Accepts(p, c) PROVE s \in Known /\ Wanted(s)
    BY <1>1, <2>5 DEF Accepts, Wanted, IInv, FlightsApart
  <2>6. QED
    BY <2>1, <2>2, <2>4, <2>5 DEF RecordMoves
<1>2. ASSUME NEW p \in Procs, InFlight(p)', OwnsSetup(p)', proc'[p].id = s
      PROVE  (s \in Known /\ Wanted(s)) \/ (IsAnswered(p, proc'[p]) /\ Make(p, s))
  <2>1. CASE InFlight(p) /\ proc'[p] = proc[p]
    <3>1. OwnsSetup(p)
      BY <1>2, OwnsBefore DEF InFlight
    <3>2. QED
      BY <1>2, <2>1, <3>1 DEF Wanted, IInv, FlightsApart
  <2>2. QED
    BY <1>2, <2>1, FlightMoves
<1>3. QED
  BY <1>1, <1>2 DEF Wanted

LEMMA WantedKeptStep == ASSUME IInv, Moves PROVE WantedKept'
<1> SUFFICES ASSUME NEW s \in Subs, Wanted(s)'
             PROVE  /\ ~tomb'[s].kept /\ twitch'[s].status # "deleted"
                    /\ \A q \in Procs : proc'[q].pc = "delete" => proc'[q].id # s
  BY DEF WantedKept
<1>t. TombMoves(s)
  BY DEF Moves
<1>d. ASSUME NEW q \in Procs, proc'[q].pc = "delete"
      PROVE  \/ proc[q].pc = "delete" /\ proc[q].id = proc'[q].id
             \/ proc'[q].id \in Known /\ tomb[proc'[q].id].due
  <2>1. CallMoves(q, proc'[q])
    BY DEF Moves
  <2>2. QED
    BY <1>d, <2>1 DEF CallMoves, Busy, Turns, Intends, IsAnswered, IInv, CallsKnow
<1>1. CASE s \in Known /\ Wanted(s)
  <2>1. /\ ~tomb[s].kept /\ twitch[s].status # "deleted"
        /\ \A q \in Procs : proc[q].pc = "delete" => proc[q].id # s
    BY <1>1 DEF IInv, WantedKept
  <2>2. ~tomb'[s].kept
    BY <1>t, <2>1 DEF TombMoves
  <2>3. twitch'[s].status # "deleted"
    BY <1>1, <2>1 DEF Moves, TwitchKeeps
  <2>4. ~tomb[s].due
    BY <2>1 DEF IInv, TombsKnown
  <2>5. QED
    BY <1>d, <2>1, <2>2, <2>3, <2>4
<1>2. ASSUME NEW p \in Procs, Make(p, s)
      PROVE  /\ ~tomb'[s].kept /\ twitch'[s].status # "deleted"
             /\ \A q \in Procs : proc'[q].pc = "delete" => proc'[q].id # s
  <2>1. s \notin Known /\ twitch'[s].status = "pending"
    BY <1>2, MadeFresh
  <2>2. ~tomb'[s].kept
    BY <1>t, <2>1 DEF TombMoves, IInv, TombsKnown
  <2>3. \A q \in Procs : proc[q].pc = "delete" => proc[q].id # s
    BY <2>1 DEF IInv, CallsKnow
  <2>4. QED
    BY <1>d, <2>1, <2>2, <2>3
<1>3. QED
  BY <1>1, <1>2, WantedMoves

LEMMA CreatesNeededStep == ASSUME IInv, Moves PROVE CreatesNeeded'
<1> SUFFICES ASSUME NEW p \in Procs, proc'[p].pc \in {"intent", "create", "complete"},
                    OwnsSetup(p)', proc'[p].channel \in granted', LiveRecord(proc[p].channel)'
             PROVE  FALSE
  BY DEF CreatesNeeded
<1> DEFINE c == proc'[p].channel
<1>1. CallMoves(p, proc'[p]) /\ OwnsSetup(p) /\ setupLease.owner = p
  BY OwnsBefore DEF Moves
<1>2. c \in Channels
  <2>1. CallsKnow'
    BY CallsKnowStep
  <2>2. QED
    BY <2>1 DEF CallsKnow
<1>3. RecordMoves(c) /\ GrantMoves(c)
  BY <1>2 DEF Moves, ChannelMoves
<1>4. recorded'[c].id # None /\ recorded'[c].status \in Live
  BY DEF LiveRecord
<1>5. CASE Turns(p, proc'[p])
  <2>1. recorded' = recorded /\ c \in granted /\ ~Confirmed(c) /\ LiveRecord(c)
    BY <1>4, <1>5 DEF Turns, LiveRecord
  <2>2. Matches(c, recorded[c].target)
    BY <1>2, <2>1 DEF LiveRecord, IInv, GrantsRecorded
  <2>3. recorded[c].id \in Subs /\ Wanted(recorded[c].id)
    BY <1>2, <2>1 DEF LiveRecord, Wanted, IInv, RecordsCurrent, Known
  <2>4. ~tomb[recorded[c].id].kept
    BY <2>3 DEF IInv, WantedKept
  <2>5. QED
    BY <2>1, <2>2, <2>4 DEF Confirmed, LiveRecord
<1>6. CASE proc[p].pc \in {"intent", "create", "complete"} /\ proc[p].channel = c
  <2>1. c \in granted
    BY <1>3, <1>4 DEF GrantMoves
  <2>2. ~LiveRecord(c)
    BY <1>1, <1>6, <2>1 DEF IInv, CreatesNeeded
  <2>3. ~RecordKept(c)
    BY <1>4, <2>2 DEF RecordKept, LiveRecord
  <2>4. ASSUME NEW q \in Procs, Accepts(q, c) PROVE FALSE
    <3>1. q = p
      BY <1>1, <2>4 DEF Accepts, OwnsSetup
    <3>2. QED
      BY <2>4, <3>1 DEF Accepts, Busy
  <2>5. QED
    BY <1>3, <1>4, <2>3, <2>4 DEF RecordMoves
<1>7. QED
  BY <1>1, <1>5, <1>6 DEF CallMoves, Busy, Intends, IsAnswered

-----------------------------------------------------------------------------
(***************************************************************************)
(* The invariant.                                                          *)
(***************************************************************************)
LEMMA InitIInv == Init => IInv
<1> SUFFICES ASSUME Init PROVE IInv
  OBVIOUS
<1>1. Types
  BY InitTypes
<1>2. /\ granted = {} /\ \A c \in Channels : recorded[c].id = None
      /\ \A s \in Subs : ~tomb[s].due /\ ~tomb[s].kept /\ tomb[s].claim = NoProc
      /\ \A p \in Procs : proc[p] = NoCall
  BY DEF Init, NoRecord, NoTomb
<1>3. NoCall.pc = "idle" /\ NoCall.ids = {} /\ \A s \in Subs : NoCall.seen[s] = "unseen"
  BY DEF NoCall, Unseen
<1>4. TombsKnown
  BY <1>2 DEF TombsKnown
<1>5. CallsKnow
  BY <1>2, <1>3 DEF CallsKnow
<1>6. FlightsApart /\ CreatorsCurrent /\ CreatesNeeded
  BY <1>2, <1>3 DEF FlightsApart, CreatorsCurrent, CreatesNeeded, InFlight
<1>7. RecordsCurrent /\ GrantsRecorded
  BY <1>2 DEF RecordsCurrent, GrantsRecorded
<1>8. WantedKept
  BY <1>2, <1>3 DEF WantedKept, Wanted, InFlight
<1>9. QED
  BY <1>1, <1>4, <1>5, <1>6, <1>7, <1>8 DEF IInv

LEMMA NextIInv == IInv /\ [Next]_vars => IInv'
<1> SUFFICES ASSUME IInv, [Next]_vars PROVE IInv'
  OBVIOUS
<1>1. CASE UNCHANGED vars
  <2>1. Types'
    BY <1>1 DEF vars, IInv, Types, StoredTypes, Counted, CallTypes
  <2>2. (TombsKnown /\ CallsKnow /\ FlightsApart)'
    BY <1>1 DEF vars, IInv, TombsKnown, CallsKnow, FlightsApart, InFlight, Known
  <2>3. (RecordsCurrent /\ CreatorsCurrent)'
    BY <1>1 DEF vars, IInv, RecordsCurrent, CreatorsCurrent, InFlight, Known
  <2>4. (GrantsRecorded /\ CreatesNeeded)'
    BY <1>1 DEF vars, IInv, GrantsRecorded, Matches, Desired, CreatesNeeded, LiveRecord,
                OwnsSetup, Current
  <2>5. WantedKept'
    BY <1>1 DEF vars, IInv, WantedKept, Wanted, LiveRecord, InFlight, OwnsSetup, Current
  <2>6. QED
    BY <2>1, <2>2, <2>3, <2>4, <2>5 DEF IInv
<1>2. CASE Next
  <2>1. Moves
    BY <1>2, StepMoves
  <2>2. Types'
    BY <1>2, TypesStep DEF IInv
  <2>3. QED
    BY <2>1, <2>2, TombsKnownStep, CallsKnowStep, FlightsApartStep, RecordsCurrentStep,
       CreatorsCurrentStep, GrantsRecordedStep, WantedKeptStep, CreatesNeededStep DEF IInv
<1>3. QED
  BY <1>1, <1>2

\* The invariant holds in every state: what is recorded belongs to the channel as it is
\* now, and nothing that may be wanted is retired or deleted.
THEOREM Invariant == Spec => []IInv
<1>1. QED
  BY InitIInv, NextIInv, PTL DEF Spec

\* A record is of the channel as it is now (observe, complete and consent of account.ts).
THEOREM EpochKept == Spec => []RecordedOfEpoch
<1>1. IInv => RecordedOfEpoch
  BY DEF IInv, RecordsCurrent, RecordedOfEpoch
<1>2. QED
  BY <1>1, Invariant, PTL

\* No channel is ready on a subscription that was deleted for it, in whatever order its
\* deletion, its creation, late notices and deployments come.
THEOREM ReadyAlive == Spec => []ReadyNotDeleted
<1>1. ASSUME IInv, NEW c \in Channels, Ready(c)
      PROVE  AtTwitch(recorded[c].id) \/ twitch[recorded[c].id].status = "vanished"
  <2>1. recorded[c].id # None /\ recorded[c].status \in Live /\ c \in granted
    BY <1>1 DEF Ready, Confirmed, Authorized
  <2>2. PICK s \in Subs : s = recorded[c].id /\ s \in Known
    BY <1>1, <2>1 DEF IInv, RecordsCurrent, Known
  <2>3. Wanted(s)
    BY <2>1, <2>2 DEF Wanted, LiveRecord
  <2>4. twitch[s].status \notin {"unmade", "deleted"}
    BY <1>1, <2>2, <2>3 DEF IInv, WantedKept, Known
  <2>5. twitch[s].status \in Statuses \cup {"unmade", "deleted", "vanished"}
    BY <1>1 DEF IInv, Types, StoredTypes, TwitchSubs
  <2>6. QED
    BY <2>2, <2>4, <2>5 DEF AtTwitch
<1>2. IInv => ReadyNotDeleted
  BY <1>1 DEF ReadyNotDeleted
<1>3. QED
  BY <1>2, Invariant, PTL

\* A desired channel with all its consents is ready, or the alarm will repair it.
THEOREM RecoveryKept == Spec => []RecoveryArmed
<1>1. ASSUME IInv, NEW c \in Channels, c \in Desired, sender, Authorized(c), ~life[c].recovery
      PROVE  Ready(c)
  <2>1. c \in granted
    BY <1>1 DEF Authorized
  <2>2. /\ recorded[c].id # None /\ recorded[c].status = "enabled"
        /\ Matches(c, recorded[c].target)
    BY <1>1, <2>1 DEF IInv, GrantsRecorded
  <2>3. LiveRecord(c)
    BY <2>2 DEF LiveRecord, Live
  <2>4. PICK s \in Subs : s = recorded[c].id
    BY <1>1, <2>2 DEF IInv, RecordsCurrent, Known
  <2>5. ~tomb[s].kept
    BY <1>1, <2>1, <2>3, <2>4 DEF IInv, WantedKept, Wanted
  <2>6. QED
    BY <1>1, <2>2, <2>3, <2>4, <2>5 DEF Ready, Confirmed, LiveRecord
<1>2. IInv => RecoveryArmed
  BY <1>1 DEF RecoveryArmed
<1>3. QED
  BY <1>2, Invariant, PTL

\* An obligation to delete ends only when Twitch no longer lists the subscription as live.
THEOREM ObligationsKept == Spec => ObligationKept
<1>1. ASSUME IInv, [Next]_vars, NEW s \in Subs, tomb[s].due, twitch[s].status \in Live
      PROVE  tomb'[s].due
  <2>1. CASE UNCHANGED vars
    BY <1>1, <2>1 DEF vars
  <2>2. CASE Next
    <3>1. TombMoves(s)
      BY <1>1, <2>2, TombStep
    <3>2. \A p \in Procs : ~Done(p, s)
      BY <1>1 DEF Done, IInv, CallsKnow
    <3>3. QED
      BY <1>1, <3>1, <3>2 DEF TombMoves
  <2>3. QED
    BY <1>1, <2>1, <2>2
<1>2. IInv /\ [Next]_vars => [\A s \in Subs :
        tomb[s].due /\ twitch[s].status \in Live /\ twitch'[s].status \in Live
          => tomb'[s].due]_vars
  BY <1>1
<1>3. Spec => [][\A s \in Subs :
        tomb[s].due /\ twitch[s].status \in Live /\ twitch'[s].status \in Live
          => tomb'[s].due]_vars
  BY <1>2, Invariant, PTL DEF Spec
<1>4. QED
  BY <1>3 DEF ObligationKept

-----------------------------------------------------------------------------
(***************************************************************************)
(* The type invariant: a channel that is not installed has nothing armed.  *)
(***************************************************************************)
\* The life of a channel keeps that it is bare unless it is installed.
BareKeeps(c) ==
  \/ life'[c].kind = "installed"
  \/ ~life'[c].recovery /\ life'[c].negative = None
  \/ /\ life'[c].kind = life[c].kind /\ life'[c].negative = life[c].negative
     /\ life'[c].recovery => life[c].recovery

LEMMA BareRemove ==
  ASSUME NEW cs, Remove(cs) PROVE \A c \in Channels : BareKeeps(c)
<1> TAKE c \in Channels
<1>1. CASE life'[c] = life[c]
  BY <1>1 DEF BareKeeps
<1>2. CASE life'[c] = Removed(life[c])
  BY <1>2 DEF BareKeeps, Removed, NoLife
<1>3. QED
  BY <1>1, <1>2 DEF Remove

LEMMA BareStep == ASSUME IInv, Next PROVE \A c \in Channels : BareKeeps(c)
<1> DEFINE Goal == \A c \in Channels : BareKeeps(c)
<1> SUFFICES Goal
  OBVIOUS
<1>a. CASE life' = life
  BY <1>a DEF BareKeeps
<1>b. ASSUME NEW b, NEW l, life' = [life EXCEPT ![b] = l],
             \/ l.kind = "installed"
             \/ /\ b \in Channels => l.kind = life[b].kind /\ l.negative = life[b].negative
                /\ b \in Channels /\ l.recovery => life[b].recovery
      PROVE  Goal
  <2> TAKE c \in Channels
  <2>1. life'[c] = IF c = b THEN l ELSE life[c]
    BY <1>b DEF IInv, Types, StoredTypes
  <2>2. QED
    BY <1>b, <2>1 DEF BareKeeps
<1>1. ASSUME NEW p \in Procs, Resolve(p) PROVE Goal
  <2>1. CASE OwnsSetup(p)
    <3> TAKE c \in Channels
    <3>1. life'[c] = life[c] \/ life'[c] = [Installed(0) EXCEPT !.recovery = Authorized(c)]
      BY <1>1, <2>1 DEF Resolve
    <3>2. [Installed(0) EXCEPT !.recovery = Authorized(c)].kind = "installed"
      BY DEF Installed, NoLife
    <3>3. QED
      BY <3>1, <3>2 DEF BareKeeps
  <2>2. QED
    BY <1>1, <1>a, <2>1 DEF Resolve
<1>2. ASSUME NEW p \in Procs, NEW s \in Subs, Retire(p, s) PROVE Goal
  <2>1. CASE OwnsSetup(p)
    <3> TAKE c \in Channels
    <3>1. CASE recorded[c].id = s
      <4>1. \E n : life'[c] = Recovering([life[c] EXCEPT !.negative = n])
        BY <1>2, <2>1, <3>1 DEF Retire
      <4>2. life[c] \in LifeRecords /\ life[c].kind = "installed"
        BY <3>1, LifeTyped, Apart DEF IInv, Types, RecordsCurrent
      <4>3. \A n : Recovering([life[c] EXCEPT !.negative = n]).kind = "installed"
        BY <4>2 DEF LifeRecords, Recovering
      <4>4. QED
        BY <4>1, <4>3 DEF BareKeeps
    <3>2. CASE recorded[c].id # s
      <4>1. life'[c] = life[c]
        BY <1>2, <2>1, <3>2 DEF Retire
      <4>2. QED
        BY <4>1 DEF BareKeeps
    <3>3. QED
      BY <3>1, <3>2
  <2>2. QED
    BY <1>2, <1>a, <2>1 DEF Retire
<1>3. ASSUME NEW b, NEW q, life' = [life EXCEPT ![b].creator = q] PROVE Goal
  <2> TAKE c \in Channels
  <2>1. life[c] \in LifeRecords
    BY LifeTyped DEF IInv, Types
  <2>2. life'[c] = life[c] \/ life'[c] = [life[c] EXCEPT !.creator = q]
    BY <1>3 DEF IInv, Types, StoredTypes
  <2>3. QED
    BY <2>1, <2>2 DEF BareKeeps, LifeRecords
<1>4. ASSUME NEW p \in Procs, Complete(p) PROVE Goal
  <2> DEFINE b == proc[p].channel
             s == proc[p].id
             closed == IF life[b].kind = "installed" /\ life[b].creator = p
                       THEN [life[b] EXCEPT !.creator = NoProc] ELSE life[b]
  <2>1. b \in Channels /\ life[b] \in LifeRecords
    BY <1>4, LifeTyped DEF Complete, IInv, CallsKnow, Types
  <2>2. /\ closed \in LifeRecords /\ closed.kind = life[b].kind
        /\ closed.negative = life[b].negative /\ closed.recovery = life[b].recovery
    BY <2>1 DEF LifeRecords
  <2>3. CASE life' = [life EXCEPT ![b] = closed]
    <3> HIDE DEF closed
    <3>1. QED
      BY <1>b, <2>2, <2>3
  <2>4. ASSUME NEW status, life[b].kind = "installed",
               life' = [life EXCEPT ![b] = [closed EXCEPT !.negative = None,
                                              !.recovery = @ /\ status # "enabled"]]
        PROVE  Goal
    <3> DEFINE l == [closed EXCEPT !.negative = None, !.recovery = @ /\ status # "enabled"]
    <3> HIDE DEF closed
    <3>1. l.kind = "installed"
      BY <2>2, <2>4 DEF LifeRecords
    <3>2. life' = [life EXCEPT ![b] = l]
      BY <2>4
    <3> HIDE DEF l
    <3>3. QED
      BY <1>b, <3>1, <3>2
  <2>5. CASE Remove({b})
    BY <2>5, BareRemove
  <2>6. QED
    BY <1>4, <2>3, <2>4, <2>5 DEF Complete, OwnsCreation
<1>5. ASSUME NEW b, life' = [life EXCEPT ![b].recovery = FALSE] PROVE Goal
  <2> TAKE c \in Channels
  <2>1. life[c] \in LifeRecords
    BY LifeTyped DEF IInv, Types
  <2>2. life'[c] = life[c] \/ life'[c] = [life[c] EXCEPT !.recovery = FALSE]
    BY <1>5 DEF IInv, Types, StoredTypes
  <2>3. QED
    BY <2>1, <2>2 DEF BareKeeps, LifeRecords
<1>6. ASSUME NEW c \in Channels, CompleteOAuth(c) \/ CompleteEnrollment(c) PROVE Goal
  <2>1. life' = [life EXCEPT ![c] = Consented(life[c])]
    BY <1>6 DEF CompleteOAuth, CompleteEnrollment, Consent
  <2>2. Consented(life[c]).kind = "installed"
    BY DEF Consented, Installed, NoLife
  <2>3. QED
    BY <1>b, <2>1, <2>2
<1>7. ASSUME NEW s \in Subs, NEW status \in Statuses, Observe(s, status) PROVE Goal
  <2> DEFINE b == twitch[s].channel
  <2>1. b \in Channels
    BY <1>7, ConfigTyped DEF Observe, Matches, Desired, IInv, Types, StoredTypes
  <2>2. CASE Remove({b})
    BY <2>2, BareRemove
  <2>3. CASE /\ recorded[b].id = s
             /\ \/ life' = [life EXCEPT ![b] = Recovering(life[b])]
                \/ life' = [life EXCEPT ![b] = [life[b] EXCEPT !.recovery = FALSE]]
                \/ life' = [life EXCEPT ![b] = life[b]]
    <3>1. life[b] \in LifeRecords /\ life[b].kind = "installed"
      BY <2>1, <2>3, LifeTyped, Apart DEF IInv, Types, RecordsCurrent
    <3>2. /\ Recovering(life[b]).kind = "installed"
          /\ [life[b] EXCEPT !.recovery = FALSE].kind = "installed"
      BY <3>1 DEF LifeRecords, Recovering
    <3> HIDE DEF b
    <3>3. QED
      BY <1>b, <2>3, <3>1, <3>2
  <2>4. QED
    BY <1>7, <2>2, <2>3 DEF Observe
<1>8. ASSUME NEW cs, Remove(cs) PROVE Goal
  BY <1>8, BareRemove
<1> HIDE DEF Goal
<1>9. ASSUME NEW p \in Procs, CleanUp(p) \/ Intent(p) PROVE Goal
  <2>1. CASE CleanUp(p)
    BY <2>1, <1>a, <1>8 DEF CleanUp
  <2>2. CASE Intent(p)
    BY <2>2, <1>a, <1>3 DEF Intent
  <2>3. QED
    BY <1>9, <2>1, <2>2
<1>10. ASSUME NEW p \in Procs, Step(p) PROVE Goal
  <2>1. CASE StartSetup(p) \/ Authorize(p) \/ FinishSetup(p) \/ Snapshot(p) \/ List(p)
    BY <2>1, <1>a DEF StartSetup, Authorize, FinishSetup, Snapshot, List, lives
  <2>2. CASE AssertDelete(p) \/ Reconciled(p) \/ (\E c \in Channels : Decide(p, c))
             \/ Create(p) \/ Claim(p) \/ Delete(p) \/ Settle(p)
    BY <2>2, <1>a DEF AssertDelete, Reconciled, Decide, Create, Claim, Delete, Settle, lives
  <2>3. QED
    BY <1>10, <1>1, <1>2, <1>4, <1>9, <2>1, <2>2 DEF Step
<1>11. CASE AlarmFires \/ AlarmStep
  <2>1. CASE AlarmFires \/ (\E c \in Channels : Repair(c)) \/ Work \/ NextDue \/ SweepOne
             \/ FinishSweep
    BY <2>1, <1>a DEF AlarmFires, Repair, Work, NextDue, SweepOne, FinishSweep, lives
  <2>2. CASE FinishRepair
    BY <2>2, <1>a, <1>5 DEF FinishRepair
  <2>3. QED
    BY <1>10, <1>11, <2>1, <2>2 DEF AlarmStep, Procs
<1>12. ASSUME NEW s, TwitchMoves(s) \/ TwitchDrops(s) \/ Reclaim(s) PROVE Goal
  BY <1>12, <1>a DEF TwitchMoves, TwitchDrops, Reclaim, lives
<1>13. ASSUME NEW p, DeleteFails(p) \/ CreateFails(p) \/ Fails(p) \/ Skips(p) PROVE Goal
  BY <1>13, <1>a DEF DeleteFails, CreateFails, Fails, Skips, lives
<1>14. CASE AuthorizeSender \/ Deploy \/ Crash \/ Expires(TRUE) \/ Expires(FALSE)
  BY <1>14, <1>a, <1>3 DEF AuthorizeSender, Deploy, Crash, Expires, lives
<1>15. CASE Environment
  BY <1>15, <1>7, <1>12, <1>13, <1>14 DEF Environment
<1>16. CASE Event
  BY <1>16, <1>6, <1>8, <1>12, <1>13, <1>14 DEF Event, Leave
<1>17. QED
  BY <1>10, <1>11, <1>15, <1>16 DEF Next, Procs

\* Every part of the stored state and of the calls keeps its type, and a claimed deletion is due.
THEOREM TypesKept == Spec => []TypeOK
<1>1. Init => UnarmedBare
  BY DEF Init, UnarmedBare, NoLife
<1>2. IInv /\ UnarmedBare /\ [Next]_vars => UnarmedBare'
  <2> SUFFICES ASSUME IInv, UnarmedBare, [Next]_vars PROVE UnarmedBare'
    OBVIOUS
  <2>1. CASE UNCHANGED vars
    BY <2>1 DEF vars, UnarmedBare
  <2>2. CASE Next
    BY <2>2, BareStep DEF UnarmedBare, BareKeeps
  <2>3. QED
    BY <2>1, <2>2
<1>3. Spec => [](IInv /\ UnarmedBare)
  BY <1>1, <1>2, Invariant, PTL DEF Spec
<1>4. ASSUME IInv, UnarmedBare PROVE TypeOK
  <2>1. /\ revision \in 1..(MaxEvent + 1) /\ config \in Configs
        /\ sender \in BOOLEAN /\ granted \subseteq Channels \cup {Sender}
        /\ configured \subseteq Channels /\ members \subseteq Channels /\ moved \subseteq Procs
    BY <1>4, ConfigTyped, LifecycleAssumption DEF IInv, Types, StoredTypes, Counted
  <2>2. \A c \in Channels :
          /\ life[c].kind \in {"none", "installed", "removed"}
          /\ life[c].creator \in Procs \cup {NoProc}
          /\ life[c].kind # "installed" => ~life[c].recovery /\ life[c].negative = None
          /\ recorded[c].id \in Subs \cup {None} /\ recorded[c].status \in Statuses
    BY <1>4 DEF IInv, Types, StoredTypes, LifeRecords, Records, UnarmedBare
  <2>3. \A s \in Subs : (tomb[s].due => tomb[s].kept) /\ (tomb[s].claim # NoProc => tomb[s].due)
    BY <1>4 DEF IInv, TombsKnown
  <2>4. \A p \in Procs : proc[p].pc \in Pcs
    BY <1>4, CallTyped DEF IInv, Types
  <2>5. QED
    BY <2>1, <2>2, <2>3, <2>4 DEF TypeOK
<1>5. QED
  BY <1>3, <1>4, PTL

=============================================================================
