------------------------------ MODULE Lifecycle ------------------------------
(***************************************************************************)
(* The chat subscriptions of the Twitch account: setup, repair, cleanup    *)
(* and the observations of the webhook (packages/twitch/src/account.ts,    *)
(* provider.ts), with Twitch beside them.                                  *)
(*                                                                         *)
(* Setup (an operator's call) and the object's alarm reconcile the         *)
(* recorded subscriptions with those Twitch lists: they retire what does   *)
(* not belong, delete it at Twitch and create what is missing.  The alarm  *)
(* then works off due deletions and sweeps strangers.  Consents, removals, *)
(* observations, deployments and losses of the object come in between.     *)
(*                                                                         *)
(* There is no clock: a lease runs out, a due time comes and a tombstone   *)
(* outlives its retention at any step, so the model has every behaviour    *)
(* that the code has with any clock and any policy.                        *)
(***************************************************************************)
EXTENDS Naturals, FiniteSets

CONSTANTS
  Channels,
  Operators, Alarm, NoProc,      \* calls of setup; the alarm; a lost owner
  Configs,                       \* what a deployment may configure: channels, and a target,
                                 \* which stands for its callback and binding
  MaxSub, MaxEvent               \* bounds of the model

ASSUME LifecycleAssumption ==
  /\ IsFiniteSet(Channels)
  /\ Configs \subseteq [channels : SUBSET Channels, target : Nat \ {0}]
  /\ Alarm \notin Operators /\ NoProc \notin Operators \cup {Alarm} \cup Channels
  /\ (Operators \cup {Alarm}) \cap Nat = {} /\ "sender" \notin Channels
  /\ {MaxSub, MaxEvent} \subseteq Nat

VARIABLES
  revision, config, \* the stored revision; the channels and target it is configured with
  sender,           \* is the sender resolved?
  configured, members, \* stored: channels (the configured ones), publicMembers
  granted,          \* stored: grants, of the sender and of channels
  life,             \* stored: lifecycle
  recorded,         \* stored: subscriptions
  tomb,             \* stored: revoked
  setupLease, sweepLease, \* stored; one that ran out is no lease
  sweepArmed,       \* stored: is sweepAt set?
  twitch,           \* the subscriptions Twitch has made
  proc,             \* the running calls
  moved,            \* calls whose lifecycleSnapshot is no longer the stored one
  events,           \* consents, leaves, deployments, failures (but those of deletions),
                    \* losses and leases that ran out so far
  fresh             \* history: creations and subscriptions decided on since the channel was
                    \* last removed or consented to

vars == <<revision, config, sender, configured, members, granted, life, recorded, tomb,
          setupLease, sweepLease, sweepArmed, twitch, proc, moved, events, fresh>>

Procs == Operators \cup {Alarm}
Subs == 1..MaxSub
None == 0
Sender == "sender"

Live == {"enabled", "pending"}
Statuses == Live \cup {"lost", "failed"}  \* lost: authorization revoked or user removed

\* The installation id changes exactly when the sequence does.
NoLife == [kind |-> "none", sequence |-> 0, creator |-> NoProc,
           negative |-> None, recovery |-> FALSE]
Installed(n) == [NoLife EXCEPT !.kind = "installed", !.sequence = n, !.recovery = TRUE]

NoRecord == [id |-> None, status |-> "failed", target |-> 0]
NoTomb == [kept |-> FALSE, authorization |-> FALSE, due |-> FALSE, claim |-> NoProc]
NoLease == [owner |-> NoProc, revision |-> 0]

\* A subscription at Twitch.  One that Twitch gave up has vanished when it is gone,
\* one that it never gave up was deleted.
Unmade == [status |-> "unmade", channel |-> NoProc, target |-> 0]
AtTwitch(s) == twitch[s].status \in Statuses
Unseen == [s \in Subs |-> "unseen"]

NoCall == [pc |-> "idle", revision |-> 0, kind |-> "none", target |-> 0, seen |-> Unseen,
           ids |-> {}, id |-> None, sweeps |-> FALSE, due |-> {}, todo |-> {},
           channel |-> NoProc, repaired |-> NoProc, installation |-> 0,
           intent |-> 0, outcome |-> "none"]

Init ==
  /\ revision = 1
  /\ config \in Configs
  /\ sender = FALSE /\ configured = {} /\ members = {} /\ granted = {}
  /\ life = [c \in Channels |-> NoLife]
  /\ recorded = [c \in Channels |-> NoRecord]
  /\ tomb = [s \in Subs |-> NoTomb]
  /\ setupLease = NoLease /\ sweepLease = NoLease /\ sweepArmed = FALSE
  /\ twitch = [s \in Subs |-> Unmade]
  /\ proc = [p \in Procs |-> NoCall]
  /\ moved = {} /\ events = 0 /\ fresh = {}

\* Groups of variables a step leaves alone.
place == <<revision, config>>
consents == <<sender, configured, members, granted>>
leases == <<setupLease, sweepLease, sweepArmed>>
lives == <<life, moved, fresh>>

-----------------------------------------------------------------------------
(***************************************************************************)
(* What the stored state says.                                             *)
(***************************************************************************)
Current(p) == proc[p].revision = revision

Desired == {c \in configured \cup members : life[c].kind # "removed"}

\* matchesTarget, for a record or an observation of the current revision.
Matches(c, target) == c \in Desired /\ sender /\ target = config.target

\* decideChannel: confirmed and live, and the decision ready.
Confirmed(c) ==
  /\ recorded[c].id # None
  /\ Matches(c, recorded[c].target)
  /\ ~tomb[recorded[c].id].kept
  /\ recorded[c].status \in Live
Authorized(c) == {Sender, c} \subseteq granted
Ready(c) == Confirmed(c) /\ Authorized(c) /\ recorded[c].status = "enabled"

OwnsSetup(p) ==
  /\ Current(p)
  /\ setupLease.owner = p /\ setupLease.revision = proc[p].revision

\* gated: one operation on a channel at a time in an instance; a creation holds
\* the gate from its intent to its outcome.
HoldsGate(q, c) == proc[q].pc \in {"create", "complete"} /\ proc[q].channel = c
GateFree(c, r) == \A q \in Procs : ~(HoldsGate(q, c) /\ proc[q].revision = r)

-----------------------------------------------------------------------------
(***************************************************************************)
(* What the transactions do to the stored state.                           *)
(***************************************************************************)
\* retireId, for a set of ids.
Retired(t, ids) ==
  [s \in Subs |-> IF s \in ids
                  THEN [t[s] EXCEPT !.kept = TRUE, !.due = TRUE, !.claim = NoProc]
                  ELSE t[s]]

\* The tombstones after revokeSubscription for a loss of authorization.
Lost(t, ids) ==
  [s \in Subs |-> IF s \in ids
                  THEN [kept |-> TRUE, authorization |-> TRUE, due |-> TRUE,
                        claim |-> NoProc]
                  ELSE t[s]]

\* recover.  The mutant leaves it to the next consent.
MutantRecovering(l) == l
Recovering(l) ==
  IF l.kind = "installed" /\ ~l.recovery THEN [l EXCEPT !.recovery = TRUE] ELSE l

\* The calls that hold a lifecycleSnapshot: a change of the lifecycle leaves it behind.
Holders == {p \in Procs : proc[p].kind = "sweep" \/ proc[p].pc \in {"list", "clean"}}

\* The creations and subscriptions of channels.
Of(cs) ==
  {s \in Subs : twitch[s].channel \in cs} \cup {p \in Procs : proc[p].channel \in cs}

\* removeChannel, for a set of channels: all but records and tombstones.
Removed(l) == [NoLife EXCEPT !.kind = "removed", !.sequence = l.sequence + 1]

Remove(cs) ==
  LET gone == {c \in cs : life[c].kind # "removed"}
  IN  /\ life' = [c \in Channels |-> IF c \in gone THEN Removed(life[c]) ELSE life[c]]
      /\ fresh' = fresh \ Of(gone)
      /\ configured' = configured \ gone /\ members' = members \ gone
      /\ granted' = granted \ gone
      /\ setupLease' = IF gone = {} THEN setupLease ELSE NoLease
      /\ moved' = IF gone = {} THEN moved ELSE Holders

Goto(p, pc) == proc' = [proc EXCEPT ![p].pc = pc]
\* A call that is done with a creation or a deletion.
Back(p, pc) ==
  [proc[p] EXCEPT !.pc = pc, !.channel = NoProc, !.intent = 0, !.id = None,
                  !.outcome = "none", !.todo = IF pc = "end" THEN {} ELSE @,
                  !.ids = IF pc = "end" THEN {} ELSE @]

-----------------------------------------------------------------------------
(***************************************************************************)
(* setup and repairMemberships: the lease, and what comes before reconcile.*)
(***************************************************************************)
StartSetup(p) ==
  /\ p \in Operators /\ proc[p].pc = "idle"
  /\ setupLease = NoLease
  /\ setupLease' = [owner |-> p, revision |-> revision]
  /\ proc' = [proc EXCEPT ![p] = [NoCall EXCEPT !.pc = "resolve", !.kind = "setup",
                                  !.revision = revision, !.target = config.target]]
  /\ UNCHANGED <<place, consents, recorded, tomb, sweepLease, sweepArmed, twitch,
                 lives>>

\* The sender and the configured channels, accepted while the lease is owned.
Resolve(p) ==
  LET new == {c \in config.channels : life[c].kind = "none"}
  IN  /\ proc[p].pc = "resolve"
      /\ IF OwnsSetup(p)
         THEN
            /\ sender' = TRUE
            /\ configured' = {c \in config.channels : life[c].kind # "removed"}
            /\ life' = [c \in Channels |-> IF c \in new
                          THEN [Installed(0) EXCEPT !.recovery = Authorized(c)]
                          ELSE life[c]]
            /\ moved' = IF new = {} THEN moved ELSE Holders
            /\ Goto(p, "authorize")
         ELSE
            /\ UNCHANGED <<sender, configured, life, moved>>
            /\ Goto(p, "end")
      /\ UNCHANGED <<place, members, granted, recorded, tomb, leases, twitch, fresh>>

\* Either there is something to authorize, and setup returns the URLs, or it
\* reconciles the channels that are pending, ready or in repair.
Authorize(p) ==
  /\ proc[p].pc = "authorize"
  /\ \/ /\ OwnsSetup(p)
        /\ {Sender} \cup config.channels \subseteq granted
        /\ proc' = [proc EXCEPT ![p].pc = "assert", ![p].todo = Desired \cap granted]
     \/ /\ ~OwnsSetup(p) \/ ~({Sender} \cup config.channels \subseteq granted)
        /\ Goto(p, "end")
  /\ UNCHANGED <<place, consents, recorded, tomb, leases, twitch, lives>>

\* The alarm of the object that runs: the channels whose recovery is due.
AlarmFires ==
  /\ proc[Alarm].pc = "idle"
  /\ \/ \E c \in Channels : life[c].recovery
     \/ sweepArmed
     \/ \E s \in Subs : tomb[s].due
  /\ \E due \in SUBSET {c \in Channels : life[c].recovery} :
       proc' = [proc EXCEPT ![Alarm] =
                  [NoCall EXCEPT !.pc = "repair", !.kind = "repair", !.due = due,
                                 !.revision = revision, !.target = config.target]]
  /\ UNCHANGED <<place, consents, recorded, tomb, leases, twitch, lives>>

\* The transaction that claims a repair, for the next due channel.
MayRepair(c) ==
  /\ Current(Alarm)
  /\ life[c].recovery
  /\ setupLease = NoLease
  /\ sender /\ Authorized(c)

Repair(c) ==
  /\ proc[Alarm].pc = "repair" /\ c \in proc[Alarm].due
  /\ IF MayRepair(c)
     THEN /\ setupLease' = [owner |-> Alarm, revision |-> revision]
          /\ proc' = [proc EXCEPT ![Alarm].pc = "assert", ![Alarm].due = @ \ {c},
                                  ![Alarm].todo = {c}, ![Alarm].repaired = c,
                                  ![Alarm].installation = life[c].sequence]
     ELSE /\ proc' = [proc EXCEPT ![Alarm].due = @ \ {c}]
          /\ UNCHANGED setupLease
  /\ UNCHANGED <<place, consents, recorded, tomb, sweepLease, sweepArmed, twitch, lives>>

\* ensuring: after setup, and after a repair, which disarms a channel that is ready.
FinishSetup(p) ==
  /\ proc[p].pc = "end" /\ proc[p].kind = "setup"
  /\ setupLease' = IF Current(p) /\ setupLease.owner = p THEN NoLease ELSE setupLease
  /\ proc' = [proc EXCEPT ![p] = NoCall]
  /\ UNCHANGED <<place, consents, recorded, tomb, sweepLease, sweepArmed, twitch, lives>>

FinishRepair ==
  LET c == proc[Alarm].repaired
      done == /\ life[c].kind = "installed" /\ life[c].sequence = proc[Alarm].installation
              /\ Current(Alarm) /\ Ready(c)
  IN  /\ proc[Alarm].pc = "end" /\ proc[Alarm].kind = "repair"
      /\ setupLease' = IF setupLease.owner = Alarm THEN NoLease ELSE setupLease
      /\ life' = IF done THEN [life EXCEPT ![c].recovery = FALSE] ELSE life
      /\ proc' = [proc EXCEPT ![Alarm] =
                    [NoCall EXCEPT !.pc = "repair", !.kind = "repair",
                                   !.due = proc[Alarm].due,
                                   !.revision = proc[Alarm].revision,
                                   !.target = proc[Alarm].target]]
      /\ UNCHANGED <<place, consents, recorded, tomb, sweepLease, sweepArmed, twitch,
                     moved, fresh>>

-----------------------------------------------------------------------------
(***************************************************************************)
(* reconcile.                                                              *)
(***************************************************************************)
\* assertOwner, and the snapshot that the cleanup compares with.
Snapshot(p) ==
  /\ proc[p].pc = "assert"
  /\ proc' = [proc EXCEPT ![p] = IF OwnsSetup(p) THEN [@ EXCEPT !.pc = "list"]
                                 ELSE Back(p, "end")]
  /\ moved' = moved \ {p}
  /\ UNCHANGED <<place, consents, recorded, tomb, leases, twitch, life, fresh>>

\* provider.list, by a reconciliation or a sweep.
Seen == [s \in Subs |-> IF AtTwitch(s) THEN twitch[s].status ELSE "unseen"]

List(p) ==
  /\ proc[p].pc = "list"
  /\ proc' = [proc EXCEPT ![p] =
                IF @.kind = "sweep"
                THEN [@ EXCEPT !.pc = "strangers", !.seen = Unseen,
                               !.ids = {s \in Subs : /\ AtTwitch(s)
                                                     /\ twitch[s].target = proc[p].target}]
                ELSE [@ EXCEPT !.pc = "clean", !.seen = Seen, !.ids = {}]]
  /\ UNCHANGED <<place, consents, recorded, tomb, setupLease, sweepLease, sweepArmed, twitch,
                 lives>>

\* The listed subscription of a channel's record.
Listed(p, c) == recorded[c].id # None /\ proc[p].seen[recorded[c].id] # "unseen"
Revokes(p, c) ==
  Listed(p, c) /\ Matches(c, recorded[c].target) /\ proc[p].seen[recorded[c].id] = "lost"
Keeps(p, c) == Listed(p, c) /\ Confirmed(c) /\ proc[p].seen[recorded[c].id] \in Live

\* The ids the cleanup hands to retire: listed ones that are due for deletion,
\* recorded or made for the current target, and recorded ones, unless they are kept.
ToRetire(p) ==
  LET held == {recorded[c].id : c \in {d \in Channels : Keeps(p, d)}}
      ours(s) == \/ tomb[s].due
                 \/ \E c \in Channels : recorded[c].id = s
                 \/ twitch[s].target = config.target /\ sender
      listed == {s \in Subs : proc[p].seen[s] # "unseen" /\ ours(s)}
      known == {recorded[c].id : c \in Channels} \ {None}
  IN  (listed \cup known) \ held

\* The cleanup transaction, under the gates of all channels.
CleanUp(p) ==
  LET lost == {c \in Channels : Revokes(p, c)}
      lostIds == {recorded[c].id : c \in lost}
  IN  /\ proc[p].pc = "clean"
      /\ \A c \in Channels : GateFree(c, proc[p].revision)
      /\ IF OwnsSetup(p) /\ p \notin moved
         THEN /\ Remove(lost)
              /\ tomb' = Lost(tomb, lostIds)
              /\ recorded' = [c \in Channels |->
                    IF c \in lost THEN NoRecord
                    ELSE IF Keeps(p, c) /\ recorded[c].status # "enabled"
                         THEN [recorded[c] EXCEPT !.status = proc[p].seen[recorded[c].id]]
                    ELSE recorded[c]]
              /\ proc' = [proc EXCEPT ![p].pc = "retire", ![p].ids = ToRetire(p),
                                      ![p].seen = Unseen]
         ELSE /\ proc' = [proc EXCEPT ![p] = [Back(p, "end") EXCEPT !.seen = Unseen]]
              /\ moved' = moved \ {p}
              /\ UNCHANGED <<consents, life, fresh, setupLease, tomb, recorded>>
      /\ UNCHANGED <<place, sender, sweepLease, sweepArmed, twitch>>

\* retire: the tombstone, and the record goes with it, its identity kept for a
\* late notice that the authorization was revoked.
Retire(p, s) ==
  LET cs == {c \in Channels : recorded[c].id = s}
      noted(c) == life[c].kind = "installed" /\ Matches(c, recorded[c].target)
  IN  /\ proc[p].pc = "retire" /\ s \in proc[p].ids
      /\ GateFree(twitch[s].channel, proc[p].revision)
      /\ IF OwnsSetup(p)
         THEN /\ tomb' = Retired(tomb, {s})
              /\ recorded' = [c \in Channels |-> IF c \in cs THEN NoRecord ELSE recorded[c]]
              /\ life' = [c \in Channels |->
                    IF c \in cs
                    THEN Recovering([life[c] EXCEPT !.negative = IF noted(c) THEN s ELSE @])
                    ELSE life[c]]
              /\ moved' = IF cs = {} THEN moved ELSE Holders
              /\ proc' = [proc EXCEPT ![p].ids = @ \ {s},
                                      ![p].id = IF twitch[s].channel \in proc[p].todo
                                                THEN s ELSE @,
                                      ![p].pc = IF twitch[s].channel \in proc[p].todo
                                                THEN "owner" ELSE @]
         ELSE /\ proc' = [proc EXCEPT ![p] = Back(p, "end")]
              /\ UNCHANGED <<tomb, recorded, life, moved>>
      /\ UNCHANGED <<place, consents, leases, twitch, fresh>>

\* assertOwner, once more before the deletion.
AssertDelete(p) ==
  /\ proc[p].pc = "owner"
  /\ proc' = [proc EXCEPT ![p] = IF OwnsSetup(p) THEN [@ EXCEPT !.pc = "obligation"]
                                 ELSE Back(p, "end")]
  /\ UNCHANGED <<place, consents, recorded, tomb, leases, twitch, lives>>

\* Next channel to create a subscription for, once everything is retired.
Decide(p, c) ==
  /\ proc[p].pc = "retire" /\ proc[p].ids = {}
  /\ c \in proc[p].todo
  /\ proc' = [proc EXCEPT ![p] =
        IF ~OwnsSetup(p) THEN Back(p, "end")
        ELSE IF sender /\ Authorized(c) /\ c \in Desired /\ ~Confirmed(c)
             THEN [proc[p] EXCEPT !.pc = "intent", !.todo = @ \ {c}, !.channel = c]
             ELSE [proc[p] EXCEPT !.todo = @ \ {c}]]
  /\ UNCHANGED <<place, consents, recorded, tomb, leases, twitch, lives>>

Reconciled(p) ==
  /\ proc[p].pc = "retire" /\ proc[p].ids = {} /\ proc[p].todo = {}
  /\ Goto(p, "end")
  /\ UNCHANGED <<place, consents, recorded, tomb, leases, twitch, lives>>

\* The transaction that records the intent to create, under the gate.
MayIntend(p, c) == OwnsSetup(p) /\ life[c].kind = "installed" /\ c \in Desired

Intent(p) ==
  LET c == proc[p].channel
  IN  /\ proc[p].pc = "intent"
      /\ GateFree(c, proc[p].revision)
      /\ \/ /\ MayIntend(p, c)
            /\ life' = [life EXCEPT ![c].creator = p]
            /\ moved' = Holders
            /\ sweepArmed' = TRUE
            /\ fresh' = fresh \cup {p}
            /\ proc' = [proc EXCEPT ![p].pc = "create", ![p].intent = life[c].sequence]
         \/ /\ ~MayIntend(p, c)
            /\ proc' = [proc EXCEPT ![p] = Back(p, "retire")]
            /\ UNCHANGED <<life, moved, sweepArmed, fresh>>
      /\ UNCHANGED <<place, consents, recorded, tomb, setupLease, sweepLease, twitch>>

\* provider.create: Twitch makes the subscription unless it has a live one for
\* the channel and target.
Taken(c, target) == \E s \in Subs : /\ twitch[s].status \in Live
                                    /\ twitch[s].channel = c /\ twitch[s].target = target
Unmades == {s \in Subs : twitch[s].status = "unmade"}
Answer(p, outcome, s) ==
  proc' = [proc EXCEPT ![p].pc = "complete", ![p].outcome = outcome, ![p].id = s]

Make(p, s) ==
  /\ ~Taken(proc[p].channel, proc[p].target)
  /\ s \in Unmades /\ \A r \in Unmades : s <= r
  /\ twitch' = [twitch EXCEPT ![s] = [status |-> "pending", channel |-> proc[p].channel,
                                      target |-> proc[p].target]]
  /\ fresh' = IF p \in fresh THEN fresh \cup {s} ELSE fresh

Create(p) ==
  /\ proc[p].pc = "create"
  /\ \/ \E s \in Subs : Make(p, s) /\ Answer(p, "created", s)
     \/ /\ Taken(proc[p].channel, proc[p].target) /\ Answer(p, "conflict", None)
        /\ UNCHANGED <<twitch, fresh>>
     \/ /\ Unmades = {} /\ Answer(p, "unknown", None)  \* the bound
        /\ UNCHANGED <<twitch, fresh>>
  /\ UNCHANGED <<place, consents, recorded, tomb, leases, life, moved>>

\* The answer is lost, or it is an error.
CreateFails(p) ==
  /\ proc[p].pc = "create"
  /\ \/ \E s \in Subs : Make(p, s) /\ Answer(p, "unknown", None)
     \/ /\ \E outcome \in {"unknown", "error"} : Answer(p, outcome, None)
        /\ UNCHANGED <<twitch, fresh>>
  /\ UNCHANGED <<place, consents, recorded, tomb, leases, life, moved>>

\* The completion transaction.  An intent that ran out counts as a change of the
\* lifecycle still.  The mutant forgets that the intent is gone.
MutantOwnsCreation(p, c) ==
  OwnsSetup(p) /\ life[c].kind = "installed" /\ life[c].sequence = proc[p].intent
OwnsCreation(p, c) ==
  /\ OwnsSetup(p)
  /\ life[c].kind = "installed" /\ life[c].sequence = proc[p].intent
  /\ life[c].creator = p

Complete(p) ==
  LET c == proc[p].channel
      s == proc[p].id
      owns == OwnsCreation(p, c)
      mine == life[c].kind = "installed" /\ life[c].creator = p
      closed == IF mine THEN [life[c] EXCEPT !.creator = NoProc] ELSE life[c]
      made == proc[p].outcome = "created"
      accepts == made /\ owns /\ Matches(c, proc[p].target) /\ ~tomb[s].kept
      removes == made /\ owns /\ Matches(c, proc[p].target) /\ tomb[s].authorization
  IN  /\ proc[p].pc = "complete"
      /\ proc' = [proc EXCEPT ![p] = Back(p, IF proc[p].outcome = "error" \/ ~owns
                                            THEN "end" ELSE "retire")]
      /\ \/ /\ accepts
            /\ \E status \in Live :
                 /\ status = "enabled" => twitch[s].status # "pending"
                 /\ recorded' = [recorded EXCEPT ![c] =
                       [id |-> s, status |-> status, target |-> proc[p].target]]
                 /\ life' = [life EXCEPT ![c] =
                       [closed EXCEPT !.negative = None,
                                      !.recovery = @ /\ status # "enabled"]]
            /\ moved' = Holders
            /\ fresh' = fresh \ {p}
            /\ UNCHANGED <<configured, members, granted, setupLease, tomb>>
         \/ /\ removes
            /\ Remove({c})
            /\ recorded' = [recorded EXCEPT ![c] = NoRecord]
            /\ tomb' = Retired(tomb, {s, recorded[c].id} \ {None})
         \/ /\ ~accepts /\ ~removes
            /\ life' = [life EXCEPT ![c] = closed]
            /\ moved' \in {Holders} \cup (IF mine THEN {} ELSE {moved})
            /\ tomb' = IF made THEN Retired(tomb, {s}) ELSE tomb
            /\ fresh' = fresh \ {p}
            /\ UNCHANGED <<configured, members, granted, setupLease, recorded>>
      /\ UNCHANGED <<place, sender, sweepLease, sweepArmed, twitch>>

-----------------------------------------------------------------------------
(***************************************************************************)
(* deleteObligation, for a reconciliation or the alarm.                    *)
(***************************************************************************)
AfterDeletion(p) == IF proc[p].kind = "sweep" THEN "due" ELSE "retire"

\* Is the id recorded, live and of the current target?  The mutant does not ask.
MutantHolds(p, s) == FALSE
Holds(p, s) == \E c \in Channels : /\ Current(p) /\ recorded[c].id = s
                                   /\ recorded[c].status \in Live
                                   /\ Matches(c, recorded[c].target)

Claim(p) ==
  LET s == proc[p].id
      may == tomb[s].due /\ ~Holds(p, s)
  IN  /\ proc[p].pc = "obligation"
      /\ tomb' = IF may THEN [tomb EXCEPT ![s].claim = p] ELSE tomb
      /\ proc' = [proc EXCEPT ![p] = IF may THEN [@ EXCEPT !.pc = "delete"]
                                     ELSE Back(p, AfterDeletion(p))]
      /\ UNCHANGED <<place, consents, recorded, leases, twitch, lives>>

Gone(status) == IF status \in Live THEN "deleted" ELSE "vanished"

\* provider.remove; the subscription may be gone before.
Delete(p) ==
  LET s == proc[p].id
  IN  /\ proc[p].pc = "delete"
      /\ twitch' = IF AtTwitch(s) THEN [twitch EXCEPT ![s].status = Gone(@)] ELSE twitch
      /\ proc' = [proc EXCEPT ![p].pc = "settle", ![p].outcome = "ok"]
      /\ UNCHANGED <<place, consents, recorded, tomb, leases, lives>>

\* No deletion, or one whose answer is lost.
DeleteFails(p) ==
  LET s == proc[p].id
  IN  /\ proc[p].pc = "delete"
      /\ \/ AtTwitch(s) /\ twitch' = [twitch EXCEPT ![s].status = Gone(@)]
         \/ UNCHANGED twitch
      /\ proc' = [proc EXCEPT ![p].pc = "settle", ![p].outcome = "error"]
      /\ UNCHANGED <<place, consents, recorded, tomb, leases, lives>>

\* What the outcome leaves due.
StillDue(outcome) == outcome # "ok"

Settle(p) ==
  LET s == proc[p].id
  IN  /\ proc[p].pc = "settle"
      /\ tomb' = IF tomb[s].claim = p
                 THEN [tomb EXCEPT ![s].claim = NoProc,
                                   ![s].due = StillDue(proc[p].outcome)]
                 ELSE tomb
      /\ proc' = [proc EXCEPT ![p] = Back(p, AfterDeletion(p))]
      /\ UNCHANGED <<place, consents, recorded, setupLease, sweepLease, sweepArmed, twitch,
                     lives>>

-----------------------------------------------------------------------------
(***************************************************************************)
(* cleanupRemote, after the repairs of the alarm.                          *)
(***************************************************************************)
\* The two transactions that take up the work, due ids and the lease of a sweep.
Work ==
  LET may == Current(Alarm) /\ sweepArmed /\ sweepLease = NoLease
  IN  /\ proc[Alarm].pc = "repair" /\ proc[Alarm].due = {}
      /\ \E ids \in SUBSET {s \in Subs : tomb[s].due}, sweeps \in BOOLEAN :
           /\ sweeps => may
           /\ sweepLease' = IF sweeps
                            THEN [owner |-> Alarm, revision |-> revision]
                            ELSE sweepLease
           /\ proc' = [proc EXCEPT ![Alarm] =
                         [NoCall EXCEPT !.pc = IF ids = {} /\ ~sweeps THEN "end"
                                               ELSE "token",
                                        !.kind = "sweep", !.ids = ids, !.sweeps = sweeps,
                                        !.todo = {c \in Channels :
                                                    life[c].creator # NoProc},
                                        !.revision = proc[Alarm].revision,
                                        !.target = proc[Alarm].target]]
      /\ moved' = moved \ {Alarm}
      /\ UNCHANGED <<place, consents, recorded, tomb, setupLease, sweepArmed, twitch,
                     life, fresh>>

NextDue ==
  /\ proc[Alarm].pc \in {"token", "due"}
  /\ \/ \E s \in proc[Alarm].ids :
          proc' = [proc EXCEPT ![Alarm].pc = "obligation", ![Alarm].id = s,
                               ![Alarm].ids = @ \ {s}]
     \/ /\ proc[Alarm].ids = {}
        /\ Goto(Alarm, IF proc[Alarm].sweeps THEN "list" ELSE "end")
  /\ UNCHANGED <<place, consents, recorded, tomb, leases, twitch, lives>>

\* One listed subscription in the sweep: retired if it is nobody's.  Creations that
\* were under way when the sweep began count; a later one is a change of the
\* lifecycle.  The mutant spares whatever belongs to a desired channel.
MutantStranger(s) ==
  /\ Current(Alarm) /\ sweepLease.owner = Alarm /\ Alarm \notin moved /\ sender
  /\ twitch[s].channel \notin Desired
Stranger(s) ==
  /\ Current(Alarm)
  /\ sweepLease.owner = Alarm
  /\ Alarm \notin moved
  /\ sender
  /\ twitch[s].channel \notin proc[Alarm].todo
  /\ ~Holds(Alarm, s)

SweepOne ==
  /\ proc[Alarm].pc = "strangers"
  /\ \E s \in proc[Alarm].ids :
       /\ GateFree(twitch[s].channel, proc[Alarm].revision)
       /\ \/ Stranger(s) /\ tomb' = Retired(tomb, {s})
          \/ ~Stranger(s) /\ UNCHANGED tomb
       /\ proc' = [proc EXCEPT ![Alarm].ids = @ \ {s}]
  /\ UNCHANGED <<place, consents, recorded, leases, twitch, lives>>

\* ensuring, after cleanupRemote: the end of the alarm.
FinishSweep ==
  /\ \/ proc[Alarm].pc = "end" /\ proc[Alarm].kind = "sweep"
     \/ proc[Alarm].pc = "strangers" /\ proc[Alarm].ids = {}
  /\ sweepLease' = IF proc[Alarm].sweeps /\ sweepLease.owner = Alarm
                   THEN NoLease ELSE sweepLease
  /\ proc' = [proc EXCEPT ![Alarm] = NoCall]
  /\ moved' = moved \ {Alarm}
  /\ UNCHANGED <<place, consents, recorded, tomb, setupLease, sweepArmed, twitch, life,
                 fresh>>

-----------------------------------------------------------------------------
(***************************************************************************)
(* Consents, removals and observations.                                    *)
(***************************************************************************)
\* completeOAuth of the sender.
AuthorizeSender ==
  /\ sender /\ Sender \notin granted
  /\ granted' = granted \cup {Sender}
  /\ UNCHANGED <<place, sender, configured, members, recorded, tomb, leases, twitch,
                 proc, lives>>

\* The lifecycle of a channel whose broadcaster consented: what was recorded
\* before is retired, a creation under way loses its intent.
Consented(l) == Installed(l.sequence)

Consent(c) ==
  /\ tomb' = Retired(tomb, {recorded[c].id} \ {None})
  /\ recorded' = [recorded EXCEPT ![c] = NoRecord]
  /\ life' = [life EXCEPT ![c] = Consented(life[c])]
  /\ granted' = granted \cup {c}
  /\ fresh' = fresh \ Of({c})
  /\ moved' = Holders
  /\ UNCHANGED <<place, sender, configured, leases, twitch, proc>>

\* completeOAuth of a broadcaster, which setup asked for.
CompleteOAuth(c) == sender /\ life[c].kind # "none" /\ Consent(c) /\ UNCHANGED members

\* completeEnrollment, saved.
CompleteEnrollment(c) ==
  Sender \in granted /\ Consent(c) /\ members' = members \cup ({c} \ configured)

\* leaveEnrollment, by a member of the current revision.
Leave(c) ==
  /\ c \in Desired /\ GateFree(c, revision)
  /\ Remove({c})
  /\ tomb' = Retired(tomb, {recorded[c].id} \ {None})
  /\ recorded' = [recorded EXCEPT ![c] = NoRecord]
  /\ UNCHANGED <<place, sender, sweepLease, sweepArmed, twitch, proc>>

\* observeSubscription: Twitch told the webhook that subscription s is in this
\* status.  Notices may be late, and of any status the subscription has had.
Told(s, status) ==
  \/ status = "enabled" /\ twitch[s].status \notin {"unmade", "pending"}
  \/ status = "pending" /\ twitch[s].status # "unmade"
  \/ status \in {"lost", "failed"} /\ twitch[s].status = status
  \/ status = "lost" /\ twitch[s].status = "vanished"

Observe(s, status) ==
  LET c == twitch[s].channel
      r == recorded[c]
      confirmed == r.id = s /\ Matches(c, r.target)
      loses == status = "lost" /\ (life[c].negative = s \/ confirmed)
      lives1 == status \in Live /\ ~tomb[s].kept /\ confirmed /\ r.status \in Live
      now1 == IF lives1 /\ r.status # "enabled" THEN [r EXCEPT !.status = status] ELSE r
      ready == lives1 /\ Authorized(c) /\ now1.status = "enabled"
      fails == confirmed /\ status = "failed"
  IN  /\ Told(s, status)
      /\ Matches(c, twitch[s].target) /\ GateFree(c, revision)
      /\ \/ /\ loses
            /\ Remove({c})
            /\ recorded' = [recorded EXCEPT ![c] = NoRecord]
            /\ tomb' = IF life[c].negative = s THEN Retired(tomb, {r.id} \ {None})
                       ELSE Lost(tomb, {s})
         \/ /\ ~loses /\ (lives1 \/ fails)
            /\ recorded' = [recorded EXCEPT ![c] =
                              IF fails THEN [r EXCEPT !.status = status] ELSE now1]
            /\ life' = [life EXCEPT ![c] = IF fails THEN Recovering(@)
                                           ELSE IF ready THEN [@ EXCEPT !.recovery = FALSE]
                                           ELSE @]
            /\ moved' = IF fails /\ life' # life THEN Holders ELSE moved
            /\ UNCHANGED <<configured, members, granted, setupLease, tomb, fresh>>
      /\ UNCHANGED <<place, sender, sweepLease, sweepArmed, twitch, proc>>

-----------------------------------------------------------------------------
(***************************************************************************)
(* Twitch, the operators' deployments, losses of the object, and time.     *)
(***************************************************************************)
\* The callback is verified; a subscription that Twitch gave up is listed as such
\* for a while.
TwitchMoves(s) ==
  /\ \/ twitch[s].status = "pending" /\ twitch' = [twitch EXCEPT ![s].status = "enabled"]
     \/ /\ twitch[s].status \in {"lost", "failed"}
        /\ twitch' = [twitch EXCEPT ![s].status = Gone(@)]
  /\ UNCHANGED <<place, consents, recorded, tomb, leases, proc, lives>>

TwitchDrops(s) ==
  /\ twitch[s].status \in Live
  /\ \E status \in {"lost", "failed"} : twitch' = [twitch EXCEPT ![s].status = status]
  /\ UNCHANGED <<place, consents, recorded, tomb, leases, proc, lives>>

\* A revision with other channels or another target is constructed; calls of the
\* old instance may go on for a while.
Deploy ==
  /\ revision' = revision + 1
  /\ config' \in Configs
  /\ sender' = FALSE /\ configured' = {} /\ granted' = {}
  /\ setupLease' = NoLease
  /\ UNCHANGED <<members, recorded, tomb, sweepLease, sweepArmed, twitch, proc, lives>>

\* The object is lost with its running calls.
Crash ==
  /\ \E p \in Procs : proc[p].pc # "idle"
  /\ proc' = [p \in Procs |-> NoCall]
  /\ UNCHANGED <<place, consents, recorded, tomb, leases, twitch, lives>>

\* A lease or an intent to create runs out: one whose owner is lost at some time,
\* one whose owner is still running as an event of its own.
Reconciling(p) == \/ proc[p].kind = "setup"
                  \/ proc[p].kind = "repair" /\ proc[p].pc # "repair"

Expires(lost) ==
  /\ \/ /\ setupLease # NoLease /\ lost = ~Reconciling(setupLease.owner)
        /\ setupLease' = NoLease
        /\ UNCHANGED <<sweepLease, life>>
     \/ /\ sweepLease # NoLease /\ lost = ~proc[Alarm].sweeps
        /\ sweepLease' = NoLease
        /\ UNCHANGED <<setupLease, life>>
     \/ \E c \in Channels :
          /\ life[c].creator # NoProc /\ lost = ~HoldsGate(life[c].creator, c)
          /\ life' = [life EXCEPT ![c].creator = NoProc]
          /\ UNCHANGED <<setupLease, sweepLease>>
  /\ UNCHANGED <<place, consents, recorded, tomb, sweepArmed, twitch, proc, moved, fresh>>

\* A call to Twitch fails, for a token, the users or the list, or Twitch blocks
\* the API, and the call ends.
Fails(p) ==
  /\ \/ proc[p].pc \in {"resolve", "assert", "list", "owner", "token"}
     \/ proc[p].pc = "due" /\ proc[p].ids = {}
  /\ proc' = [proc EXCEPT ![p] = Back(p, "end")]
  /\ UNCHANGED <<place, consents, recorded, tomb, leases, twitch, lives>>

\* Twitch blocks the API, and a creation or a deletion is left for later.
Skips(p) ==
  /\ proc[p].pc \in {"intent", "obligation"}
  /\ proc' = [proc EXCEPT ![p] = Back(p, IF proc[p].pc = "intent" THEN "retire"
                                         ELSE AfterDeletion(p))]
  /\ UNCHANGED <<place, consents, recorded, tomb, leases, twitch, lives>>

\* reclaim, which status, setup and the alarm begin with: a tombstone past its
\* retention goes unless its deletion is due.  The mutant forgets the deletion.
MutantForgettable(t) == t.kept
Forgettable(t) == t.kept /\ ~t.due

Reclaim(s) ==
  /\ Forgettable(tomb[s])
  /\ tomb' = [tomb EXCEPT ![s] = NoTomb]
  /\ UNCHANGED <<place, consents, recorded, leases, twitch, proc, lives>>

Step(p) ==
  \/ StartSetup(p) \/ Resolve(p) \/ Authorize(p) \/ FinishSetup(p)
  \/ Snapshot(p) \/ List(p) \/ CleanUp(p)
  \/ \E s \in Subs : Retire(p, s)
  \/ AssertDelete(p) \/ Reconciled(p)
  \/ \E c \in Channels : Decide(p, c)
  \/ Intent(p) \/ Create(p) \/ Complete(p)
  \/ Claim(p) \/ Delete(p) \/ Settle(p)

AlarmStep ==
  \/ Step(Alarm)
  \/ \E c \in Channels : Repair(c)
  \/ FinishRepair \/ Work \/ NextDue \/ SweepOne \/ FinishSweep

Environment ==
  \/ AuthorizeSender
  \/ \E p \in Procs : DeleteFails(p)
  \/ \E s \in Subs : \E status \in Statuses : Observe(s, status)
  \/ \E s \in Subs : TwitchMoves(s) \/ Reclaim(s)
  \/ Expires(TRUE)

Event ==
  \/ \E c \in Channels : CompleteOAuth(c) \/ CompleteEnrollment(c) \/ Leave(c)
  \/ \E p \in Procs : CreateFails(p) \/ Fails(p) \/ Skips(p)
  \/ \E s \in Subs : TwitchDrops(s)
  \/ Deploy \/ Crash \/ Expires(FALSE)

Next ==
  \/ (\E p \in Operators : Step(p)) /\ UNCHANGED events
  \/ (AlarmFires \/ AlarmStep) /\ UNCHANGED events
  \/ Environment /\ UNCHANGED events
  \/ Event /\ events < MaxEvent /\ events' = events + 1

Spec == Init /\ [][Next]_vars

\* The alarm that is set is run, and run again after a loss; due times come, so a
\* sweep and a deletion that stay due are taken up, deletions tried again and again
\* do not always fail, and leases of lost calls run out.
Sweeps == Work /\ proc'[Alarm].sweeps /\ UNCHANGED events
Takes(s) == Work /\ s \in proc'[Alarm].ids /\ UNCHANGED events
Deletes == Delete(Alarm) /\ UNCHANGED events
Fairness ==
  /\ WF_vars((AlarmFires \/ AlarmStep) /\ UNCHANGED events)
  /\ WF_vars(Expires(TRUE) /\ UNCHANGED events)
  /\ SF_vars(Sweeps) /\ SF_vars(Deletes)
  /\ \A s \in Subs : SF_vars(Takes(s))
FairSpec == Spec /\ Fairness

-----------------------------------------------------------------------------
(***************************************************************************)
(* Properties.                                                             *)
(***************************************************************************)
Pcs == {"idle", "resolve", "authorize", "assert", "list", "clean", "retire", "owner",
        "intent", "create", "complete", "obligation", "delete", "settle", "repair", "token",
        "due", "strangers", "end"}

\* Every part of the state has its type, and a claimed deletion is due.
TypeOK ==
  /\ revision \in 1..(MaxEvent + 1)
  /\ config \in Configs
  /\ sender \in BOOLEAN /\ granted \subseteq Channels \cup {Sender}
  /\ configured \subseteq Channels /\ members \subseteq Channels
  /\ \A c \in Channels :
       /\ life[c].kind \in {"none", "installed", "removed"}
       /\ life[c].creator \in Procs \cup {NoProc}
       /\ life[c].kind # "installed" => ~life[c].recovery /\ life[c].negative = None
       /\ recorded[c].id \in Subs \cup {None} /\ recorded[c].status \in Statuses
  /\ \A s \in Subs : tomb[s].due => tomb[s].kept
  /\ \A s \in Subs : tomb[s].claim # NoProc => tomb[s].due
  /\ \A p \in Procs : proc[p].pc \in Pcs
  /\ moved \subseteq Procs

\* A recorded subscription was created for the channel as it is now: no removal
\* and no new consent came between the intent to create it and its record.
RecordedOfEpoch ==
  \A c \in Channels :
    recorded[c].id # None => /\ life[c].kind = "installed"
                             /\ recorded[c].id \in fresh

\* A channel is never called ready on a subscription that was deleted for it:
\* Twitch has it, or gave it up itself.
ReadyNotDeleted ==
  \A c \in Channels : Ready(c) =>
    AtTwitch(recorded[c].id) \/ twitch[recorded[c].id].status = "vanished"

\* A desired channel with all its consents is ready or its recovery is armed.
RecoveryArmed ==
  \A c \in Channels :
    (c \in Desired /\ sender /\ Authorized(c) /\ life[c].kind = "installed")
      => Ready(c) \/ life[c].recovery

\* A deletion that is due stays due until Twitch no longer has the subscription.
ObligationKept ==
  [][\A s \in Subs :
       tomb[s].due /\ twitch[s].status \in Live /\ twitch'[s].status \in Live
         => tomb'[s].due]_vars

\* No subscription that nothing records lives on at Twitch, once operators call
\* setup no more: the sweep finds it, for the sender and target it was made for.
Orphan(s) ==
  /\ twitch[s].status \in Live /\ twitch[s].target = config.target /\ sender
  /\ \A c \in Channels : recorded[c].id # s
  /\ \A p \in Operators : proc[p].pc = "idle"
OrphansEnd == []<>(\A s \in Subs : ~Orphan(s))
=============================================================================
