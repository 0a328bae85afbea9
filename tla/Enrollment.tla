------------------------------ MODULE Enrollment ------------------------------
(***************************************************************************)
(* Enrollment of channels and the consents behind it: begin, complete,     *)
(* leave and status of an enrollment session, completeOAuth of an          *)
(* operator's authorization, and what revokes them                         *)
(* (packages/twitch/src/account.ts).                                       *)
(*                                                                         *)
(* A broadcaster begins a session, consents at Twitch and comes back with  *)
(* a code.  The code is exchanged between two transactions: the first      *)
(* claims the session, the second installs the channel if nothing that     *)
(* matters changed meanwhile.  An operator's authorization is consumed by  *)
(* the first and granted by the second.  In between a channel may leave or *)
(* be revoked, others may enroll, leases and sessions run out, a revision  *)
(* is deployed or the object is lost.                                      *)
(*                                                                         *)
(* There is no clock: a lease lapses and a session expires at any step.    *)
(***************************************************************************)
EXTENDS Naturals, FiniteSets

CONSTANTS
  Channels, Sender, Sessions, Digests, Operators,
  Calls, NoCall,
  Configured,                      \* the channels the deployments configure
  MaxChannels, MaxIntents, MaxOAuth, \* policy
  MaxRevision, MaxRemoval          \* bounds of the model

ASSUME EnrollmentAssumption ==
  /\ IsFiniteSet(Channels) /\ IsFiniteSet(Sessions) /\ IsFiniteSet(Digests)
  /\ Configured \subseteq Channels /\ Sender \notin Channels
  /\ NoCall \notin Calls
  /\ {MaxChannels, MaxIntents, MaxOAuth, MaxRevision, MaxRemoval} \subseteq Nat \ {0}

VARIABLES
  revision,   \* stored: the revision (and authGeneration)
  sender,     \* stored: is the sender resolved?
  configured, members, \* stored: channels, publicMembers
  granted,    \* stored: users with their scopes in grants
  removals,   \* stored: publicRevocationGeneration
  life,       \* stored: lifecycle
  oauth,      \* stored: the operators' authorizations, by digest
  enrollments, \* stored: the sessions
  calls,      \* the running calls
  begun,      \* history: the sessions that were begun
  outdated    \* history: was the consent of an installed channel asked for before its
              \* last removal?

vars == <<revision, sender, configured, members, granted, removals, life, oauth,
          enrollments, calls, begun, outdated>>

NoLife == [kind |-> "none", sequence |-> 0]

\* An authorization that setup asked for; it is not stored when nobody asked.
\* since: was the user removed since (history)?
NoAuth == [operator |-> NoCall, user |-> Sender, revision |-> 0, sequence |-> 0,
           expired |-> FALSE, since |-> FALSE]

\* A session; since: the channels removed since it was begun (history).
NoEntry == [phase |-> "none", channel |-> Sender, revision |-> 0, removals |-> 0,
            owner |-> NoCall, lapsed |-> FALSE, expired |-> FALSE, since |-> {}]

\* A session in a phase in which only its revision and expiry, and its channel, count.
InPhase(entry, phase, c) ==
  [NoEntry EXCEPT !.phase = phase, !.channel = c, !.revision = entry.revision,
                  !.expired = entry.expired]
Failed(entry) == InPhase(entry, "failed", Sender)

Idle == [pc |-> "idle", session |-> NoCall, revision |-> 0, removals |-> 0,
         auth |-> NoAuth, channel |-> Sender]

Init ==
  /\ revision = 1
  /\ sender = FALSE /\ configured = {} /\ members = {} /\ granted = {}
  /\ removals = 0
  /\ life = [c \in Channels |-> NoLife]
  /\ oauth = [d \in Digests |-> NoAuth]
  /\ enrollments = [s \in Sessions |-> NoEntry]
  /\ calls = [k \in Calls |-> Idle]
  /\ begun = {}
  /\ outdated = [c \in Channels |-> FALSE]

-----------------------------------------------------------------------------
(***************************************************************************)
(* What the stored state says.                                             *)
(***************************************************************************)
Desired == {c \in configured \cup members : life[c].kind # "removed"}

Sequence(u) == IF u \in Channels THEN life[u].sequence ELSE 0

In(phases) == {s \in Sessions : enrollments[s].phase \in phases}
Stored(d) == oauth[d].operator # NoCall

\* enrollmentStatus, of the instance that runs; "standing" is ready, recovering or
\* in need of attention.
Status(s) ==
  LET entry == enrollments[s]
  IN  IF entry.phase \in {"none", "failed"} \/ entry.expired THEN "failed"
      ELSE IF entry.phase = "left"
        THEN IF life[entry.channel].kind = "removed" THEN "left" ELSE "failed"
      ELSE IF entry.revision # revision THEN "failed"
      ELSE IF entry.phase = "member"
        THEN IF entry.channel \in Desired THEN "standing" ELSE "failed"
      ELSE IF entry.lapsed THEN "failed" ELSE "pending"

-----------------------------------------------------------------------------
(***************************************************************************)
(* removeChannel: on leaving, and on the loss of the authorization.        *)
(***************************************************************************)
\* Authorizations of the channel are dropped.
Revoked(auths, c) == [d \in Digests |-> IF auths[d].user = c THEN NoAuth ELSE auths[d]]

\* A member session of the channel has left; one under way remembers the removal.
Left(entry, c) ==
  CASE entry.phase = "member" /\ entry.channel = c -> InPhase(entry, "left", c)
    [] entry.phase \in {"pending", "exchanging"} -> [entry EXCEPT !.since = @ \cup {c}]
    [] OTHER -> entry

Remove(c) ==
  /\ removals < MaxRemoval
  /\ removals' = removals + 1
  /\ life' = [life EXCEPT ![c] = [kind |-> "removed", sequence |-> removals + 1]]
  /\ configured' = configured \ {c} /\ members' = members \ {c}
  /\ granted' = granted \ {c}
  /\ oauth' = Revoked(oauth, c)
  /\ enrollments' = [s \in Sessions |-> Left(enrollments[s], c)]
  /\ outdated' = [outdated EXCEPT ![c] = FALSE]
  /\ UNCHANGED <<revision, sender, begun>>

\* A call under way remembers the removal of its user (history).
Marked(k, c) == [calls[k] EXCEPT !.auth.since = @ \/ calls[k].auth.user = c]

\* Twitch reports that the authorization is lost.
Revoke(c) ==
  /\ c \in Desired
  /\ Remove(c)
  /\ calls' = [k \in Calls |-> Marked(k, c)]

\* leaveEnrollment reads the session's channel, waits for the channel's gate, and
\* looks again.
Leave(k, s) ==
  /\ calls[k].pc = "idle"
  /\ enrollments[s].phase \in {"member", "left"} /\ ~enrollments[s].expired
  /\ calls' = [calls EXCEPT ![k] = [Idle EXCEPT !.pc = "leave", !.session = s,
                                    !.revision = revision,
                                    !.channel = enrollments[s].channel]]
  /\ UNCHANGED <<revision, sender, configured, members, granted, removals, life, oauth,
                 enrollments, begun, outdated>>

Leaves(k) ==
  LET s == calls[k].session
      c == calls[k].channel
      member == /\ enrollments[s].phase = "member" /\ ~enrollments[s].expired
                /\ enrollments[s].revision = revision /\ calls[k].revision = revision
                /\ c \in Desired
  IN  /\ calls[k].pc = "leave"
      /\ calls' = [j \in Calls |-> IF j = k THEN Idle
                                   ELSE IF member THEN Marked(j, c) ELSE calls[j]]
      /\ \/ member /\ Remove(c)
         \/ /\ ~member
            /\ UNCHANGED <<revision, sender, configured, members, granted, removals, life,
                           oauth, enrollments, begun, outdated>>

-----------------------------------------------------------------------------
(***************************************************************************)
(* The session of a broadcaster: begin, complete.                          *)
(***************************************************************************)
\* The phases that count against the intents.  The mutant counts the sessions
\* that wait for the broadcaster only.
MutantIntents(phase) == phase = "pending"
Intents(phase) == phase \in {"pending", "exchanging"}

\* The session of before is dropped with the expired ones; failures beyond the
\* slots are dropped.
Begin(s, previous) ==
  LET retained == {r \in Sessions : /\ enrollments[r].phase # "none"
                                    /\ ~enrollments[r].expired /\ r # previous}
      active == {r \in retained : enrollments[r].phase \notin {"left", "failed"}}
      failures == retained \cap In({"failed"})
      slots == (MaxChannels + MaxIntents) - (Cardinality(active) + 1)
  IN  /\ s \notin begun
      /\ sender /\ Sender \in granted
      /\ Cardinality({r \in retained : Intents(enrollments[r].phase)}) < MaxIntents
      /\ \E kept \in SUBSET failures :
           /\ IF Cardinality(failures) <= slots THEN kept = failures
              ELSE Cardinality(kept) = slots
           /\ enrollments' = [r \in Sessions |->
                IF r = s THEN [NoEntry EXCEPT !.phase = "pending", !.revision = revision,
                                              !.removals = removals]
                ELSE IF r \in (retained \ failures) \cup kept THEN enrollments[r]
                ELSE NoEntry]
      /\ begun' = begun \cup {s}
      /\ UNCHANGED <<revision, sender, configured, members, granted, removals, life, oauth,
                     calls, outdated>>

Claimable(s) ==
  /\ enrollments[s].phase = "pending" /\ ~enrollments[s].expired
  /\ enrollments[s].revision = revision

\* The broadcaster comes back: with a code, or the consent was denied.
Claim(k, s) ==
  /\ calls[k].pc = "idle" /\ Claimable(s)
  /\ enrollments' = [enrollments EXCEPT ![s].phase = "exchanging", ![s].owner = k]
  /\ calls' = [calls EXCEPT ![k] = [Idle EXCEPT !.pc = "exchange", !.session = s,
                                    !.revision = revision,
                                    !.removals = enrollments[s].removals]]
  /\ UNCHANGED <<revision, sender, configured, members, granted, removals, life, oauth,
                 begun, outdated>>

Deny(s) ==
  /\ Claimable(s)
  /\ enrollments' = [enrollments EXCEPT ![s] = Failed(@)]
  /\ UNCHANGED <<revision, sender, configured, members, granted, removals, life, oauth,
                 calls, begun, outdated>>

\* The lease of a call on its session.  The mutant does not look at the time.
MutantOwns(k, entry) == entry.phase = "exchanging" /\ entry.owner = k
Owns(k, entry) ==
  /\ entry.phase = "exchanging" /\ entry.owner = k
  /\ ~entry.lapsed /\ ~entry.expired

\* Was the channel removed since the session began?  The mutant does not ask.
MutantFenced(k, c) == FALSE
Fenced(k, c) == life[c].sequence > calls[k].removals

\* Room for one more channel.
Room(count) == count < MaxChannels

\* The other sessions of the channel go.  The mutant keeps them.
MutantReplaced(entry, c) == FALSE
Replaced(entry, c) == entry.phase \in {"member", "left"} /\ entry.channel = c

\* A channel whose broadcaster consented, to begin with or again.
Installed(l) == [l EXCEPT !.kind = "installed"]

\* The second transaction, with the code exchanged for the grant of broadcaster c.
Save(k, c) ==
  LET s == calls[k].session
      valid == /\ calls[k].revision = revision
               /\ Owns(k, enrollments[s]) /\ ~Fenced(k, c)
      fits == c \in Desired \/ Room(Cardinality(Desired))
  IN  /\ calls[k].pc = "exchange"
      /\ \/ /\ valid /\ fits
            /\ members' = IF c \in Desired THEN members ELSE members \cup {c}
            /\ life' = [life EXCEPT ![c] = Installed(@)]
            /\ granted' = granted \cup {c}
            /\ enrollments' = [r \in Sessions |->
                 IF r = s THEN InPhase(enrollments[s], "member", c)
                 ELSE IF Replaced(enrollments[r], c) THEN NoEntry ELSE enrollments[r]]
            /\ outdated' = [outdated EXCEPT ![c] = c \in enrollments[s].since]
            /\ calls' = [calls EXCEPT ![k] = Idle]
         \/ /\ valid /\ ~fits
            /\ enrollments' = [enrollments EXCEPT ![s] = Failed(@)]
            /\ calls' = [calls EXCEPT ![k] = Idle]
            /\ UNCHANGED <<members, life, granted, outdated>>
         \/ /\ ~valid
            /\ calls' = [calls EXCEPT ![k].pc = "error"]
            /\ UNCHANGED <<members, life, granted, enrollments, outdated>>
      /\ UNCHANGED <<revision, sender, configured, removals, oauth, begun>>

\* The exchange or the check of the identity fails, or the call times out, and the
\* session of the call has failed.
SaveFails(k) ==
  LET s == calls[k].session
      mine == enrollments[s].phase = "exchanging" /\ enrollments[s].owner = k
  IN  /\ calls[k].pc \in {"exchange", "error"}
      /\ enrollments' = IF mine THEN [enrollments EXCEPT ![s] = Failed(@)]
                        ELSE enrollments
      /\ calls' = [calls EXCEPT ![k] = Idle]
      /\ UNCHANGED <<revision, sender, configured, members, granted, removals, life, oauth,
                     begun, outdated>>

-----------------------------------------------------------------------------
(***************************************************************************)
(* The operators' authorizations: setup and completeOAuth.                 *)
(***************************************************************************)
\* What setup leaves behind: the sender and the configured channels, and an
\* authorization for each user without a grant.  Beyond the limit, those of other
\* operators and superseded ones are dropped.
Setup(o) ==
  LET resolved == {c \in Configured : life[c].kind # "removed"}
      desired == resolved \cup {c \in members : life[c].kind # "removed"}
      users == (Configured \cup {Sender}) \ granted
      valid == {d \in Digests : /\ Stored(d) /\ ~oauth[d].expired
                                /\ oauth[d].user \notin granted}
      own == {d \in valid : oauth[d].operator = o /\ oauth[d].user \notin users}
      retained == IF Cardinality(valid) + Cardinality(users) <= MaxOAuth THEN valid ELSE own
  IN  /\ Cardinality(desired) <= MaxChannels
      /\ sender' = TRUE /\ configured' = resolved
      /\ life' = [c \in Channels |->
           IF c \in Configured /\ life[c].kind = "none" THEN Installed(NoLife) ELSE life[c]]
      /\ \/ /\ Cardinality(retained) + Cardinality(users) <= MaxOAuth
            /\ \E new \in [users -> Digests \ retained] :
                 /\ \A u, v \in users : new[u] = new[v] => u = v
                 /\ oauth' = [d \in Digests |->
                      IF d \in retained THEN oauth[d]
                      ELSE IF \E u \in users : new[u] = d
                        THEN [operator |-> o, user |-> CHOOSE u \in users : new[u] = d,
                              revision |-> revision, expired |-> FALSE, since |-> FALSE,
                              sequence |-> Sequence(CHOOSE u \in users : new[u] = d)]
                      ELSE NoAuth]
         \/ /\ Cardinality(retained) + Cardinality(users) > MaxOAuth
            /\ UNCHANGED oauth
      /\ UNCHANGED <<revision, members, granted, removals, enrollments, calls, begun,
                     outdated>>

\* completeOAuth consumes the authorization, whoever calls.
Take(k, d, o) ==
  LET auth == oauth[d]
      good == ~auth.expired /\ auth.operator = o /\ auth.revision = revision
  IN  /\ calls[k].pc = "idle" /\ Stored(d)
      /\ oauth' = [e \in Digests |-> IF e = d \/ oauth[e].expired THEN NoAuth ELSE oauth[e]]
      /\ calls' = IF good
                  THEN [calls EXCEPT ![k] = [Idle EXCEPT !.pc = "grant", !.auth = auth,
                                                         !.revision = revision]]
                  ELSE calls
      /\ UNCHANGED <<revision, sender, configured, members, granted, removals, life,
                     enrollments, begun, outdated>>

\* The code is exchanged.  The sequence tells whether the user was removed since
\* setup asked.
Unremoved(auth) == Sequence(auth.user) = auth.sequence

Grant(k) ==
  LET auth == calls[k].auth
      u == auth.user
      valid == /\ calls[k].revision = revision /\ auth.revision = revision
               /\ Unremoved(auth)
  IN  /\ calls[k].pc = "grant"
      /\ calls' = [calls EXCEPT ![k] = Idle]
      /\ \/ /\ valid
            /\ granted' = granted \cup {u}
            /\ life' = IF u \in Channels /\ life[u].kind # "none"
                       THEN [life EXCEPT ![u] = Installed(@)] ELSE life
            /\ outdated' = IF u \in Channels THEN [outdated EXCEPT ![u] = auth.since]
                           ELSE outdated
            /\ enrollments' = [s \in Sessions |->
                 IF /\ u \in Channels /\ life[u].kind = "removed"
                    /\ Replaced(enrollments[s], u)
                 THEN NoEntry ELSE enrollments[s]]
         \/ ~valid /\ UNCHANGED <<granted, life, outdated, enrollments>>
      /\ UNCHANGED <<revision, sender, configured, members, removals, oauth, begun>>

GrantFails(k) ==
  /\ calls[k].pc = "grant"
  /\ calls' = [calls EXCEPT ![k] = Idle]
  /\ UNCHANGED <<revision, sender, configured, members, granted, removals, life, oauth,
                 enrollments, begun, outdated>>

-----------------------------------------------------------------------------
(***************************************************************************)
(* Time, deployments and losses.                                           *)
(***************************************************************************)
Lapse(s) ==
  /\ enrollments[s].phase = "exchanging" /\ ~enrollments[s].lapsed
  /\ enrollments' = [enrollments EXCEPT ![s].lapsed = TRUE]
  /\ UNCHANGED <<revision, sender, configured, members, granted, removals, life, oauth,
                 calls, begun, outdated>>

\* A session expires, and with it the lease that it bounds.
Expire(s) ==
  /\ enrollments[s].phase # "none" /\ ~enrollments[s].expired
  /\ enrollments' = [enrollments EXCEPT ![s].expired = TRUE, ![s].lapsed = TRUE]
  /\ UNCHANGED <<revision, sender, configured, members, granted, removals, life, oauth,
                 calls, begun, outdated>>

ExpireAuth(d) ==
  /\ Stored(d) /\ ~oauth[d].expired
  /\ oauth' = [oauth EXCEPT ![d].expired = TRUE]
  /\ UNCHANGED <<revision, sender, configured, members, granted, removals, life,
                 enrollments, calls, begun, outdated>>

\* reclaim, which status, setup and the alarm begin with.
Reclaim ==
  /\ \/ \E s \in Sessions : enrollments[s].expired
     \/ \E d \in Digests : oauth[d].expired
  /\ enrollments' = [s \in Sessions |-> IF enrollments[s].expired THEN NoEntry
                                        ELSE enrollments[s]]
  /\ oauth' = [d \in Digests |-> IF oauth[d].expired THEN NoAuth ELSE oauth[d]]
  /\ UNCHANGED <<revision, sender, configured, members, granted, removals, life, calls,
                 begun, outdated>>

Deploy ==
  /\ revision < MaxRevision
  /\ revision' = revision + 1
  /\ sender' = FALSE /\ configured' = {} /\ granted' = {}
  /\ oauth' = [d \in Digests |-> NoAuth]
  /\ enrollments' = [s \in Sessions |->
       IF enrollments[s].phase \in {"none", "left"} THEN enrollments[s]
       ELSE Failed(enrollments[s])]
  /\ UNCHANGED <<members, removals, life, calls, begun, outdated>>

Crash ==
  /\ \E k \in Calls : calls[k].pc # "idle"
  /\ calls' = [k \in Calls |-> Idle]
  /\ UNCHANGED <<revision, sender, configured, members, granted, removals, life, oauth,
                 enrollments, begun, outdated>>

Next ==
  \/ \E c \in Channels : Revoke(c)
  \/ \E s \in Sessions :
       \/ \E r \in Sessions \cup {NoCall} : Begin(s, r)
       \/ Deny(s) \/ Lapse(s) \/ Expire(s)
       \/ \E k \in Calls : Claim(k, s) \/ Leave(k, s)
  \/ \E k \in Calls :
       \/ \E c \in Channels : Save(k, c)
       \/ \E d \in Digests : \E o \in Operators : Take(k, d, o)
       \/ Leaves(k) \/ SaveFails(k) \/ Grant(k) \/ GrantFails(k)
  \/ \E o \in Operators : Setup(o)
  \/ \E d \in Digests : ExpireAuth(d)
  \/ Reclaim \/ Deploy \/ Crash

Spec == Init /\ [][Next]_vars

-----------------------------------------------------------------------------
(***************************************************************************)
(* Properties.                                                             *)
(***************************************************************************)
Phases == {"none", "pending", "exchanging", "member", "left", "failed"}

\* Every part of the state has its type.
TypeOK ==
  /\ revision \in 1..MaxRevision /\ removals \in 0..MaxRemoval
  /\ configured \subseteq Configured /\ members \subseteq Channels
  /\ granted \subseteq Channels \cup {Sender}
  /\ \A c \in Channels : life[c] \in [kind : {"none", "installed", "removed"},
                                      sequence : 0..removals]
  /\ \A s \in Sessions : enrollments[s].phase \in Phases
  /\ \A k \in Calls : calls[k].pc \in {"idle", "leave", "exchange", "error", "grant"}

\* A channel that was removed comes back only through a consent that was asked for
\* after the removal.
NoResurrection == \A c \in Channels : life[c].kind = "installed" => ~outdated[c]

\* The channels fit the policy, and so do the sessions that have not left.
Capacity ==
  /\ Cardinality(Desired) <= MaxChannels
  /\ Cardinality(In({"pending", "exchanging"})) <= MaxIntents
  /\ Cardinality(In(Phases \ {"none", "left"})) <= MaxChannels + MaxIntents

\* What a session says of its channel is so: a member's channel is desired and
\* granted, one that left is removed, and no channel has two sessions as a member.
SessionsAgree ==
  \A s \in Sessions :
    LET c == enrollments[s].channel
    IN  /\ enrollments[s].phase = "member" =>
             /\ c \in Desired \cap granted
             /\ \A r \in In({"member"}) : enrollments[r].channel = c => r = s
        /\ enrollments[s].phase = "left" => life[c].kind = "removed"

\* A broadcaster is never told that a session failed, or is past, and later that
\* it is pending or stands.
Rank(status) == CASE status = "pending" -> 1 [] status = "standing" -> 2
                  [] status = "left" -> 3 [] status = "failed" -> 4
StatusForward == [][\A s \in begun : Rank(Status(s)') >= Rank(Status(s))]_vars
=============================================================================
