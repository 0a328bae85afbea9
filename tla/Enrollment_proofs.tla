-------------------------- MODULE Enrollment_proofs --------------------------
(***************************************************************************)
(* Proofs about Enrollment, for any sets of channels, sessions, calls and  *)
(* authorizations and any limits.  The invariant says what a consent under *)
(* way is compared with when it comes back: whatever was removed since it  *)
(* was asked for has by then a sequence beyond the one it carries.         *)
(***************************************************************************)
EXTENDS Enrollment, FiniteSetTheorems, TLAPS

Entries == [phase : Phases, channel : Channels \cup {Sender}, revision : Nat,
            removals : Nat, owner : Calls \cup {NoCall}, lapsed : BOOLEAN,
            expired : BOOLEAN, since : SUBSET Channels]

Auths == [operator : Operators \cup {NoCall}, user : Channels \cup {Sender},
          revision : Nat, sequence : Nat, expired : BOOLEAN, since : BOOLEAN]

CallRecords == [pc : {"idle", "leave", "exchange", "error", "grant"},
                session : Sessions \cup {NoCall}, revision : Nat, removals : Nat,
                auth : Auths, channel : Channels \cup {Sender}]

Lives == [kind : {"none", "installed", "removed"}, sequence : Nat]

Types ==
  /\ revision \in 1..MaxRevision /\ removals \in 0..MaxRemoval
  /\ configured \subseteq Configured /\ members \subseteq Channels
  /\ granted \subseteq Channels \cup {Sender}
  /\ life \in [Channels -> Lives]
  /\ oauth \in [Digests -> Auths]
  /\ enrollments \in [Sessions -> Entries]
  /\ calls \in [Calls -> CallRecords]
  /\ outdated \in [Channels -> BOOLEAN]

\* No channel has a sequence that was not drawn yet.
Drawn ==
  \A c \in Channels : /\ life[c].sequence <= removals
                      /\ life[c].kind = "none" => life[c].sequence = 0

\* A channel removed since a session began is beyond the session's fence.
FencedEntry(entry) ==
  /\ entry.removals <= removals
  /\ \A c \in entry.since : life[c].sequence > entry.removals

SessionsFenced == \A s \in Sessions : FencedEntry(enrollments[s])

\* A stored authorization has seen no removal, and one that a call took carries
\* another sequence than its user if there was one.
Fences(auth) ==
  /\ auth.sequence <= removals
  /\ auth.since => auth.user \in Channels /\ life[auth.user].sequence > auth.sequence

AuthsFenced ==
  /\ \A d \in Digests : Fences(oauth[d]) /\ ~oauth[d].since
  /\ \A k \in Calls : Fences(calls[k].auth)

\* A call knows its session, and carries the fence of the session that it owns.
CallsKnow ==
  \A k \in Calls :
    /\ calls[k].pc \in {"leave", "exchange", "error"} => calls[k].session \in Sessions
    /\ calls[k].pc = "leave" => calls[k].channel \in Channels
    /\ calls[k].pc = "exchange" =>
         LET entry == enrollments[calls[k].session]
         IN  entry.phase = "exchanging" /\ entry.owner = k
               => calls[k].removals = entry.removals

\* No consent of before a removal counts.
Current == \A c \in Channels : ~outdated[c]

FenceInv == Drawn /\ SessionsFenced /\ AuthsFenced /\ CallsKnow /\ Current

\* A session that became a member's names its channel; a removed channel is of no list.
MembersKnown ==
  \A s \in Sessions : enrollments[s].phase \in {"member", "left"}
                        => enrollments[s].channel \in Channels

RemovedGone == \A c \in Channels : life[c].kind = "removed" => c \notin configured \cup members

AgreeInv == MembersKnown /\ RemovedGone /\ SessionsAgree

IInv == Types /\ FenceInv /\ AgreeInv /\ Capacity

-----------------------------------------------------------------------------
(***************************************************************************)
(* Types.                                                                  *)
(***************************************************************************)
LEMMA RecordTypes ==
  /\ NoEntry \in Entries /\ NoAuth \in Auths /\ Idle \in CallRecords
  /\ NoEntry.since = {} /\ NoEntry.removals = 0 /\ NoEntry.phase = "none"
  /\ NoAuth.since = FALSE /\ NoAuth.sequence = 0
  /\ Idle.pc = "idle" /\ Idle.auth = NoAuth
<1>1. NoEntry \in Entries
  BY DEF NoEntry, Entries, Phases
<1>2. NoAuth \in Auths
  BY DEF NoAuth, Auths
<1>3. Idle \in CallRecords
  BY <1>2 DEF Idle, CallRecords
<1> QED BY <1>1, <1>2, <1>3 DEF NoEntry, NoAuth, Idle

LEMMA InPhaseTypes ==
  ASSUME NEW entry \in Entries, NEW p \in Phases, NEW c \in Channels \cup {Sender}
  PROVE  /\ InPhase(entry, p, c) \in Entries
         /\ InPhase(entry, p, c).since = {} /\ InPhase(entry, p, c).removals = 0
         /\ InPhase(entry, p, c).phase = p /\ InPhase(entry, p, c).channel = c
BY RecordTypes DEF InPhase, Entries

LEMMA FailedTypes ==
  ASSUME NEW entry \in Entries
  PROVE  /\ Failed(entry) \in Entries
         /\ Failed(entry).since = {} /\ Failed(entry).removals = 0
         /\ Failed(entry).phase = "failed"
<1>1. "failed" \in Phases /\ Sender \in Channels \cup {Sender}
  BY DEF Phases
<1> QED BY <1>1, InPhaseTypes DEF Failed

LEMMA LeftTypes ==
  ASSUME NEW entry \in Entries, NEW c \in Channels
  PROVE  /\ Left(entry, c) \in Entries
         /\ Left(entry, c).since \subseteq entry.since \cup {c}
         /\ Left(entry, c).removals \in {entry.removals, 0}
         /\ Left(entry, c).removals = 0 => Left(entry, c).since = {} \/ entry.removals = 0
         /\ Left(entry, c).phase = "exchanging" =>
              /\ entry.phase = "exchanging" /\ Left(entry, c).owner = entry.owner
              /\ Left(entry, c).removals = entry.removals
<1>1. CASE entry.phase = "member" /\ entry.channel = c
  <2>1. Left(entry, c) = InPhase(entry, "left", c)
    BY <1>1, entry.phase \notin {"pending", "exchanging"} DEF Left
  <2>2. /\ InPhase(entry, "left", c) \in Entries
        /\ InPhase(entry, "left", c).since = {} /\ InPhase(entry, "left", c).removals = 0
        /\ InPhase(entry, "left", c).phase = "left"
    <3>1. "left" \in Phases /\ c \in Channels \cup {Sender}
      BY DEF Phases
    <3> QED BY <3>1, InPhaseTypes
  <2> QED BY <2>1, <2>2
<1>2. CASE entry.phase \in {"pending", "exchanging"}
  <2>1. Left(entry, c) = [entry EXCEPT !.since = @ \cup {c}]
    BY <1>2 DEF Left
  <2> QED BY <1>2, <2>1 DEF Entries
<1>3. CASE ~(entry.phase = "member" /\ entry.channel = c)
           /\ entry.phase \notin {"pending", "exchanging"}
  BY <1>3 DEF Left
<1> QED BY <1>1, <1>2, <1>3

LEMMA MarkedTypes ==
  ASSUME Types, NEW k \in Calls, NEW c \in Channels
  PROVE  /\ Marked(k, c) \in CallRecords
         /\ Marked(k, c).pc = calls[k].pc /\ Marked(k, c).session = calls[k].session
         /\ Marked(k, c).channel = calls[k].channel
         /\ Marked(k, c).removals = calls[k].removals
         /\ Marked(k, c).auth.user = calls[k].auth.user
         /\ Marked(k, c).auth.sequence = calls[k].auth.sequence
         /\ Marked(k, c).auth.since <=> calls[k].auth.since \/ calls[k].auth.user = c
<1>1. calls[k] \in CallRecords /\ calls[k].auth \in Auths
  BY DEF Types, CallRecords
<1>2. PICK b \in BOOLEAN : b <=> calls[k].auth.since \/ calls[k].auth.user = c
  OBVIOUS
<1>3. Marked(k, c) = [calls[k] EXCEPT !.auth = [calls[k].auth EXCEPT !.since = b]]
  BY <1>1, <1>2 DEF Marked, CallRecords, Auths
<1>4. [calls[k].auth EXCEPT !.since = b] \in Auths
  BY <1>1, <1>2 DEF Auths
<1> QED BY <1>1, <1>2, <1>3, <1>4 DEF CallRecords, Auths

\* A value that a function of the calls gets at one of them.
LEMMA CallSet ==
  ASSUME Types, NEW k \in Calls, NEW rec \in CallRecords
  PROVE  [calls EXCEPT ![k] = rec] \in [Calls -> CallRecords]
BY DEF Types

LEMMA EntrySet ==
  ASSUME Types, NEW s \in Sessions, NEW rec \in Entries
  PROVE  [enrollments EXCEPT ![s] = rec] \in [Sessions -> Entries]
BY DEF Types

LEMMA Numbers ==
  ASSUME Types
  PROVE  /\ revision \in Nat /\ removals \in Nat
         /\ \A s \in Sessions : enrollments[s] \in Entries
         /\ \A k \in Calls : calls[k] \in CallRecords
         /\ \A c \in Channels : life[c] \in Lives
BY EnrollmentAssumption DEF Types

LEMMA RemoveTypes ==
  ASSUME Types, NEW c \in Channels, Remove(c)
  PROVE  /\ removals' \in 0..MaxRemoval /\ configured' \subseteq Configured
         /\ members' \subseteq Channels /\ granted' \subseteq Channels \cup {Sender}
         /\ life' \in [Channels -> Lives] /\ oauth' \in [Digests -> Auths]
         /\ enrollments' \in [Sessions -> Entries] /\ outdated' \in [Channels -> BOOLEAN]
<1> USE EnrollmentAssumption
<1>1. removals' \in 0..MaxRemoval /\ configured' \subseteq Configured /\ removals + 1 \in Nat
      /\ members' \subseteq Channels /\ granted' \subseteq Channels \cup {Sender}
  BY DEF Remove, Types
<1>2. life' \in [Channels -> Lives] /\ outdated' \in [Channels -> BOOLEAN]
  BY <1>1 DEF Remove, Types, Lives
<1>3. oauth' \in [Digests -> Auths]
  BY RecordTypes DEF Remove, Types, Revoked
<1>4. enrollments' \in [Sessions -> Entries]
  BY LeftTypes DEF Remove, Types
<1> QED BY <1>1, <1>2, <1>3, <1>4

LEMMA SetupTypes ==
  ASSUME Types, NEW o \in Operators, Setup(o)
  PROVE  Types'
<1> USE EnrollmentAssumption
<1> DEFINE users == (Configured \cup {Sender}) \ granted
           valid == {d \in Digests : /\ Stored(d) /\ ~oauth[d].expired
                                     /\ oauth[d].user \notin granted}
           own == {d \in valid : oauth[d].operator = o /\ oauth[d].user \notin users}
           retained == IF Cardinality(valid) + Cardinality(users) <= MaxOAuth THEN valid ELSE own
<1>1. configured' \subseteq Configured /\ life' \in [Channels -> Lives]
  BY DEF Setup, Types, Lives, NoLife, Installed
<1>2. oauth' \in [Digests -> Auths]
  <2>1. CASE UNCHANGED oauth
    BY <2>1 DEF Types
  <2>2. ASSUME NEW new \in [users -> Digests \ retained],
               oauth' = [d \in Digests |->
                 IF d \in retained THEN oauth[d]
                 ELSE IF \E u \in users : new[u] = d
                   THEN [operator |-> o, user |-> CHOOSE u \in users : new[u] = d,
                         revision |-> revision, expired |-> FALSE, since |-> FALSE,
                         sequence |-> Sequence(CHOOSE u \in users : new[u] = d)]
                 ELSE NoAuth]
        PROVE  oauth' \in [Digests -> Auths]
    <3>1. ASSUME NEW d \in Digests, \E u \in users : new[u] = d
          PROVE  /\ (CHOOSE u \in users : new[u] = d) \in users
                 /\ Sequence(CHOOSE u \in users : new[u] = d) \in Nat
      <4>1. (CHOOSE u \in users : new[u] = d) \in users
        BY <3>1
      <4>2. \A u \in users : Sequence(u) \in Nat
        BY DEF Sequence, Types, Lives
      <4> QED BY <4>1, <4>2
    <3>2. users \subseteq Channels \cup {Sender}
      OBVIOUS
    <3>3. ASSUME NEW d \in Digests PROVE oauth'[d] \in Auths
      <4>1. CASE d \in retained
        BY <4>1, <2>2 DEF Types
      <4>2. CASE d \notin retained /\ \E u \in users : new[u] = d
        <5> DEFINE w == CHOOSE u \in users : new[u] = d
        <5>1. oauth'[d] = [operator |-> o, user |-> w, revision |-> revision,
                           expired |-> FALSE, since |-> FALSE, sequence |-> Sequence(w)]
          BY <2>2, <4>2
        <5>2. w \in users /\ Sequence(w) \in Nat
          BY <3>1, <4>2
        <5> HIDE DEF w, users, retained
        <5> QED BY <5>1, <5>2, <3>2 DEF Auths, Types
      <4>3. CASE d \notin retained /\ ~\E u \in users : new[u] = d
        BY <4>3, <2>2, RecordTypes
      <4> QED BY <4>1, <4>2, <4>3
    <3> QED BY <2>2, <3>3
  <2> QED BY <2>1, <2>2 DEF Setup
<1> QED BY <1>1, <1>2 DEF Setup, Types

LEMMA TypesStep ==
  ASSUME Types, CallsKnow, MembersKnown, Next
  PROVE  Types'
<1> USE EnrollmentAssumption
<1>1. ASSUME NEW c \in Channels, Revoke(c) PROVE Types'
  BY <1>1, RemoveTypes, MarkedTypes DEF Revoke, Remove, Types
<1>2. ASSUME NEW s \in Sessions, NEW r \in Sessions \cup {NoCall}, Begin(s, r) PROVE Types'
  <2>1. [NoEntry EXCEPT !.phase = "pending", !.revision = revision,
                        !.removals = removals] \in Entries
    BY RecordTypes, Numbers DEF Entries, Phases
  <2>2. enrollments' \in [Sessions -> Entries]
    BY <1>2, <2>1, RecordTypes DEF Begin, Types
  <2> QED BY <1>2, <2>2 DEF Begin, Types
<1>3. ASSUME NEW s \in Sessions, Deny(s) PROVE Types'
  <2>1. Failed(enrollments[s]) \in Entries
    BY FailedTypes DEF Types
  <2> QED BY <1>3, <2>1, EntrySet DEF Deny, Types
<1>4. ASSUME NEW s \in Sessions, Lapse(s) PROVE Types'
  <2>1. [enrollments[s] EXCEPT !.lapsed = TRUE] \in Entries
    BY Numbers DEF Entries
  <2>2. enrollments' = [enrollments EXCEPT ![s] = [enrollments[s] EXCEPT !.lapsed = TRUE]]
    BY <1>4 DEF Lapse
  <2> QED BY <1>4, <2>1, <2>2, EntrySet DEF Lapse, Types
<1>5. ASSUME NEW s \in Sessions, Expire(s) PROVE Types'
  <2> DEFINE entry == [enrollments[s] EXCEPT !.expired = TRUE, !.lapsed = TRUE]
  <2>1. entry \in Entries
    BY Numbers DEF Entries
  <2>2. enrollments' = [enrollments EXCEPT ![s] = entry]
    BY <1>5, Numbers DEF Expire, Types, Entries
  <2>3. enrollments' \in [Sessions -> Entries]
    <3> HIDE DEF entry
    <3> QED BY <2>1, <2>2, EntrySet
  <2>4. UNCHANGED <<revision, sender, configured, members, granted, removals, life, oauth,
                    calls, begun, outdated>>
    BY <1>5 DEF Expire
  <2> QED BY <2>3, <2>4 DEF Types
<1>6. ASSUME NEW s \in Sessions, NEW k \in Calls, Claim(k, s) PROVE Types'
  <2> DEFINE entry == [enrollments[s] EXCEPT !.phase = "exchanging", !.owner = k]
  <2>1. enrollments' \in [Sessions -> Entries]
    <3>1. entry \in Entries
      BY Numbers DEF Entries, Phases
    <3>2. enrollments' = [enrollments EXCEPT ![s] = entry]
      BY <1>6, Numbers DEF Claim, Types, Entries
    <3> HIDE DEF entry
    <3> QED BY <3>1, <3>2, EntrySet
  <2>2. [Idle EXCEPT !.pc = "exchange", !.session = s, !.revision = revision,
                     !.removals = enrollments[s].removals] \in CallRecords
    BY RecordTypes, Numbers DEF CallRecords, Entries
  <2> QED BY <1>6, <2>1, <2>2, CallSet DEF Claim, Types
<1>7. ASSUME NEW s \in Sessions, NEW k \in Calls, Leave(k, s) PROVE Types'
  <2>1. [Idle EXCEPT !.pc = "leave", !.session = s, !.revision = revision,
                     !.channel = enrollments[s].channel] \in CallRecords
    BY RecordTypes, Numbers DEF CallRecords, Entries
  <2> QED BY <1>7, <2>1, CallSet DEF Leave, Types
<1>8. ASSUME NEW k \in Calls, NEW c \in Channels, Save(k, c) PROVE Types'
  <2>1. calls[k].session \in Sessions
    BY <1>8 DEF Save, CallsKnow
  <2>2. members' \subseteq Channels /\ granted' \subseteq Channels \cup {Sender}
    BY <1>8 DEF Save, Types
  <2>3. life' \in [Channels -> Lives] /\ outdated' \in [Channels -> BOOLEAN]
    <3>1. Installed(life[c]) \in Lives /\ (c \in enrollments[calls[k].session].since) \in BOOLEAN
      BY Numbers DEF Installed, Lives
    <3>2. life' \in [Channels -> Lives]
      BY <1>8, <3>1 DEF Save, Types
    <3>3. outdated' \in [Channels -> BOOLEAN]
      BY <1>8, <3>1, Zenon DEF Save, Types
    <3> QED BY <3>2, <3>3
  <2>4. calls' \in [Calls -> CallRecords]
    BY <1>8, RecordTypes DEF Save, Types, CallRecords
  <2>5. /\ Failed(enrollments[calls[k].session]) \in Entries
        /\ InPhase(enrollments[calls[k].session], "member", c) \in Entries
    <3>1. "member" \in Phases /\ c \in Channels \cup {Sender}
      BY DEF Phases
    <3> QED BY <2>1, <3>1, FailedTypes, InPhaseTypes DEF Types
  <2>6. enrollments' \in [Sessions -> Entries]
    BY <1>8, <2>1, <2>5, RecordTypes DEF Save, Types
  <2> QED BY <1>8, <2>2, <2>3, <2>4, <2>6 DEF Save, Types
<1>9. ASSUME NEW k \in Calls, NEW d \in Digests, NEW o \in Operators, Take(k, d, o)
      PROVE  Types'
  <2>1. oauth' \in [Digests -> Auths]
    BY <1>9, RecordTypes DEF Take, Types
  <2>2. [Idle EXCEPT !.pc = "grant", !.auth = oauth[d], !.revision = revision] \in CallRecords
    BY RecordTypes, Numbers DEF CallRecords, Types
  <2> QED BY <1>9, <2>1, <2>2, CallSet DEF Take, Types
<1>10. ASSUME NEW k \in Calls, Leaves(k) PROVE Types'
  <2>1. calls[k].channel \in Channels
    BY <1>10 DEF Leaves, CallsKnow
  <2>2. calls' \in [Calls -> CallRecords]
    BY <1>10, <2>1, RecordTypes, MarkedTypes DEF Leaves, Types
  <2>3. CASE Remove(calls[k].channel)
    BY <2>1, <2>2, <2>3, RemoveTypes DEF Types, Remove
  <2>4. CASE UNCHANGED <<revision, sender, configured, members, granted, removals, life,
                         oauth, enrollments, begun, outdated>>
    BY <2>2, <2>4 DEF Types
  <2> QED BY <1>10, <2>3, <2>4 DEF Leaves
<1>11. ASSUME NEW k \in Calls, SaveFails(k) PROVE Types'
  <2>1. calls[k].session \in Sessions
    BY <1>11 DEF SaveFails, CallsKnow
  <2>2. Failed(enrollments[calls[k].session]) \in Entries
    BY <2>1, FailedTypes DEF Types
  <2> QED BY <1>11, <2>1, <2>2, RecordTypes, CallSet, EntrySet DEF SaveFails, Types
<1>12. ASSUME NEW k \in Calls, Grant(k) PROVE Types'
  <2>1. calls' \in [Calls -> CallRecords] /\ calls[k].auth \in Auths
    BY <1>12, RecordTypes DEF Grant, Types, CallRecords
  <2>2. granted' \subseteq Channels \cup {Sender}
    BY <1>12, <2>1 DEF Grant, Types, Auths
  <2>3. life' \in [Channels -> Lives] /\ outdated' \in [Channels -> BOOLEAN]
    <3>1. \A c \in Channels : Installed(life[c]) \in Lives
      BY Numbers DEF Installed, Lives
    <3>2. life' \in [Channels -> Lives]
      BY <1>12, <2>1, <3>1 DEF Grant, Types
    <3>3. calls[k].auth.since \in BOOLEAN
      BY <2>1 DEF Auths
    <3>4. outdated' \in [Channels -> BOOLEAN]
      BY <1>12, <3>3 DEF Grant, Types
    <3> QED BY <3>2, <3>4
  <2>4. enrollments' \in [Sessions -> Entries]
    BY <1>12, RecordTypes DEF Grant, Types
  <2> QED BY <1>12, <2>1, <2>2, <2>3, <2>4 DEF Grant, Types
<1>13. ASSUME NEW k \in Calls, GrantFails(k) PROVE Types'
  BY <1>13, RecordTypes, CallSet DEF GrantFails, Types
<1>14. ASSUME NEW o \in Operators, Setup(o) PROVE Types'
  BY <1>14, SetupTypes
<1>15. ASSUME NEW d \in Digests, ExpireAuth(d) PROVE Types'
  BY <1>15 DEF ExpireAuth, Types, Auths
<1>16. CASE Reclaim
  BY <1>16, RecordTypes DEF Reclaim, Types
<1>17. CASE Deploy
  <2>1. enrollments' \in [Sessions -> Entries]
    BY <1>17, FailedTypes DEF Deploy, Types
  <2> QED BY <1>17, <2>1, RecordTypes DEF Deploy, Types
<1>18. CASE Crash
  BY <1>18, RecordTypes DEF Crash, Types
<1> QED BY <1>1, <1>2, <1>3, <1>4, <1>5, <1>6, <1>7, <1>8, <1>9, <1>10, <1>11, <1>12, <1>13,
           <1>14, <1>15, <1>16, <1>17, <1>18 DEF Next

-----------------------------------------------------------------------------
(***************************************************************************)
(* Sequences and fences.                                                   *)
(***************************************************************************)
\* Sequences are drawn upwards.
Grown ==
  /\ removals' >= removals
  /\ \A c \in Channels : life'[c].sequence >= life[c].sequence

LEMMA LivesChange ==
  ASSUME Types, CallsKnow, Next
  PROVE  \/ \E c \in Channels : Remove(c)
         \/ \E k \in Calls, c \in Channels : Save(k, c)
         \/ \E k \in Calls : Grant(k)
         \/ \E o \in Operators : Setup(o)
         \/ UNCHANGED <<life, removals, outdated>>
<1>1. ASSUME NEW k \in Calls, Leaves(k)
      PROVE  \/ \E c \in Channels : Remove(c)
             \/ UNCHANGED <<life, removals, outdated>>
  <2>1. calls[k].channel \in Channels
    BY <1>1 DEF Leaves, CallsKnow
  <2> QED BY <1>1, <2>1 DEF Leaves
<1>2. ASSUME NEW c \in Channels, Revoke(c) PROVE Remove(c)
  BY <1>2 DEF Revoke
<1> QED BY <1>1, <1>2 DEF Next, Begin, Deny, Lapse, Expire, Claim, Leave, Take, SaveFails,
           GrantFails, ExpireAuth, Reclaim, Deploy, Crash

LEMMA GrownStep ==
  ASSUME Types, CallsKnow, Drawn, Next
  PROVE  Grown /\ Drawn'
<1>1. ASSUME NEW c \in Channels, Remove(c) PROVE Grown /\ Drawn'
  <2>1. /\ removals' = removals + 1
        /\ \A d \in Channels : life'[d] = IF d = c THEN [kind |-> "removed",
                                                         sequence |-> removals + 1]
                                          ELSE life[d]
    BY <1>1 DEF Remove, Types
  <2> QED BY <2>1, Numbers DEF Grown, Drawn, Lives
<1>2. ASSUME NEW k \in Calls, NEW c \in Channels, Save(k, c) PROVE Grown /\ Drawn'
  <2>1. /\ Installed(life[c]).sequence = life[c].sequence
        /\ Installed(life[c]).kind = "installed"
    BY Numbers DEF Installed, Lives
  <2>2. /\ removals' = removals
        /\ \A d \in Channels : life'[d] \in {life[d], IF d = c THEN Installed(life[c]) ELSE life[d]}
    BY <1>2 DEF Save, Types
  <2> QED BY <2>1, <2>2, Numbers DEF Grown, Drawn, Lives
<1>3. ASSUME NEW k \in Calls, Grant(k) PROVE Grown /\ Drawn'
  <2>1. \A c \in Channels : /\ Installed(life[c]).sequence = life[c].sequence
                            /\ Installed(life[c]).kind = "installed"
    BY Numbers DEF Installed, Lives
  <2>2. /\ removals' = removals
        /\ \A d \in Channels : life'[d] \in {life[d], Installed(life[d])}
    BY <1>3 DEF Grant, Types
  <2> QED BY <2>1, <2>2, Numbers DEF Grown, Drawn, Lives
<1>4. ASSUME NEW o \in Operators, Setup(o) PROVE Grown /\ Drawn'
  <2>1. Installed(NoLife).sequence = 0 /\ Installed(NoLife).kind = "installed"
    BY DEF Installed, NoLife
  <2>2. /\ removals' = removals
        /\ \A d \in Channels : life'[d] = IF d \in Configured /\ life[d].kind = "none"
                                          THEN Installed(NoLife) ELSE life[d]
    BY <1>4 DEF Setup, Types
  <2> QED BY <2>1, <2>2, Numbers DEF Grown, Drawn, Lives
<1>5. CASE UNCHANGED <<life, removals, outdated>>
  BY <1>5, Numbers DEF Grown, Drawn, Lives
<1> QED BY <1>1, <1>2, <1>3, <1>4, <1>5, LivesChange

\* What a step does to a session, but for its beginning and a removal: its fence and
\* what it has seen stay, or go together.
Still(s) ==
  \/ /\ enrollments'[s].since = enrollments[s].since
     /\ enrollments'[s].removals = enrollments[s].removals
  \/ enrollments'[s].since = {} /\ enrollments'[s].removals = 0

LEMMA SessionsStill ==
  ASSUME Types, CallsKnow, Next
  PROVE  \/ \E c \in Channels : Remove(c)
         \/ \E s \in Sessions, r \in Sessions \cup {NoCall} : Begin(s, r)
         \/ \A s \in Sessions : Still(s)
<1>1. ASSUME NEW k \in Calls, Leaves(k)
      PROVE  \/ \E c \in Channels : Remove(c)
             \/ UNCHANGED enrollments
  <2>1. calls[k].channel \in Channels
    BY <1>1 DEF Leaves, CallsKnow
  <2> QED BY <1>1, <2>1 DEF Leaves
<1>2. ASSUME NEW c \in Channels, Revoke(c) PROVE Remove(c)
  BY <1>2 DEF Revoke
<1>3. CASE UNCHANGED enrollments
  BY <1>3 DEF Still
<1>4. ASSUME NEW s \in Sessions, Deny(s) PROVE \A r \in Sessions : Still(r)
  BY <1>4, FailedTypes, Numbers DEF Deny, Still, Types
<1>5. ASSUME NEW s \in Sessions, Lapse(s) PROVE \A r \in Sessions : Still(r)
  BY <1>5, Numbers DEF Lapse, Still, Types, Entries
<1>6. ASSUME NEW s \in Sessions, Expire(s) PROVE \A r \in Sessions : Still(r)
  BY <1>6, Numbers DEF Expire, Still, Types, Entries
<1>7. ASSUME NEW k \in Calls, NEW s \in Sessions, Claim(k, s)
      PROVE  \A r \in Sessions : Still(r)
  BY <1>7, Numbers DEF Claim, Still, Types, Entries
<1>8. ASSUME NEW k \in Calls, NEW c \in Channels, Save(k, c)
      PROVE  \A r \in Sessions : Still(r)
  <2>1. calls[k].session \in Sessions /\ enrollments[calls[k].session] \in Entries
    BY <1>8, Numbers DEF Save, CallsKnow
  <2>2. /\ InPhase(enrollments[calls[k].session], "member", c).since = {}
        /\ InPhase(enrollments[calls[k].session], "member", c).removals = 0
    <3>1. "member" \in Phases /\ c \in Channels \cup {Sender}
      BY DEF Phases
    <3> QED BY <2>1, <3>1, InPhaseTypes
  <2>3. /\ Failed(enrollments[calls[k].session]).since = {}
        /\ Failed(enrollments[calls[k].session]).removals = 0
    BY <2>1, FailedTypes
  <2> QED BY <1>8, <2>1, <2>2, <2>3, RecordTypes DEF Save, Still, Types
<1>9. ASSUME NEW k \in Calls, SaveFails(k) PROVE \A r \in Sessions : Still(r)
  <2>1. calls[k].session \in Sessions /\ enrollments[calls[k].session] \in Entries
    BY <1>9, Numbers DEF SaveFails, CallsKnow
  <2> QED BY <1>9, <2>1, FailedTypes DEF SaveFails, Still, Types
<1>10. ASSUME NEW k \in Calls, Grant(k) PROVE \A r \in Sessions : Still(r)
  BY <1>10, RecordTypes DEF Grant, Still, Types
<1>11. CASE Reclaim
  BY <1>11, RecordTypes DEF Reclaim, Still, Types
<1>12. CASE Deploy
  BY <1>12, FailedTypes, Numbers DEF Deploy, Still, Types
<1> QED BY <1>1, <1>2, <1>3, <1>4, <1>5, <1>6, <1>7, <1>8, <1>9, <1>10, <1>11, <1>12
        DEF Next, Leave, Take, GrantFails, Setup, ExpireAuth, Crash

LEMMA SessionsFencedStep ==
  ASSUME Types, Types', CallsKnow, Drawn, SessionsFenced, Next
  PROVE  SessionsFenced'
<1>1. Grown /\ Drawn'
  BY GrownStep
<1>2. ASSUME NEW c \in Channels, Remove(c) PROVE SessionsFenced'
  <2> SUFFICES ASSUME NEW s \in Sessions PROVE FencedEntry(enrollments[s])'
    BY DEF SessionsFenced
  <2>1. enrollments'[s] = Left(enrollments[s], c)
    BY <1>2 DEF Remove
  <2>2. removals' = removals + 1 /\ life'[c].sequence = removals + 1
    BY <1>2 DEF Remove, Types
  <2>3. /\ Left(enrollments[s], c).since \subseteq enrollments[s].since \cup {c}
        /\ Left(enrollments[s], c).removals \in {enrollments[s].removals, 0}
        /\ Left(enrollments[s], c).removals = 0 =>
             Left(enrollments[s], c).since = {} \/ enrollments[s].removals = 0
    BY LeftTypes, Numbers
  <2>4. /\ enrollments[s].removals \in Nat /\ enrollments[s].since \subseteq Channels
        /\ \A d \in Channels : life[d].sequence \in Nat /\ life'[d].sequence \in Nat
    <3>1. \A d \in Channels : life'[d] \in Lives
      BY DEF Types
    <3> QED BY <3>1, Numbers DEF Entries, Lives
  <2>5. FencedEntry(enrollments[s])
    BY DEF SessionsFenced
  <2> QED BY <1>1, <2>1, <2>2, <2>3, <2>4, <2>5, Numbers DEF FencedEntry, Grown
<1>3. ASSUME NEW s \in Sessions, NEW r \in Sessions \cup {NoCall}, Begin(s, r)
      PROVE  SessionsFenced'
  <2> SUFFICES ASSUME NEW q \in Sessions PROVE FencedEntry(enrollments[q])'
    BY DEF SessionsFenced
  <2> DEFINE new == [NoEntry EXCEPT !.phase = "pending", !.revision = revision,
                                    !.removals = removals]
  <2>1. enrollments'[q] \in {enrollments[q], NoEntry, new} /\ UNCHANGED <<removals, life>>
    BY <1>3 DEF Begin
  <2>2. new.removals = removals /\ new.since = {}
    BY RecordTypes DEF Entries
  <2> HIDE DEF new
  <2>3. FencedEntry(enrollments[q])
    BY DEF SessionsFenced
  <2> QED BY <2>1, <2>2, <2>3, RecordTypes, Numbers DEF FencedEntry
<1>4. CASE \A s \in Sessions : Still(s)
  <2> SUFFICES ASSUME NEW s \in Sessions PROVE FencedEntry(enrollments[s])'
    BY DEF SessionsFenced
  <2>1. Still(s) /\ FencedEntry(enrollments[s])
    BY <1>4 DEF SessionsFenced
  <2>2. /\ enrollments[s].removals \in Nat /\ enrollments[s].since \subseteq Channels
        /\ removals' \in Nat
        /\ \A d \in Channels : life[d].sequence \in Nat /\ life'[d].sequence \in Nat
    <3>1. (\A d \in Channels : life'[d] \in Lives) /\ removals' \in 0..MaxRemoval
      BY DEF Types
    <3> QED BY <3>1, Numbers, EnrollmentAssumption DEF Entries, Lives
  <2> QED BY <1>1, <2>1, <2>2, Numbers DEF FencedEntry, Grown, Still
<1> QED BY <1>2, <1>3, <1>4, SessionsStill

\* The authorizations after a step: stored ones stay, go or expire, or setup asks for
\* a new one; that of a call stays, goes, was stored before or is marked.
LEMMA AuthsStored ==
  ASSUME Types, CallsKnow, Next, NEW d \in Digests
  PROVE  \/ oauth'[d] = NoAuth
         \/ /\ oauth'[d].since = oauth[d].since /\ oauth'[d].sequence = oauth[d].sequence
            /\ oauth'[d].user = oauth[d].user
         \/ /\ oauth'[d].since = FALSE /\ UNCHANGED removals
            /\ \/ oauth'[d].sequence = 0
               \/ \E c \in Channels : oauth'[d].sequence = life[c].sequence
<1> DEFINE Q == \/ oauth'[d] = NoAuth
                \/ /\ oauth'[d].since = oauth[d].since
                   /\ oauth'[d].sequence = oauth[d].sequence
                   /\ oauth'[d].user = oauth[d].user
                \/ /\ oauth'[d].since = FALSE /\ UNCHANGED removals
                   /\ \/ oauth'[d].sequence = 0
                      \/ \E c \in Channels : oauth'[d].sequence = life[c].sequence
<1>1. ASSUME NEW c \in Channels, Remove(c) PROVE Q
  BY <1>1 DEF Remove, Revoked
<1>2. CASE UNCHANGED oauth
  BY <1>2
<1>3. ASSUME NEW k \in Calls, NEW e \in Digests, NEW o \in Operators, Take(k, e, o) PROVE Q
  BY <1>3 DEF Take
<1>4. ASSUME NEW o \in Operators, Setup(o) PROVE Q
  <2>1. SUFFICES ASSUME oauth'[d] # oauth[d], oauth'[d] # NoAuth PROVE Q
    OBVIOUS
  <2>2. PICK u : oauth'[d] = [operator |-> o, user |-> u, revision |-> revision,
                              expired |-> FALSE, since |-> FALSE, sequence |-> Sequence(u)]
    BY <1>4, <2>1, Zenon DEF Setup
  <2>3. UNCHANGED removals
    BY <1>4 DEF Setup
  <2>4. oauth'[d].since = FALSE /\ oauth'[d].sequence = Sequence(u)
    BY <2>2
  <2> QED BY <2>3, <2>4 DEF Sequence
<1>5. ASSUME NEW e \in Digests, ExpireAuth(e) PROVE Q
  BY <1>5 DEF ExpireAuth, Types, Auths
<1>6. CASE Reclaim
  BY <1>6 DEF Reclaim
<1>7. CASE Deploy
  BY <1>7 DEF Deploy
<1>8. ASSUME NEW k \in Calls, Leaves(k)
      PROVE  (\E c \in Channels : Remove(c)) \/ UNCHANGED oauth
  <2>1. calls[k].channel \in Channels
    BY <1>8 DEF Leaves, CallsKnow
  <2> QED BY <1>8, <2>1 DEF Leaves
<1>9. ASSUME NEW c \in Channels, Revoke(c) PROVE Remove(c)
  BY <1>9 DEF Revoke
<1>10. \/ \E c \in Channels : Remove(c)
       \/ \E k \in Calls, e \in Digests, o \in Operators : Take(k, e, o)
       \/ \E o \in Operators : Setup(o)
       \/ \E e \in Digests : ExpireAuth(e)
       \/ Reclaim \/ Deploy \/ UNCHANGED oauth
  BY <1>8, <1>9 DEF Next, Begin, Deny, Lapse, Expire, Claim, Leave, Save, SaveFails, Grant,
     GrantFails, Crash
<1> QED BY <1>1, <1>2, <1>3, <1>4, <1>5, <1>6, <1>7, <1>10

LEMMA AuthsTaken ==
  ASSUME Types, CallsKnow, Next, NEW k \in Calls
  PROVE  \/ calls'[k].auth = NoAuth
         \/ calls'[k].auth = calls[k].auth
         \/ \E d \in Digests : calls'[k].auth = oauth[d]
         \/ \E c \in Channels : Remove(c) /\ calls'[k] = Marked(k, c)
<1> DEFINE Q == \/ calls'[k].auth = NoAuth
                \/ calls'[k].auth = calls[k].auth
                \/ \E d \in Digests : calls'[k].auth = oauth[d]
                \/ \E c \in Channels : Remove(c) /\ calls'[k] = Marked(k, c)
<1>1. ASSUME NEW c \in Channels, Revoke(c) PROVE Q
  BY <1>1 DEF Revoke
<1>2. CASE UNCHANGED calls
  BY <1>2
<1>3. ASSUME NEW j \in Calls, NEW s \in Sessions, Claim(j, s) PROVE Q
  <2>1. [Idle EXCEPT !.pc = "exchange", !.session = s, !.revision = revision,
                     !.removals = enrollments[s].removals].auth = NoAuth
    BY RecordTypes DEF CallRecords
  <2>2. calls'[k] \in {calls[k], [Idle EXCEPT !.pc = "exchange", !.session = s,
                                              !.revision = revision,
                                              !.removals = enrollments[s].removals]}
    BY <1>3 DEF Claim, Types
  <2> QED BY <2>1, <2>2
<1>4. ASSUME NEW j \in Calls, NEW s \in Sessions, Leave(j, s) PROVE Q
  <2>1. [Idle EXCEPT !.pc = "leave", !.session = s, !.revision = revision,
                     !.channel = enrollments[s].channel].auth = NoAuth
    BY RecordTypes DEF CallRecords
  <2>2. calls'[k] \in {calls[k], [Idle EXCEPT !.pc = "leave", !.session = s,
                                              !.revision = revision,
                                              !.channel = enrollments[s].channel]}
    BY <1>4 DEF Leave, Types
  <2> QED BY <2>1, <2>2
<1>5. ASSUME NEW j \in Calls, Leaves(j) PROVE Q
  <2>1. calls[j].channel \in Channels
    BY <1>5 DEF Leaves, CallsKnow
  <2>2. CASE Remove(calls[j].channel)
    <3>1. calls'[k] \in {Idle, Marked(k, calls[j].channel), calls[k]}
      BY <1>5 DEF Leaves
    <3> QED BY <2>1, <2>2, <3>1, RecordTypes
  <2>3. CASE ~Remove(calls[j].channel)
    <3>1. calls'[k] \in {Idle, calls[k]}
      BY <1>5, <2>3 DEF Leaves
    <3> QED BY <3>1, RecordTypes
  <2> QED BY <2>2, <2>3
<1>6. ASSUME NEW j \in Calls, NEW c \in Channels, Save(j, c) PROVE Q
  <2>1. calls'[k] \in {Idle, calls[k], [calls[k] EXCEPT !.pc = "error"]}
    BY <1>6 DEF Save, Types
  <2>2. [calls[k] EXCEPT !.pc = "error"].auth = calls[k].auth
    BY Numbers DEF CallRecords
  <2> QED BY <2>1, <2>2, RecordTypes
<1>7. ASSUME NEW j \in Calls, NEW d \in Digests, NEW o \in Operators, Take(j, d, o) PROVE Q
  <2>1. [Idle EXCEPT !.pc = "grant", !.auth = oauth[d], !.revision = revision].auth = oauth[d]
    BY RecordTypes DEF CallRecords
  <2>2. calls'[k] \in {calls[k], [Idle EXCEPT !.pc = "grant", !.auth = oauth[d],
                                              !.revision = revision]}
    BY <1>7 DEF Take, Types
  <2> QED BY <2>1, <2>2
<1>8. ASSUME NEW j \in Calls, SaveFails(j) \/ Grant(j) \/ GrantFails(j) PROVE Q
  <2>1. calls'[k] \in {Idle, calls[k]}
    BY <1>8 DEF SaveFails, Grant, GrantFails, Types
  <2> QED BY <2>1, RecordTypes
<1>9. CASE Crash
  BY <1>9, RecordTypes DEF Crash
<1>10. \/ \E c \in Channels : Revoke(c)
       \/ \E j \in Calls, s \in Sessions : Claim(j, s) \/ Leave(j, s)
       \/ \E j \in Calls : Leaves(j) \/ SaveFails(j) \/ Grant(j) \/ GrantFails(j)
       \/ \E j \in Calls, c \in Channels : Save(j, c)
       \/ \E j \in Calls, d \in Digests, o \in Operators : Take(j, d, o)
       \/ Crash \/ UNCHANGED calls
  BY DEF Next, Begin, Deny, Lapse, Expire, Setup, ExpireAuth, Reclaim, Deploy
<1> QED BY <1>1, <1>2, <1>3, <1>4, <1>5, <1>6, <1>7, <1>8, <1>9, <1>10

\* A fence stays where it is while sequences grow.
LEMMA FencesKept ==
  ASSUME Types, Types', Grown, NEW auth \in Auths, Fences(auth)
  PROVE  /\ auth.sequence <= removals'
         /\ auth.since => /\ auth.user \in Channels
                          /\ life'[auth.user].sequence > auth.sequence
<1>1. /\ auth.sequence \in Nat /\ removals \in Nat /\ removals' \in Nat
      /\ \A d \in Channels : life[d].sequence \in Nat /\ life'[d].sequence \in Nat
  <2>1. (\A d \in Channels : life'[d] \in Lives) /\ removals' \in 0..MaxRemoval
    BY DEF Types
  <2> QED BY <2>1, Numbers, EnrollmentAssumption DEF Auths, Lives
<1> QED BY <1>1 DEF Fences, Grown

LEMMA AuthsFencedStep ==
  ASSUME Types, Types', CallsKnow, Drawn, AuthsFenced, Next
  PROVE  AuthsFenced'
<1>1. Grown /\ removals \in Nat /\ removals' \in Nat
  <2>1. removals' \in 0..MaxRemoval
    BY DEF Types
  <2> QED BY <2>1, GrownStep, Numbers, EnrollmentAssumption
<1>2. ASSUME NEW d \in Digests PROVE Fences(oauth[d])' /\ ~oauth'[d].since
  <2>1. Fences(oauth[d]) /\ ~oauth[d].since /\ oauth[d] \in Auths
    BY DEF AuthsFenced, Types
  <2>2. oauth[d].sequence <= removals'
    BY <1>1, <2>1, FencesKept
  <2>3. CASE oauth'[d] = NoAuth
    BY <1>1, <2>3, RecordTypes DEF Fences
  <2>4. CASE oauth'[d].since = oauth[d].since /\ oauth'[d].sequence = oauth[d].sequence
    BY <2>1, <2>2, <2>4 DEF Fences
  <2>5. CASE /\ oauth'[d].since = FALSE /\ UNCHANGED removals
             /\ \/ oauth'[d].sequence = 0
                \/ \E c \in Channels : oauth'[d].sequence = life[c].sequence
    BY <1>1, <2>5 DEF Fences, Drawn
  <2> QED BY <2>3, <2>4, <2>5, AuthsStored
<1>3. ASSUME NEW k \in Calls PROVE Fences(calls[k].auth)'
  <2>1. Fences(calls[k].auth) /\ calls[k].auth \in Auths
    BY Numbers DEF AuthsFenced, CallRecords
  <2>2. CASE calls'[k].auth = NoAuth
    BY <1>1, <2>2, RecordTypes DEF Fences
  <2>3. CASE calls'[k].auth = calls[k].auth
    BY <1>1, <2>1, <2>3, FencesKept DEF Fences
  <2>4. ASSUME NEW d \in Digests, calls'[k].auth = oauth[d] PROVE Fences(calls[k].auth)'
    <3>1. Fences(oauth[d]) /\ oauth[d] \in Auths
      BY DEF AuthsFenced, Types
    <3> QED BY <1>1, <2>4, <3>1, FencesKept DEF Fences
  <2>5. ASSUME NEW c \in Channels, Remove(c), calls'[k] = Marked(k, c)
        PROVE  Fences(calls[k].auth)'
    <3>1. life'[c].sequence = removals + 1
      BY <2>5 DEF Remove, Types
    <3>2. calls[k].auth.sequence \in Nat
      BY <2>1 DEF Auths
    <3>3. /\ calls[k].auth.sequence <= removals'
          /\ calls[k].auth.since => /\ calls[k].auth.user \in Channels
                                    /\ life'[calls[k].auth.user].sequence > calls[k].auth.sequence
      BY <1>1, <2>1, FencesKept
    <3>4. /\ calls'[k].auth.user = calls[k].auth.user
          /\ calls'[k].auth.sequence = calls[k].auth.sequence
          /\ calls'[k].auth.since <=> calls[k].auth.since \/ calls[k].auth.user = c
      BY <2>5, MarkedTypes
    <3> QED BY <1>1, <2>1, <3>1, <3>2, <3>3, <3>4 DEF Fences
  <2> QED BY <2>2, <2>3, <2>4, <2>5, AuthsTaken
<1> QED BY <1>2, <1>3 DEF AuthsFenced

\* A session that a call owns after a step was the call's before, or was just claimed.
LEMMA Claims ==
  ASSUME Types, CallsKnow, Next, NEW s \in Sessions, enrollments'[s].phase = "exchanging"
  PROVE  \/ /\ enrollments[s].phase = "exchanging"
            /\ enrollments'[s].owner = enrollments[s].owner
            /\ enrollments'[s].removals = enrollments[s].removals
         \/ \E k \in Calls : Claim(k, s)
<1> DEFINE Q == \/ /\ enrollments[s].phase = "exchanging"
                   /\ enrollments'[s].owner = enrollments[s].owner
                   /\ enrollments'[s].removals = enrollments[s].removals
                \/ \E k \in Calls : Claim(k, s)
<1>1. ASSUME NEW c \in Channels, Remove(c) PROVE Q
  BY <1>1, LeftTypes, Numbers DEF Remove
<1>2. CASE UNCHANGED enrollments
  BY <1>2
<1>3. ASSUME NEW q \in Sessions, NEW r \in Sessions \cup {NoCall}, Begin(q, r) PROVE Q
  <2> DEFINE new == [NoEntry EXCEPT !.phase = "pending", !.revision = revision,
                                    !.removals = removals]
  <2>1. enrollments'[s] \in {enrollments[s], NoEntry, new}
    BY <1>3 DEF Begin
  <2>2. new.phase = "pending"
    BY RecordTypes DEF Entries
  <2> HIDE DEF new
  <2> QED BY <2>1, <2>2, RecordTypes
<1>4. ASSUME NEW q \in Sessions, Deny(q) PROVE Q
  BY <1>4, FailedTypes, Numbers DEF Deny, Types
<1>5. ASSUME NEW q \in Sessions, Lapse(q) \/ Expire(q) PROVE Q
  BY <1>5, Numbers DEF Lapse, Expire, Types, Entries
<1>6. ASSUME NEW k \in Calls, NEW q \in Sessions, Claim(k, q) PROVE Q
  BY <1>6 DEF Claim, Types
<1>7. ASSUME NEW k \in Calls, NEW c \in Channels, Save(k, c) PROVE Q
  <2>1. calls[k].session \in Sessions /\ enrollments[calls[k].session] \in Entries
    BY <1>7, Numbers DEF Save, CallsKnow
  <2>2. InPhase(enrollments[calls[k].session], "member", c).phase = "member"
    <3>1. "member" \in Phases /\ c \in Channels \cup {Sender}
      BY DEF Phases
    <3> QED BY <2>1, <3>1, InPhaseTypes
  <2>3. Failed(enrollments[calls[k].session]).phase = "failed"
    BY <2>1, FailedTypes
  <2> QED BY <1>7, <2>1, <2>2, <2>3, RecordTypes DEF Save, Types
<1>8. ASSUME NEW k \in Calls, SaveFails(k) PROVE Q
  <2>1. calls[k].session \in Sessions /\ enrollments[calls[k].session] \in Entries
    BY <1>8, Numbers DEF SaveFails, CallsKnow
  <2> QED BY <1>8, <2>1, FailedTypes DEF SaveFails, Types
<1>9. ASSUME NEW k \in Calls, Grant(k) PROVE Q
  BY <1>9, RecordTypes DEF Grant, Types
<1>10. CASE Reclaim
  BY <1>10, RecordTypes DEF Reclaim, Types
<1>11. CASE Deploy
  BY <1>11, FailedTypes, Numbers DEF Deploy, Types
<1>12. ASSUME NEW k \in Calls, Leaves(k)
       PROVE  (\E c \in Channels : Remove(c)) \/ UNCHANGED enrollments
  <2>1. calls[k].channel \in Channels
    BY <1>12 DEF Leaves, CallsKnow
  <2> QED BY <1>12, <2>1 DEF Leaves
<1>13. ASSUME NEW c \in Channels, Revoke(c) PROVE Remove(c)
  BY <1>13 DEF Revoke
<1> QED BY <1>1, <1>2, <1>3, <1>4, <1>5, <1>6, <1>7, <1>8, <1>9, <1>10, <1>11, <1>12, <1>13
        DEF Next, Leave, Take, GrantFails, Setup, ExpireAuth, Crash

\* What a call knows, it knew before, or it is just beginning.
LEMMA CallsGoOn ==
  ASSUME Types, CallsKnow, Next, NEW k \in Calls,
         calls'[k].pc \in {"leave", "exchange", "error"}
  PROVE  \/ /\ \/ calls[k].pc = calls'[k].pc
               \/ calls[k].pc = "exchange" /\ calls'[k].pc = "error"
            /\ calls'[k].session = calls[k].session
            /\ calls'[k].removals = calls[k].removals
            /\ calls'[k].channel = calls[k].channel
         \/ \E s \in Sessions : Claim(k, s) \/ Leave(k, s)
<1> DEFINE Q == \/ /\ \/ calls[k].pc = calls'[k].pc
                      \/ calls[k].pc = "exchange" /\ calls'[k].pc = "error"
                   /\ calls'[k].session = calls[k].session
                   /\ calls'[k].removals = calls[k].removals
                   /\ calls'[k].channel = calls[k].channel
                \/ \E s \in Sessions : Claim(k, s) \/ Leave(k, s)
<1>1. ASSUME NEW c \in Channels, Revoke(c) PROVE Q
  BY <1>1, MarkedTypes DEF Revoke
<1>2. CASE UNCHANGED calls
  BY <1>2
<1>3. ASSUME NEW j \in Calls, NEW s \in Sessions, Claim(j, s) \/ Leave(j, s) PROVE Q
  BY <1>3 DEF Claim, Leave, Types
<1>4. ASSUME NEW j \in Calls, Leaves(j) PROVE Q
  <2>1. calls[j].channel \in Channels
    BY <1>4 DEF Leaves, CallsKnow
  <2>2. calls'[k] \in {Idle, Marked(k, calls[j].channel), calls[k]}
    BY <1>4 DEF Leaves
  <2> QED BY <2>1, <2>2, RecordTypes, MarkedTypes
<1>5. ASSUME NEW j \in Calls, NEW c \in Channels, Save(j, c) PROVE Q
  <2>1. \/ calls'[k] \in {Idle, calls[k]}
        \/ calls[k].pc = "exchange" /\ calls'[k] = [calls[k] EXCEPT !.pc = "error"]
    BY <1>5 DEF Save, Types
  <2>2. /\ [calls[k] EXCEPT !.pc = "error"].pc = "error"
        /\ [calls[k] EXCEPT !.pc = "error"].session = calls[k].session
        /\ [calls[k] EXCEPT !.pc = "error"].removals = calls[k].removals
        /\ [calls[k] EXCEPT !.pc = "error"].channel = calls[k].channel
    BY Numbers DEF CallRecords
  <2> QED BY <2>1, <2>2, RecordTypes
<1>6. ASSUME NEW j \in Calls, NEW d \in Digests, NEW o \in Operators, Take(j, d, o) PROVE Q
  <2>1. [Idle EXCEPT !.pc = "grant", !.auth = oauth[d], !.revision = revision].pc = "grant"
    BY RecordTypes DEF CallRecords
  <2>2. calls'[k] \in {calls[k], [Idle EXCEPT !.pc = "grant", !.auth = oauth[d],
                                              !.revision = revision]}
    BY <1>6 DEF Take, Types
  <2> QED BY <2>1, <2>2
<1>7. ASSUME NEW j \in Calls, SaveFails(j) \/ Grant(j) \/ GrantFails(j) PROVE Q
  <2>1. calls'[k] \in {Idle, calls[k]}
    BY <1>7 DEF SaveFails, Grant, GrantFails, Types
  <2> QED BY <2>1, RecordTypes
<1>8. CASE Crash
  BY <1>8, RecordTypes DEF Crash
<1>9. \/ \E c \in Channels : Revoke(c)
      \/ \E j \in Calls, s \in Sessions : Claim(j, s) \/ Leave(j, s)
      \/ \E j \in Calls : Leaves(j) \/ SaveFails(j) \/ Grant(j) \/ GrantFails(j)
      \/ \E j \in Calls, c \in Channels : Save(j, c)
      \/ \E j \in Calls, d \in Digests, o \in Operators : Take(j, d, o)
      \/ Crash \/ UNCHANGED calls
  BY DEF Next, Begin, Deny, Lapse, Expire, Setup, ExpireAuth, Reclaim, Deploy
<1> QED BY <1>1, <1>2, <1>3, <1>4, <1>5, <1>6, <1>7, <1>8, <1>9

LEMMA CallsKnowStep ==
  ASSUME Types, CallsKnow, MembersKnown, Next
  PROVE  CallsKnow'
<1> SUFFICES ASSUME NEW k \in Calls
             PROVE  /\ calls'[k].pc \in {"leave", "exchange", "error"}
                         => calls'[k].session \in Sessions
                    /\ calls'[k].pc = "leave" => calls'[k].channel \in Channels
                    /\ calls'[k].pc = "exchange" =>
                         LET entry == enrollments'[calls'[k].session]
                         IN  entry.phase = "exchanging" /\ entry.owner = k
                               => calls'[k].removals = entry.removals
  BY DEF CallsKnow
<1>1. ASSUME NEW s \in Sessions, Claim(k, s)
      PROVE  /\ calls'[k].pc = "exchange" /\ calls'[k].session = s
             /\ calls'[k].removals = enrollments[s].removals
             /\ enrollments'[s].removals = enrollments[s].removals
  <2> DEFINE call == [Idle EXCEPT !.pc = "exchange", !.session = s, !.revision = revision,
                                  !.removals = enrollments[s].removals]
  <2>1. call.pc = "exchange" /\ call.session = s /\ call.removals = enrollments[s].removals
    BY RecordTypes DEF CallRecords
  <2>2. calls'[k] = call
    BY <1>1 DEF Claim, Types
  <2>3. enrollments'[s].removals = enrollments[s].removals
    BY <1>1, Numbers DEF Claim, Types, Entries
  <2> HIDE DEF call
  <2> QED BY <2>1, <2>2, <2>3
<1>2. ASSUME NEW s \in Sessions, Leave(k, s)
      PROVE  /\ calls'[k].pc = "leave" /\ calls'[k].session = s
             /\ calls'[k].channel \in Channels
  <2> DEFINE call == [Idle EXCEPT !.pc = "leave", !.session = s, !.revision = revision,
                                  !.channel = enrollments[s].channel]
  <2>1. call.pc = "leave" /\ call.session = s /\ call.channel = enrollments[s].channel
    BY RecordTypes DEF CallRecords
  <2>2. calls'[k] = call
    BY <1>2 DEF Leave, Types
  <2>3. enrollments[s].channel \in Channels
    BY <1>2 DEF Leave, MembersKnown
  <2> HIDE DEF call
  <2> QED BY <2>1, <2>2, <2>3
<1>3. CASE \E s \in Sessions : Claim(k, s) \/ Leave(k, s)
  BY <1>1, <1>2, <1>3
<1>4. CASE /\ calls'[k].pc \in {"leave", "exchange", "error"}
           /\ ~\E s \in Sessions : Claim(k, s) \/ Leave(k, s)
  <2>1. /\ \/ calls[k].pc = calls'[k].pc
           \/ calls[k].pc = "exchange" /\ calls'[k].pc = "error"
        /\ calls'[k].session = calls[k].session /\ calls'[k].removals = calls[k].removals
        /\ calls'[k].channel = calls[k].channel
    BY <1>4, CallsGoOn
  <2>2. /\ calls[k].pc \in {"leave", "exchange", "error"} /\ calls[k].session \in Sessions
        /\ calls'[k].pc = "leave" => calls[k].channel \in Channels
    BY <1>4, <2>1 DEF CallsKnow
  <2>3. ASSUME calls'[k].pc = "exchange", enrollments'[calls[k].session].phase = "exchanging",
               enrollments'[calls[k].session].owner = k
        PROVE  calls[k].removals = enrollments'[calls[k].session].removals
    <3>1. calls[k].pc = "exchange"
      BY <2>1, <2>3
    <3>2. ~\E j \in Calls : Claim(j, calls[k].session)
      <4>1. SUFFICES ASSUME NEW j \in Calls, Claim(j, calls[k].session) PROVE FALSE
        OBVIOUS
      <4>2. enrollments'[calls[k].session].owner = j
        BY <2>2, <4>1, Numbers DEF Claim, Types, Entries
      <4> QED BY <1>4, <2>2, <2>3, <4>1, <4>2
    <3>3. /\ enrollments[calls[k].session].phase = "exchanging"
          /\ enrollments'[calls[k].session].owner = enrollments[calls[k].session].owner
          /\ enrollments'[calls[k].session].removals = enrollments[calls[k].session].removals
      BY <2>2, <2>3, <3>2, Claims
    <3> QED BY <2>3, <3>1, <3>3 DEF CallsKnow
  <2> QED BY <2>1, <2>2, <2>3
<1>5. CASE calls'[k].pc \notin {"leave", "exchange", "error"}
  BY <1>5
<1> QED BY <1>3, <1>4, <1>5

LEMMA CurrentStep ==
  ASSUME Types, CallsKnow, SessionsFenced, AuthsFenced, Current, Next
  PROVE  Current'
<1>1. ASSUME NEW c \in Channels, Remove(c) PROVE Current'
  BY <1>1 DEF Remove, Types, Current
<1>2. ASSUME NEW k \in Calls, NEW c \in Channels, Save(k, c) PROVE Current'
  <2> DEFINE s == calls[k].session
  <2>1. CASE UNCHANGED outdated
    BY <2>1 DEF Current
  <2>2. CASE ~UNCHANGED outdated
    <3>1. /\ calls[k].pc = "exchange" /\ Owns(k, enrollments[s]) /\ ~Fenced(k, c)
          /\ outdated' = [outdated EXCEPT ![c] = c \in enrollments[s].since]
      BY <1>2, <2>2 DEF Save
    <3>2. s \in Sessions /\ calls[k].removals = enrollments[s].removals
      BY <3>1 DEF CallsKnow, Owns
    <3>3. c \notin enrollments[s].since
      <4>1. FencedEntry(enrollments[s])
        BY <3>2 DEF SessionsFenced
      <4> QED BY <3>1, <3>2, <4>1 DEF Fenced, FencedEntry
    <3> QED BY <3>1, <3>3 DEF Current, Types
  <2> QED BY <2>1, <2>2
<1>3. ASSUME NEW k \in Calls, Grant(k) PROVE Current'
  <2>1. calls[k] \in CallRecords /\ calls[k].auth \in Auths /\ Fences(calls[k].auth)
    BY Numbers DEF AuthsFenced, CallRecords
  <2>2. CASE UNCHANGED outdated
    BY <2>2 DEF Current
  <2>3. CASE ~UNCHANGED outdated
    <3>1. /\ Unremoved(calls[k].auth) /\ calls[k].auth.user \in Channels
          /\ outdated' = [outdated EXCEPT ![calls[k].auth.user] = calls[k].auth.since]
      BY <1>3, <2>3 DEF Grant
    <3>2. life[calls[k].auth.user].sequence = calls[k].auth.sequence
      BY <3>1 DEF Unremoved, Sequence
    <3>3. calls[k].auth.sequence \in Nat /\ calls[k].auth.since \in BOOLEAN
      BY <2>1 DEF Auths
    <3>4. ~calls[k].auth.since
      BY <2>1, <3>2, <3>3 DEF Fences
    <3> QED BY <3>1, <3>4 DEF Current, Types
  <2> QED BY <2>2, <2>3
<1>4. CASE UNCHANGED outdated
  BY <1>4 DEF Current
<1> QED BY <1>1, <1>2, <1>3, <1>4, LivesChange DEF Setup

-----------------------------------------------------------------------------
(***************************************************************************)
(* Sessions and channels.                                                  *)
(***************************************************************************)
\* A member's session, and one that left, was so before.
Kept(s) ==
  enrollments'[s].phase \in {"member", "left"} =>
    /\ enrollments'[s].phase = enrollments[s].phase
    /\ enrollments'[s].channel = enrollments[s].channel

LEMMA SessionsKept ==
  ASSUME Types, CallsKnow, Next
  PROVE  \/ \E c \in Channels : Remove(c)
         \/ \E k \in Calls, c \in Channels : Save(k, c)
         \/ \E k \in Calls : Grant(k)
         \/ \E o \in Operators : Setup(o)
         \/ Deploy
         \/ /\ \A s \in Sessions : Kept(s)
            /\ UNCHANGED <<configured, members, granted, life>>
<1>1. ASSUME NEW k \in Calls, Leaves(k)
      PROVE  \/ \E c \in Channels : Remove(c)
             \/ UNCHANGED <<enrollments, configured, members, granted, life>>
  <2>1. calls[k].channel \in Channels
    BY <1>1 DEF Leaves, CallsKnow
  <2> QED BY <1>1, <2>1 DEF Leaves
<1>2. ASSUME NEW c \in Channels, Revoke(c) PROVE Remove(c)
  BY <1>2 DEF Revoke
<1>3. CASE UNCHANGED <<enrollments, configured, members, granted, life>>
  BY <1>3 DEF Kept
<1> DEFINE Q == /\ \A s \in Sessions : Kept(s)
                /\ UNCHANGED <<configured, members, granted, life>>
<1>4. ASSUME NEW q \in Sessions, NEW r \in Sessions \cup {NoCall}, Begin(q, r) PROVE Q
  <2> DEFINE new == [NoEntry EXCEPT !.phase = "pending", !.revision = revision,
                                    !.removals = removals]
  <2>1. \A s \in Sessions : enrollments'[s] \in {enrollments[s], NoEntry, new}
    BY <1>4 DEF Begin
  <2>2. new.phase = "pending"
    BY RecordTypes DEF Entries
  <2>3. UNCHANGED <<configured, members, granted, life>>
    BY <1>4 DEF Begin
  <2> HIDE DEF new
  <2> QED BY <2>1, <2>2, <2>3, RecordTypes DEF Kept
<1>5. ASSUME NEW s \in Sessions, Deny(s) PROVE Q
  BY <1>5, FailedTypes, Numbers DEF Deny, Kept, Types
<1>6. ASSUME NEW s \in Sessions, Lapse(s) \/ Expire(s) PROVE Q
  BY <1>6, Numbers DEF Lapse, Expire, Kept, Types, Entries
<1>7. ASSUME NEW k \in Calls, NEW s \in Sessions, Claim(k, s) PROVE Q
  BY <1>7, Numbers DEF Claim, Kept, Types, Entries
<1>8. ASSUME NEW k \in Calls, SaveFails(k) PROVE Q
  <2>1. calls[k].session \in Sessions /\ enrollments[calls[k].session] \in Entries
    BY <1>8, Numbers DEF SaveFails, CallsKnow
  <2> QED BY <1>8, <2>1, FailedTypes DEF SaveFails, Kept, Types
<1>9. CASE Reclaim
  BY <1>9, RecordTypes DEF Reclaim, Kept, Types
<1> QED BY <1>1, <1>2, <1>3, <1>4, <1>5, <1>6, <1>7, <1>8, <1>9
        DEF Next, Leave, Take, GrantFails, ExpireAuth, Crash

\* What AgreeInv asks of a session.
Agrees(s) ==
  LET c == enrollments[s].channel
  IN  /\ enrollments[s].phase = "member" =>
           /\ c \in Desired \cap granted
           /\ \A r \in In({"member"}) : enrollments[r].channel = c => r = s
      /\ enrollments[s].phase = "left" => life[c].kind = "removed"

LEMMA AgreesEach == SessionsAgree <=> \A s \in Sessions : Agrees(s)
BY DEF SessionsAgree, Agrees

LEMMA RemoveAgrees ==
  ASSUME Types, AgreeInv, NEW c \in Channels, Remove(c)
  PROVE  AgreeInv'
<1>1. /\ configured' = configured \ {c} /\ members' = members \ {c}
      /\ granted' = granted \ {c}
      /\ \A d \in Channels : life'[d] = IF d = c THEN [kind |-> "removed",
                                                       sequence |-> removals + 1]
                                        ELSE life[d]
  BY DEF Remove, Types
<1>2. life'[c].kind = "removed" /\ \A d \in Channels \ {c} : life'[d] = life[d]
  BY <1>1
<1>3. RemovedGone'
  BY <1>1, <1>2 DEF RemovedGone, AgreeInv
<1>4. ASSUME NEW s \in Sessions, enrollments'[s].phase \in {"member", "left"}
      PROVE  \/ /\ enrollments'[s].phase = "left" /\ enrollments'[s].channel = c
             \/ /\ enrollments'[s].phase = enrollments[s].phase
                /\ enrollments'[s].channel = enrollments[s].channel
                /\ enrollments[s].phase = "member" => enrollments[s].channel # c
  <2>1. enrollments'[s] = Left(enrollments[s], c)
    BY DEF Remove
  <2>2. CASE enrollments[s].phase = "member" /\ enrollments[s].channel = c
    <3>1. Left(enrollments[s], c) = InPhase(enrollments[s], "left", c)
      BY <2>2, enrollments[s].phase \notin {"pending", "exchanging"} DEF Left
    <3>2. "left" \in Phases /\ c \in Channels \cup {Sender}
      BY DEF Phases
    <3> QED BY <2>1, <3>1, <3>2, InPhaseTypes, Numbers
  <2>3. CASE enrollments[s].phase \in {"pending", "exchanging"}
    <3>1. Left(enrollments[s], c) = [enrollments[s] EXCEPT !.since = @ \cup {c}]
      BY <2>3 DEF Left
    <3> QED BY <1>4, <2>1, <2>3, <3>1, Numbers DEF Entries
  <2>4. CASE ~(enrollments[s].phase = "member" /\ enrollments[s].channel = c)
             /\ enrollments[s].phase \notin {"pending", "exchanging"}
    <3>1. Left(enrollments[s], c) = enrollments[s]
      BY <2>4 DEF Left
    <3> QED BY <2>1, <2>4, <3>1
  <2> QED BY <2>2, <2>3, <2>4
<1>5. MembersKnown'
  BY <1>4 DEF MembersKnown, AgreeInv
<1>6. ASSUME NEW s \in Sessions PROVE Agrees(s)'
  <2>1. Agrees(s) /\ MembersKnown
    BY AgreesEach DEF AgreeInv
  <2>2. CASE enrollments'[s].phase = "member"
    <3>1. /\ enrollments[s].phase = "member" /\ enrollments[s].channel \in Channels \ {c}
          /\ enrollments'[s].channel = enrollments[s].channel
      BY <1>4, <2>1, <2>2 DEF MembersKnown
    <3>2. \A r \in Sessions : enrollments'[r].phase = "member" =>
            enrollments[r].phase = "member" /\ enrollments'[r].channel = enrollments[r].channel
      BY <1>4
    <3> QED BY <1>1, <1>2, <2>1, <2>2, <3>1, <3>2 DEF Agrees, Desired, In
  <2>3. CASE enrollments'[s].phase = "left"
    BY <1>2, <1>4, <2>1, <2>3 DEF Agrees, MembersKnown
  <2> QED BY <2>2, <2>3 DEF Agrees
<1>7. SessionsAgree'
  BY <1>6 DEF SessionsAgree, Agrees
<1> QED BY <1>3, <1>5, <1>7 DEF AgreeInv

LEMMA KeptAgrees ==
  ASSUME Types, AgreeInv, \A s \in Sessions : Kept(s),
         granted \subseteq granted',
         \A c \in Channels : /\ c \in Desired => c \in Desired'
                             /\ life'[c].kind = "removed" <=> life[c].kind = "removed"
  PROVE  MembersKnown' /\ \A s \in Sessions : Agrees(s)'
<1>1. MembersKnown'
  BY DEF Kept, MembersKnown, AgreeInv
<1>2. ASSUME NEW s \in Sessions PROVE Agrees(s)'
  <2>1. Agrees(s) /\ Kept(s) /\ MembersKnown
    BY AgreesEach DEF AgreeInv
  <2>2. CASE enrollments'[s].phase = "member"
    <3>1. /\ enrollments[s].phase = "member" /\ enrollments[s].channel \in Channels
          /\ enrollments'[s].channel = enrollments[s].channel
      BY <2>1, <2>2 DEF Kept, MembersKnown
    <3>2. \A r \in Sessions : enrollments'[r].phase = "member" =>
            enrollments[r].phase = "member" /\ enrollments'[r].channel = enrollments[r].channel
      BY DEF Kept
    <3>3. enrollments[s].channel \in Desired' /\ enrollments[s].channel \in granted'
      BY <2>1, <3>1 DEF Agrees
    <3> QED BY <2>1, <2>2, <3>1, <3>2, <3>3 DEF Agrees, In
  <2>3. CASE enrollments'[s].phase = "left"
    BY <2>1, <2>3 DEF Kept, Agrees, MembersKnown
  <2> QED BY <2>2, <2>3 DEF Agrees
<1> QED BY <1>1, <1>2

LEMMA SaveAgrees ==
  ASSUME Types, CallsKnow, AgreeInv, NEW k \in Calls, NEW c \in Channels, Save(k, c)
  PROVE  AgreeInv'
<1> DEFINE s == calls[k].session
<1>1. s \in Sessions /\ enrollments[s] \in Entries /\ UNCHANGED configured
  BY Numbers DEF Save, CallsKnow
<1>2. /\ Failed(enrollments[s]).phase = "failed"
      /\ InPhase(enrollments[s], "member", c).phase = "member"
      /\ InPhase(enrollments[s], "member", c).channel = c
  <2>1. "member" \in Phases /\ c \in Channels \cup {Sender}
    BY DEF Phases
  <2> QED BY <1>1, <2>1, InPhaseTypes, FailedTypes
<1>3. CASE /\ UNCHANGED <<members, life, granted>>
           /\ \/ UNCHANGED enrollments
              \/ enrollments' = [enrollments EXCEPT ![s] = Failed(@)]
  <2>1. \A r \in Sessions : Kept(r)
    BY <1>1, <1>2, <1>3 DEF Kept, Types
  <2>2. MembersKnown' /\ \A r \in Sessions : Agrees(r)'
    BY <1>1, <1>3, <2>1, KeptAgrees DEF Desired
  <2>3. RemovedGone'
    BY <1>1, <1>3 DEF RemovedGone, AgreeInv
  <2> QED BY <2>2, <2>3 DEF AgreeInv, SessionsAgree, Agrees
<1>4. CASE /\ members' = IF c \in Desired THEN members ELSE members \cup {c}
           /\ life' = [life EXCEPT ![c] = Installed(@)]
           /\ granted' = granted \cup {c}
           /\ enrollments' = [r \in Sessions |->
                IF r = s THEN InPhase(enrollments[s], "member", c)
                ELSE IF Replaced(enrollments[r], c) THEN NoEntry ELSE enrollments[r]]
  <2>1. /\ life'[c].kind = "installed"
        /\ \A d \in Channels \ {c} : life'[d] = life[d]
    BY <1>4, Numbers DEF Installed, Lives, Types
  <2>2. RemovedGone'
    BY <1>1, <1>4, <2>1 DEF RemovedGone, AgreeInv
  <2>3. c \in Desired' /\ \A d \in Desired \cap Channels : d \in Desired'
    BY <1>1, <1>4, <2>1 DEF Desired
  <2>4. /\ enrollments'[s].phase = "member" /\ enrollments'[s].channel = c
        /\ \A r \in Sessions \ {s} : enrollments'[r].phase \in {"member", "left"} =>
             /\ enrollments'[r].phase = enrollments[r].phase
             /\ enrollments'[r].channel = enrollments[r].channel
             /\ enrollments[r].channel # c
    BY <1>1, <1>2, <1>4, RecordTypes DEF Replaced
  <2>5. MembersKnown'
    BY <2>4 DEF MembersKnown, AgreeInv
  <2>6. ASSUME NEW r \in Sessions PROVE Agrees(r)'
    <3>1. CASE r = s
      BY <1>4, <2>3, <2>4, <3>1 DEF Agrees, In
    <3>2. CASE r # s /\ enrollments'[r].phase = "member"
      <4>1. /\ enrollments[r].phase = "member" /\ enrollments[r].channel \in Channels \ {c}
            /\ enrollments'[r].channel = enrollments[r].channel /\ Agrees(r)
        BY <2>4, <3>2, AgreesEach DEF AgreeInv, MembersKnown
      <4> QED BY <1>4, <2>3, <2>4, <3>2, <4>1 DEF Agrees, In
    <3>3. CASE r # s /\ enrollments'[r].phase = "left"
      <4>1. /\ enrollments[r].phase = "left" /\ enrollments[r].channel \in Channels \ {c}
            /\ enrollments'[r].channel = enrollments[r].channel /\ Agrees(r)
        BY <2>4, <3>3, AgreesEach DEF AgreeInv, MembersKnown
      <4> QED BY <2>1, <3>3, <4>1 DEF Agrees
    <3> QED BY <3>1, <3>2, <3>3 DEF Agrees
  <2> QED BY <2>2, <2>5, <2>6 DEF AgreeInv, SessionsAgree, Agrees
<1> QED BY <1>3, <1>4 DEF Save

LEMMA GrantAgrees ==
  ASSUME Types, AgreeInv, NEW k \in Calls, Grant(k)
  PROVE  AgreeInv'
<1> DEFINE u == calls[k].auth.user
<1>1. UNCHANGED <<configured, members>> /\ granted \subseteq granted'
  BY DEF Grant
<1>2. \A d \in Channels : /\ Installed(life[d]).kind = "installed"
                          /\ life'[d] \in {life[d], Installed(life[d])}
                          /\ life'[d] # life[d] => d = u
  BY Numbers DEF Grant, Types, Installed, Lives
<1>3. RemovedGone'
  BY <1>1, <1>2 DEF RemovedGone, AgreeInv
<1>4. \A s \in Sessions : enrollments'[s] \in {NoEntry, enrollments[s]}
  BY DEF Grant, Types
<1>5. \A s \in Sessions : Kept(s)
  BY <1>4, RecordTypes DEF Kept
<1>6. ASSUME NEW d \in Channels, life[d].kind = "removed", life'[d].kind # "removed",
             NEW s \in Sessions, enrollments[s].channel = d
      PROVE  enrollments'[s].phase \notin {"member", "left"}
  <2>1. /\ d = u /\ u \in Channels
        /\ enrollments' = [q \in Sessions |->
             IF /\ u \in Channels /\ life[u].kind = "removed"
                /\ Replaced(enrollments[q], u)
             THEN NoEntry ELSE enrollments[q]]
    BY <1>2, <1>6 DEF Grant
  <2> QED BY <1>6, <2>1, RecordTypes DEF Replaced
<1>7. MembersKnown'
  BY <1>5 DEF Kept, MembersKnown, AgreeInv
<1>8. ASSUME NEW s \in Sessions PROVE Agrees(s)'
  <2>1. Agrees(s) /\ Kept(s) /\ MembersKnown
    BY <1>5, AgreesEach DEF AgreeInv
  <2>2. CASE enrollments'[s].phase = "member"
    <3>1. /\ enrollments[s].phase = "member" /\ enrollments[s].channel \in Channels
          /\ enrollments'[s].channel = enrollments[s].channel
      BY <2>1, <2>2 DEF Kept, MembersKnown
    <3>2. \A r \in Sessions : enrollments'[r].phase = "member" =>
            enrollments[r].phase = "member" /\ enrollments'[r].channel = enrollments[r].channel
      BY <1>5 DEF Kept
    <3>3. enrollments[s].channel \in Desired' /\ enrollments[s].channel \in granted'
      BY <1>1, <1>2, <2>1, <3>1 DEF Agrees, Desired
    <3> QED BY <2>1, <2>2, <3>1, <3>2, <3>3 DEF Agrees, In
  <2>3. CASE enrollments'[s].phase = "left"
    <3>1. /\ enrollments[s].phase = "left" /\ enrollments[s].channel \in Channels
          /\ enrollments'[s].channel = enrollments[s].channel
          /\ life[enrollments[s].channel].kind = "removed"
      BY <2>1, <2>3 DEF Kept, Agrees, MembersKnown
    <3>2. life'[enrollments[s].channel].kind = "removed"
      BY <1>6, <2>3, <3>1
    <3> QED BY <2>3, <3>1, <3>2 DEF Agrees
  <2> QED BY <2>2, <2>3 DEF Agrees
<1> QED BY <1>3, <1>7, <1>8 DEF AgreeInv, SessionsAgree, Agrees

LEMMA SetupAgrees ==
  ASSUME Types, AgreeInv, NEW o \in Operators, Setup(o)
  PROVE  AgreeInv'
<1>1. /\ configured' = {c \in Configured : life[c].kind # "removed"}
      /\ UNCHANGED <<members, granted, enrollments>>
      /\ \A c \in Channels :
           life'[c] = IF c \in Configured /\ life[c].kind = "none" THEN Installed(NoLife) ELSE life[c]
  BY DEF Setup, Types
<1>2. Installed(NoLife).kind = "installed"
  BY DEF Installed, NoLife
<1>3. \A c \in Channels : /\ c \in Desired => c \in Desired'
                          /\ life'[c].kind = "removed" <=> life[c].kind = "removed"
  BY <1>1, <1>2 DEF Desired, Types
<1>4. RemovedGone'
  BY <1>1, <1>3 DEF RemovedGone, AgreeInv
<1>5. \A s \in Sessions : Kept(s)
  BY <1>1 DEF Kept
<1>6. granted \subseteq granted'
  BY <1>1
<1>7. MembersKnown' /\ \A s \in Sessions : Agrees(s)'
  BY <1>3, <1>5, <1>6, KeptAgrees
<1> QED BY <1>4, <1>7 DEF AgreeInv, SessionsAgree, Agrees

LEMMA DeployAgrees ==
  ASSUME Types, AgreeInv, Deploy
  PROVE  AgreeInv'
<1>1. configured' = {} /\ UNCHANGED <<members, life>>
  BY DEF Deploy
<1>2. \A s \in Sessions :
        /\ enrollments[s].phase = "left" => enrollments'[s] = enrollments[s]
        /\ enrollments[s].phase # "left" => enrollments'[s].phase \in {"none", "failed"}
  BY FailedTypes, Numbers DEF Deploy
<1>3. RemovedGone'
  BY <1>1 DEF RemovedGone, AgreeInv
<1>4. MembersKnown'
  BY <1>2 DEF MembersKnown, AgreeInv
<1>5. ASSUME NEW s \in Sessions PROVE Agrees(s)'
  BY <1>1, <1>2, AgreesEach DEF Agrees, AgreeInv
<1> QED BY <1>3, <1>4, <1>5 DEF AgreeInv, SessionsAgree, Agrees

LEMMA AgreeStep ==
  ASSUME Types, CallsKnow, AgreeInv, Next
  PROVE  AgreeInv'
<1>1. CASE /\ \A s \in Sessions : Kept(s)
           /\ UNCHANGED <<configured, members, granted, life>>
  <2>1. MembersKnown' /\ \A s \in Sessions : Agrees(s)'
    BY <1>1, KeptAgrees DEF Desired
  <2>2. RemovedGone'
    BY <1>1 DEF RemovedGone, AgreeInv
  <2> QED BY <2>1, <2>2 DEF AgreeInv, SessionsAgree, Agrees
<1> QED BY <1>1, RemoveAgrees, SaveAgrees, GrantAgrees, SetupAgrees, DeployAgrees, SessionsKept

-----------------------------------------------------------------------------
(***************************************************************************)
(* Limits.                                                                 *)
(***************************************************************************)
Open == {"pending", "exchanging"}
Standing == Phases \ {"none", "left"}

\* A session counts after a step only if it did before.
Counted(s) ==
  /\ enrollments'[s].phase \in Open => enrollments[s].phase \in Open
  /\ enrollments'[s].phase \in Standing => enrollments[s].phase \in Standing

LEMMA SessionsCounted ==
  ASSUME Types, CallsKnow, Next
  PROVE  \/ \E s \in Sessions, r \in Sessions \cup {NoCall} : Begin(s, r)
         \/ \A s \in Sessions : Counted(s)
<1> DEFINE Q == \A s \in Sessions : Counted(s)
<1> USE DEF Open, Standing, Phases
<1>1. ASSUME NEW c \in Channels, Remove(c) PROVE Q
  <2> SUFFICES ASSUME NEW s \in Sessions PROVE Counted(s)
    OBVIOUS
  <2>1. enrollments'[s] = Left(enrollments[s], c)
    BY <1>1 DEF Remove
  <2>2. CASE enrollments[s].phase = "member" /\ enrollments[s].channel = c
    <3>1. Left(enrollments[s], c) = InPhase(enrollments[s], "left", c)
      BY <2>2, enrollments[s].phase \notin {"pending", "exchanging"} DEF Left
    <3>2. InPhase(enrollments[s], "left", c).phase = "left"
      <4>1. "left" \in Phases /\ c \in Channels \cup {Sender} /\ enrollments[s] \in Entries
        BY Numbers
      <4> QED BY <4>1, InPhaseTypes
    <3> QED BY <2>1, <3>1, <3>2 DEF Counted
  <2>3. CASE enrollments[s].phase \in {"pending", "exchanging"}
    <3>1. Left(enrollments[s], c) = [enrollments[s] EXCEPT !.since = @ \cup {c}]
      BY <2>3 DEF Left
    <3> QED BY <2>1, <2>3, <3>1, Numbers DEF Entries, Counted
  <2>4. CASE ~(enrollments[s].phase = "member" /\ enrollments[s].channel = c)
             /\ enrollments[s].phase \notin {"pending", "exchanging"}
    <3>1. Left(enrollments[s], c) = enrollments[s]
      BY <2>4 DEF Left
    <3> QED BY <2>1, <3>1 DEF Counted
  <2> QED BY <2>2, <2>3, <2>4
<1>2. ASSUME NEW k \in Calls, Leaves(k)
      PROVE  (\E c \in Channels : Remove(c)) \/ UNCHANGED enrollments
  <2>1. calls[k].channel \in Channels
    BY <1>2 DEF Leaves, CallsKnow
  <2> QED BY <1>2, <2>1 DEF Leaves
<1>3. ASSUME NEW c \in Channels, Revoke(c) PROVE Remove(c)
  BY <1>3 DEF Revoke
<1>4. CASE UNCHANGED enrollments
  BY <1>4 DEF Counted
<1>5. ASSUME NEW s \in Sessions, Deny(s) PROVE Q
  BY <1>5, FailedTypes, Numbers DEF Deny, Claimable, Counted, Types
<1>6. ASSUME NEW s \in Sessions, Lapse(s) \/ Expire(s) PROVE Q
  BY <1>6, Numbers DEF Lapse, Expire, Counted, Types, Entries
<1>7. ASSUME NEW k \in Calls, NEW s \in Sessions, Claim(k, s) PROVE Q
  BY <1>7, Numbers DEF Claim, Claimable, Counted, Types, Entries
<1>8. ASSUME NEW k \in Calls, NEW c \in Channels, Save(k, c) PROVE Q
  <2> DEFINE s == calls[k].session
  <2>1. s \in Sessions /\ enrollments[s] \in Entries
    BY <1>8, Numbers DEF Save, CallsKnow
  <2>2. InPhase(enrollments[s], "member", c).phase = "member"
    <3>1. "member" \in Phases /\ c \in Channels \cup {Sender}
      OBVIOUS
    <3> QED BY <2>1, <3>1, InPhaseTypes
  <2>3. Failed(enrollments[s]).phase = "failed"
    BY <2>1, FailedTypes
  <2>4. \/ UNCHANGED enrollments
        \/ enrollments[s].phase = "exchanging"
    BY <1>8 DEF Save, Owns
  <2> QED BY <1>8, <2>1, <2>2, <2>3, <2>4, RecordTypes DEF Save, Counted, Types
<1>9. ASSUME NEW k \in Calls, SaveFails(k) PROVE Q
  <2>1. calls[k].session \in Sessions /\ enrollments[calls[k].session] \in Entries
    BY <1>9, Numbers DEF SaveFails, CallsKnow
  <2> QED BY <1>9, <2>1, FailedTypes DEF SaveFails, Counted, Types
<1>10. ASSUME NEW k \in Calls, Grant(k) PROVE Q
  BY <1>10, RecordTypes DEF Grant, Counted, Types
<1>11. CASE Reclaim
  BY <1>11, RecordTypes DEF Reclaim, Counted, Types
<1>12. CASE Deploy
  BY <1>12, FailedTypes, Numbers DEF Deploy, Counted, Types, Entries
<1> QED BY <1>1, <1>2, <1>3, <1>4, <1>5, <1>6, <1>7, <1>8, <1>9, <1>10, <1>11, <1>12
        DEF Next, Leave, Take, GrantFails, Setup, ExpireAuth, Crash

\* What counts after a session began: the retained sessions, as many failures as there
\* are slots, and the new one.
LEMMA BeginCounted ==
  ASSUME Types, NEW s \in Sessions, NEW previous \in Sessions \cup {NoCall},
         Begin(s, previous)
  PROVE  /\ Cardinality(In(Open)') <= MaxIntents
         /\ Cardinality(In(Standing)') <= MaxChannels + MaxIntents
<1> DEFINE retained == {r \in Sessions : /\ enrollments[r].phase # "none"
                                         /\ ~enrollments[r].expired /\ r # previous}
           active == {r \in retained : enrollments[r].phase \notin {"left", "failed"}}
           failures == retained \cap In({"failed"})
           slots == (MaxChannels + MaxIntents) - (Cardinality(active) + 1)
           intents == {r \in retained : Intents(enrollments[r].phase)}
           new == [NoEntry EXCEPT !.phase = "pending", !.revision = revision,
                                  !.removals = removals]
<1>1. /\ MaxIntents \in Nat /\ MaxChannels \in Nat /\ IsFiniteSet(Sessions)
      /\ active \subseteq Sessions /\ failures \subseteq Sessions /\ intents \subseteq Sessions
  BY EnrollmentAssumption
<1>2. /\ IsFiniteSet(active) /\ IsFiniteSet(failures) /\ IsFiniteSet(intents)
      /\ Cardinality(active) \in Nat /\ Cardinality(intents) \in Nat
      /\ Cardinality(failures) \in Nat
  BY <1>1, FS_Subset, FS_CardinalityType
<1>3. Cardinality(intents) < MaxIntents
  BY DEF Begin
<1>4. PICK kept \in SUBSET failures :
        /\ IF Cardinality(failures) <= slots THEN kept = failures ELSE Cardinality(kept) = slots
        /\ enrollments' = [r \in Sessions |->
             IF r = s THEN new
             ELSE IF r \in (retained \ failures) \cup kept THEN enrollments[r] ELSE NoEntry]
  BY DEF Begin
<1>5. new.phase = "pending" /\ NoEntry.phase = "none"
  BY RecordTypes DEF Entries
<1>6. In(Open)' \subseteq intents \cup {s}
  <2> HIDE DEF new
  <2> QED BY <1>4, <1>5 DEF In, Open, Intents
<1>7. In(Standing)' \subseteq (active \cup kept) \cup {s}
  <2> HIDE DEF new
  <2> QED BY <1>4, <1>5 DEF In, Standing, Phases
<1>8. /\ IsFiniteSet(kept) /\ Cardinality(kept) \in Nat
      /\ Cardinality(active) + Cardinality(kept) + 1 <= MaxChannels + MaxIntents
  <2>1. IsFiniteSet(kept) /\ Cardinality(kept) \in Nat
    BY <1>2, FS_Subset, FS_CardinalityType
  <2> HIDE DEF active, failures, retained
  <2> QED BY <1>1, <1>2, <1>4, <2>1
<1> HIDE DEF active, failures, retained, intents, new, slots
<1>9. /\ IsFiniteSet(intents \cup {s})
      /\ Cardinality(intents \cup {s}) <= Cardinality(intents) + 1
      /\ Cardinality(intents \cup {s}) \in Nat
  <2>1. /\ IsFiniteSet(intents \cup {s})
        /\ Cardinality(intents \cup {s}) =
             IF s \in intents THEN Cardinality(intents) ELSE Cardinality(intents) + 1
    BY <1>2, FS_AddElement
  <2> QED BY <1>2, <2>1
<1>10. /\ IsFiniteSet(active \cup kept)
       /\ Cardinality(active \cup kept) <= Cardinality(active) + Cardinality(kept)
       /\ Cardinality(active \cup kept) \in Nat
  <2>1. /\ IsFiniteSet(active \cup kept) /\ IsFiniteSet(active \cap kept)
        /\ Cardinality(active \cup kept) =
             Cardinality(active) + Cardinality(kept) - Cardinality(active \cap kept)
    BY <1>2, <1>8, FS_Union, FS_Intersection
  <2> QED BY <1>2, <1>8, <2>1, FS_CardinalityType
<1>11. /\ IsFiniteSet((active \cup kept) \cup {s})
       /\ Cardinality((active \cup kept) \cup {s}) <= Cardinality(active \cup kept) + 1
       /\ Cardinality((active \cup kept) \cup {s}) \in Nat
  <2> DEFINE others == active \cup kept
  <2>1. IsFiniteSet(others) /\ Cardinality(others) \in Nat
    BY <1>10
  <2> HIDE DEF others
  <2>2. /\ IsFiniteSet(others \cup {s})
        /\ Cardinality(others \cup {s}) =
             IF s \in others THEN Cardinality(others) ELSE Cardinality(others) + 1
    BY <2>1, FS_AddElement
  <2>3. /\ Cardinality(others \cup {s}) <= Cardinality(others) + 1
        /\ Cardinality(others \cup {s}) \in Nat
    BY <2>1, <2>2
  <2> QED BY <2>2, <2>3 DEF others
<1>12. /\ Cardinality(In(Open)') <= Cardinality(intents \cup {s})
       /\ Cardinality(In(Standing)') <= Cardinality((active \cup kept) \cup {s})
       /\ Cardinality(In(Open)') \in Nat /\ Cardinality(In(Standing)') \in Nat
  BY <1>6, <1>7, <1>9, <1>11, FS_Subset, FS_CardinalityType
<1> QED BY <1>1, <1>2, <1>3, <1>8, <1>9, <1>10, <1>11, <1>12

LEMMA DesiredCounted ==
  ASSUME Types, Types', CallsKnow, RemovedGone, Cardinality(Desired) <= MaxChannels, Next
  PROVE  Cardinality(Desired') <= MaxChannels
<1>1. /\ IsFiniteSet(Channels) /\ MaxChannels \in Nat
      /\ Desired \subseteq Channels /\ Desired' \subseteq Channels
  BY EnrollmentAssumption DEF Desired, Types
<1>2. /\ IsFiniteSet(Desired) /\ Cardinality(Desired) \in Nat
      /\ IsFiniteSet(Desired') /\ Cardinality(Desired') \in Nat
  BY <1>1, FS_Subset, FS_CardinalityType
<1>3. CASE Desired' \subseteq Desired
  <2>1. Cardinality(Desired') <= Cardinality(Desired)
    BY <1>2, <1>3, FS_Subset
  <2> QED BY <1>1, <1>2, <2>1
<1>4. ASSUME NEW c \in Channels, Remove(c) PROVE Desired' \subseteq Desired
  BY <1>4 DEF Remove, Types, Desired
<1>5. ASSUME NEW k \in Calls, NEW c \in Channels, Save(k, c)
      PROVE  Cardinality(Desired') <= MaxChannels
  <2>1. CASE UNCHANGED <<members, life>>
    BY <1>3, <1>5, <2>1 DEF Save, Desired
  <2>2. CASE ~UNCHANGED <<members, life>>
    <3>1. /\ c \in Desired \/ Room(Cardinality(Desired))
          /\ members' = IF c \in Desired THEN members ELSE members \cup {c}
          /\ life' = [life EXCEPT ![c] = Installed(@)] /\ UNCHANGED configured
      BY <1>5, <2>2 DEF Save
    <3>2. Desired' \subseteq Desired \cup {c}
      BY <3>1 DEF Desired, Types
    <3>3. CASE c \in Desired
      BY <1>3, <3>2, <3>3
    <3>4. CASE c \notin Desired
      <4>1. /\ IsFiniteSet(Desired \cup {c})
            /\ Cardinality(Desired \cup {c}) = Cardinality(Desired) + 1
        BY <1>2, <3>4, FS_AddElement
      <4>2. Cardinality(Desired') <= Cardinality(Desired \cup {c})
        BY <3>2, <4>1, FS_Subset
      <4> QED BY <1>1, <1>2, <3>1, <3>4, <4>1, <4>2 DEF Room
    <3> QED BY <3>3, <3>4
  <2> QED BY <2>1, <2>2
<1>6. ASSUME NEW k \in Calls, Grant(k) PROVE Desired' \subseteq Desired
  <2>1. Desired' \subseteq configured \cup members
    BY <1>6 DEF Grant, Desired
  <2>2. configured \cup members \subseteq Desired
    BY EnrollmentAssumption DEF Desired, RemovedGone, Types
  <2> QED BY <2>1, <2>2
<1>7. ASSUME NEW o \in Operators, Setup(o) PROVE Cardinality(Desired') <= MaxChannels
  <2> DEFINE resolved == {c \in Configured : life[c].kind # "removed"}
             desired == resolved \cup {c \in members : life[c].kind # "removed"}
  <2>1. /\ Cardinality(desired) <= MaxChannels
        /\ configured' = resolved /\ UNCHANGED members
        /\ \A c \in Channels :
             life'[c] = IF c \in Configured /\ life[c].kind = "none"
                        THEN Installed(NoLife) ELSE life[c]
    BY <1>7 DEF Setup, Types
  <2>2. Installed(NoLife).kind = "installed"
    BY DEF Installed, NoLife
  <2>3. Desired' = desired
    BY <2>1, <2>2, EnrollmentAssumption DEF Desired, Types
  <2> HIDE DEF desired
  <2> QED BY <2>1, <2>3
<1>8. CASE Deploy
  BY <1>3, <1>8 DEF Deploy, Desired
<1>9. CASE UNCHANGED <<configured, members, granted, life>>
  BY <1>3, <1>9 DEF Desired
<1> QED BY <1>3, <1>4, <1>5, <1>6, <1>7, <1>8, <1>9, SessionsKept

LEMMA CapacityStep ==
  ASSUME Types, Types', CallsKnow, AgreeInv, Capacity, Next
  PROVE  Capacity'
<1>1. Cardinality(Desired') <= MaxChannels
  BY DesiredCounted DEF Capacity, AgreeInv
<1>2. CASE \A s \in Sessions : Counted(s)
  <2>1. In(Open)' \subseteq In(Open) /\ In(Standing)' \subseteq In(Standing)
    BY <1>2 DEF Counted, In
  <2>2. In(Open) \subseteq Sessions /\ In(Standing) \subseteq Sessions
    BY DEF In
  <2>3. IsFiniteSet(In(Open)) /\ IsFiniteSet(In(Standing))
    BY <2>2, FS_Subset, EnrollmentAssumption
  <2>4. /\ IsFiniteSet(In(Open)') /\ IsFiniteSet(In(Standing)')
        /\ Cardinality(In(Open)') <= Cardinality(In(Open))
        /\ Cardinality(In(Standing)') <= Cardinality(In(Standing))
    BY <2>1, <2>3, FS_Subset
  <2>5. /\ Cardinality(In(Open)) \in Nat /\ Cardinality(In(Open)') \in Nat
        /\ Cardinality(In(Standing)) \in Nat /\ Cardinality(In(Standing)') \in Nat
        /\ MaxIntents \in Nat /\ MaxChannels + MaxIntents \in Nat
    BY <2>3, <2>4, FS_CardinalityType, EnrollmentAssumption
  <2>6. /\ Cardinality(In(Open)) <= MaxIntents
        /\ Cardinality(In(Standing)) <= MaxChannels + MaxIntents
    BY DEF Capacity, Open, Standing
  <2>7. /\ Cardinality(In(Open)') <= MaxIntents
        /\ Cardinality(In(Standing)') <= MaxChannels + MaxIntents
    BY <2>4, <2>5, <2>6
  <2> QED BY <1>1, <2>7 DEF Capacity, Open, Standing
<1>3. ASSUME NEW s \in Sessions, NEW r \in Sessions \cup {NoCall}, Begin(s, r)
      PROVE  Capacity'
  <2>1. /\ Cardinality(In(Open)') <= MaxIntents
        /\ Cardinality(In(Standing)') <= MaxChannels + MaxIntents
    BY <1>3, BeginCounted
  <2> QED BY <1>1, <2>1 DEF Capacity, Open, Standing
<1> QED BY <1>2, <1>3, SessionsCounted

-----------------------------------------------------------------------------
(***************************************************************************)
(* The theorems.                                                           *)
(***************************************************************************)
LEMMA Start == Init => IInv
<1> SUFFICES ASSUME Init PROVE IInv
  OBVIOUS
<1> USE EnrollmentAssumption
<1>1. Types
  BY RecordTypes DEF Init, Types, NoLife, Lives
<1>2. /\ \A s \in Sessions : enrollments[s] = NoEntry
      /\ \A k \in Calls : calls[k] = Idle
      /\ \A d \in Digests : oauth[d] = NoAuth
      /\ \A c \in Channels : life[c] = NoLife
      /\ removals = 0 /\ configured = {} /\ members = {}
  BY DEF Init
<1>3. FenceInv
  BY <1>2, RecordTypes DEF Init, FenceInv, Drawn, SessionsFenced, FencedEntry, AuthsFenced,
     Fences, CallsKnow, Current, NoLife
<1>4. AgreeInv
  BY <1>2, RecordTypes DEF AgreeInv, MembersKnown, RemovedGone, SessionsAgree, In
<1>5. Capacity
  <2>1. Desired = {} /\ In({"pending", "exchanging"}) = {} /\ In(Phases \ {"none", "left"}) = {}
    BY <1>2, RecordTypes DEF Desired, In
  <2>2. Cardinality({}) = 0
    BY FS_EmptySet
  <2>3. 0 <= MaxChannels /\ 0 <= MaxIntents /\ 0 <= MaxChannels + MaxIntents
    OBVIOUS
  <2> QED BY <2>1, <2>2, <2>3 DEF Capacity
<1> QED BY <1>1, <1>3, <1>4, <1>5 DEF IInv

LEMMA Step == IInv /\ [Next]_vars => IInv'
<1> SUFFICES ASSUME IInv, [Next]_vars PROVE IInv'
  OBVIOUS
<1> USE DEF IInv, FenceInv, AgreeInv
<1>1. CASE Next
  <2>1. Types'
    BY <1>1, TypesStep
  <2>2. Drawn'
    BY <1>1, GrownStep
  <2>3. SessionsFenced'
    BY <1>1, <2>1, SessionsFencedStep
  <2>4. AuthsFenced'
    BY <1>1, <2>1, AuthsFencedStep
  <2>5. CallsKnow'
    BY <1>1, CallsKnowStep
  <2>6. Current'
    BY <1>1, CurrentStep
  <2>7. AgreeInv'
    BY <1>1, AgreeStep
  <2>8. Capacity'
    BY <1>1, <2>1, CapacityStep
  <2> QED BY <2>1, <2>2, <2>3, <2>4, <2>5, <2>6, <2>7, <2>8
<1>2. CASE UNCHANGED vars
  BY <1>2 DEF vars, Types, Drawn, SessionsFenced, FencedEntry, AuthsFenced, Fences, CallsKnow,
     Current, MembersKnown, RemovedGone, SessionsAgree, Capacity, Desired, In
<1> QED BY <1>1, <1>2

LEMMA Invariance == Spec => []IInv
BY Start, Step, PTL DEF Spec

\* Every part of the account that enrollments see keeps its type, and no channel's
\* sequence is ahead of the removals.
THEOREM EnrollmentTypes == Spec => []TypeOK
<1>1. ASSUME IInv
      PROVE  TypeOK
  <2>1. Types /\ Drawn
    BY <1>1 DEF IInv, FenceInv
  <2>2. ASSUME NEW c \in Channels
        PROVE  life[c] \in [kind : {"none", "installed", "removed"}, sequence : 0..removals]
    <3>1. life[c] \in Lives /\ life[c].sequence <= removals /\ removals \in Nat
      BY <2>1, EnrollmentAssumption DEF Types, Drawn
    <3> QED BY <3>1 DEF Lives
  <2>3. \A s \in Sessions : enrollments[s].phase \in Phases
    BY <2>1 DEF Types, Entries
  <2>4. \A k \in Calls : calls[k].pc \in {"idle", "leave", "exchange", "error", "grant"}
    BY <2>1 DEF Types, CallRecords
  <2> QED BY <2>1, <2>2, <2>3, <2>4 DEF Types, TypeOK
<1> QED BY <1>1, Invariance, PTL

\* A channel that was removed comes back only through a consent that was asked for
\* after the removal (completeEnrollment, completeOAuth, removeChannel).
THEOREM RemovedStaysAway == Spec => []NoResurrection
<1>1. IInv => NoResurrection
  BY DEF IInv, FenceInv, Current, NoResurrection
<1> QED BY <1>1, Invariance, PTL

\* A session tells of its channel what the account holds of it: one session at most
\* has a channel as a member, and a channel left is a removed one.
THEOREM SessionsTell == Spec => []SessionsAgree
<1>1. IInv => SessionsAgree
  BY DEF IInv, AgreeInv
<1> QED BY <1>1, Invariance, PTL

\* The account keeps within its policy, also when sessions are claimed, fail, or are
\* dropped for new ones.
THEOREM WithinCapacity == Spec => []Capacity
<1>1. IInv => Capacity
  BY DEF IInv
<1> QED BY <1>1, Invariance, PTL

-----------------------------------------------------------------------------
(***************************************************************************)
(* A status goes one way.  A session under way is of the revision that     *)
(* runs, for a deployment ends the others; this is why a session that a    *)
(* removal ends was not told before that it had failed.                    *)
(***************************************************************************)
Ongoing == {"pending", "exchanging", "member"}

OfRevision ==
  /\ begun \subseteq Sessions
  /\ \A s \in Sessions : enrollments[s].phase \in Ongoing => enrollments[s].revision = revision

\* From one entry of a session to its next.
Advances(e, f) ==
  /\ f.phase \in Ongoing => e.phase \in Ongoing /\ f.revision = e.revision
  /\ \/ f.phase \in {"none", "failed"} \/ f.expired
     \/ /\ ~e.expired /\ e.phase \notin {"none", "failed"}
        /\ e.phase = "left" => f.phase = "left"
        /\ e.phase = "member" => f.phase \in {"member", "left"}
        /\ e.phase \in {"pending", "exchanging"} /\ e.lapsed
             => f.phase \in {"pending", "exchanging"} /\ f.lapsed

Moves(s) == Advances(enrollments[s], enrollments'[s])

LEMMA InPhaseKeeps ==
  ASSUME NEW entry \in Entries, NEW p \in Phases, NEW c \in Channels \cup {Sender}
  PROVE  /\ InPhase(entry, p, c).revision = entry.revision
         /\ InPhase(entry, p, c).expired = entry.expired
         /\ InPhase(entry, p, c).phase = p
BY RecordTypes DEF InPhase, Entries

LEMMA SameMoves == ASSUME NEW e PROVE Advances(e, e)
BY DEF Advances, Ongoing

LEMMA EndMoves ==
  ASSUME NEW e, NEW f, f.phase \in {"none", "failed"}
  PROVE  Advances(e, f)
BY DEF Advances, Ongoing

LEMMA LeftMoves ==
  ASSUME NEW entry \in Entries, NEW c \in Channels
  PROVE  Advances(entry, Left(entry, c))
<1>1. CASE entry.phase = "member" /\ entry.channel = c
  <2>1. Left(entry, c) = InPhase(entry, "left", c)
    BY <1>1, entry.phase \notin {"pending", "exchanging"} DEF Left
  <2>2. "left" \in Phases /\ c \in Channels \cup {Sender}
    BY DEF Phases
  <2> QED BY <1>1, <2>1, <2>2, InPhaseKeeps DEF Advances, Ongoing, Entries
<1>2. CASE entry.phase \in {"pending", "exchanging"}
  <2>1. Left(entry, c) = [entry EXCEPT !.since = @ \cup {c}]
    BY <1>2 DEF Left
  <2> QED BY <1>2, <2>1 DEF Advances, Ongoing, Entries
<1>3. CASE ~(entry.phase = "member" /\ entry.channel = c)
           /\ entry.phase \notin {"pending", "exchanging"}
  <2>1. Left(entry, c) = entry
    BY <1>3 DEF Left
  <2> QED BY <2>1, SameMoves
<1> QED BY <1>1, <1>2, <1>3

LEMMA SaveMoves ==
  ASSUME Types, CallsKnow, NEW k \in Calls, NEW c \in Channels, Save(k, c)
  PROVE  \A s \in Sessions : Moves(s)
<1> DEFINE q == calls[k].session
           e == enrollments[q]
<1>1. q \in Sessions /\ e \in Entries
  BY Numbers DEF Save, CallsKnow
<1>2. "member" \in Phases /\ c \in Channels \cup {Sender}
  BY DEF Phases
<1>3. ASSUME Owns(k, e) PROVE Advances(e, InPhase(e, "member", c))
  BY <1>1, <1>2, <1>3, InPhaseKeeps DEF Advances, Ongoing, Owns, Entries
<1>4. Failed(e).phase = "failed" /\ NoEntry.phase = "none"
  BY <1>1, FailedTypes, RecordTypes
<1>5. ASSUME NEW s \in Sessions
      PROVE  \/ enrollments'[s] \in {enrollments[s], NoEntry}
             \/ s = q /\ enrollments'[s] = Failed(e)
             \/ s = q /\ enrollments'[s] = InPhase(e, "member", c) /\ Owns(k, e)
  BY <1>1 DEF Save, Types
<1> HIDE DEF q, e
<1>6. ASSUME NEW s \in Sessions PROVE Moves(s)
  <2>1. CASE enrollments'[s] \in {enrollments[s], NoEntry}
    BY <2>1, <1>4, SameMoves, EndMoves DEF Moves
  <2>2. CASE s = q /\ enrollments'[s] = Failed(e)
    BY <2>2, <1>4, EndMoves DEF Moves
  <2>3. CASE s = q /\ enrollments'[s] = InPhase(e, "member", c) /\ Owns(k, e)
    BY <2>3, <1>3 DEF Moves, e
  <2> QED BY <1>5, <2>1, <2>2, <2>3
<1> QED BY <1>6

LEMMA SessionsMove ==
  ASSUME Types, CallsKnow, Next
  PROVE  /\ \A s \in Sessions :
              Moves(s) \/ (/\ s \notin begun /\ enrollments'[s].phase = "pending"
                           /\ enrollments'[s].revision = revision)
         /\ revision' = revision \/ \A s \in Sessions : enrollments'[s].phase \notin Ongoing
<1> DEFINE Q == (\A s \in Sessions : Moves(s)) /\ revision' = revision
<1>1. CASE UNCHANGED <<enrollments, revision>>
  BY <1>1, SameMoves DEF Moves
<1>2. ASSUME NEW c \in Channels, Remove(c) PROVE Q
  BY <1>2, LeftMoves, Numbers DEF Remove, Moves
<1>3. ASSUME NEW k \in Calls, Leaves(k) PROVE Q \/ UNCHANGED <<enrollments, revision>>
  <2>1. calls[k].channel \in Channels
    BY <1>3 DEF Leaves, CallsKnow
  <2> QED BY <1>2, <1>3, <2>1 DEF Leaves
<1>4. ASSUME NEW q \in Sessions, NEW r \in Sessions \cup {NoCall}, Begin(q, r)
      PROVE  /\ \A s \in Sessions :
                  Moves(s) \/ (/\ s \notin begun /\ enrollments'[s].phase = "pending"
                               /\ enrollments'[s].revision = revision)
             /\ revision' = revision
  <2> DEFINE new == [NoEntry EXCEPT !.phase = "pending", !.revision = revision,
                                    !.removals = removals]
  <2>1. /\ \A s \in Sessions : \/ enrollments'[s] \in {enrollments[s], NoEntry}
                               \/ s = q /\ enrollments'[s] = new
        /\ q \notin begun /\ revision' = revision
    BY <1>4 DEF Begin
  <2>2. new.phase = "pending" /\ new.revision = revision
    BY RecordTypes DEF Entries
  <2> HIDE DEF new
  <2> QED BY <2>1, <2>2, RecordTypes, SameMoves, EndMoves DEF Moves
<1>5. ASSUME NEW q \in Sessions, Deny(q) PROVE Q
  <2>1. /\ \A s \in Sessions : enrollments'[s] \in {enrollments[s], Failed(enrollments[s])}
        /\ revision' = revision
    BY <1>5 DEF Deny, Types
  <2> QED BY <2>1, FailedTypes, Numbers, SameMoves, EndMoves DEF Moves
<1>6. ASSUME NEW q \in Sessions, Lapse(q) PROVE Q
  <2>1. /\ \A s \in Sessions : enrollments'[s] \in
             {enrollments[s], [enrollments[s] EXCEPT !.lapsed = TRUE]}
        /\ revision' = revision
    BY <1>6 DEF Lapse, Types
  <2>2. ASSUME NEW e \in Entries PROVE Advances(e, [e EXCEPT !.lapsed = TRUE])
    BY DEF Advances, Ongoing, Entries
  <2> QED BY <2>1, <2>2, Numbers, SameMoves DEF Moves
<1>7. ASSUME NEW q \in Sessions, Expire(q) PROVE Q
  <2>1. /\ \A s \in Sessions : enrollments'[s] \in
             {enrollments[s], [enrollments[s] EXCEPT !.expired = TRUE, !.lapsed = TRUE]}
        /\ revision' = revision
    BY <1>7 DEF Expire, Types
  <2>2. ASSUME NEW e \in Entries
        PROVE  Advances(e, [e EXCEPT !.expired = TRUE, !.lapsed = TRUE])
    BY DEF Advances, Ongoing, Entries
  <2> QED BY <2>1, <2>2, Numbers, SameMoves DEF Moves
<1>8. ASSUME NEW k \in Calls, NEW q \in Sessions, Claim(k, q) PROVE Q
  <2>1. /\ enrollments[q].phase = "pending" /\ revision' = revision
        /\ \A s \in Sessions :
             \/ enrollments'[s] = enrollments[s]
             \/ s = q /\ enrollments'[s] =
                  [enrollments[s] EXCEPT !.phase = "exchanging", !.owner = k]
    BY <1>8 DEF Claim, Claimable, Types
  <2>2. ASSUME NEW e \in Entries, e.phase = "pending"
        PROVE  Advances(e, [e EXCEPT !.phase = "exchanging", !.owner = k])
    BY <2>2 DEF Advances, Ongoing, Entries
  <2> QED BY <2>1, <2>2, Numbers, SameMoves DEF Moves
<1>9. ASSUME NEW k \in Calls, NEW c \in Channels, Save(k, c) PROVE Q
  BY <1>9, SaveMoves DEF Save
<1>10. ASSUME NEW k \in Calls, SaveFails(k) PROVE Q
  <2>1. calls[k].session \in Sessions
    BY <1>10 DEF SaveFails, CallsKnow
  <2>2. /\ \A s \in Sessions : enrollments'[s] \in {enrollments[s], Failed(enrollments[s])}
        /\ revision' = revision
    BY <1>10, <2>1 DEF SaveFails, Types
  <2> QED BY <2>2, FailedTypes, Numbers, SameMoves, EndMoves DEF Moves
<1>11. ASSUME NEW k \in Calls, Grant(k) PROVE Q
  <2>1. /\ \A s \in Sessions : enrollments'[s] \in {enrollments[s], NoEntry}
        /\ revision' = revision
    BY <1>11 DEF Grant, Types
  <2> QED BY <2>1, RecordTypes, SameMoves, EndMoves DEF Moves
<1>12. CASE Reclaim
  <2>1. /\ \A s \in Sessions : enrollments'[s] \in {enrollments[s], NoEntry}
        /\ revision' = revision
    BY <1>12 DEF Reclaim
  <2> QED BY <2>1, RecordTypes, SameMoves, EndMoves DEF Moves
<1>13. CASE Deploy
  <2>1. \A s \in Sessions :
          \/ enrollments'[s] = enrollments[s] /\ enrollments[s].phase \in {"none", "left"}
          \/ enrollments'[s] = Failed(enrollments[s])
    BY <1>13 DEF Deploy
  <2> QED BY <2>1, FailedTypes, Numbers, SameMoves, EndMoves DEF Moves, Ongoing
<1>14. ASSUME NEW c \in Channels, Revoke(c) PROVE Q
  BY <1>2, <1>14 DEF Revoke
<1>15. \/ UNCHANGED <<enrollments, revision>>
       \/ Q
       \/ \E q \in Sessions, r \in Sessions \cup {NoCall} : Begin(q, r)
       \/ Reclaim \/ Deploy
  <2> HIDE DEF Q
  <2> QED BY <1>3, <1>5, <1>6, <1>7, <1>8, <1>9, <1>10, <1>11, <1>14
          DEF Next, Leave, Take, GrantFails, Setup, ExpireAuth, Crash
<1> QED BY <1>1, <1>4, <1>12, <1>13, <1>15

LEMMA OfRevisionStep == IInv /\ OfRevision /\ [Next]_vars => OfRevision'
<1> SUFFICES ASSUME IInv, OfRevision, [Next]_vars PROVE OfRevision'
  OBVIOUS
<1>1. CASE Next
  <2>1. Types /\ CallsKnow
    BY DEF IInv, FenceInv
  <2>2. begun' = begun \/ \E s \in Sessions : begun' = begun \cup {s}
    BY <1>1 DEF Next, Revoke, Remove, Begin, Deny, Lapse, Expire, Claim, Leave, Save, Take, Leaves,
       SaveFails, Grant, GrantFails, Setup, ExpireAuth, Reclaim, Deploy, Crash
  <2>3. \A s \in Sessions : enrollments'[s].phase \in Ongoing => enrollments'[s].revision = revision'
    BY <1>1, <2>1, SessionsMove DEF OfRevision, Moves, Advances
  <2> QED BY <2>2, <2>3 DEF OfRevision
<1>2. CASE UNCHANGED vars
  BY <1>2 DEF vars, OfRevision
<1> QED BY <1>1, <1>2

\* What enrollmentStatus says, in a state of the invariant.
Said(entry) ==
  IF entry.phase \in {"none", "failed"} \/ entry.expired THEN "failed"
  ELSE IF entry.phase = "left" THEN "left"
  ELSE IF entry.phase = "member" THEN "standing"
  ELSE IF entry.lapsed THEN "failed" ELSE "pending"

LEMMA StatusSaid ==
  IInv /\ OfRevision => \A s \in Sessions : Status(s) = Said(enrollments[s])
<1> SUFFICES ASSUME IInv, OfRevision, NEW s \in Sessions
             PROVE  Status(s) = Said(enrollments[s])
  OBVIOUS
<1>1. enrollments[s] \in Entries
  BY Numbers DEF IInv
<1>2. /\ enrollments[s].phase = "member" => enrollments[s].channel \in Desired
      /\ enrollments[s].phase = "left" => life[enrollments[s].channel].kind = "removed"
  BY DEF IInv, AgreeInv, SessionsAgree
<1>3. enrollments[s].phase \in Ongoing => enrollments[s].revision = revision
  BY DEF OfRevision
<1> QED BY <1>1, <1>2, <1>3 DEF Status, Said, Ongoing, Entries, Phases

LEMMA SaidForward ==
  ASSUME NEW e \in Entries, NEW f \in Entries, Advances(e, f)
  PROVE  Rank(Said(f)) >= Rank(Said(e))
<1>1. /\ Rank("pending") = 1 /\ Rank("standing") = 2 /\ Rank("left") = 3 /\ Rank("failed") = 4
  BY DEF Rank
<1>2. CASE f.phase \in {"none", "failed"} \/ f.expired
  BY <1>1, <1>2 DEF Said
<1>3. CASE ~(f.phase \in {"none", "failed"} \/ f.expired)
  <2>1. CASE e.phase \in {"pending", "exchanging"}
    BY <1>1, <1>3, <2>1 DEF Said, Advances, Entries
  <2>2. CASE e.phase \in {"member", "left"}
    BY <1>1, <1>3, <2>2 DEF Said, Advances, Entries
  <2> QED BY <1>3, <2>1, <2>2 DEF Advances, Entries, Phases
<1> QED BY <1>2, <1>3

\* No broadcaster is told that a session failed, was left or stands, and later that it is
\* in an earlier state, through removals, consents and deployments (enrollmentStatus).
THEOREM StatusOnlyAdvances == Spec => StatusForward
<1>1. Init => OfRevision
  BY RecordTypes DEF Init, OfRevision, Ongoing
<1>2. Spec => []OfRevision
  BY <1>1, OfRevisionStep, Invariance, PTL DEF Spec
<1>3. (IInv /\ OfRevision)' => (\A s \in Sessions : Status(s) = Said(enrollments[s]))'
  BY StatusSaid, PTL
<1>4. IInv /\ IInv' /\ OfRevision /\ OfRevision' /\ [Next]_vars
      => [\A s \in begun : Rank(Status(s)') >= Rank(Status(s))]_vars
  <2> SUFFICES ASSUME IInv, IInv', OfRevision, OfRevision', Next, NEW s \in begun
               PROVE  Rank(Status(s)') >= Rank(Status(s))
    OBVIOUS
  <2>1. Types /\ CallsKnow /\ s \in Sessions
    BY DEF IInv, FenceInv, OfRevision
  <2>2. enrollments[s] \in Entries /\ enrollments'[s] \in Entries
    BY <2>1 DEF IInv, Types
  <2>3. Status(s)' = Said(enrollments'[s])
    BY <1>3, <2>1 DEF Said
  <2>4. Status(s) = Said(enrollments[s])
    BY <2>1, StatusSaid
  <2>5. Advances(enrollments[s], enrollments'[s])
    BY <2>1, SessionsMove DEF Moves
  <2> QED BY <2>2, <2>3, <2>4, <2>5, SaidForward
<1>5. Spec => [][\A s \in begun : Rank(Status(s)') >= Rank(Status(s))]_vars
  BY <1>2, <1>4, Invariance, PTL DEF Spec
<1> QED BY <1>5 DEF StatusForward
=============================================================================
