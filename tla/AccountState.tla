----------------------------- MODULE AccountState -----------------------------
(***************************************************************************)
(* The account's state as its operations see it (packages/twitch/src/      *)
(* state.ts): one value, which each transaction of the store replaces by   *)
(* what its function makes of it.                                          *)
(*                                                                         *)
(* Of the state there is what decides where it is stored and when the      *)
(* alarm is due.  The functions are those of account.ts, as far as they    *)
(* move such parts: an enrollment, a removal, a setup, a created           *)
(* subscription, an authorization asked for, a reclaim; a sweep; and what  *)
(* dispatch does to attempts and reservations.                             *)
(***************************************************************************)
EXTENDS SequencesExt, Functions, FiniteSetsExt

CONSTANTS Channels, Sessions, Subs, Times

VARIABLE account

None == <<>>

Init == account = [configured |-> <<>>, public |-> <<>>,    \* channels, publicMembers
                   life |-> None, subscription |-> None,    \* by channel
                   revoked |-> None,                        \* when due, by subscription
                   oauth |-> {}, attempts |-> {},           \* when they are reclaimed
                   left |-> None, enrollments |-> None,     \* likewise, by session
                   reservations |-> {}, sweep |-> {}]

-----------------------------------------------------------------------------
Put(f, x, y) == [z \in DOMAIN f \cup {x} |-> IF z = x THEN y ELSE f[z]]
Drop(f, X) == Restrict(f, DOMAIN f \ X)

\* The members but c, in their order.
Without(s, c) ==
  LET kept[i \in 0..Len(s)] == IF i = 0 THEN <<>>
                               ELSE IF s[i] = c THEN kept[i - 1]
                               ELSE Append(kept[i - 1], s[i])
  IN  kept[Len(s)]

Missing(f, x) == x \notin DOMAIN f

Member(acc, c) == c \in ToSet(acc.configured) \cup ToSet(acc.public)

\* retireId: the recorded subscription of channel c becomes a tombstone.
Retired(acc, c, t) ==
  IF Missing(acc.subscription, c) THEN acc
  ELSE [acc EXCEPT !.subscription = Drop(@, {c}),
                   !.revoked = Put(@, acc.subscription[c], t)]

\* completeEnrollment, saved: an installed channel has a recovery or none.
Enrolled(acc, c, s, t) ==
  [Retired(acc, c, t) EXCEPT !.public = IF Member(acc, c) THEN @ ELSE Append(@, c),
                             !.life = Put(@, c, {t}),
                             !.enrollments = Put(@, s, t),
                             !.left = Drop(@, {s})]

\* removeChannel, for a session s of the channel; a removed channel has no recovery.
Removed(acc, c, s, t) ==
  [Retired(acc, c, t) EXCEPT !.configured = Without(@, c), !.public = Without(@, c),
                             !.life = Put(@, c, {}),
                             !.enrollments = Drop(@, {s}),
                             !.left = IF Missing(acc.enrollments, s) THEN @
                                      ELSE Put(@, s, t)]

\* setup, accepted: the configured channels, in their order.
Configured(acc, cs, t) ==
  [acc EXCEPT !.configured = cs, !.oauth = @ \cup {t}, !.sweep = {t}]

\* reconcile, a subscription recorded.
Created(acc, c, id) == [acc EXCEPT !.subscription = Put(@, c, id), !.life = Put(@, c, {})]

Later(f, t) == Restrict(f, {x \in DOMAIN f : f[x] > t})

\* reclaimSend and reclaim, at time t.
ReclaimedSend(acc, t) ==
  [acc EXCEPT !.attempts = {d \in @ : d > t}, !.reservations = {d \in @ : d > t}]

Reclaimed(acc, t) ==
  [ReclaimedSend(acc, t) EXCEPT !.oauth = {d \in @ : d > t}, !.revoked = Later(@, t),
                                !.enrollments = Later(@, t), !.left = Later(@, t)]

Updates(acc) ==
  {Enrolled(acc, c, s, t) : c \in Channels, s \in Sessions, t \in Times}
    \cup {Removed(acc, c, s, t) :
             c \in {d \in Channels : Member(acc, d)}, s \in Sessions, t \in Times}
    \cup {Configured(acc, cs, t) : cs \in SetToSeqs(Channels) \cup {<<>>}, t \in Times}
    \cup {Created(acc, c, id) : c \in {d \in Channels : Member(acc, d)}, id \in Subs}
    \cup {Reclaimed(acc, t) : t \in Times}

\* The sweep, armed or over.
Swept(acc) == {[acc EXCEPT !.sweep = d] : d \in {{}} \cup {{t} : t \in Times}}

\* dispatch: an attempt and its reservation, after a reclaim.
Dispatched(acc) ==
  LET reclaimed == {ReclaimedSend(acc, t) : t \in {0} \cup Times}
  IN  reclaimed \cup {[a EXCEPT !.attempts = @ \cup {t}, !.reservations = @ \cup {t}] :
                        a \in reclaimed, t \in Times}

\* dispatch, which forgets the tombstone of the channel's subscription too.
Forgotten(acc, c) ==
  IF Missing(acc.subscription, c) THEN acc
  ELSE [acc EXCEPT !.revoked = Drop(@, {acc.subscription[c]})]

Next ==
  \/ account' \in Updates(account)
  \/ account' \in Swept(account)
  \/ account' \in Dispatched(account)
  \/ \E c \in Channels : account' \in Dispatched(account) \cup Dispatched(Forgotten(account, c))

Spec == Init /\ [][Next]_account

\* When the account has something to do.
Dues(acc) ==
  (UNION Range(acc.life)) \cup Range(acc.revoked) \cup acc.oauth \cup acc.attempts
    \cup Range(acc.left) \cup Range(acc.enrollments) \cup acc.reservations \cup acc.sweep
=============================================================================
