---------------------------- MODULE AccountStorage ----------------------------
(***************************************************************************)
(* makeAccountStorage (packages/twitch/src/cloudflare.ts): the account's   *)
(* state under keys of a Durable Object's storage, a record per channel,   *)
(* per tombstone and per session that left, and its alarm.                 *)
(*                                                                         *)
(* A transaction reads what its function needs and writes what changed.    *)
(* "update" reads and writes everything; "shared", "sendAttempt" and       *)
(* "channelDispatch" see a part only, and still leave the alarm right.  A  *)
(* transaction that dies, for a record that is too large, leaves no trace. *)
(***************************************************************************)
EXTENDS SequencesExt, Functions, FiniteSetsExt, Naturals

CONSTANTS Channels, Sessions, Subs, Times,
          MaxStep          \* bound of the model

ASSUME StorageAssumption ==
  /\ IsFiniteSet(Channels)
  /\ Times \subseteq Nat
  /\ MaxStep \in Nat

VARIABLES
  kv,     \* the stored keys
  alarm,  \* the stored alarm, a set with its time or none
  fired,  \* is its handler running, with no transaction done yet?
  steps   \* transactions so far

storageVars == <<kv, alarm, fired, steps>>

Shared == <<"shared">>
OAuth == <<"oauth">>
Attempts == <<"attempts">>
Enrollments == <<"enrollments">>
Channel(c) == <<"channel", c>>
Tombstone(id) == <<"tombstone", id>>
LeftKey(s) == <<"left", s>>

\* The stored ids below a prefix.
Under(stored, prefix) == {k[2] : k \in {l \in DOMAIN stored : l[1] = prefix}}

Put(f, x, y) == [z \in DOMAIN f \cup {x} |-> IF z = x THEN y ELSE f[z]]

First(times) == IF times = {} THEN {} ELSE {Min(times)}

-----------------------------------------------------------------------------
(***************************************************************************)
(* splitAccount and joinDirectory.                                         *)
(***************************************************************************)
Positions(s, c) == {i \in DOMAIN s : s[i] = c}
Part(f, x) == IF x \in DOMAIN f THEN {f[x]} ELSE {}

Record(acc, c) == [configured |-> Positions(acc.configured, c),
                   public |-> Positions(acc.public, c),
                   subscription |-> Part(acc.subscription, c),
                   life |-> Part(acc.life, c)]

Mentioned(acc) == DOMAIN acc.life \cup DOMAIN acc.subscription
                    \cup ToSet(acc.configured) \cup ToSet(acc.public)

\* nextCleanup and the earliest recovery, as update leaves them.
Cleanup(acc) ==
  First(acc.oauth \cup Range(acc.enrollments) \cup Range(acc.left) \cup Range(acc.revoked)
          \cup acc.attempts \cup acc.reservations)
Recovery(acc) == First(UNION Range(acc.life))

Value(acc, key) ==
  CASE key = Shared -> [reservations |-> acc.reservations, sweep |-> acc.sweep,
                        cleanup |-> Cleanup(acc), recovery |-> Recovery(acc)]
    [] key = OAuth -> acc.oauth
    [] key = Attempts -> acc.attempts
    [] key = Enrollments -> acc.enrollments
    [] key[1] = "channel" -> Record(acc, key[2])
    [] key[1] = "tombstone" -> acc.revoked[key[2]]
    [] key[1] = "left" -> acc.left[key[2]]

Split(acc) ==
  [key \in {Shared, OAuth, Attempts, Enrollments}
             \cup {Channel(c) : c \in Mentioned(acc)}
             \cup {Tombstone(id) : id \in DOMAIN acc.revoked}
             \cup {LeftKey(s) : s \in DOMAIN acc.left} |-> Value(acc, key)]

\* The members of a list with their positions, over the records.
Entries(stored, list) ==
  UNION {{<<i, c>> : i \in stored[Channel(c)][list]} : c \in Under(stored, "channel")}

\* joinDirectory dies unless the positions are those of a sequence.
Joinable(stored) ==
  \A list \in {"configured", "public"} :
    LET entries == Entries(stored, list)
    IN  {e[1] : e \in entries} = 1..Cardinality(entries)

Members(stored, list) ==
  LET entries == Entries(stored, list)
  IN  [i \in 1..Cardinality(entries) |-> (CHOOSE e \in entries : e[1] = i)[2]]

\* A part of the records, by channel.
Parts(stored, part) ==
  [c \in {d \in Under(stored, "channel") : stored[Channel(d)][part] # {}} |->
     CHOOSE x \in stored[Channel(c)][part] : TRUE]

Join(stored) ==
  [configured |-> Members(stored, "configured"), public |-> Members(stored, "public"),
   life |-> Parts(stored, "life"), subscription |-> Parts(stored, "subscription"),
   revoked |-> [id \in Under(stored, "tombstone") |-> stored[Tombstone(id)]],
   oauth |-> stored[OAuth], attempts |-> stored[Attempts],
   left |-> [s \in Under(stored, "left") |-> stored[LeftKey(s)]],
   enrollments |-> stored[Enrollments],
   reservations |-> stored[Shared].reservations, sweep |-> stored[Shared].sweep]

-----------------------------------------------------------------------------
(***************************************************************************)
(* Transactions.                                                           *)
(***************************************************************************)
Empty == [configured |-> <<>>, public |-> <<>>, life |-> <<>>, subscription |-> <<>>,
          revoked |-> <<>>, oauth |-> {}, attempts |-> {}, left |-> <<>>,
          enrollments |-> <<>>, reservations |-> {}, sweep |-> {}]

\* authority: the first transaction of an object writes the state of a new account.
Authority == IF Shared \in DOMAIN kv THEN kv ELSE Split(Empty)

Account == INSTANCE AccountState WITH account <- Join(Authority)

StorageInit == kv = <<>> /\ alarm = {} /\ fired = FALSE /\ steps = 0

\* nextAlarm.
NextAlarm(shared) == First(shared.cleanup \cup shared.recovery \cup shared.sweep)

\* A transaction ends with the alarm.
Commits(stored) ==
  /\ steps < MaxStep /\ steps' = steps + 1
  /\ kv' = stored
  /\ alarm' = NextAlarm(stored[Shared])
  /\ fired' = FALSE

\* persistDirectory writes what changed and deletes what is gone.  The mutant leaves
\* the keys of sessions that had left.
MutantGone(before, after) == {key \in DOMAIN before \ DOMAIN after : key[1] # "left"}
Gone(before, after) == DOMAIN before \ DOMAIN after

Changed(before, after) ==
  {key \in DOMAIN after : key \notin DOMAIN before \/ before[key] # after[key]}

Persisted(stored, before, after) ==
  LET written == Changed(before, after)
  IN  [key \in (DOMAIN stored \cup written) \ Gone(before, after) |->
         IF key \in written THEN after[key] ELSE stored[key]]

Update ==
  LET stored == Authority
      before == Join(stored)
  IN  /\ Joinable(stored)
      /\ \E acc \in Account!Updates(before) :
           Commits(Persisted(stored, Split(before), Split(acc)))

\* shared: the shared key only.
UpdateShared ==
  \E shared \in Account!Swept(Authority[Shared]) :
    Commits([Authority EXCEPT ![Shared] = shared])

\* withAttempt looks at the shared key and the attempts, and can only bring the
\* cleanup forward.  The mutant leaves it.
MutantSooner(cleanup, state) == cleanup
Sooner(cleanup, state) == First(cleanup \cup state.attempts \cup state.reservations)

WithAttempt(stored) == Put(stored[Shared], "attempts", stored[Attempts])

Saved(stored, state) ==
  [stored EXCEPT ![Attempts] = state.attempts,
                 ![Shared].reservations = state.reservations,
                 ![Shared].cleanup = Sooner(@, state)]

SendAttempt ==
  \E state \in Account!Dispatched(WithAttempt(Authority)) :
    Commits(Saved(Authority, state))

\* channelDispatch: the channel's record too, and the tombstone of its subscription,
\* which it may forget.
ChannelDispatch(c) ==
  LET stored == Authority
      record == IF Channel(c) \in DOMAIN stored THEN stored[Channel(c)].subscription ELSE {}
  IN  \E state \in Account!Dispatched(WithAttempt(stored)),
         forgotten \in SUBSET {Tombstone(id) : id \in record} :
        Commits(Restrict(Saved(stored, state), DOMAIN stored \ forgotten))

\* The platform: an alarm is cleared as its handler starts, which begins with a
\* transaction and is started again if the object is lost.
AlarmFires ==
  /\ alarm # {}
  /\ alarm' = {} /\ fired' = TRUE
  /\ UNCHANGED <<kv, steps>>

StorageNext ==
  \/ Update \/ UpdateShared \/ SendAttempt
  \/ \E c \in Channels : ChannelDispatch(c)
  \/ AlarmFires

StorageSpec == StorageInit /\ [][StorageNext]_storageVars

-----------------------------------------------------------------------------
(***************************************************************************)
(* Properties.                                                             *)
(***************************************************************************)
\* Whatever the keys, the account's operations see one state, which each transaction
\* replaces by what its function makes of it.
KeepsAccount == Account!Spec

\* Nothing the account has to do is due before its alarm, although three of the four
\* kinds of transaction do not look at most of it.
AlarmCovers ==
  LET dues == Account!Dues(Join(Authority))
  IN  dues # {} /\ ~fired => alarm # {} /\ Min(alarm) <= Min(dues)
=============================================================================
