------------------------------ MODULE DiscordSync ------------------------------
(***************************************************************************)
(* Registration of the slash commands with Discord: preflightCommands,     *)
(* waitForRelease and syncCommands (packages/discord/src/sync.ts), as the  *)
(* release workflow and the operators run them                             *)
(* (scripts/sync-discord-commands.ts, scripts/ops.ts).                     *)
(*                                                                         *)
(* A job reads the registered commands, overwrites them when they differ   *)
(* from the manifest of its revision, and reads them back.  Around each of *)
(* these calls it asks the bot's health whether its revision is still the  *)
(* deployed one.  A call that failed for now starts the attempt again, at  *)
(* most Retries times and before the deadline.  An overwrite without an    *)
(* answer may have happened, or still happen.                              *)
(*                                                                         *)
(* The jobs of one application wait for each other.  A check only (status  *)
(* of the operators) reads and is left out.                                *)
(***************************************************************************)
EXTENDS Naturals

CONSTANTS
  Jobs, Kind,          \* "release", or "sync": its registration alone
  RevisionOf,          \* the revision of a job
  Revisions, Manifest, \* the commands of a revision
  Other,               \* commands that are no manifest
  Retries, Budget, Timeout, Backoff,
  Delays,              \* what Discord asks to wait for
  MaxAlien             \* bound of the model

ASSUME SyncAssumption ==
  /\ Jobs # {}
  /\ Kind \in [Jobs -> {"release", "sync"}]
  /\ RevisionOf \in [Jobs -> Revisions]
  /\ \A r \in Revisions : Manifest[r] # Other
  /\ {Retries, Budget, Timeout, Backoff, MaxAlien} \subseteq Nat
  /\ Delays \subseteq Nat \ {0}

VARIABLES
  deployed,  \* the revision the bot's health reports
  remote,    \* the commands Discord has registered
  job,       \* the jobs; each counts the time spent on its sync
  put,       \* a job's overwrite: none, sent or reached
  aliens,    \* deployments and registrations by others so far
  kept,      \* the revisions whose manifest Discord registers as it is
  last,      \* history: the job that ran last, or runs
  touched,   \* history: did anyone else register commands since it began?
  wrote,     \* history: jobs of which an overwrite reached Discord
  seen       \* history: since the attempt of the job began, were the registered commands
             \* at some time not its own, and was its revision at some time deployed?

syncVars == <<deployed, remote, job, put, aliens, kept, last, touched, wrote, seen>>

Desired(j) == Manifest[RevisionOf[j]]
Live(j) == deployed = RevisionOf[j]

\* until: when the running request times out, or the pause is over.
NoJob == [pc |-> "idle", stage |-> "read", attempt |-> 0, spent |-> 0, until |-> 0,
          changed |-> FALSE]

SyncInit ==
  /\ deployed \in Revisions /\ remote \in {Manifest[r] : r \in Revisions} \cup {Other}
  /\ job = [j \in Jobs |-> NoJob]
  /\ put = [j \in Jobs |-> "none"]
  /\ aliens = 0 /\ touched = FALSE /\ wrote = {}
  /\ kept \in SUBSET Revisions /\ last = CHOOSE j \in Jobs : TRUE
  /\ seen = [j \in Jobs |-> [differed |-> FALSE, live |-> FALSE]]

-----------------------------------------------------------------------------
(***************************************************************************)
(* Requests and retries.                                                   *)
(***************************************************************************)
OverPcs == {"idle", "done", "failed"}
Asking == {"health", "call"}

\* A request ends at its timeout, and never after the deadline.
RequestUntil(spent) == IF Budget - spent < Timeout THEN Budget ELSE spent + Timeout

Finished(state, pc) == [NoJob EXCEPT !.pc = pc, !.changed = state.changed]

\* The next request of a job, at the health of the bot or at Discord; past the
\* deadline there is none.
Request(state, pc, stage) ==
  IF state.spent >= Budget THEN Finished(state, "failed")
  ELSE [state EXCEPT !.pc = pc, !.stage = stage, !.until = RequestUntil(state.spent)]

Failed(j) == job' = [job EXCEPT ![j] = Finished(@, "failed")]

\* A failure that may pass: the attempt is made again, unless it was the last or the
\* pause would not end before the deadline.
Again(j, pause) ==
  IF job[j].attempt > Retries \/ job[j].spent + pause >= Budget THEN Failed(j)
  ELSE job' = [job EXCEPT ![j].pc = "sleep", ![j].until = job[j].spent + pause]

\* A new attempt reads again.  The first mutant takes up the attempt where it failed,
\* the second forgets that it wrote.
MutantAttempt(state) ==
  Request([state EXCEPT !.attempt = @ + 1], "health", state.stage)
MutantForgets(state) ==
  Request([state EXCEPT !.attempt = @ + 1, !.changed = FALSE], "health", "read")
Attempt(state) == Request([state EXCEPT !.attempt = @ + 1], "health", "read")

Attempts(j) ==
  /\ job' = [job EXCEPT ![j] = Attempt(@)]
  /\ seen' = [seen EXCEPT ![j] = [differed |-> remote # Desired(j), live |-> Live(j)]]

\* What the histories notice of new commands and of a new deployment.
NoticeChange ==
  seen' = [j \in Jobs |-> [differed |-> seen[j].differed \/ remote' # Desired(j),
                           live |-> seen[j].live \/ deployed' = RevisionOf[j]]]

-----------------------------------------------------------------------------
(***************************************************************************)
(* The steps of a job.                                                     *)
(***************************************************************************)
\* The workflow runs one job at a time for an application, and the next one only
\* when no overwrite is under way any more.
Start(j) ==
  /\ job[j].pc = "idle"
  /\ \A i \in Jobs : job[i].pc \in OverPcs /\ put[i] # "sent"
  /\ job' = [job EXCEPT ![j].pc = IF Kind[j] = "release" THEN "preflight" ELSE "wait"]
  /\ last' = j /\ touched' = FALSE
  /\ UNCHANGED <<deployed, remote, put, aliens, kept, wrote, seen>>

\* preflightCommands: are the commands within reach?  No: no deployment.
Preflight(j) ==
  /\ job[j].pc = "preflight"
  /\ \/ job' = [job EXCEPT ![j].pc = "deploy"]
     \/ Failed(j)
  /\ UNCHANGED <<deployed, remote, put, aliens, kept, last, touched, wrote, seen>>

Deploy(j) ==
  /\ job[j].pc = "deploy"
  /\ \/ deployed' = RevisionOf[j] /\ job' = [job EXCEPT ![j].pc = "wait"]
     \/ Failed(j) /\ UNCHANGED deployed
  /\ UNCHANGED <<remote, put, aliens, kept, last, touched, wrote>>
  /\ NoticeChange

\* waitForRelease, until the release is there; then the sync begins.
WaitForRelease(j) ==
  /\ job[j].pc = "wait" /\ Live(j)
  /\ Attempts(j)
  /\ UNCHANGED <<deployed, remote, put, aliens, kept, last, touched, wrote>>

NoRelease(j) ==
  /\ job[j].pc = "wait"
  /\ Failed(j)
  /\ UNCHANGED <<deployed, remote, put, aliens, kept, last, touched, wrote, seen>>

\* readHealth before a call, or at last: the release of the job, or it is stale.
Health(j) ==
  LET next == IF job[j].stage = "final" THEN Finished(job[j], "done")
              ELSE Request(job[j], "call", job[j].stage)
  IN  /\ job[j].pc = "health"
      /\ IF Live(j) THEN job' = [job EXCEPT ![j] = next] ELSE Failed(j)
      /\ put' = [put EXCEPT ![j] = IF job'[j].pc = "call" /\ job[j].stage = "overwrite"
                                   THEN "sent" ELSE @]
      /\ UNCHANGED <<deployed, remote, aliens, kept, last, touched, wrote, seen>>

Read(j) ==
  /\ job[j].pc = "call" /\ job[j].stage = "read"
  /\ job' = [job EXCEPT ![j] =
               IF remote # Desired(j)
               THEN Request([@ EXCEPT !.changed = TRUE], "health", "overwrite")
               ELSE Request(@, "health", "final")]
  /\ UNCHANGED <<deployed, remote, put, aliens, kept, last, touched, wrote, seen>>

Overwrite(j) ==
  /\ job[j].pc = "call" /\ job[j].stage = "overwrite" /\ put[j] = "reached"
  /\ job' = [job EXCEPT ![j] = Request(@, "health", "readback")]
  /\ UNCHANGED <<deployed, remote, put, aliens, kept, last, touched, wrote, seen>>

\* What is read back has to be the manifest.  The mutant does not compare.
MutantAgrees(j) == TRUE
Agrees(j) == remote = Desired(j)

Readback(j) ==
  /\ job[j].pc = "call" /\ job[j].stage = "readback"
  /\ IF Agrees(j) THEN job' = [job EXCEPT ![j] = Request(@, "health", "final")]
     ELSE Failed(j)
  /\ UNCHANGED <<deployed, remote, put, aliens, kept, last, touched, wrote, seen>>

\* No connection, a broken answer or an error of the server: again after a pause;
\* a rate limit: after the pause it asks for.
Transient(j) ==
  /\ job[j].pc \in Asking
  /\ \E pause \in Delays \cup {Backoff} : Again(j, pause)
  /\ UNCHANGED <<deployed, remote, put, aliens, kept, last, touched, wrote, seen>>

\* Any other status or body.
Refused(j) ==
  /\ job[j].pc \in Asking
  /\ Failed(j)
  /\ UNCHANGED <<deployed, remote, put, aliens, kept, last, touched, wrote, seen>>

CallTimesOut(j) ==
  /\ job[j].pc \in Asking /\ job[j].spent = job[j].until
  /\ Again(j, Backoff)
  /\ UNCHANGED <<deployed, remote, put, aliens, kept, last, touched, wrote, seen>>

Wake(j) ==
  /\ job[j].pc = "sleep" /\ job[j].spent >= job[j].until
  /\ Attempts(j)
  /\ UNCHANGED <<deployed, remote, put, aliens, kept, last, touched, wrote>>

-----------------------------------------------------------------------------
(***************************************************************************)
(* Discord, other hands and time.                                          *)
(***************************************************************************)
\* The overwrite reaches Discord, which registers what was sent or something else.
Reaches(j) ==
  /\ put[j] = "sent"
  /\ put' = [put EXCEPT ![j] = "reached"]
  /\ remote' = IF RevisionOf[j] \in kept THEN Desired(j) ELSE Other
  /\ wrote' = wrote \cup {j}
  /\ UNCHANGED <<deployed, job, aliens, kept, last, touched>>
  /\ NoticeChange

\* It never does.
Drops(j) ==
  /\ put[j] = "sent" /\ ~(job[j].pc = "call" /\ job[j].stage = "overwrite")
  /\ put' = [put EXCEPT ![j] = "none"]
  /\ UNCHANGED <<deployed, remote, job, aliens, kept, last, touched, wrote, seen>>

\* Another deployment, or another registration, outside of the workflow.
Alien ==
  /\ aliens < MaxAlien /\ aliens' = aliens + 1
  /\ \/ deployed' \in Revisions /\ UNCHANGED <<remote, touched>>
     \/ remote' = Other /\ touched' = TRUE /\ UNCHANGED deployed
  /\ UNCHANGED <<job, put, kept, last, wrote>>
  /\ NoticeChange

\* Time of a job's sync; a request does not outlast its timeout, a pause may.
JobTick(j) ==
  /\ \/ job[j].pc \in Asking /\ job[j].spent < job[j].until
     \/ job[j].pc = "sleep" /\ job[j].spent < Budget
  /\ job' = [job EXCEPT ![j].spent = @ + 1]
  /\ UNCHANGED <<deployed, remote, put, aliens, kept, last, touched, wrote, seen>>

JobStep(j) ==
  \/ Preflight(j) \/ Deploy(j) \/ WaitForRelease(j) \/ NoRelease(j)
  \/ Health(j) \/ Read(j) \/ Overwrite(j) \/ Readback(j)
  \/ Transient(j) \/ Refused(j) \/ CallTimesOut(j) \/ Wake(j)

SyncNext ==
  \/ \E j \in Jobs : Start(j) \/ JobStep(j) \/ JobTick(j) \/ Reaches(j) \/ Drops(j)
  \/ Alien

SyncSpec == SyncInit /\ [][SyncNext]_syncVars

-----------------------------------------------------------------------------
(***************************************************************************)
(* Properties.                                                             *)
(***************************************************************************)
\* A job that says it changed nothing changed nothing: none of its overwrites, of
\* no attempt, reached Discord.
ChangeReported ==
  \A j \in Jobs : job[j].pc = "done" /\ ~job[j].changed => j \notin wrote

\* What a successful job leaves registered is its manifest, until the next job or
\* somebody else changes it.
Registered ==
  job[last].pc = "done" /\ ~touched => remote = Desired(last)

\* An overwrite is sent only if, since the attempt began, the registered commands were
\* not the job's own at some time, and its revision was deployed at some time.
WritesJustified ==
  [][\A j \in Jobs : put[j] # "sent" /\ put'[j] = "sent"
       => seen[j].differed /\ seen[j].live]_syncVars
=============================================================================
