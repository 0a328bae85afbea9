------------------------------ MODULE Website -------------------------------
(***************************************************************************)
(* The connection page of the website and the requests behind it           *)
(* (apps/website/src/main.ts, command.ts, server/enrollment.ts): one       *)
(* browser with the page open in one tab, while visits of                  *)
(* /oauth/twitch/enroll go through Twitch and back in others.  All tabs    *)
(* share one cookie.  The page is an update function over messages and     *)
(* Commands that run beside it and are interrupted by their request id; a  *)
(* message that is already queued cannot be interrupted any more, and what *)
(* a server was asked to do it may do after the browser stopped waiting.   *)
(*                                                                         *)
(* The account is seen through its enrollment operations, each one step    *)
(* here; Enrollment has their transactions.  Credentials are random, so a  *)
(* session and its nonce are named by the visit that drew them.            *)
(***************************************************************************)
EXTENDS Naturals, FiniteSets

CONSTANTS
  Visits, NoVisit,      \* visits of the enrollment path, and the absent cookie
  Channels, NoChannel,  \* broadcasters that may consent, and a consent refused
  MaxRequest,           \* bound of the page's request ids
  MaxChanges            \* bound of removals and expiries

ASSUME WebsiteAssumption ==
  /\ NoVisit \notin Visits /\ NoChannel \notin Channels
  /\ MaxRequest \in Nat \ {0} /\ MaxChanges \in Nat

VARIABLES
  entries,   \* the account: the enrollment of each session
  installed, \* the account: the channels that are members
  version,   \* history: how often these two have changed
  removals,   \* removals and expiries so far
  cookie,    \* the browser's enrollment cookie
  visit,     \* visits in progress
  page,      \* the model of the open page
  requests,  \* the Commands of the page, by request id
  serving    \* requests the server has not finished

websiteVars == <<entries, installed, version, removals, cookie, visit, page, requests, serving>>
accountVars == <<entries, installed, version, removals>>
browser == <<page, requests, serving>>

-----------------------------------------------------------------------------
(***************************************************************************)
(* The account behind the service binding.                                 *)
(***************************************************************************)
NoEntry == [phase |-> "none", channel |-> NoChannel]
InPhase(p, c) == [phase |-> p, channel |-> c]

Statuses == [kind : {"none", "pending", "ready", "left", "failed"},
             channel : Channels \cup {NoChannel}, version : Nat]
NoStatus == [kind |-> "none", channel |-> NoChannel, version |-> 0]
EnrollmentStatus(kind, c) == [kind |-> kind, channel |-> c, version |-> version]

\* enrollmentStatus: "ready" also stands for the other states of an installed
\* channel, recovering and attention-required.
StatusOf(s) ==
  LET e == entries[s]
  IN  CASE e.phase = "pending" -> EnrollmentStatus("pending", NoChannel)
        [] e.phase = "member" -> EnrollmentStatus("ready", e.channel)
        [] e.phase = "left" /\ e.channel \notin installed -> EnrollmentStatus("left", e.channel)
        [] OTHER -> EnrollmentStatus("failed", NoChannel)

\* removeChannel: the session of the channel keeps the answer "left".
Left(c) ==
  [s \in Visits |-> IF entries[s] = InPhase("member", c) THEN InPhase("left", c) ELSE entries[s]]

\* completeEnrollment: the channel gets this session, and no other keeps it.
Enrolled(s, c) ==
  [x \in Visits |-> IF x = s THEN InPhase("member", c)
                    ELSE IF entries[x].channel = c THEN NoEntry ELSE entries[x]]

Changed(new, members) ==
  /\ entries' = new
  /\ installed' = members
  /\ version' = version + 1

-----------------------------------------------------------------------------
(***************************************************************************)
(* The page.  `enrollment` is foldkit's AsyncData: what is known, and      *)
(* whether it is being asked for; `since` is a history, the version of the *)
(* account when the page last asked.                                       *)
(***************************************************************************)
Absent == [kind |-> "absent", status |-> NoStatus]
Unavailable == [kind |-> "unavailable", status |-> NoStatus]
Success(status) == [kind |-> "status", status |-> status]

Data(kind, d) == [kind |-> kind, data |-> d]
Pending(data) == data.kind \in {"loading", "refreshing"}
HasData(data) == data.data # NoStatus

\* revalidateOrLoad and settle.
Revalidated(data) == IF HasData(data) THEN Data("refreshing", data.data)
                     ELSE Data("loading", NoStatus)
Settled(data) == IF HasData(data) THEN Data("stale", data.data) ELSE Data("failure", NoStatus)

\* The data that is left when a request is given up.
Kept(data) == IF HasData(data) THEN Data("success", data.data) ELSE Data("idle", NoStatus)

NoRequest == [kind |-> "none", session |-> NoVisit, pc |-> "none", reply |-> Unavailable]
Running(kind) == [kind |-> kind, session |-> cookie, pc |-> "running", reply |-> Unavailable]

Visit(pc, s, c) == [pc |-> pc, cookie |-> s, channel |-> c]

\* A browser without a session, or one that comes back with that of a channel; the
\* page is opened on /connect or elsewhere.
WebsiteInit ==
  /\ \/ /\ cookie = NoVisit
        /\ installed = {}
        /\ entries = [s \in Visits |-> NoEntry]
        /\ visit = [v \in Visits |-> Visit("idle", NoVisit, NoChannel)]
     \/ /\ cookie \in Visits
        /\ \E c \in Channels :
             /\ installed = {c}
             /\ entries = [s \in Visits |-> IF s = cookie THEN InPhase("member", c) ELSE NoEntry]
        /\ visit = [v \in Visits |->
                       Visit(IF v = cookie THEN "over" ELSE "idle", NoVisit, NoChannel)]
  /\ version = 0
  /\ removals = 0
  /\ \E checking \in BOOLEAN :
       /\ page = [route |-> IF checking THEN "connect" ELSE "home",
                  enrollment |-> Data(IF checking THEN "loading" ELSE "idle", NoStatus),
                  leave |-> "idle", requestId |-> IF checking THEN 1 ELSE 0, since |-> 0]
       /\ requests = [r \in 1..MaxRequest |->
                         IF checking /\ r = 1 THEN Running("check") ELSE NoRequest]
       /\ serving = IF checking THEN {1} ELSE {}

\* A Command is done with, and interrupted if it still runs.
Over(rs, r) == [rs EXCEPT ![r].pc = "over", ![r].reply = Unavailable]
Interrupted(rs, r) == IF rs[r].pc = "running" THEN Over(rs, r) ELSE rs

\* startCheck: ask again, unless the page waits for an answer already.
MayCheck(p) == p.route = "connect" /\ p.leave # "loading" /\ ~Pending(p.enrollment)

StartCheck(p, rs) ==
  IF MayCheck(p)
  THEN /\ page' = [p EXCEPT !.enrollment = Revalidated(@), !.requestId = @ + 1,
                         !.since = version]
       /\ requests' = [rs EXCEPT ![p.requestId + 1] = Running("check")]
       /\ serving' = serving \cup {p.requestId + 1}
  ELSE page' = p /\ requests' = rs /\ UNCHANGED serving

ClickedCheckStatus ==
  /\ page.requestId < MaxRequest
  /\ StartCheck(page, requests)
  /\ UNCHANGED <<accountVars, cookie, visit>>

\* canLeaveChannel
CanLeave(status) == status.kind = "ready"

\* The enrollment while a leave is under way: the check is given up.  The mutant
\* leaves it pending.
MutantGivenUp(data) == data
GivenUp(data) == Data("success", data.data)

ClickedLeaveChannel ==
  LET r == page.requestId + 1
      rs == IF Pending(page.enrollment) THEN Interrupted(requests, page.requestId) ELSE requests
  IN  /\ r <= MaxRequest
      /\ page.route = "connect" /\ page.leave # "loading" /\ CanLeave(page.enrollment.data)
      /\ page' = [page EXCEPT !.requestId = r, !.leave = "loading", !.enrollment = GivenUp(@),
                              !.since = version]
      /\ requests' = [rs EXCEPT ![r] = Running("leave")]
      /\ serving' = serving \cup {r}
      /\ UNCHANGED <<accountVars, cookie, visit>>

\* Does the page wait for one of its Commands?
Waits(p) == Pending(p.enrollment) \/ p.leave = "loading"

\* ChangedUrl between /connect and another route.
ChangedUrl(route) ==
  LET next == [page EXCEPT !.route = route, !.leave = "idle", !.requestId = @ + 1,
                           !.enrollment = Kept(@)]
  IN  /\ route # page.route
      /\ page.requestId + 2 <= MaxRequest
      /\ StartCheck(next, IF Waits(page) THEN Interrupted(requests, page.requestId) ELSE requests)
      /\ UNCHANGED <<accountVars, cookie, visit>>

\* Is this the answer the page waits for?  The mutant takes any.
MutantCurrent(r) == page.route = "connect"
Current(r) == page.route = "connect" /\ page.requestId = r

\* The update function on the message of a finished check or leave.
AfterCheck(reply) ==
  CASE reply.kind = "status" ->
         [page EXCEPT !.enrollment = Data("success", reply.status)]
    [] reply.kind = "absent" -> [page EXCEPT !.enrollment = Data("failure", NoStatus)]
    [] OTHER -> [page EXCEPT !.enrollment = Settled(@)]

AfterLeave(reply) ==
  CASE reply.kind = "status" ->
         [page EXCEPT !.leave = "success", !.enrollment = Data("success", reply.status)]
    [] reply.kind = "absent" ->
         [page EXCEPT !.leave = "failure", !.enrollment = Data("failure", NoStatus)]
    [] OTHER -> [page EXCEPT !.leave = "failure"]

Handle(r) ==
  LET q == requests[r]
  IN  /\ q.pc = "queued"
      /\ requests' = Over(requests, r)
      /\ page' = IF q.kind = "check" /\ Current(r) /\ Pending(page.enrollment)
                 THEN AfterCheck(q.reply)
                 ELSE IF q.kind = "leave" /\ Current(r) /\ page.leave = "loading"
                 THEN AfterLeave(q.reply)
                 ELSE page
      /\ UNCHANGED <<accountVars, cookie, visit, serving>>

-----------------------------------------------------------------------------
(***************************************************************************)
(* The requests.                                                           *)
(***************************************************************************)
\* The answer reaches a Command that still runs.
Answered(r, reply) ==
  requests' = IF requests[r].pc = "running"
              THEN [requests EXCEPT ![r].pc = "queued", ![r].reply = reply] ELSE requests

\* status: 401 without a cookie, else what the account says.
ServeCheck(r) ==
  LET s == requests[r].session
  IN  /\ r \in serving /\ requests[r].kind = "check"
      /\ serving' = serving \ {r}
      /\ Answered(r, IF s = NoVisit THEN Absent ELSE Success(StatusOf(s)))
      /\ UNCHANGED <<accountVars, cookie, visit, page>>

\* leave: the session's channel goes, or had gone; 401 for any other session.
ServeLeave(r) ==
  LET s == requests[r].session
      e == entries[s]
  IN  /\ r \in serving /\ requests[r].kind = "leave"
      /\ serving' = serving \ {r}
      /\ \/ /\ s = NoVisit \/ StatusOf(s).kind \notin {"ready", "left"}
            /\ Answered(r, Absent)
            /\ UNCHANGED <<entries, installed, version>>
         \/ /\ s # NoVisit /\ StatusOf(s).kind = "left"
            /\ Answered(r, Success(StatusOf(s)))
            /\ UNCHANGED <<entries, installed, version>>
         \/ /\ s # NoVisit /\ StatusOf(s).kind = "ready"
            /\ Changed(Left(e.channel), installed \ {e.channel})
            /\ Answered(r, Success([kind |-> "left", channel |-> e.channel,
                                    version |-> version + 1]))
      /\ UNCHANGED <<removals, cookie, visit, page>>

\* A 503, a lost response or the 12 seconds of the Command; the server may still
\* be at it, or never have been (nothing makes it serve a request).
TimesOut(r) ==
  /\ requests[r].pc = "running"
  /\ Answered(r, Unavailable)
  /\ UNCHANGED <<accountVars, cookie, visit, page, serving>>

-----------------------------------------------------------------------------
(***************************************************************************)
(* Visits of /oauth/twitch/enroll, in this tab's neighbours.               *)
(***************************************************************************)
EndVisit(v) == [visit EXCEPT ![v] = Visit("over", NoVisit, NoChannel)]

\* begin: the request carries the cookie as the previous session.
Begin(v) ==
  /\ visit[v].pc = "idle"
  /\ visit' = [visit EXCEPT ![v] = Visit("begin", cookie, NoChannel)]
  /\ UNCHANGED <<accountVars, cookie, browser>>

\* beginEnrollment stores the intent and drops the previous session, or refuses.
ServeBegin(v) ==
  /\ visit[v].pc = "begin"
  /\ \/ /\ Changed([s \in Visits |-> IF s = v THEN InPhase("pending", NoChannel)
                                     ELSE IF s = visit[v].cookie THEN NoEntry ELSE entries[s]],
                   installed)
        /\ visit' = [visit EXCEPT ![v].pc = "begun"]
     \/ /\ visit' = EndVisit(v)
        /\ UNCHANGED <<entries, installed, version>>
  /\ UNCHANGED <<removals, cookie, browser>>

\* The redirect to Twitch sets the cookie, unless it is lost or comes too late.
Redirect(v) ==
  /\ visit[v].pc = "begun"
  /\ \/ cookie' = v /\ visit' = [visit EXCEPT ![v].pc = "consent"]
     \/ visit' = EndVisit(v) /\ UNCHANGED cookie
  /\ UNCHANGED <<accountVars, browser>>

\* The broadcaster consents or declines, and Twitch sends the browser back.
Consent(v, c) ==
  /\ visit[v].pc = "consent"
  /\ visit' = [visit EXCEPT ![v] = Visit("callback", cookie, c)]
  /\ UNCHANGED <<accountVars, cookie, browser>>

\* Does the callback's state belong to the session in its cookie?  The mutant
\* only looks for a session that waits.
MutantBound(v, s) == TRUE
Bound(v, s) == v = s

\* callback and completeEnrollment; the account may refuse the consent.
ServeCallback(v) ==
  LET s == visit[v].cookie
      c == visit[v].channel
      open == s # NoVisit /\ Bound(v, s) /\ entries[s].phase = "pending"
  IN  /\ visit[v].pc = "callback"
      /\ visit' = EndVisit(v)
      /\ \/ UNCHANGED <<entries, installed, version>>
         \/ /\ open
            /\ Changed([entries EXCEPT ![s] = InPhase("failed", NoChannel)], installed)
         \/ /\ open /\ c # NoChannel
            /\ Changed(Enrolled(s, c), installed \cup {c})
      /\ UNCHANGED <<removals, cookie, browser>>

\* Revocations, other browsers and the operator remove channels, sessions expire.
Remove(c) ==
  /\ removals < MaxChanges
  /\ c \in installed
  /\ removals' = removals + 1
  /\ Changed(Left(c), installed \ {c})
  /\ UNCHANGED <<cookie, visit, browser>>

Expire(s) ==
  /\ removals < MaxChanges
  /\ entries[s] # NoEntry
  /\ removals' = removals + 1
  /\ Changed([entries EXCEPT ![s] = NoEntry], installed)
  /\ UNCHANGED <<cookie, visit, browser>>

WebsiteNext ==
  \/ ClickedCheckStatus \/ ClickedLeaveChannel
  \/ \E route \in {"connect", "home"} : ChangedUrl(route)
  \/ \E r \in 1..MaxRequest :
       Handle(r) \/ ServeCheck(r) \/ ServeLeave(r) \/ TimesOut(r)
  \/ \E v \in Visits :
       \/ Begin(v) \/ ServeBegin(v) \/ Redirect(v) \/ ServeCallback(v)
       \/ \E c \in Channels \cup {NoChannel} : Consent(v, c)
  \/ \E c \in Channels : Remove(c)
  \/ \E s \in Visits : Expire(s)

WebsiteSpec == WebsiteInit /\ [][WebsiteNext]_websiteVars

-----------------------------------------------------------------------------
(***************************************************************************)
(* Properties.                                                             *)
(***************************************************************************)
\* "Request IDs reject stale results" (docs/website-architecture.md): whatever
\* clicks, navigations and leaves cross each other, what the page takes over the
\* account said after the page had asked for it, never before.
AnswersCurrent ==
  [][HasData(page'.enrollment) /\ page'.enrollment.data # page.enrollment.data
       => page'.enrollment.data.version >= page.since]_websiteVars

\* A page that waits has one Command, which runs or has answered, and no other
\* runs: a leave or a change of route that gives up an answer also interrupts the
\* request for it, and no crossing of checks, leaves and changes of route leaves a
\* spinner that nothing will end, which would also take the buttons away.
OneCommand ==
  \A r \in 1..MaxRequest :
    /\ requests[r].pc = "running" => Waits(page) /\ r = page.requestId
    /\ Waits(page) /\ r = page.requestId =>
         /\ requests[r].pc \in {"running", "queued"}
         /\ IF requests[r].kind = "leave" THEN page.leave = "loading"
                                          ELSE Pending(page.enrollment)

\* A session becomes the one of a channel only by the consent of the very visit
\* that began it, although visits in several tabs share one cookie.
ConsentMatches ==
  [][\A s \in Visits :
       entries[s].phase # "member" /\ entries'[s].phase = "member"
         => visit[s].pc = "callback" /\ visit[s].channel = entries'[s].channel]_websiteVars
=============================================================================
