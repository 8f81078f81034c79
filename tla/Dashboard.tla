----------------------------- MODULE Dashboard -----------------------------
(***************************************************************************)
(* The dashboard: the log ring of the server, the session cookie, and the  *)
(* page that polls /logs in the browser.                                   *)
(*                                                                         *)
(* The page asks for the lines after the last one it has, every second,    *)
(* whether or not the previous answer has come: requests overlap, and      *)
(* their answers arrive in any order or never.  A token is signed with a   *)
(* secret drawn when the process starts, so that a restart ends every      *)
(* session; it also starts the line numbers again, and the page keeps its  *)
(* own.  A line is its number and the run of the server that wrote it.     *)
(* /stats and /api/vless-info are polled the same way and only draw.       *)
(***************************************************************************)
EXTENDS Integers

CONSTANTS
    Request,   \* the /logs requests that can be in flight
    Capacity,  \* maxLogs: the lines the ring keeps
    MaxSeq,    \* bound: the lines one run of the server writes
    MaxEpoch   \* bound: the runs of the server

ASSUME DashboardAssumption ==
    Capacity \in Nat \ {0} /\ MaxSeq \in Nat /\ MaxEpoch \in Nat \ {0}

Epoch == 1..MaxEpoch
NoCookie == 0
Cookie == Epoch \cup {NoCookie}   \* a token is the run that signed it
Line == Epoch \X (1..MaxSeq)

VARIABLES
    epoch,       \* the run of the server: its signing secret
    seq,         \* the number of the newest line
    view,        \* what the page shows
    polling,     \* whether the intervals are set
    cookie,      \* the session cookie of the browser
    lastLogId,   \* the newest line the page knows of
    drawn,       \* the lines on the page
    request,     \* the /logs requests and what they carry
    opened,      \* history: the run of the server the page was opened in
    overlapped   \* history: two requests of this page were in flight at once

server == <<epoch, seq>>
page == <<view, polling, lastLogId, drawn, opened, overlapped>>
vars == <<server, page, cookie, request>>

RequestRecord == [stage : {"idle", "asked", "answered", "refused"}, cookie : Cookie,
                  last : 0..MaxSeq, lines : SUBSET Line]

\* A request carries the cookie and the last_id it was sent with; its answer,
\* the lines and the last_id of the server.
Idle == [stage |-> "idle", cookie |-> NoCookie, last |-> 0, lines |-> {}]
Refused == [Idle EXCEPT !.stage = "refused"]
Asked(token, last) == [Idle EXCEPT !.stage = "asked", !.cookie = token, !.last = last]
Answered(lines, last) == [Idle EXCEPT !.stage = "answered", !.lines = lines, !.last = last]

TypeOK ==
    /\ epoch \in Epoch /\ seq \in 0..MaxSeq
    /\ view \in {"loading", "login", "dashboard"} /\ polling \in BOOLEAN
    /\ cookie \in Cookie
    /\ lastLogId \in 0..MaxSeq /\ drawn \subseteq Line
    /\ request \in [Request -> RequestRecord]
    /\ opened \in Epoch /\ overlapped \in BOOLEAN

Init ==
    /\ epoch = 1 /\ seq = 0
    /\ view = "loading" /\ polling = FALSE
    /\ cookie = NoCookie
    /\ lastLogId = 0 /\ drawn = {}
    /\ request = [k \in Request |-> Idle]
    /\ opened = 1 /\ overlapped = FALSE

\* Request k is at one stage and becomes another record.
Turn(k, from, to) ==
    /\ request[k].stage = from
    /\ request' = [request EXCEPT ![k] = to]

-----------------------------------------------------------------------------
(* The server.                                                             *)

\* A line is appended; beyond the capacity the oldest one is dropped.
Push ==
    /\ seq < MaxSeq
    /\ seq' = seq + 1
    /\ UNCHANGED <<epoch, page, cookie, request>>

Logs == {i \in 1..seq : i > seq - Capacity}

\* Mutant: the line the page already has is sent again.
SinceInclusive(last) == {<<epoch, i>> : i \in {j \in Logs : j >= last}}

Since(last) == {<<epoch, i>> : i \in {j \in Logs : j > last}}

\* The signature is that of this run; what is older than seven days is gone
\* (Expire).
validateSessionToken(token) == token = epoch

\* Basic and Bearer passwords are not for the page, which has a cookie only.
isAuthenticated(token) == validateSessionToken(token)

\* The password is right: a token signed in this run.  A wrong one changes
\* nothing.
handleLogin == cookie' = epoch

\* The token itself stays valid: the cookie is cleared.
handleLogout == cookie' = NoCookie

\* Mutant: the lines and the newest number are taken one after the other, and
\* a line is pushed in between.
ServeLogsTwice(k) ==
    /\ \E lines \in {Since(request[k].last), Since(request[k].last) \ {<<epoch, seq>>}} :
          Turn(k, "asked", IF isAuthenticated(request[k].cookie)
                           THEN Answered(lines, seq) ELSE Refused)
    /\ UNCHANGED <<server, page, cookie>>

\* withAuth refuses the request, or handleLogs answers it.
ServeLogs(k) ==
    /\ Turn(k, "asked", IF isAuthenticated(request[k].cookie)
                        THEN Answered(Since(request[k].last), seq) ELSE Refused)
    /\ UNCHANGED <<server, page, cookie>>

\* The process is restarted: another secret, an empty ring, numbers from 1.
\* The requests it had not answered fail.
Restart ==
    /\ epoch < MaxEpoch
    /\ epoch' = epoch + 1
    /\ seq' = 0
    /\ request' = [k \in Request |-> IF request[k].stage = "asked" THEN Idle ELSE request[k]]
    /\ UNCHANGED <<page, cookie>>

-----------------------------------------------------------------------------
(* The page.                                                               *)

\* setInterval, the first call of startPolling and the refresh button do not
\* wait for the request before.
fetchLogs(k) ==
    /\ polling
    /\ Turn(k, "idle", Asked(cookie, lastLogId))
    /\ overlapped' = (overlapped \/ \E j \in Request : request[j] # Idle)
    /\ UNCHANGED <<server, cookie, view, polling, lastLogId, drawn, opened>>

\* Mutant: the page asks for the line after the newest one.
ReceiveAndStepOver(k) ==
    /\ Turn(k, "answered", Idle)
    /\ lastLogId' = request[k].last + 1
    /\ drawn' = drawn \cup request[k].lines
    /\ UNCHANGED <<server, cookie, view, polling, opened, overlapped>>

\* The answer is drawn; an empty one changes nothing.
ReceiveLogs(k) ==
    /\ Turn(k, "answered", Idle)
    /\ lastLogId' = IF request[k].lines = {} THEN lastLogId ELSE request[k].last
    /\ drawn' = drawn \cup request[k].lines
    /\ UNCHANGED <<server, cookie, view, polling, opened, overlapped>>

\* Mutant: the refusal is taken for any other failed answer.
UnauthorizedIgnored(k) ==
    /\ Turn(k, "refused", Idle)
    /\ UNCHANGED <<server, page, cookie>>

\* Whatever session the page has by now, it stops and shows the login form.
handleUnauthorized(k) ==
    /\ Turn(k, "refused", Idle)
    /\ polling' = FALSE
    /\ view' = "login"
    /\ UNCHANGED <<server, cookie, lastLogId, drawn, opened, overlapped>>

\* Mutant: a failed request stops the intervals.
FetchErrorStops(k) ==
    /\ request[k] # Idle
    /\ request' = [request EXCEPT ![k] = Idle]
    /\ polling' = FALSE
    /\ UNCHANGED <<server, cookie, view, lastLogId, drawn, opened, overlapped>>

\* The request or its answer is lost: logged, and the intervals go on.
FetchError(k) ==
    /\ request[k] # Idle
    /\ request' = [request EXCEPT ![k] = Idle]
    /\ UNCHANGED <<server, page, cookie>>

showDashboard == view' = "dashboard" /\ polling' = TRUE

\* The page asks whether it is logged in; when it cannot tell, it shows the
\* dashboard and lets the polls find out.
checkAuthStatus ==
    /\ view = "loading"
    /\ \/ showDashboard
       \/ ~isAuthenticated(cookie) /\ view' = "login" /\ UNCHANGED polling
    /\ UNCHANGED <<server, cookie, request>>
    /\ UNCHANGED <<lastLogId, drawn, opened, overlapped>>

Login ==
    /\ view = "login"
    /\ handleLogin
    /\ showDashboard
    /\ UNCHANGED <<server, request, lastLogId, drawn, opened, overlapped>>

\* When the request fails the cookie stays; the login form is shown either
\* way, and the intervals are left to the next refusal.
Logout ==
    /\ view = "dashboard"
    /\ view' = "login"
    /\ handleLogout \/ UNCHANGED cookie
    /\ UNCHANGED <<server, request, polling, lastLogId, drawn, opened, overlapped>>

\* Seven days: the browser drops the cookie and the server refuses the token.
Expire ==
    /\ cookie # NoCookie
    /\ cookie' = NoCookie
    /\ request' = [k \in Request |-> [request[k] EXCEPT !.cookie = NoCookie]]
    /\ UNCHANGED <<server, page>>

\* The page is loaded again: everything it knew and asked is gone.
Reload ==
    /\ view # "loading"
    /\ view' = "loading" /\ polling' = FALSE
    /\ lastLogId' = 0 /\ drawn' = {}
    /\ request' = [k \in Request |-> Idle]
    /\ opened' = epoch /\ overlapped' = FALSE
    /\ UNCHANGED <<server, cookie>>

Next ==
    \/ Push \/ Restart
    \/ checkAuthStatus \/ Login \/ Logout \/ Expire \/ Reload
    \/ \E k \in Request :
          \/ fetchLogs(k) \/ ServeLogs(k) \/ ReceiveLogs(k)
          \/ handleUnauthorized(k) \/ FetchError(k)

\* The intervals fire and the handlers run; the network may lose requests and
\* answers, but not every one of them.
Fairness ==
    /\ WF_vars(\E k \in Request : fetchLogs(k))
    /\ SF_vars(\E k \in Request : ServeLogs(k))
    /\ SF_vars(\E k \in Request : ReceiveLogs(k) \/ handleUnauthorized(k))

Spec == Init /\ [][Next]_vars
FairSpec == Spec /\ Fairness

-----------------------------------------------------------------------------
(* In the run of the server the page was opened in, no line is missed:     *)
(* every line the ring still has, up to the number the page asks from, is  *)
(* on the page, in whatever order answers come.  And only requests that    *)
(* overlapped can bring a line the page already shows.                     *)
EachLineOnce ==
    /\ opened = epoch => \A i \in Logs : i <= lastLogId => <<epoch, i>> \in drawn
    /\ ~overlapped => \A k \in Request : request[k].lines \cap drawn = {}

View == INSTANCE LogView WITH
    shown <- drawn,
    upTo <- lastLogId

(* Requests in flight, lost, refused or answered late amount to a view of  *)
(* the log that only grows: in order and each line once while no two       *)
(* requests overlap, and without gaps whatever they do.                    *)
ImplementsLogView == View!Spec

(* The page catches up with the log, whatever requests overlap or are      *)
(* lost: the newest line is drawn, unless the page leaves the dashboard.   *)
(* After a restart it does so once the new run has written more lines than *)
(* the page knows of: the page asks from its old number.                   *)
CatchesUp ==
    view = "dashboard"
    ~> view # "dashboard" \/ seq <= lastLogId \/ <<epoch, seq>> \in drawn

(* A dashboard whose session the server does not accept any more, after a  *)
(* restart or seven days, does not stay: the page goes back to the login   *)
(* form, or a new login is made.                                           *)
StaleSessionNoticed ==
    view = "dashboard" /\ cookie # epoch ~> view # "dashboard" \/ cookie = epoch
=============================================================================
