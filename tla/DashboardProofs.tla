-------------------------- MODULE DashboardProofs --------------------------
(***************************************************************************)
(* Proofs about the dashboard, for any set of requests, any capacity and   *)
(* any bounds.                                                             *)
(*                                                                         *)
(* What the page shows can only be related to the ring through what the    *)
(* requests in flight carry.  Seen: up to the number it carries, a request *)
(* together with the page has every line of the ring.  Fresh: as long as   *)
(* no two requests overlapped, the number of the one in flight is above    *)
(* what the page shows, so that its answer brings new lines only.          *)
(* Carried, for the view: the lines of an answer are a stretch of the log  *)
(* of one run.                                                             *)
(***************************************************************************)
EXTENDS Dashboard, TLAPS

\* No line is above the ring, on the page or on its way to it.
Known ==
    /\ opened <= epoch
    /\ \A e \in Epoch, i \in 1..MaxSeq :
          <<e, i>> \in drawn \/ (\E k \in Request : <<e, i>> \in request[k].lines)
          => e <= epoch /\ (e = epoch => i <= seq)

Seen ==
    opened = epoch =>
       /\ lastLogId <= seq
       /\ \A i \in Logs : i <= lastLogId => <<epoch, i>> \in drawn
       /\ \A k \in Request :
             /\ request[k].last <= seq
             /\ \A i \in Logs : i <= request[k].last
                                => <<epoch, i>> \in drawn \cup request[k].lines

\* Only an answer carries lines, and only a request in flight a number.
Shape ==
    \A k \in Request :
       /\ request[k].stage # "answered" => request[k].lines = {}
       /\ request[k].stage \notin {"asked", "answered"} => request[k].last = 0

Fresh ==
    ~overlapped =>
       /\ \A j, k \in Request : request[j] # Idle /\ request[k] # Idle => j = k
       /\ \A i \in 1..MaxSeq : <<epoch, i>> \in drawn => i <= lastLogId
       /\ \A k \in Request :
             /\ request[k].stage \in {"asked", "answered"} =>
                   \A i \in 1..MaxSeq : <<epoch, i>> \in drawn \cup request[k].lines
                                        => i <= request[k].last
             /\ request[k].lines \cap drawn = {}

IInv == TypeOK /\ Known /\ Seen /\ Shape /\ Fresh

-----------------------------------------------------------------------------
(* What a step can do to one request, and what it leaves of the rest.      *)

LEMMA RecordTypes ==
    ASSUME DashboardAssumption
    PROVE  /\ Idle \in RequestRecord /\ Refused \in RequestRecord
           /\ \A c \in Cookie, n \in 0..MaxSeq : Asked(c, n) \in RequestRecord
           /\ \A s \in SUBSET Line, n \in 0..MaxSeq : Answered(s, n) \in RequestRecord
<1>1. Idle \in RequestRecord
  BY DEF DashboardAssumption, Idle, RequestRecord, Cookie, NoCookie
<1>2. Refused \in RequestRecord
  BY <1>1 DEF Refused, RequestRecord
<1>3. ASSUME NEW c \in Cookie, NEW n \in 0..MaxSeq
      PROVE  Asked(c, n) \in RequestRecord
  BY <1>1 DEF Asked, RequestRecord
<1>4. ASSUME NEW s \in SUBSET Line, NEW n \in 0..MaxSeq
      PROVE  Answered(s, n) \in RequestRecord
  BY <1>1 DEF Answered, RequestRecord
<1> QED
  BY <1>1, <1>2, <1>3, <1>4

LEMMA RecordFields ==
    ASSUME NEW c, NEW n, NEW s
    PROVE  /\ Idle.stage = "idle" /\ Idle.last = 0 /\ Idle.lines = {}
           /\ Refused.stage = "refused" /\ Refused.last = 0 /\ Refused.lines = {}
           /\ Asked(c, n).stage = "asked" /\ Asked(c, n).last = n
           /\ Asked(c, n).lines = {}
           /\ Answered(s, n).stage = "answered" /\ Answered(s, n).last = n
           /\ Answered(s, n).lines = s
  BY DEF Idle, Refused, Asked, Answered

LEMMA SinceLines ==
    ASSUME DashboardAssumption, TypeOK, NEW n \in 0..MaxSeq
    PROVE  /\ Since(n) \subseteq Line
           /\ \A e \in Epoch, i \in 1..MaxSeq :
                 <<e, i>> \in Since(n) <=> e = epoch /\ i \in Logs /\ i > n
  BY DEF DashboardAssumption, TypeOK, Since, Logs, Line, Epoch

LEMMA InitInv == ASSUME DashboardAssumption, Init PROVE IInv
<1>1. TypeOK
  <2>1. 1 \in Epoch /\ 0 \in 0..MaxSeq /\ NoCookie \in Cookie
    BY DEF DashboardAssumption, Epoch, Cookie
  <2>2. request \in [Request -> RequestRecord]
    BY RecordTypes DEF Init
  <2> QED
    BY <2>1, <2>2 DEF Init, TypeOK
<1>2. Known /\ Seen /\ Shape /\ Fresh
  BY RecordFields DEF Init, Known, Seen, Shape, Fresh, Logs, Epoch
<1> QED
  BY <1>1, <1>2 DEF IInv

\* The records a step puts in place of others leave every request typed.
LEMMA TurnRequest ==
    ASSUME TypeOK, NEW k \in Request, NEW to \in RequestRecord,
           request' = [request EXCEPT ![k] = to]
    PROVE  /\ request' \in [Request -> RequestRecord]
           /\ request'[k] = to
           /\ \A j \in Request : j # k => request'[j] = request[j]
  BY DEF TypeOK

\* The fields of a request, for the provers that need their types.
LEMMA Fields ==
    ASSUME TypeOK, NEW k \in Request
    PROVE  /\ request[k] \in RequestRecord
           /\ request[k].cookie \in Cookie /\ request[k].last \in 0..MaxSeq
           /\ request[k].lines \subseteq Line
  BY DEF TypeOK, RequestRecord

-----------------------------------------------------------------------------
(* The server's steps.                                                     *)

LEMMA PushInv == ASSUME DashboardAssumption, IInv, Push PROVE IInv'
<1> USE DEF IInv
<1>1. /\ seq' = seq + 1 /\ epoch' = epoch /\ seq' \in 0..MaxSeq
      /\ UNCHANGED <<view, polling, lastLogId, drawn, opened, overlapped, cookie, request>>
      /\ Logs' \subseteq Logs \cup {seq + 1}
  BY DEF DashboardAssumption, Push, TypeOK, page, Logs
<1>2. TypeOK'
  BY <1>1 DEF TypeOK
<1>3. Known'
  BY <1>1 DEF Known, TypeOK, Epoch, DashboardAssumption
<1>4. Seen'
  BY <1>1, Fields DEF Seen, TypeOK
<1>5. Shape' /\ Fresh'
  BY <1>1 DEF Shape, Fresh, Idle
<1> QED
  BY <1>2, <1>3, <1>4, <1>5

LEMMA RestartInv == ASSUME DashboardAssumption, IInv, Restart PROVE IInv'
<1> USE DEF IInv
<1>1. /\ epoch' = epoch + 1 /\ seq' = 0 /\ epoch' \in Epoch /\ epoch \in Epoch
      /\ UNCHANGED <<view, polling, lastLogId, drawn, opened, overlapped, cookie>>
  BY DEF DashboardAssumption, Restart, TypeOK, page, Epoch
<1>2. /\ request' \in [Request -> RequestRecord]
      /\ \A k \in Request : request'[k] = request[k] \/ request'[k] = Idle
  BY RecordTypes DEF Restart, TypeOK
<1>3. TypeOK'
  BY <1>1, <1>2 DEF TypeOK, DashboardAssumption
<1>4. \A e \in Epoch, i \in 1..MaxSeq :
         <<e, i>> \in drawn' \/ (\E k \in Request : <<e, i>> \in request'[k].lines)
         => e <= epoch
  BY <1>1, <1>2, RecordFields DEF Known
<1>5. Known' /\ opened' # epoch'
  BY <1>1, <1>4 DEF Known, TypeOK, Epoch, DashboardAssumption
<1>6. Shape'
  BY <1>2, RecordFields DEF Shape
<1>7. Seen'
  BY <1>5 DEF Seen
<1>8. Fresh'
  <2>1. \A i \in 1..MaxSeq : <<epoch', i>> \notin drawn'
                            /\ \A k \in Request : <<epoch', i>> \notin request'[k].lines
    BY <1>1, <1>4 DEF Epoch, DashboardAssumption
  <2>2. \A k \in Request : ~overlapped => request'[k].lines \cap drawn = {}
    BY <1>2, RecordFields DEF Fresh
  <2> QED
    BY <1>1, <1>2, <2>1, <2>2 DEF Fresh
<1> QED
  BY <1>3, <1>5, <1>6, <1>7, <1>8

LEMMA ServeInv ==
    ASSUME DashboardAssumption, IInv, NEW k \in Request, ServeLogs(k)
    PROVE  IInv'
<1> USE DEF IInv
<1> DEFINE to == IF isAuthenticated(request[k].cookie)
                 THEN Answered(Since(request[k].last), seq) ELSE Refused
<1>1. /\ request[k].stage = "asked" /\ request' = [request EXCEPT ![k] = to]
      /\ UNCHANGED <<epoch, seq, view, polling, lastLogId, drawn, opened, overlapped, cookie>>
  BY DEF ServeLogs, Turn, server, page
<1>2. Logs' = Logs
  BY <1>1 DEF Logs
<1>3. to \in RequestRecord
  BY Fields, SinceLines, RecordTypes DEF TypeOK
<1>4. /\ request' \in [Request -> RequestRecord] /\ request'[k] = to
      /\ \A j \in Request : j # k => request'[j] = request[j]
  BY <1>1, <1>3, TurnRequest
<1>5. \/ to.stage = "refused" /\ to.last = 0 /\ to.lines = {}
      \/ to.stage = "answered" /\ to.last = seq /\ to.lines = Since(request[k].last)
  BY DEF Refused, Idle, Answered
<1>6. request[k].lines = {}
  BY <1>1 DEF Shape
<1> HIDE DEF to
<1>7. TypeOK'
  BY <1>1, <1>4 DEF TypeOK
<1>8. Known'
  <2>1. \A e \in Epoch, i \in 1..MaxSeq :
           <<e, i>> \in to.lines => e = epoch /\ i <= seq
    BY <1>5, SinceLines, Fields DEF Logs, TypeOK
  <2> QED
    BY <1>1, <1>4, <2>1 DEF Known, TypeOK, Epoch, DashboardAssumption
<1>9. Seen'
  <2>1. ASSUME opened = epoch PROVE to.last <= seq
    BY <1>5 DEF TypeOK
  <2>2. ASSUME opened = epoch, NEW i \in Logs, i <= to.last
        PROVE  <<epoch, i>> \in drawn \cup to.lines
    BY <1>5, <1>6, <2>2, SinceLines, Fields DEF Seen, Logs, TypeOK
  <2> QED
    BY <1>1, <1>2, <1>4, <2>1, <2>2 DEF Seen
<1>10. Shape'
  BY <1>4, <1>5 DEF Shape
<1>11. Fresh'
  <2> SUFFICES ASSUME ~overlapped PROVE Fresh'
    BY <1>1 DEF Fresh
  <2>1. request[k] # Idle
    BY <1>1, RecordFields
  <2>2. \A i \in 1..MaxSeq : <<epoch, i>> \in drawn => i <= request[k].last /\ i <= seq
    BY <1>1 DEF Fresh, Known, TypeOK
  <2>3. to.lines \cap drawn = {}
    <3> SUFFICES ASSUME NEW x \in to.lines, x \in drawn PROVE FALSE
      OBVIOUS
    <3>1. PICK e \in Epoch, i \in 1..MaxSeq : x = <<e, i>>
      BY DEF TypeOK, Line
    <3> QED
      BY <1>5, <3>1, <2>2, SinceLines, Fields DEF TypeOK
  <2>4. to.stage = "answered" =>
           \A i \in 1..MaxSeq : <<epoch, i>> \in drawn \cup to.lines => i <= to.last
    BY <1>5, <2>2, SinceLines, Fields DEF Logs, TypeOK
  <2>5. to.stage # "asked"
    BY <1>5
  <2> QED
    BY <1>1, <1>4, <2>1, <2>3, <2>4, <2>5 DEF Fresh
<1> QED
  BY <1>7, <1>8, <1>9, <1>10, <1>11

-----------------------------------------------------------------------------
(* The page's steps.                                                       *)

LEMMA FetchInv ==
    ASSUME DashboardAssumption, IInv, NEW k \in Request, fetchLogs(k)
    PROVE  IInv'
<1> USE DEF IInv
<1> DEFINE to == Asked(cookie, lastLogId)
<1>1. /\ request[k].stage = "idle" /\ request' = [request EXCEPT ![k] = to]
      /\ UNCHANGED <<epoch, seq, view, polling, lastLogId, drawn, opened, cookie>>
      /\ overlapped' = (overlapped \/ \E j \in Request : request[j] # Idle)
  BY DEF fetchLogs, Turn, server
<1>2. Logs' = Logs
  BY <1>1 DEF Logs
<1>3. to \in RequestRecord
  BY RecordTypes DEF TypeOK
<1>4. /\ request' \in [Request -> RequestRecord] /\ request'[k] = to
      /\ \A j \in Request : j # k => request'[j] = request[j]
  BY <1>1, <1>3, TurnRequest
<1>5. to.stage = "asked" /\ to.last = lastLogId /\ to.lines = {}
  BY DEF Asked, Idle
<1> HIDE DEF to
<1>6. TypeOK'
  BY <1>1, <1>4 DEF TypeOK
<1>7. Known'
  BY <1>1, <1>4, <1>5 DEF Known
<1>8. Seen'
  BY <1>1, <1>2, <1>4, <1>5 DEF Seen
<1>9. Shape'
  BY <1>4, <1>5 DEF Shape
<1>10. Fresh'
  <2> SUFFICES ASSUME ~overlapped' PROVE Fresh'
    BY DEF Fresh
  <2>1. ~overlapped /\ \A j \in Request : request[j] = Idle
    BY <1>1
  <2> QED
    BY <1>1, <1>4, <1>5, <2>1, RecordFields DEF Fresh
<1> QED
  BY <1>6, <1>7, <1>8, <1>9, <1>10

LEMMA ReceiveInv ==
    ASSUME DashboardAssumption, IInv, NEW k \in Request, ReceiveLogs(k)
    PROVE  IInv'
<1> USE DEF IInv
<1>1. /\ request[k].stage = "answered" /\ request' = [request EXCEPT ![k] = Idle]
      /\ UNCHANGED <<epoch, seq, view, polling, opened, overlapped, cookie>>
      /\ lastLogId' = IF request[k].lines = {} THEN lastLogId ELSE request[k].last
      /\ drawn' = drawn \cup request[k].lines
  BY DEF ReceiveLogs, Turn, server
<1>2. Logs' = Logs
  BY <1>1 DEF Logs
<1>3. /\ request' \in [Request -> RequestRecord] /\ request'[k] = Idle
      /\ \A j \in Request : j # k => request'[j] = request[j]
  BY <1>1, RecordTypes, TurnRequest
<1>4. Idle.stage = "idle" /\ Idle.last = 0 /\ Idle.lines = {}
  BY RecordFields
<1>5. TypeOK'
  <2>1. lastLogId' \in 0..MaxSeq /\ drawn' \subseteq Line
    BY <1>1, Fields DEF TypeOK
  <2> QED
    BY <1>1, <1>3, <2>1 DEF TypeOK
<1>6. Known'
  BY <1>1, <1>3, <1>4 DEF Known
<1>7. Seen'
  <2> SUFFICES ASSUME opened = epoch PROVE Seen'
    BY <1>1 DEF Seen
  <2>1. lastLogId' <= seq
    BY <1>1 DEF Seen
  <2>2. \A i \in Logs : i <= lastLogId' => <<epoch, i>> \in drawn'
    BY <1>1 DEF Seen
  <2>3. ASSUME NEW j \in Request
        PROVE  /\ request'[j].last <= seq
               /\ \A i \in Logs : i <= request'[j].last
                                  => <<epoch, i>> \in drawn' \cup request'[j].lines
    <3>1. CASE j = k
      BY <1>3, <1>4, <3>1 DEF TypeOK, Logs
    <3>2. CASE j # k
      BY <1>1, <1>3, <3>2 DEF Seen
    <3> QED
      BY <3>1, <3>2
  <2> QED
    BY <1>1, <1>2, <2>1, <2>2, <2>3 DEF Seen
<1>8. Shape'
  BY <1>3, <1>4 DEF Shape
<1>9. Fresh'
  <2> SUFFICES ASSUME ~overlapped PROVE Fresh'
    BY <1>1 DEF Fresh
  <2>1. \A j \in Request : request'[j] = Idle
    BY <1>1, <1>3, <1>4 DEF Fresh
  <2>2. \A i \in 1..MaxSeq : <<epoch, i>> \in drawn' => i <= lastLogId'
    BY <1>1 DEF Fresh
  <2> QED
    BY <1>1, <1>4, <2>1, <2>2 DEF Fresh
<1> QED
  BY <1>5, <1>6, <1>7, <1>8, <1>9

\* handleUnauthorized and FetchError: a request is over and brought nothing.
LEMMA DropInv ==
    ASSUME DashboardAssumption, IInv, NEW k \in Request,
           request' = [request EXCEPT ![k] = Idle],
           UNCHANGED <<epoch, seq, lastLogId, drawn, opened, overlapped, cookie>>,
           view' \in {"loading", "login", "dashboard"}, polling' \in BOOLEAN
    PROVE  IInv'
<1> USE DEF IInv
<1>1. Logs' = Logs
  BY DEF Logs
<1>2. /\ request' \in [Request -> RequestRecord] /\ request'[k] = Idle
      /\ \A j \in Request : j # k => request'[j] = request[j]
  BY RecordTypes, TurnRequest
<1>3. Idle.stage = "idle" /\ Idle.last = 0 /\ Idle.lines = {}
  BY RecordFields
<1>4. TypeOK'
  BY <1>2 DEF TypeOK
<1>5. Known' /\ Shape'
  BY <1>2, <1>3 DEF Known, Shape
<1>6. Seen'
  BY <1>1, <1>2, <1>3 DEF Seen, TypeOK, Logs
<1>7. Fresh'
  BY <1>2, <1>3 DEF Fresh
<1> QED
  BY <1>4, <1>5, <1>6, <1>7

\* checkAuthStatus, Login, Logout: only the view and the session change.
LEMMA ViewInv ==
    ASSUME DashboardAssumption, IInv,
           UNCHANGED <<epoch, seq, lastLogId, drawn, opened, overlapped, request>>,
           view' \in {"loading", "login", "dashboard"}, polling' \in BOOLEAN,
           cookie' \in Cookie
    PROVE  IInv'
<1>1. Logs' = Logs
  BY DEF Logs
<1> QED
  BY <1>1 DEF IInv, TypeOK, Known, Seen, Shape, Fresh, Idle

LEMMA ExpireInv == ASSUME DashboardAssumption, IInv, Expire PROVE IInv'
<1> USE DEF IInv
<1>1. /\ cookie' = NoCookie
      /\ request' = [k \in Request |-> [request[k] EXCEPT !.cookie = NoCookie]]
      /\ UNCHANGED <<epoch, seq, view, polling, lastLogId, drawn, opened, overlapped>>
  BY DEF Expire, server, page
<1>2. Logs' = Logs
  BY <1>1 DEF Logs
<1>3. ASSUME NEW k \in Request
      PROVE  /\ request'[k] \in RequestRecord
             /\ request'[k].stage = request[k].stage /\ request'[k].last = request[k].last
             /\ request'[k].lines = request[k].lines
             /\ request[k] = Idle => request'[k] = Idle
  <2>1. request[k] \in RequestRecord /\ NoCookie \in Cookie
    BY Fields DEF Cookie
  <2>2. request'[k] = [request[k] EXCEPT !.cookie = NoCookie]
    BY <1>1
  <2> QED
    BY <2>1, <2>2 DEF RequestRecord, Idle
<1>4. TypeOK'
  <2>1. request' \in [Request -> RequestRecord]
    BY <1>1, <1>3
  <2> QED
    BY <1>1, <2>1 DEF TypeOK, Cookie
<1>5. Known' /\ Shape'
  BY <1>1, <1>3 DEF Known, Shape
<1>6. Seen'
  BY <1>1, <1>2, <1>3 DEF Seen
<1>7. Fresh'
  BY <1>1, <1>3 DEF Fresh, Idle
<1> QED
  BY <1>4, <1>5, <1>6, <1>7

LEMMA ReloadInv == ASSUME DashboardAssumption, IInv, Reload PROVE IInv'
<1> USE DEF IInv
<1>1. /\ UNCHANGED <<epoch, seq, cookie>> /\ opened' = epoch /\ overlapped' = FALSE
      /\ view' = "loading" /\ polling' = FALSE /\ lastLogId' = 0 /\ drawn' = {}
      /\ request' = [k \in Request |-> Idle]
  BY DEF Reload, server
<1>2. request' \in [Request -> RequestRecord] /\ \A k \in Request : request'[k] = Idle
  BY <1>1, RecordTypes
<1>3. Idle.stage = "idle" /\ Idle.last = 0 /\ Idle.lines = {}
  BY RecordFields
<1>4. epoch \in Nat /\ seq \in Nat /\ 0 \in 0..MaxSeq /\ Logs' = Logs
      /\ \A i \in Logs : i > 0
  BY <1>1 DEF TypeOK, Epoch, DashboardAssumption, Logs
<1>5. TypeOK'
  BY <1>1, <1>2, <1>4 DEF TypeOK
<1>6. Known' /\ Shape'
  BY <1>1, <1>2, <1>3, <1>4 DEF Known, Shape
<1>7. Seen'
  BY <1>1, <1>2, <1>3, <1>4 DEF Seen, Logs
<1>8. Fresh'
  BY <1>1, <1>2, <1>3 DEF Fresh
<1> QED
  BY <1>5, <1>6, <1>7, <1>8

-----------------------------------------------------------------------------
LEMMA Step == ASSUME DashboardAssumption, IInv, [Next]_vars PROVE IInv'
<1>1. CASE Push
  BY <1>1, PushInv
<1>2. CASE Restart
  BY <1>2, RestartInv
<1>3. CASE checkAuthStatus \/ Login \/ Logout
  BY <1>3, ViewInv DEF checkAuthStatus, Login, Logout, handleLogin, handleLogout, showDashboard,
                       IInv, TypeOK, server, Cookie
<1>4. CASE Expire
  BY <1>4, ExpireInv
<1>5. CASE Reload
  BY <1>5, ReloadInv
<1>6. ASSUME NEW k \in Request,
             \/ fetchLogs(k) \/ ServeLogs(k) \/ ReceiveLogs(k)
             \/ handleUnauthorized(k) \/ FetchError(k)
      PROVE  IInv'
  <2>1. CASE fetchLogs(k)
    BY <2>1, FetchInv
  <2>2. CASE ServeLogs(k)
    BY <2>2, ServeInv
  <2>3. CASE ReceiveLogs(k)
    BY <2>3, ReceiveInv
  <2>4. CASE handleUnauthorized(k)
    BY <2>4, DropInv DEF handleUnauthorized, Turn, server
  <2>5. CASE FetchError(k)
    BY <2>5, DropInv DEF FetchError, server, page, IInv, TypeOK
  <2> QED
    BY <1>6, <2>1, <2>2, <2>3, <2>4, <2>5
<1>7. CASE UNCHANGED vars
  BY <1>7, ViewInv DEF vars, server, page, IInv, TypeOK
<1> QED
  BY <1>1, <1>2, <1>3, <1>4, <1>5, <1>6, <1>7 DEF Next

LEMMA Inductive == Spec => []IInv
  BY InitInv, Step, DashboardAssumption, PTL DEF Spec

(* Whatever requests the network loses, delays or reorders, and however    *)
(* often the server restarts, the page and the requests are typed.         *)
THEOREM TypeCorrect == Spec => []TypeOK
  BY Inductive, PTL DEF IInv

(* The page misses no line of the run of the server it was opened in that  *)
(* the ring still has, and only overlapping requests draw a line again.    *)
THEOREM EachLineDrawnOnce == Spec => []EachLineOnce
<1>1. IInv => EachLineOnce
  BY DEF IInv, Seen, Fresh, EachLineOnce
<1> QED
  BY <1>1, Inductive, PTL

-----------------------------------------------------------------------------
(* The page implements LogView.                                            *)

\* The lines a request carries are a stretch of the log of one run, which
\* begins at a number it was sent with: the page's own, unless requests
\* overlapped, and no run that came later is on the page by then.
Carries(k, e, from) ==
    /\ request[k].lines = View!Stretch(e, from, request[k].last)
    /\ e = epoch => request[k].last <= seq
    /\ ~overlapped => from = lastLogId /\ \A line \in drawn : line[1] <= e

Carried ==
    \A k \in Request :
       /\ request[k].stage = "asked" /\ ~overlapped => request[k].last = lastLogId
       /\ request[k].lines # {} =>
             \E e \in opened..epoch, from \in 0..request[k].last : Carries(k, e, from)

LEMMA CarriedInit == Init => Carried
<1>1. Idle.stage = "idle" /\ Idle.lines = {}
  BY RecordFields
<1> QED
  BY <1>1 DEF Init, Carried

\* A step that leaves a request alone, or empties it, and what is relevant
\* of the page.
LEMMA CarriedKept ==
    ASSUME DashboardAssumption, IInv, Carried, NEW k \in Request,
           \/ request'[k].lines = {} /\ request'[k].stage # "asked"
           \/ /\ request'[k].stage = request[k].stage
              /\ request'[k].last = request[k].last
              /\ request'[k].lines = request[k].lines,
           opened' = opened,
           \/ epoch' = epoch /\ seq' \in {seq, seq + 1}
           \/ epoch' = epoch + 1 /\ request'[k].stage # "asked",
           overlapped' \/ UNCHANGED <<overlapped, lastLogId, drawn>>
    PROVE  /\ request'[k].stage = "asked" /\ ~overlapped' => request'[k].last = lastLogId'
           /\ request'[k].lines # {} =>
                 \E e \in opened'..epoch', from \in 0..request'[k].last : Carries(k, e, from)'
<1>1. request'[k].stage = "asked" /\ ~overlapped' => request'[k].last = lastLogId'
  BY DEF Carried, IInv, TypeOK
<1>2. ASSUME request'[k].lines # {}
      PROVE  \E e \in opened'..epoch', from \in 0..request'[k].last : Carries(k, e, from)'
  <2>1. /\ request'[k].last = request[k].last /\ request'[k].lines = request[k].lines
        /\ epoch \in Nat /\ seq \in Nat /\ opened \in Nat
    BY <1>2 DEF IInv, TypeOK, Epoch
  <2>2. PICK e \in opened..epoch, from \in 0..request[k].last : Carries(k, e, from)
    BY <1>2, <2>1 DEF Carried
  <2>3. e \in opened'..epoch' /\ from \in 0..request'[k].last
    BY <2>1, <2>2
  <2>4. e = epoch' => request'[k].last <= seq'
    BY <2>1, <2>2, Fields DEF Carries, IInv
  <2>5. ~overlapped' => from = lastLogId' /\ \A line \in drawn' : line[1] <= e
    BY <2>2 DEF Carries
  <2>6. Carries(k, e, from)'
    BY <2>1, <2>2, <2>4, <2>5 DEF Carries, View!Stretch
  <2> QED
    BY <2>3, <2>6
<1> QED
  BY <1>1, <1>2

LEMMA SinceStretch ==
    ASSUME DashboardAssumption, TypeOK, NEW n \in 0..MaxSeq
    PROVE  /\ Since(n) = View!Stretch(epoch, n, seq)
           /\ Since(n) # {} => n \in 0..seq
<1>1. {j \in Logs : j > n} = {j \in (n + 1)..seq : j > seq - Capacity}
  BY DEF Logs, TypeOK, DashboardAssumption
<1>2. Since(n) = View!Stretch(epoch, n, seq)
  BY <1>1 DEF Since, View!Stretch
<1>3. Since(n) # {} => n \in 0..seq
  BY DEF Since, Logs, TypeOK, DashboardAssumption
<1> QED
  BY <1>2, <1>3

LEMMA CarriedServe ==
    ASSUME DashboardAssumption, IInv, Carried, NEW k \in Request, ServeLogs(k)
    PROVE  Carried'
<1> USE DEF IInv
<1> DEFINE to == IF isAuthenticated(request[k].cookie)
                 THEN Answered(Since(request[k].last), seq) ELSE Refused
<1>1. /\ request[k].stage = "asked" /\ request' = [request EXCEPT ![k] = to]
      /\ UNCHANGED <<epoch, seq, lastLogId, drawn, opened, overlapped>>
  BY DEF ServeLogs, Turn, server, page
<1>2. to \in RequestRecord
  BY Fields, SinceLines, RecordTypes DEF TypeOK
<1>3. request'[k] = to /\ \A j \in Request : j # k => request'[j] = request[j]
  BY <1>1, <1>2, TurnRequest
<1>4. \/ to.stage = "refused" /\ to.lines = {}
      \/ to.stage = "answered" /\ to.last = seq /\ to.lines = Since(request[k].last)
  BY DEF Refused, Idle, Answered
<1> HIDE DEF to
<1>5. ASSUME request'[k].lines # {}
      PROVE  \E e \in opened'..epoch', from \in 0..request'[k].last : Carries(k, e, from)'
  <2>1. request'[k].lines = Since(request[k].last) /\ request'[k].last = seq
    BY <1>3, <1>4, <1>5
  <2>2. /\ request'[k].lines = View!Stretch(epoch, request[k].last, seq)
        /\ request[k].last \in 0..seq
    BY <1>5, <2>1, SinceStretch, Fields
  <2>3. ~overlapped => request[k].last = lastLogId /\ \A line \in drawn : line[1] <= epoch
    <3>1. \A line \in drawn : line[1] <= epoch
      BY DEF Known, TypeOK, Line
    <3> QED
      BY <1>1, <3>1 DEF Carried
  <2>4. PICK e, from : e = epoch /\ from = request[k].last
    OBVIOUS
  <2>5. Carries(k, e, from)'
    BY <1>1, <2>1, <2>2, <2>3, <2>4 DEF Carries, View!Stretch, TypeOK
  <2>6. e \in opened'..epoch' /\ from \in 0..request'[k].last
    BY <1>1, <2>1, <2>2, <2>4 DEF Known, TypeOK, Epoch
  <2> QED
    BY <2>5, <2>6
<1>6. ASSUME NEW j \in Request, j # k
      PROVE  /\ request'[j].stage = "asked" /\ ~overlapped' => request'[j].last = lastLogId'
             /\ request'[j].lines # {} =>
                   \E e \in opened'..epoch', from \in 0..request'[j].last : Carries(j, e, from)'
  BY <1>1, <1>3, <1>6, CarriedKept
<1> QED
  BY <1>3, <1>4, <1>5, <1>6 DEF Carried

LEMMA CarriedFetch ==
    ASSUME DashboardAssumption, IInv, Carried, NEW k \in Request, fetchLogs(k)
    PROVE  Carried'
<1> USE DEF IInv
<1>1. /\ request' = [request EXCEPT ![k] = Asked(cookie, lastLogId)]
      /\ UNCHANGED <<epoch, seq, lastLogId, drawn, opened>>
      /\ overlapped' = (overlapped \/ \E j \in Request : request[j] # Idle)
  BY DEF fetchLogs, Turn, server
<1>2. Asked(cookie, lastLogId) \in RequestRecord
  BY RecordTypes DEF TypeOK
<1>3. /\ request'[k].last = lastLogId /\ request'[k].lines = {}
      /\ \A j \in Request : j # k => request'[j] = request[j]
  <2>1. request'[k] = Asked(cookie, lastLogId) /\ \A j \in Request : j # k => request'[j] = request[j]
    BY <1>1, <1>2, TurnRequest
  <2> QED
    BY <2>1 DEF Asked, Idle
<1>4. ASSUME NEW j \in Request, j # k
      PROVE  /\ request'[j].stage = "asked" /\ ~overlapped' => request'[j].last = lastLogId'
             /\ request'[j].lines # {} =>
                   \E e \in opened'..epoch', from \in 0..request'[j].last : Carries(j, e, from)'
  <2>1. overlapped' \/ UNCHANGED <<overlapped, lastLogId, drawn>>
    BY <1>1 DEF TypeOK
  <2> QED
    BY <1>1, <1>3, <1>4, <2>1, CarriedKept
<1> QED
  BY <1>1, <1>3, <1>4 DEF Carried

\* A request that is received, refused or lost is over.
LEMMA CarriedOver ==
    ASSUME DashboardAssumption, IInv, Carried, NEW k \in Request,
           ReceiveLogs(k) \/ handleUnauthorized(k) \/ FetchError(k)
    PROVE  Carried'
<1> USE DEF IInv
<1>1. /\ request' = [request EXCEPT ![k] = Idle] /\ request[k] # Idle
      /\ UNCHANGED <<epoch, seq, opened, overlapped>>
      /\ ReceiveLogs(k) \/ UNCHANGED <<lastLogId, drawn>>
  BY RecordFields DEF ReceiveLogs, handleUnauthorized, FetchError, Turn, server, page
<1>2. /\ request'[k] = Idle /\ Idle.stage = "idle" /\ Idle.lines = {}
      /\ \A j \in Request : j # k => request'[j] = request[j]
  BY <1>1, RecordTypes, RecordFields, TurnRequest
<1>3. CASE overlapped \/ UNCHANGED <<lastLogId, drawn>>
  <2>1. overlapped' \/ UNCHANGED <<overlapped, lastLogId, drawn>>
    BY <1>1, <1>3
  <2>2. ASSUME NEW j \in Request
        PROVE  /\ request'[j].stage = "asked" /\ ~overlapped' => request'[j].last = lastLogId'
               /\ request'[j].lines # {} =>
                     \E e \in opened'..epoch', from \in 0..request'[j].last : Carries(j, e, from)'
    <3>1. \/ request'[j].lines = {} /\ request'[j].stage # "asked"
          \/ request'[j] = request[j]
      BY <1>2
    <3> QED
      BY <1>1, <2>1, <3>1, CarriedKept
  <2> QED
    BY <2>2 DEF Carried
<1>4. CASE ~overlapped
  <2>1. \A j \in Request : request'[j] = Idle
    BY <1>1, <1>2, <1>4 DEF Fresh
  <2> QED
    BY <1>2, <2>1 DEF Carried
<1> QED
  BY <1>3, <1>4

LEMMA CarriedStep ==
    ASSUME DashboardAssumption, IInv, Carried, [Next]_vars
    PROVE  Carried'
<1> USE DEF IInv
<1>1. CASE Push \/ Restart \/ Expire
  <2>1. /\ UNCHANGED <<opened, overlapped, lastLogId, drawn>>
        /\ \/ epoch' = epoch /\ seq' \in {seq, seq + 1} /\ (Push \/ Expire)
           \/ epoch' = epoch + 1 /\ Restart
    BY <1>1 DEF Push, Restart, Expire, server, page
  <2>2. ASSUME NEW j \in Request
        PROVE  /\ request'[j].stage = "asked" /\ ~overlapped' => request'[j].last = lastLogId'
               /\ request'[j].lines # {} =>
                     \E e \in opened'..epoch', from \in 0..request'[j].last : Carries(j, e, from)'
    <3>1. CASE Push
      BY <2>1, <3>1, CarriedKept DEF Push, Restart
    <3>2. CASE Restart
      <4>1. \/ request'[j].lines = {} /\ request'[j].stage # "asked"
            \/ request'[j] = request[j] /\ request'[j].stage # "asked"
        BY <3>2, RecordFields DEF Restart
      <4>2. epoch' = epoch + 1
        BY <3>2 DEF Restart
      <4> QED
        BY <2>1, <4>1, <4>2, CarriedKept
    <3>3. CASE Expire
      <4>1. request[j] \in RequestRecord
        BY Fields
      <4>2. request'[j] = [request[j] EXCEPT !.cookie = NoCookie]
        BY <3>3 DEF Expire
      <4>3. /\ request'[j].stage = request[j].stage /\ request'[j].last = request[j].last
            /\ request'[j].lines = request[j].lines
        BY <4>1, <4>2 DEF RequestRecord
      <4>4. epoch' = epoch /\ seq' = seq
        BY <3>3 DEF Expire, server
      <4> QED
        BY <2>1, <4>3, <4>4, CarriedKept
    <3> QED
      BY <1>1, <3>1, <3>2, <3>3
  <2> QED
    BY <2>2 DEF Carried
<1>2. CASE Reload
  BY <1>2, RecordFields DEF Reload, Carried
<1>3. CASE checkAuthStatus \/ Login \/ Logout \/ UNCHANGED vars
  <2>1. UNCHANGED <<epoch, seq, lastLogId, drawn, opened, overlapped, request>>
    BY <1>3 DEF checkAuthStatus, Login, Logout, server, page, vars
  <2> QED
    BY <2>1 DEF Carried, Carries, View!Stretch
<1>4. ASSUME NEW k \in Request,
             \/ fetchLogs(k) \/ ServeLogs(k) \/ ReceiveLogs(k)
             \/ handleUnauthorized(k) \/ FetchError(k)
      PROVE  Carried'
  BY <1>4, CarriedFetch, CarriedServe, CarriedOver
<1> QED
  BY <1>1, <1>2, <1>3, <1>4 DEF Next

-----------------------------------------------------------------------------
LEMMA ReceiveDraws ==
    ASSUME DashboardAssumption, IInv, Carried, IInv', NEW k \in Request, ReceiveLogs(k)
    PROVE  View!Draw \/ UNCHANGED View!vars
<1> USE DEF IInv
<1>1. /\ UNCHANGED <<epoch, seq, opened, overlapped>>
      /\ lastLogId' = IF request[k].lines = {} THEN lastLogId ELSE request[k].last
      /\ drawn' = drawn \cup request[k].lines
  BY DEF ReceiveLogs, server
<1>2. CASE request[k].lines = {}
  BY <1>1, <1>2 DEF View!vars, View!log
<1>3. CASE request[k].lines # {}
  <2>1. PICK e \in opened..epoch, from \in 0..request[k].last : Carries(k, e, from)
    BY <1>3 DEF Carried
  <2>2. lastLogId' = request[k].last /\ lastLogId' \in Nat
    BY <1>1, <1>3, Fields
  <2>3. /\ drawn' = drawn \cup View!Stretch(e, from, lastLogId')
        /\ e = epoch => lastLogId' <= seq
        /\ ~overlapped => from = lastLogId /\ \A line \in drawn : line[1] <= e
    BY <1>1, <2>1, <2>2 DEF Carries
  <2>4. opened = epoch => \A i \in View!Kept : i <= lastLogId' => <<epoch, i>> \in drawn'
    <3>1. View!Kept = Logs /\ Logs' = Logs
      BY <1>1 DEF View!Kept, Logs
    <3> QED
      BY <1>1, <3>1 DEF Seen
  <2> QED
    BY <1>1, <2>1, <2>2, <2>3, <2>4 DEF View!Draw, View!log
<1> QED
  BY <1>2, <1>3

LEMMA ViewStep ==
    ASSUME DashboardAssumption, IInv, Carried, IInv', [Next]_vars
    PROVE  [View!Next]_(View!vars)
<1>1. CASE Push
  BY <1>1 DEF Push, page, View!Next, View!Write
<1>2. CASE Restart
  BY <1>2 DEF Restart, page, View!Next, View!Restart
<1>3. CASE Reload
  BY <1>3 DEF Reload, server, View!Next, View!Open, View!log
<1>4. CASE checkAuthStatus \/ Login \/ Logout \/ Expire \/ UNCHANGED vars
  BY <1>4 DEF checkAuthStatus, Login, Logout, Expire, server, page, vars, View!vars, View!log
<1>5. ASSUME NEW k \in Request, fetchLogs(k)
      PROVE  View!Overlap \/ UNCHANGED View!vars
  <2>1. overlapped' = TRUE \/ overlapped' = overlapped
    BY <1>5 DEF fetchLogs, IInv, TypeOK
  <2>2. UNCHANGED <<epoch, seq, lastLogId, drawn, opened>>
    BY <1>5 DEF fetchLogs, server
  <2> QED
    BY <2>1, <2>2 DEF View!Overlap, View!vars, View!log
<1>6. ASSUME NEW k \in Request, ServeLogs(k) \/ handleUnauthorized(k) \/ FetchError(k)
      PROVE  UNCHANGED View!vars
  BY <1>6 DEF ServeLogs, handleUnauthorized, FetchError, server, page, View!vars, View!log
<1>7. ASSUME NEW k \in Request, ReceiveLogs(k)
      PROVE  View!Draw \/ UNCHANGED View!vars
  BY <1>7, ReceiveDraws
<1> QED
  BY <1>1, <1>2, <1>3, <1>4, <1>5, <1>6, <1>7 DEF Next, View!Next

(* Requests that are lost, refused, late or answered before a restart, and *)
(* any number of them at once, make a view of the log as LogView has it.   *)
THEOREM LogViewImplemented == Spec => ImplementsLogView
<1>1. Init => View!Init
  BY DEF Init, View!Init
<1>2. IInv /\ IInv' /\ Carried /\ [Next]_vars => Carried' /\ [View!Next]_(View!vars)
  BY CarriedStep, ViewStep, DashboardAssumption
<1> QED
  BY <1>1, <1>2, CarriedInit, Inductive, PTL DEF Spec, ImplementsLogView, View!Spec
=============================================================================
