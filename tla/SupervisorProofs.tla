-------------------------- MODULE SupervisorProofs --------------------------
(***************************************************************************)
(* Proofs about Supervisor, for every grace, every backoff bound and both  *)
(* tunnel kinds: its safety invariants, from one inductive invariant, and  *)
(* the refinement of TunnelService.                                        *)
(***************************************************************************)
EXTENDS Supervisor, TLAPS

\* The state spaces of the three goroutines are typed.
LEMMA TypeInit == Init => TypeOK
<1> SUFFICES ASSUME Init PROVE TypeOK
  OBVIOUS
<1> USE DEF Init
<1>1. notReadyFor \in {NotSet} \cup 0..(NotReadyGrace + 1)
  OBVIOUS
<1>2. backoff \in BackoffInitial..BackoffMax
  BY SupervisorAssumption
<1>3. QED  BY <1>1, <1>2 DEF TypeOK, Watching, Observation

\* The next backoff stays between the initial and the longest one.
LEMMA BackoffBounds ==
    ASSUME NEW cur \in BackoffInitial..BackoffMax
    PROVE  nextBackoff(cur) \in BackoffInitial..BackoffMax
BY SupervisorAssumption DEF nextBackoff

LEMMA TypeStep == TypeOK /\ [Next]_vars => TypeOK'
<1> SUFFICES ASSUME TypeOK, [Next]_vars
             PROVE  TypeOK'
  OBVIOUS
<1> USE DEF TypeOK, Watching, Observation, NotSet, pollVars, watchVars
<1>1. CASE RunLoop
  <2>1. CASE CheckCtx  BY <2>1 DEF CheckCtx
  <2>2. CASE LaunchOk  BY <2>2 DEF LaunchOk
  <2>3. CASE LaunchFail  BY <2>3 DEF LaunchFail
  <2>4. CASE ReturnAfterWatch  BY <2>4 DEF ReturnAfterWatch
  <2>8. CASE RestartAfterWatch  BY <2>8 DEF RestartAfterWatch
  <2>5. CASE BackoffElapsed  BY <2>5, BackoffBounds DEF BackoffElapsed
  <2>6. CASE BackoffCancelled  BY <2>6 DEF BackoffCancelled
  <2>7. QED  BY <1>1, <2>1, <2>2, <2>3, <2>4, <2>5, <2>6, <2>8 DEF RunLoop
<1>2. CASE Watch
  <2> USE DEF LeaveWatch
  <2>1. CASE WatchShutdown  BY <2>1 DEF WatchShutdown
  <2>2. CASE Drain  BY <2>2 DEF Drain, DrainExit, DrainTimeout
  <2>3. CASE WatchExit  BY <2>3 DEF WatchExit
  <2>4. CASE WatchClosed  BY <2>4 DEF WatchClosed
  <2>5. CASE WatchPollError  BY <2>5 DEF WatchPollError
  <2>6. CASE WatchReady  BY <2>6 DEF WatchReady
  <2>7. CASE AnnounceDone  BY <2>7 DEF AnnounceDone
  <2>8. CASE WatchNotReady
    <3>1. notReadyFor' \in {NotSet} \cup 0..(NotReadyGrace + 1)
      BY <2>8, SupervisorAssumption DEF WatchNotReady
    <3>2. QED  BY <2>8, <3>1 DEF WatchNotReady
  <2>9. CASE WatchGraceOver  BY <2>9 DEF WatchGraceOver
  <2>10. QED  BY <1>2, <2>1, <2>2, <2>3, <2>4, <2>5, <2>6, <2>7, <2>8, <2>9 DEF Watch
<1>3. CASE WaiterSend  BY <1>3 DEF WaiterSend
<1>4. CASE Poller
  BY <1>4 DEF Poller, PollerTick, pollReadyOnce, PollerSend, PollerStop
<1>5. CASE Environment
  <2>1. CASE Cancel  BY <2>1 DEF Cancel
  <2>2. CASE ProcessExit  BY <2>2 DEF ProcessExit
  <2>3. CASE Tick  BY <2>3, SupervisorAssumption DEF Tick
  <2>4. CASE Returned  BY <2>4 DEF Returned, vars
  <2>5. QED  BY <1>5, <2>1, <2>2, <2>3, <2>4 DEF Environment
<1>6. CASE UNCHANGED vars  BY <1>6 DEF vars
<1>7. QED  BY <1>1, <1>2, <1>3, <1>4, <1>5, <1>6 DEF Next

\* Every variable keeps its type, in particular a backoff between the two
\* bounds and at most one tick beyond the grace.
THEOREM TypeCorrect == Spec => []TypeOK
<1>1. Init => TypeOK  BY TypeInit
<1>2. TypeOK /\ [Next]_vars => TypeOK'  BY TypeStep
<1>3. QED  BY <1>1, <1>2, PTL DEF Spec

-----------------------------------------------------------------------------
(* The inductive invariant: the four safety invariants need each other and *)
(* the agreement of the goroutines on who has seen what.                   *)

\* The goroutines agree with each other: the waiter has reported only a dead
\* subprocess, the poll channel closes only after cancellation, watch drains
\* only then, and a launch given up otherwise has withdrawn its status.  With
\* the invariants of Supervisor it is inductive.
GoroutinesAgree ==
    /\ exitCh # "empty" => proc = "dead"
    /\ poller = "closed" => ctx = "done"
    /\ run \in {"draining", "reaping"} => ctx = "done"
    /\ run = "unwatched" /\ ctx = "live" => ~tunnelReady

IInv ==
    /\ TypeOK
    /\ GoroutinesAgree
    /\ NoLiveProcessBetweenLaunches
    /\ NoStaleReady
    /\ ExitStillToCome
    /\ SurvivorWasInterrupted

LEMMA IInvInit == Init => IInv
BY TypeInit DEF Init, IInv, GoroutinesAgree, NoLiveProcessBetweenLaunches,
                NoStaleReady, ExitStillToCome, SurvivorWasInterrupted

LEMMA IInvStep == IInv /\ [Next]_vars => IInv'
<1> SUFFICES ASSUME IInv, [Next]_vars
             PROVE  IInv'
  OBVIOUS
<1>1. TypeOK'  BY TypeStep DEF IInv
<1>2. SUFFICES (/\ GoroutinesAgree
                /\ NoLiveProcessBetweenLaunches
                /\ NoStaleReady
                /\ ExitStillToCome
                /\ SurvivorWasInterrupted)'
  BY <1>1 DEF IInv
<1> USE DEF IInv, GoroutinesAgree, NoLiveProcessBetweenLaunches, NoStaleReady,
            ExitStillToCome, SurvivorWasInterrupted, TypeOK, pollVars, watchVars
<1>3. CASE RunLoop
  <2>1. CASE CheckCtx  BY <2>1 DEF CheckCtx
  <2>2. CASE LaunchOk  BY <2>2 DEF LaunchOk
  <2>3. CASE LaunchFail  BY <2>3 DEF LaunchFail
  <2>4. CASE ReturnAfterWatch  BY <2>4 DEF ReturnAfterWatch
  <2>5. CASE RestartAfterWatch  BY <2>5 DEF RestartAfterWatch
  <2>6. CASE BackoffElapsed  BY <2>6 DEF BackoffElapsed
  <2>7. CASE BackoffCancelled  BY <2>7 DEF BackoffCancelled
  <2>8. QED  BY <1>3, <2>1, <2>2, <2>3, <2>4, <2>5, <2>6, <2>7 DEF RunLoop
<1>4. CASE Watch
  <2> USE DEF LeaveWatch
  <2>1. CASE WatchShutdown  BY <2>1 DEF WatchShutdown
  <2>2. CASE Drain  BY <2>2 DEF Drain, DrainExit, DrainTimeout
  <2>3. CASE WatchExit  BY <2>3 DEF WatchExit
  <2>4. CASE WatchClosed  BY <2>4 DEF WatchClosed
  <2>5. CASE WatchPollError  BY <2>5 DEF WatchPollError
  <2>6. CASE WatchReady  BY <2>6 DEF WatchReady
  <2>7. CASE AnnounceDone  BY <2>7 DEF AnnounceDone
  <2>8. CASE WatchNotReady  BY <2>8 DEF WatchNotReady
  <2>9. CASE WatchGraceOver  BY <2>9 DEF WatchGraceOver
  <2>10. QED  BY <1>4, <2>1, <2>2, <2>3, <2>4, <2>5, <2>6, <2>7, <2>8, <2>9 DEF Watch
<1>5. CASE WaiterSend  BY <1>5 DEF WaiterSend
<1>6. CASE Poller
  BY <1>6 DEF Poller, PollerTick, pollReadyOnce, PollerSend, PollerStop
<1>7. CASE Environment
  BY <1>7 DEF Environment, Cancel, ProcessExit, Tick, Returned, vars
<1>8. CASE UNCHANGED vars  BY <1>8 DEF vars
<1>9. QED  BY <1>3, <1>4, <1>5, <1>6, <1>7, <1>8 DEF Next

THEOREM IInvAlways == Spec => []IInv
BY IInvInit, IInvStep, PTL DEF Spec

\* No restart path leaves an old cloudflared running beside the next one.
THEOREM RestartsReplace == Spec => []NoLiveProcessBetweenLaunches
<1>1. IInv => NoLiveProcessBetweenLaunches  BY DEF IInv
<1>2. QED  BY <1>1, IInvAlways, PTL

\* The ready status never outlives the launch it describes.
THEOREM StatusWithdrawn == Spec => []NoStaleReady
<1>1. IInv => NoStaleReady  BY DEF IInv
<1>2. QED  BY <1>1, IInvAlways, PTL

\* Each receive of the exit channel still has its one value to come.
THEOREM ExitReceivable == Spec => []ExitStillToCome
<1>1. IInv => ExitStillToCome  BY DEF IInv
<1>2. QED  BY <1>1, IInvAlways, PTL

\* A cloudflared alive after Run was sent an interrupt.
THEOREM SurvivorsInterrupted == Spec => []SurvivorWasInterrupted
<1>1. IInv => SurvivorWasInterrupted  BY DEF IInv
<1>2. QED  BY <1>1, IInvAlways, PTL

\* Outside a shutdown a living tunnel is dropped only for a spell of
\* not-ready polls longer than the grace.
THEOREM GraceRespected == Spec => LiveProcessGivenUpOnlyAfterGrace
<1>1. IInv /\ [Next]_vars =>
        [run = "watch" /\ run' = "unwatched" /\ proc = "up" /\ ctx = "live" =>
            notReadyFor > NotReadyGrace]_vars
  <2> SUFFICES ASSUME IInv, Next, run = "watch", run' = "unwatched",
                      proc = "up", ctx = "live"
               PROVE  notReadyFor > NotReadyGrace
    OBVIOUS
  <2> USE DEF IInv, GoroutinesAgree
  <2>1. CASE RunLoop
    BY <2>1 DEF RunLoop, CheckCtx, LaunchOk, LaunchFail, ReturnAfterWatch,
                RestartAfterWatch, BackoffElapsed, BackoffCancelled
  <2>2. CASE Watch
    BY <2>2 DEF Watch, WatchShutdown, Drain, DrainExit, DrainTimeout, WatchExit,
                WatchClosed, WatchPollError, WatchReady, AnnounceDone,
                WatchNotReady, WatchGraceOver
  <2>3. CASE WaiterSend  BY <2>3 DEF WaiterSend
  <2>4. CASE Poller
    BY <2>4 DEF Poller, PollerTick, pollReadyOnce, PollerSend, PollerStop
  <2>5. CASE Environment
    BY <2>5 DEF Environment, Cancel, ProcessExit, Tick, Returned, vars
  <2>6. QED  BY <2>1, <2>2, <2>3, <2>4, <2>5 DEF Next
<1>2. QED  BY <1>1, IInvAlways, PTL DEF Spec, LiveProcessGivenUpOnlyAfterGrace

-----------------------------------------------------------------------------
(* The refinement of TunnelService.                                        *)

LEMMA StepRefines == IInv /\ [Next]_vars => [Service!Next]_(Service!vars)
<1> SUFFICES ASSUME IInv, [Next]_vars
             PROVE  Service!Next \/ UNCHANGED Service!vars
  OBVIOUS
<1> USE DEF Watching, Service!vars, Service!Next
<1> USE IInv DEF IInv, TypeOK
<1>1. CASE RunLoop
  <2>1. CASE CheckCtx
    BY <2>1 DEF CheckCtx, Service!Stop
  <2>2. CASE LaunchOk
    BY <2>2 DEF LaunchOk, NoLiveProcessBetweenLaunches, NoStaleReady, Service!Start
  <2>3. CASE LaunchFail  BY <2>3 DEF LaunchFail
  <2>4. CASE ReturnAfterWatch  BY <2>4 DEF ReturnAfterWatch, Service!Stop
  <2>5. CASE RestartAfterWatch
    BY <2>5 DEF RestartAfterWatch, GoroutinesAgree, Service!Retire
  <2>6. CASE BackoffElapsed  BY <2>6 DEF BackoffElapsed
  <2>7. CASE BackoffCancelled  BY <2>7 DEF BackoffCancelled, Service!Stop
  <2>8. QED  BY <1>1, <2>1, <2>2, <2>3, <2>4, <2>5, <2>6, <2>7 DEF RunLoop
<1>2. CASE Watch
  <2> USE DEF LeaveWatch
  <2>1. CASE WatchShutdown  BY <2>1 DEF WatchShutdown
  <2>2. CASE DrainExit  BY <2>2 DEF DrainExit
  <2>3. CASE DrainTimeout  BY <2>3 DEF DrainTimeout, Service!Exit
  <2>4. CASE WatchExit  BY <2>4 DEF WatchExit, Service!Report
  <2>5. CASE WatchClosed  BY <2>5 DEF WatchClosed, Service!Report
  <2>6. CASE WatchPollError  BY <2>6 DEF WatchPollError
  <2>7. CASE WatchReady  BY <2>7 DEF WatchReady, Service!Report
  <2>8. CASE AnnounceDone  BY <2>8 DEF AnnounceDone
  <2>9. CASE WatchNotReady  BY <2>9 DEF WatchNotReady, Service!Report
  <2>10. CASE WatchGraceOver  BY <2>10 DEF WatchGraceOver, Service!Report
  <2>11. QED
    BY <1>2, <2>1, <2>2, <2>3, <2>4, <2>5, <2>6, <2>7, <2>8, <2>9, <2>10
    DEF Watch, Drain
<1>3. CASE WaiterSend  BY <1>3 DEF WaiterSend
<1>4. CASE Poller
  BY <1>4 DEF Poller, PollerTick, pollReadyOnce, PollerSend, PollerStop
<1>5. CASE Environment
  <2>1. CASE Cancel  BY <2>1 DEF Cancel, Service!Cancel
  <2>2. CASE ProcessExit  BY <2>2 DEF ProcessExit, Service!Exit
  <2>3. CASE Tick  BY <2>3 DEF Tick
  <2>4. CASE Returned  BY <2>4 DEF Returned, vars
  <2>5. QED  BY <1>5, <2>1, <2>2, <2>3, <2>4 DEF Environment
<1>6. CASE UNCHANGED vars  BY <1>6 DEF vars
<1>7. QED  BY <1>1, <1>2, <1>3, <1>4, <1>5, <1>6 DEF Next

\* Every behaviour of the goroutines is, seen from main.go, a behaviour of
\* the abstract service (its safety part).
THEOREM ServiceImplemented == Spec => Service!SafeSpec
<1>1. Init => Service!Init
  BY DEF Init, Service!Init, Watching
<1>2. QED  BY <1>1, StepRefines, IInvAlways, PTL DEF Spec, Service!SafeSpec

=============================================================================
