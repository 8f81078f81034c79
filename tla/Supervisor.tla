---------------------------- MODULE Supervisor ----------------------------
(***************************************************************************)
(* The cloudflared supervisor of internal/tunnel: Supervisor.Run and its   *)
(* watch loop, the goroutine that waits for the subprocess, and the        *)
(* goroutine PollReady starts to poll /ready.  The three goroutines, the   *)
(* subprocess and the caller that cancels the context interleave; a Go     *)
(* select with several ready cases takes any of them.                      *)
(*                                                                         *)
(* Durations are abstract: a timer may fire at any moment, except that     *)
(* notReadyFor measures time.Since(notReadySince) in ticks.  Kill() makes  *)
(* the subprocess dead at once; Terminate() (SIGINT) only asks, and the    *)
(* subprocess may ignore it.                                               *)
(***************************************************************************)
EXTENDS Integers

CONSTANTS
    Named,           \* is a tunnel token configured (named tunnel)?
    NotReadyGrace,   \* notReadyGrace, in ticks
    BackoffInitial,  \* backoffInitial
    BackoffMax       \* backoffMax

ASSUME SupervisorAssumption ==
    /\ Named \in BOOLEAN
    /\ NotReadyGrace \in Nat
    /\ BackoffInitial \in Nat \ {0}
    /\ BackoffMax \in Nat
    /\ BackoffInitial <= BackoffMax

VARIABLES
    ctx,          \* the context given to Run: "live" or "done"
    run,          \* where Supervisor.Run is
    proc,         \* the subprocess of the latest launch
    interrupted,  \* has Terminate() been called on it?
    exitCh,       \* its exit channel, buffered with one slot
    poller,       \* where the PollReady goroutine of this launch is
    held,         \* the observation the poller is about to send
    readyCh,      \* the ready channel's single slot
    notReadyFor,  \* ticks since notReadySince, NotSet when it is zero
    hostFired,    \* namedHostnameFired
    backoff,      \* the wait before the next launch
    tunnelReady   \* what OnReady last told the dashboard

watchVars == <<notReadyFor, hostFired>>
pollVars  == <<poller, held>>
vars == <<ctx, run, proc, interrupted, exitCh, poller, held, readyCh,
          notReadyFor, hostFired, backoff, tunnelReady>>

NotSet == -1
Observation == {"ready", "notready", "err"}   \* ReadyState, by what watch tells apart
Watching == {"watch", "announcing", "draining", "reaping", "unwatched"}

TypeOK ==
    /\ ctx \in {"live", "done"}
    /\ run \in Watching \cup {"top", "launch", "backoff", "returned"}
    /\ proc \in {"none", "up", "dead"}
    /\ interrupted \in BOOLEAN
    /\ exitCh \in {"empty", "full", "taken"}
    /\ poller \in {"off", "wait", "poll", "hold", "closed"}
    /\ held \in Observation
    /\ readyCh \in Observation \cup {"empty"}
    /\ notReadyFor \in {NotSet} \cup 0..(NotReadyGrace + 1)
    /\ hostFired \in BOOLEAN
    /\ backoff \in BackoffInitial..BackoffMax
    /\ tunnelReady \in BOOLEAN

Init ==
    /\ ctx = "live"
    /\ run = "top"
    /\ proc = "none"
    /\ interrupted = FALSE
    /\ exitCh = "empty"
    /\ poller = "off"
    /\ held = "notready"
    /\ readyCh = "empty"
    /\ notReadyFor = NotSet
    /\ hostFired = FALSE
    /\ backoff = BackoffInitial
    /\ tunnelReady = FALSE

\* Mutant: the doubled wait is never capped.
nextBackoffUncapped(cur) == cur * 2

nextBackoff(cur) == IF cur * 2 > BackoffMax THEN BackoffMax ELSE cur * 2

-----------------------------------------------------------------------------
(* Supervisor.Run outside watch.                                           *)

CheckCtx ==
    /\ run = "top"
    /\ run' = IF ctx = "done" THEN "returned" ELSE "launch"
    /\ UNCHANGED <<ctx, proc, interrupted, exitCh, pollVars, readyCh, watchVars,
                   backoff, tunnelReady>>

\* Launch started cloudflared; the waiter and the poller start with it.
LaunchOk ==
    /\ run = "launch"
    /\ run' = "watch"
    /\ proc' = "up"
    /\ interrupted' = FALSE
    /\ exitCh' = "empty"
    /\ poller' = "wait"
    /\ readyCh' = "empty"
    /\ notReadyFor' = NotSet
    /\ hostFired' = FALSE
    /\ UNCHANGED <<ctx, held, backoff, tunnelReady>>

LaunchFail ==
    /\ run = "launch"
    /\ run' = "backoff"
    /\ UNCHANGED <<ctx, proc, interrupted, exitCh, pollVars, readyCh, watchVars,
                   backoff, tunnelReady>>

\* After watch returned: with the context done, ask the subprocess to stop
\* and return without waiting for it.
ReturnAfterWatch ==
    /\ run = "unwatched"
    /\ ctx = "done"
    /\ run' = "returned"
    /\ interrupted' = TRUE
    /\ UNCHANGED <<ctx, proc, exitCh, pollVars, readyCh, watchVars, backoff, tunnelReady>>

\* Mutants: the old subprocess is left running; the exit channel is drained
\* once more before the restart.
RestartWithoutKill ==
    /\ run = "unwatched"
    /\ ctx = "live"
    /\ run' = "backoff"
    /\ UNCHANGED <<ctx, proc, interrupted, exitCh, pollVars, readyCh, watchVars, backoff,
                   tunnelReady>>

RestartAfterDrain ==
    /\ run = "unwatched"
    /\ ctx = "live"
    /\ exitCh = "full"
    /\ exitCh' = "taken"
    /\ run' = "backoff"
    /\ proc' = "dead"
    /\ UNCHANGED <<ctx, interrupted, pollVars, readyCh, watchVars, backoff, tunnelReady>>

\* Otherwise make sure the subprocess is gone and back off.
RestartAfterWatch ==
    /\ run = "unwatched"
    /\ ctx = "live"
    /\ run' = "backoff"
    /\ proc' = "dead"
    /\ UNCHANGED <<ctx, interrupted, exitCh, pollVars, readyCh, watchVars, backoff, tunnelReady>>

BackoffElapsed ==
    /\ run = "backoff"
    /\ run' = "top"
    /\ backoff' = nextBackoff(backoff)
    /\ UNCHANGED <<ctx, proc, interrupted, exitCh, pollVars, readyCh, watchVars, tunnelReady>>

BackoffCancelled ==
    /\ run = "backoff"
    /\ ctx = "done"
    /\ run' = "returned"
    /\ UNCHANGED <<ctx, proc, interrupted, exitCh, pollVars, readyCh, watchVars,
                   backoff, tunnelReady>>

-----------------------------------------------------------------------------
(* watch: one action per select case.                                      *)

\* watch returns and Run calls cancelRun: the poller of this launch and its
\* channel are of no further use, and watch's locals are gone.
LeaveWatch ==
    /\ run' = "unwatched"
    /\ poller' = "off"
    /\ readyCh' = "empty"
    /\ notReadyFor' = NotSet
    /\ UNCHANGED <<held, hostFired>>

WatchShutdown ==
    /\ run = "watch"
    /\ ctx = "done"
    /\ interrupted' = TRUE
    /\ run' = "draining"
    /\ UNCHANGED <<ctx, proc, exitCh, pollVars, readyCh, watchVars, backoff, tunnelReady>>

\* The subprocess exits before, or only after, the shutdown grace ends in Kill.
DrainExit ==
    /\ run \in {"draining", "reaping"}
    /\ exitCh = "full"
    /\ exitCh' = "taken"
    /\ LeaveWatch
    /\ UNCHANGED <<ctx, proc, interrupted, backoff, tunnelReady>>

DrainTimeout ==
    /\ run = "draining"
    /\ run' = "reaping"
    /\ proc' = "dead"
    /\ UNCHANGED <<ctx, interrupted, exitCh, pollVars, readyCh, watchVars, backoff, tunnelReady>>

\* Mutants: a crash leaves the ready status; watch goes on after a crash.
WatchExitStillReady ==
    /\ run = "watch"
    /\ exitCh = "full"
    /\ exitCh' = "taken"
    /\ LeaveWatch
    /\ UNCHANGED <<ctx, proc, interrupted, backoff, tunnelReady>>

WatchExitGoesOn ==
    /\ run = "watch"
    /\ exitCh = "full"
    /\ exitCh' = "taken"
    /\ tunnelReady' = FALSE
    /\ UNCHANGED <<ctx, run, proc, interrupted, pollVars, readyCh, watchVars, backoff>>

WatchExit ==
    /\ run = "watch"
    /\ exitCh = "full"
    /\ exitCh' = "taken"
    /\ tunnelReady' = FALSE
    /\ LeaveWatch
    /\ UNCHANGED <<ctx, proc, interrupted, backoff>>

WatchClosed ==
    /\ run = "watch"
    /\ readyCh = "empty"
    /\ poller = "closed"
    /\ tunnelReady' = FALSE
    /\ LeaveWatch
    /\ UNCHANGED <<ctx, proc, interrupted, exitCh, backoff>>

WatchPollError ==
    /\ run = "watch"
    /\ readyCh = "err"
    /\ readyCh' = "empty"
    /\ UNCHANGED <<ctx, run, proc, interrupted, exitCh, pollVars, watchVars, backoff, tunnelReady>>

\* A ready poll; the first one of a named tunnel runs the OnHostname
\* callback inside the watch loop.
WatchReady ==
    /\ run = "watch"
    /\ readyCh = "ready"
    /\ readyCh' = "empty"
    /\ tunnelReady' = TRUE
    /\ notReadyFor' = NotSet
    /\ IF Named /\ ~hostFired
       THEN hostFired' = TRUE /\ run' = "announcing"
       ELSE UNCHANGED <<hostFired, run>>
    /\ UNCHANGED <<ctx, proc, interrupted, exitCh, pollVars, backoff>>

AnnounceDone ==
    /\ run = "announcing"
    /\ run' = "watch"
    /\ UNCHANGED <<ctx, proc, interrupted, exitCh, pollVars, readyCh, watchVars,
                   backoff, tunnelReady>>

\* Mutant: every not-ready poll starts the spell anew.
WatchNotReadyRestartsSpell ==
    /\ run = "watch"
    /\ readyCh = "notready"
    /\ notReadyFor <= NotReadyGrace
    /\ readyCh' = "empty"
    /\ tunnelReady' = FALSE
    /\ notReadyFor' = 0
    /\ UNCHANGED <<ctx, run, proc, interrupted, exitCh, pollVars, hostFired, backoff>>

\* A not-ready poll starts or continues a spell.
WatchNotReady ==
    /\ run = "watch"
    /\ readyCh = "notready"
    /\ notReadyFor <= NotReadyGrace
    /\ readyCh' = "empty"
    /\ tunnelReady' = FALSE
    /\ notReadyFor' = IF notReadyFor = NotSet THEN 0 ELSE notReadyFor
    /\ UNCHANGED <<ctx, run, proc, interrupted, exitCh, pollVars, hostFired, backoff>>

\* A not-ready poll when the spell has outlasted the grace.
WatchGraceOver ==
    /\ run = "watch"
    /\ readyCh = "notready"
    /\ notReadyFor > NotReadyGrace
    /\ tunnelReady' = FALSE
    /\ LeaveWatch
    /\ UNCHANGED <<ctx, proc, interrupted, exitCh, backoff>>

-----------------------------------------------------------------------------
(* The waiter and PollReady goroutines.                                    *)

\* exitCh <- handle.Wait()
WaiterSend ==
    /\ proc = "dead"
    /\ exitCh = "empty"
    /\ exitCh' = "full"
    /\ UNCHANGED <<ctx, run, proc, interrupted, pollVars, readyCh, watchVars, backoff, tunnelReady>>

PollerTick ==
    /\ poller = "wait"
    /\ poller' = "poll"
    /\ UNCHANGED <<ctx, run, proc, interrupted, exitCh, held, readyCh, watchVars,
                   backoff, tunnelReady>>

\* pollReadyOnce: a refused connection, or a request cut by the context, is
\* a not-ready observation; a body that does not decode is an error.
pollReadyOnce ==
    /\ poller = "poll"
    /\ poller' = "hold"
    /\ held' \in (IF proc = "up" THEN Observation ELSE {"notready"})
    /\ UNCHANGED <<ctx, run, proc, interrupted, exitCh, readyCh, watchVars, backoff, tunnelReady>>

\* Mutant: the poller gives up after a poll it could not decode.
PollerSendThenStop ==
    /\ poller = "hold"
    /\ readyCh = "empty"
    /\ readyCh' = held
    /\ poller' = IF held = "err" THEN "closed" ELSE "wait"
    /\ UNCHANGED <<ctx, run, proc, interrupted, exitCh, held, watchVars, backoff, tunnelReady>>

PollerSend ==
    /\ poller = "hold"
    /\ readyCh = "empty"
    /\ readyCh' = held
    /\ poller' = "wait"
    /\ UNCHANGED <<ctx, run, proc, interrupted, exitCh, held, watchVars, backoff, tunnelReady>>

PollerStop ==
    /\ poller \in {"wait", "hold"}
    /\ ctx = "done"
    /\ poller' = "closed"
    /\ UNCHANGED <<ctx, run, proc, interrupted, exitCh, held, readyCh, watchVars,
                   backoff, tunnelReady>>

-----------------------------------------------------------------------------
(* The environment: the caller, the subprocess, and time.                  *)

Cancel ==
    /\ ctx = "live"
    /\ ctx' = "done"
    /\ UNCHANGED <<run, proc, interrupted, exitCh, pollVars, readyCh, watchVars,
                   backoff, tunnelReady>>

\* The subprocess exits by itself, whether or not it was interrupted.
ProcessExit ==
    /\ proc = "up"
    /\ proc' = "dead"
    /\ UNCHANGED <<ctx, run, interrupted, exitCh, pollVars, readyCh, watchVars,
                   backoff, tunnelReady>>

\* One tick of a not-ready spell; counting stops once the grace is over.
Tick ==
    /\ notReadyFor \in 0..NotReadyGrace
    /\ notReadyFor' = notReadyFor + 1
    /\ UNCHANGED <<ctx, run, proc, interrupted, exitCh, pollVars, readyCh, hostFired,
                   backoff, tunnelReady>>

Returned ==
    /\ run = "returned"
    /\ UNCHANGED vars

-----------------------------------------------------------------------------

Drain  == DrainExit \/ DrainTimeout
RunLoop ==
    \/ CheckCtx \/ LaunchOk \/ LaunchFail
    \/ ReturnAfterWatch \/ RestartAfterWatch
    \/ BackoffElapsed \/ BackoffCancelled
Watch ==
    \/ WatchShutdown \/ Drain \/ WatchExit \/ WatchClosed
    \/ WatchPollError \/ WatchReady \/ AnnounceDone
    \/ WatchNotReady \/ WatchGraceOver
Poller == PollerTick \/ pollReadyOnce \/ PollerSend \/ PollerStop
Environment == Cancel \/ ProcessExit \/ Tick \/ Returned

Next == RunLoop \/ Watch \/ WaiterSend \/ Poller \/ Environment

(***************************************************************************)
(* Every goroutine that can run eventually runs and every timer fires      *)
(* (weak fairness).  A select case that is ready again and again is        *)
(* eventually the one taken, since Go picks among the ready cases at       *)
(* random (strong fairness of the cases).  Nothing is assumed of the       *)
(* caller, of the subprocess, or of whether a launch succeeds.             *)
(***************************************************************************)
Fairness ==
    /\ WF_vars(RunLoop)
    /\ WF_vars(Drain)
    /\ WF_vars(AnnounceDone)
    /\ WF_vars(WaiterSend)
    /\ WF_vars(PollerTick) /\ WF_vars(pollReadyOnce) /\ WF_vars(PollerSend)
    /\ WF_vars(Tick)
    /\ SF_vars(PollerStop)
    /\ SF_vars(WatchShutdown) /\ SF_vars(WatchExit) /\ SF_vars(WatchClosed)
    /\ SF_vars(WatchPollError) /\ SF_vars(WatchReady)
    /\ SF_vars(WatchNotReady) /\ SF_vars(WatchGraceOver)

Spec == Init /\ [][Next]_vars /\ Fairness

-----------------------------------------------------------------------------
(* Properties.                                                             *)

\* Every restart path ends the subprocess it replaces: when Run is between
\* two launches, no cloudflared of an earlier launch is alive.
NoLiveProcessBetweenLaunches ==
    run \in {"top", "launch", "backoff"} => proc # "up"

\* The dashboard never keeps a ready tunnel through a crash, restart and
\* backoff cycle (the promise of the OnReady comment).
NoStaleReady ==
    run \in {"top", "launch", "backoff"} => ~tunnelReady

\* Run never blocks on an exit value that was already received: the two
\* receives of exitCh in a shutdown find a value or a process to wait for.
ExitStillToCome ==
    run \in {"watch", "announcing", "draining", "reaping"} => exitCh # "taken"

\* A cloudflared that survives Run was at least told to stop.
SurvivorWasInterrupted ==
    (run = "returned" /\ proc = "up") => interrupted

\* A cloudflared that is still alive is given up, outside a shutdown, only
\* after a not-ready spell longer than the grace: neither the waiter nor a
\* closed poll channel can make watch drop a healthy tunnel.
LiveProcessGivenUpOnlyAfterGrace ==
    [][run = "watch" /\ run' = "unwatched" /\ proc = "up" /\ ctx = "live" =>
          notReadyFor > NotReadyGrace]_vars

\* What the comment in watch says of shutdown: Run does not return while
\* cloudflared is still alive.
NoOrphan == run = "returned" => proc # "up"

\* A dead subprocess is replaced or given up, never just forgotten.
CrashIsNoticed ==
    (run \in {"watch", "announcing"} /\ proc = "dead") ~> (run \in {"backoff", "returned"})

\* A not-ready spell ends, in a ready poll, a restart or a shutdown, unless
\* /ready answers with a body that does not decode.
NotReadySpellEnds ==
    (notReadyFor # NotSet) ~> (notReadyFor = NotSet \/ held = "err")

-----------------------------------------------------------------------------
(* The service this component implements.                                  *)

Service == INSTANCE TunnelService WITH
    cancelled <- ctx = "done",
    phase <- CASE run \in Watching -> "up"
               [] run = "returned" -> "stopped"
               [] OTHER -> "down",
    alive <- proc = "up",
    shown <- tunnelReady

\* Seen from main.go, the three goroutines, the channels and the timers
\* amount to the service: one cloudflared at a time, a status withdrawn
\* before a launch is given up, and an end after cancellation.
ImplementsService == Service!Spec

=============================================================================
