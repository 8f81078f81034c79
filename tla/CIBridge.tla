------------------------------ MODULE CIBridge ------------------------------
(***************************************************************************)
(* The hours of one --ci-mode job: the job it was dispatched by may still  *)
(* run (it ends 40 minutes after its fifth hour), after five hours the job *)
(* dispatches its own successor (ScheduleBridge), which runs beside it     *)
(* until it ends itself, at 5h40 at the latest (ScheduleSelfExit).         *)
(***************************************************************************)
EXTENDS Integers

CONSTANT BridgeWorkflows   \* BRIDGE_WORKFLOWS=true

ASSUME CIBridgeAssumption == BridgeWorkflows \in BOOLEAN

VARIABLES
    ctx,        \* the context given to every goroutine of the job
    hour,       \* where in its hours the job is
    previous,   \* does the job that dispatched this one still run?
    bridge,     \* where ScheduleBridge's goroutine is
    successors  \* the runs GitHub started for this job's dispatches

bridgeVars == <<ctx, hour, previous, bridge, successors>>

\* "late": from 5h to 5h40; "over": the process is gone.
BridgeTypeOK ==
    /\ ctx \in {"live", "done"}
    /\ hour \in {"early", "late", "over"}
    /\ previous \in BOOLEAN
    /\ bridge \in {"off", "waiting", "fetching", "posting", "done", "failed"}
    /\ successors \in Nat

BridgeInit ==
    /\ ctx = "live"
    /\ hour = "early"
    /\ previous \in BOOLEAN
    /\ bridge = IF BridgeWorkflows THEN "waiting" ELSE "off"
    /\ successors = 0

Cancel ==
    /\ ctx = "live" /\ hour # "over"
    /\ ctx' = "done"
    /\ UNCHANGED <<hour, previous, bridge, successors>>

PreviousJobEnds ==
    /\ previous
    /\ previous' = FALSE
    /\ UNCHANGED <<ctx, hour, bridge, successors>>

\* time.After(bridgeDelay); the previous job ends 40 minutes after it passed
\* its own, in which it dispatched this one.
BridgeDelay ==
    /\ hour = "early" /\ ~previous
    /\ hour' = "late"
    /\ bridge' = IF bridge = "waiting" THEN "fetching" ELSE bridge
    /\ UNCHANGED <<ctx, previous, successors>>

BridgeCancelled ==
    /\ bridge = "waiting" /\ ctx = "done" /\ hour # "over"
    /\ bridge' = "off"
    /\ UNCHANGED <<ctx, hour, previous, successors>>

\* fetchWorkflowID: a dispatch needs the id of the workflow of this run.
FetchWorkflowID ==
    /\ bridge = "fetching" /\ hour # "over"
    /\ bridge' \in IF ctx = "live" THEN {"posting", "failed"} ELSE {"failed"}
    /\ UNCHANGED <<ctx, hour, previous, successors>>

\* Mutant: a dispatch that was not answered is sent again.
DispatchAgain ==
    /\ bridge = "posting" /\ hour # "over"
    /\ \/ bridge' = "failed" /\ UNCHANGED successors
       \/ /\ ctx = "live"
          /\ successors' = successors + 1
          /\ bridge' \in {"done", "posting"}
    /\ UNCHANGED <<ctx, hour, previous>>

\* The POST of dispatchWorkflow: GitHub may start the run and its answer be
\* lost; it is never sent twice.
Dispatch ==
    /\ bridge = "posting" /\ hour # "over"
    /\ \/ bridge' = "failed" /\ UNCHANGED successors
       \/ /\ ctx = "live"
          /\ successors' = successors + 1
          /\ bridge' \in {"done", "failed"}
    /\ UNCHANGED <<ctx, hour, previous>>

\* Another job of the chain runs beside this one, or after it.
OtherJob == previous \/ successors > 0

\* The job has handed over at most once, whatever became of the answer, and
\* one that ran its time out has handed over unless the request failed or
\* GitHub has not answered yet: the HTTP client has no timeout, and 5h40
\* does not wait for it.
HandedOverOnce ==
    /\ successors <= 1
    /\ bridge = "done" => successors = 1
    /\ BridgeWorkflows /\ ctx = "live" /\ hour \in {"late", "over"} =>
           \/ successors = 1
           \/ bridge \in {"fetching", "posting", "failed"}

=============================================================================
