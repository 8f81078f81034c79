----------------------------- MODULE Lifecycle -----------------------------
(***************************************************************************)
(* The process around its parts: cmd/xrayws brings up the configuration,   *)
(* the Cloudflare deployment, the dashboard, xray-core and cloudflared in  *)
(* turn, runs until a signal, and waits for its goroutines on the way out. *)
(* It can fail while starting, be killed, or, in CI mode, end itself; the  *)
(* service manager then starts it again.                                   *)
(*                                                                         *)
(* The supervisor is taken by its contract, TunnelService, which the       *)
(* module Supervisor implements.  The dashboard is on: its status panel is *)
(* what the probes of xray-core's listener are for.  What a setting of     *)
(* .env means is in Configuration; here, which identity it holds: XRAY_UUID *)
(* for all that is generated where .env leaves it out.                     *)
(***************************************************************************)
EXTENDS Configuration

CONSTANTS
    CIMode,                   \* is --ci-mode set?
    livenessFailureThreshold, \* failed probes in a row before xray is shown down
    Identity,                 \* the UUIDs
    Given,                    \* those an owner has put into .env or ENV_CONFIG
    None                      \* no identity, no links, no secret

ASSUME LifecycleAssumption ==
    /\ CIMode \in BOOLEAN /\ livenessFailureThreshold = 2
    /\ Given \subseteq Identity /\ Identity \cap {None, "absent", "blank"} = {}
    /\ None \notin {"absent", "blank"}

VARIABLES
    stage,      \* where run is, or that there is no process
    cause,      \* how the process ended
    cancelled,  \* has a signal cancelled the context of this process?
    tunnel,     \* the phase of the tunnel service
    alive,      \* is the cloudflared of this process alive?
    shown,      \* tunnel_ready on the dashboard
    wg,         \* the goroutines run still waits for
    listener,   \* does xray-core accept connections?
    xrayUp,     \* xray_up on the dashboard
    consecutiveProbeFailures,  \* counted up to the threshold
    probe,      \* the outcome of a probe not yet recorded
    binary,     \* the cloudflared file in the working directory
    secret,     \* the ENV_CONFIG of the repository
    envFile,    \* .env: the identity in it, or that it has none
    identity,   \* what xray-core accepts in this process, or did in the last
    links,      \* the identity in vless_info.config
    lastProbe,  \* history: the last outcome recorded
    priorProbe, \* history: the one before
    late        \* history: a probe outlived the cancellation

tunnelVars == <<cancelled, tunnel, alive, shown>>
status == <<xrayUp, consecutiveProbeFailures, lastProbe, priorProbe>>
kept == <<secret, envFile, identity, links>>
disk == <<binary, kept>>
vars == <<stage, cause, tunnelVars, wg, listener, status, probe, disk, late>>

T == INSTANCE TunnelService WITH phase <- tunnel

Goroutine == {"server", "supervisor", "traffic", "liveness"}
Starting == {"secret", "load", "deploy", "engine", "binary", "download"}
Up == {"running", "stopping"}   \* the supervisor has been started

KeptOK ==
    /\ secret \in Identity \cup {None, "blank"}
    /\ envFile \in Identity \cup {"absent", "blank"}
    /\ identity \in Identity \cup {None} /\ links \in Identity \cup {None}

TypeOK ==
    /\ stage \in Starting \cup Up \cup {"exited"}
    /\ cause \in {"none", "fatal", "done", "bound", "selfexit", "killed"}
    /\ cancelled \in BOOLEAN
    /\ tunnel \in {"down", "up", "stopped"}
    /\ alive \in BOOLEAN /\ shown \in BOOLEAN
    /\ wg \subseteq Goroutine
    /\ listener \in BOOLEAN
    /\ xrayUp \in BOOLEAN
    /\ consecutiveProbeFailures \in 0..livenessFailureThreshold
    /\ probe \in {"none", "ok", "failed"}
    /\ binary \in {"absent", "partial", "whole"}
    /\ lastProbe \in {"ok", "failed"} /\ priorProbe \in {"ok", "failed"}
    /\ late \in BOOLEAN
    /\ KeptOK

\* The installer may have written .env, with an identity or a blank for it.
Init ==
    /\ stage = "secret" /\ cause = "none"
    /\ T!Init
    /\ wg = {}
    /\ listener = FALSE
    /\ xrayUp = FALSE /\ consecutiveProbeFailures = 0 /\ lastProbe = "ok" /\ priorProbe = "ok"
    /\ probe = "none"
    /\ binary = "absent"
    /\ late = FALSE
    /\ secret \in Given \cup {None, "blank"} /\ envFile \in Given \cup {"absent", "blank"}
    /\ identity = None /\ links = None

\* The process is gone, whatever was running in it; cloudflared is not.
Exit(why) ==
    /\ stage' = "exited"
    /\ cause' = why
    /\ wg' = {}
    /\ listener' = FALSE
    /\ probe' = "none"
    /\ xrayUp' = FALSE /\ consecutiveProbeFailures' = 0 /\ lastProbe' = "ok" /\ priorProbe' = "ok"
    /\ late' = FALSE
    /\ UNCHANGED tunnelVars

-----------------------------------------------------------------------------
(* Starting.                                                               *)

\* The service manager starts the next process.
Boot ==
    /\ stage = "exited"
    /\ stage' = "secret"
    /\ cause' = "none"
    /\ cancelled' = FALSE /\ tunnel' = "down" /\ alive' = FALSE /\ shown' = FALSE
    /\ UNCHANGED <<wg, listener, status, probe, disk, late>>

\* ENV_CONFIG, if there is one, replaces .env; a failed write is fatal.
ExportSecretEnv ==
    /\ stage = "secret"
    /\ \/ /\ stage' = "load"
          /\ envFile' = IF CIMode /\ secret # None THEN secret ELSE envFile
          /\ UNCHANGED <<cause, tunnelVars, wg, listener, status, probe, late>>
       \/ CIMode /\ secret # None /\ Exit("fatal") /\ envFile' \in {envFile, "blank"}
    /\ UNCHANGED <<binary, secret, identity, links>>

\* A drawn UUID is none that was given and not that of the last process.
Fresh == Identity \ (Given \cup {identity})

\* A blank is as good as nothing, and what is drawn for it is not written back.
getenvOrGenerate(held) == IF held \in Identity THEN {held} ELSE Fresh

\* A .env that does not exist, and only then, is written with the defaults.
writeDefaultEnvFile ==
    /\ stage = "load" /\ envFile = "absent"
    /\ \/ /\ envFile' \in Fresh
          /\ UNCHANGED <<stage, cause, tunnelVars, wg, listener, status, probe, late>>
       \/ Exit("fatal") /\ envFile' \in {"absent", "blank"}
    /\ UNCHANGED <<binary, secret, identity, links>>

\* Mutant: what is generated is not read back from the file.
LoadGenerates ==
    /\ stage = "load" /\ envFile # "absent"
    /\ stage' = "deploy" /\ identity' \in Fresh
    /\ UNCHANGED <<cause, tunnelVars, wg, listener, status, probe, late, binary, secret, envFile, links>>

\* What does not parse is fatal.
LoadConfig ==
    /\ stage = "load" /\ envFile # "absent"
    /\ \/ /\ stage' = "deploy"
          /\ identity' \in getenvOrGenerate(envFile)
          /\ UNCHANGED <<cause, tunnelVars, wg, listener, status, probe, late>>
       \/ Exit("fatal") /\ UNCHANGED identity
    /\ UNCHANGED <<binary, secret, envFile, links>>

\* cfdeploy.Ensure returns, with or without an error; then the log server.
Ensure ==
    /\ stage = "deploy"
    /\ stage' = "engine"
    /\ wg' = {"server"}
    /\ UNCHANGED <<cause, tunnelVars, listener, status, probe, disk, late>>

\* xraycore.New: an error, or a panic of xray-core, is fatal.
NewEngine ==
    /\ stage = "engine"
    /\ \/ /\ stage' = "binary"
          /\ listener' = TRUE
          /\ xrayUp' = TRUE
          /\ UNCHANGED <<cause, tunnelVars, wg, consecutiveProbeFailures, lastProbe, priorProbe, probe, late>>
       \/ Exit("fatal")
    /\ UNCHANGED disk

\* Mutants: run waits for the CI watcher as well; the supervisor is started
\* and not waited for.
StartAwaitingWatcher ==
    /\ stage' = "running"
    /\ wg' = wg \cup {"supervisor", "traffic", "liveness", "watcher"}
    /\ UNCHANGED <<cause, tunnelVars, listener, status, probe, late>>

StartWithoutSupervisor ==
    /\ stage' = "running"
    /\ wg' = wg \cup {"traffic", "liveness"}
    /\ UNCHANGED <<cause, tunnelVars, listener, status, probe, late>>

\* The supervisor and the two tickers are started.
StartGoroutines ==
    /\ stage' = "running"
    /\ wg' = wg \cup {"supervisor", "traffic", "liveness"}
    /\ UNCHANGED <<cause, tunnelVars, listener, status, probe, late>>

\* EnsureBinary takes a file that exists, whole or not, or downloads one; a
\* platform without a binary, or a file it cannot make executable, is fatal.
EnsureBinary ==
    /\ stage = "binary"
    /\ \/ /\ binary = "absent"
          /\ stage' = "download"
          /\ UNCHANGED <<cause, tunnelVars, wg, listener, status, probe, late>>
       \/ binary # "absent" /\ StartGoroutines
       \/ Exit("fatal")
    /\ UNCHANGED disk

Downloaded ==
    /\ stage = "download"
    /\ binary' = "whole"
    /\ StartGoroutines
    /\ UNCHANGED kept

\* Mutant: the request is not given the context.
DownloadIgnoresContext ==
    /\ stage = "download" /\ ~cancelled
    /\ Exit("fatal")
    /\ binary' \in {"absent", "partial", "whole"}
    /\ UNCHANGED kept

\* The download fails, is cut by the context, or cannot be made executable;
\* what was written of it stays.
DownloadFails ==
    /\ stage = "download"
    /\ Exit("fatal")
    /\ binary' \in {"absent", "partial", "whole"}
    /\ UNCHANGED kept

-----------------------------------------------------------------------------
(* The goroutines.                                                         *)

\* The log server fails to listen, or shuts down within its own bound; a
\* ticker sees the end of the context.
Return(g) ==
    /\ stage \in Starting \cup Up
    /\ g \in wg
    /\ g = "server" \/ cancelled
    /\ g = "liveness" => probe = "none"
    /\ g # "supervisor"
    /\ wg' = wg \ {g}
    /\ UNCHANGED <<stage, cause, tunnelVars, listener, status, probe, disk, late>>

\* A step of the supervisor and of cloudflared, whose file is launched as
\* it is: one that was cut fails at once, or exits.
TunnelStep ==
    /\ stage \in Up
    /\ T!Start \/ T!Report \/ T!Exit \/ T!Retire
    /\ UNCHANGED <<stage, cause, wg, listener, status, probe, disk, late>>

SupervisorReturns ==
    /\ stage \in Up
    /\ T!Stop
    /\ wg' = wg \ {"supervisor"}
    /\ UNCHANGED <<stage, cause, listener, status, probe, disk, late>>

\* cloudflared announces a hostname, or is ready under its own: the links are
\* written anew (LinkExport).
OnHostname ==
    /\ stage \in Up
    /\ tunnel = "up"
    /\ links' = identity
    /\ UNCHANGED <<stage, cause, tunnelVars, wg, listener, status, probe, late, binary, secret,
                   envFile, identity>>

ListenerDies ==
    /\ listener
    /\ listener' = FALSE
    /\ UNCHANGED <<stage, cause, tunnelVars, wg, status, probe, disk, late>>

\* Mutant: the dial is not given the context.
ProbeWithoutContext ==
    /\ stage \in Up
    /\ "liveness" \in wg
    /\ probe = "none"
    /\ probe' \in IF listener THEN {"ok", "failed"} ELSE {"failed"}
    /\ UNCHANGED <<stage, cause, tunnelVars, wg, listener, status, disk, late>>

\* The ticker dials, also when the context is done and select takes the tick
\* all the same: the dial then fails.  It may fail on a live listener.
ProbeListener ==
    /\ stage \in Up
    /\ "liveness" \in wg
    /\ probe = "none"
    /\ probe' \in IF listener /\ ~cancelled THEN {"ok", "failed"} ELSE {"failed"}
    /\ UNCHANGED <<stage, cause, tunnelVars, wg, listener, status, disk, late>>

\* Mutants: the count is compared before it is raised; a failed probe is
\* returned from before it is recorded.
RecordLivenessLate ==
    /\ probe # "none"
    /\ probe' = "none"
    /\ lastProbe' = probe /\ priorProbe' = lastProbe
    /\ IF probe = "ok"
       THEN consecutiveProbeFailures' = 0 /\ xrayUp' = TRUE
       ELSE /\ consecutiveProbeFailures' =
                  IF consecutiveProbeFailures < livenessFailureThreshold
                  THEN consecutiveProbeFailures + 1 ELSE livenessFailureThreshold
            /\ xrayUp' = IF consecutiveProbeFailures >= livenessFailureThreshold
                         THEN FALSE ELSE xrayUp
    /\ UNCHANGED <<stage, cause, tunnelVars, wg, listener, disk, late>>

RecordLivenessOfSuccess ==
    /\ probe # "none"
    /\ probe' = "none"
    /\ lastProbe' = probe /\ priorProbe' = lastProbe
    /\ xrayUp' = (xrayUp \/ probe = "ok")
    /\ UNCHANGED <<stage, cause, tunnelVars, wg, listener, consecutiveProbeFailures, disk, late>>

\* One success clears, failures in a row flip.
RecordLiveness ==
    /\ probe # "none"
    /\ probe' = "none"
    /\ lastProbe' = probe /\ priorProbe' = lastProbe
    /\ IF probe = "ok"
       THEN consecutiveProbeFailures' = 0 /\ xrayUp' = TRUE
       ELSE /\ consecutiveProbeFailures' =
                  IF consecutiveProbeFailures < livenessFailureThreshold
                  THEN consecutiveProbeFailures + 1 ELSE livenessFailureThreshold
            /\ xrayUp' = IF consecutiveProbeFailures' >= livenessFailureThreshold
                         THEN FALSE ELSE xrayUp
    /\ UNCHANGED <<stage, cause, tunnelVars, wg, listener, disk, late>>

-----------------------------------------------------------------------------
(* Ending.                                                                 *)

\* SIGINT or SIGTERM; the program only learns of it through the context.
Signal ==
    /\ stage # "exited"
    /\ T!Cancel
    /\ UNCHANGED <<stage, cause, wg, listener, status, probe, disk, late>>

\* run wakes up and resets xray_up; a probe that succeeded may still be
\* recorded after that.
StopServices ==
    /\ stage = "running"
    /\ cancelled
    /\ stage' = "stopping"
    /\ xrayUp' = FALSE
    /\ late' = IF probe = "ok" THEN TRUE ELSE FALSE
    /\ UNCHANGED <<cause, tunnelVars, wg, listener, consecutiveProbeFailures, lastProbe, priorProbe,
                   probe, disk>>

\* All goroutines are done, or ten seconds are over.
ShutdownDone == stage = "stopping" /\ wg = {} /\ Exit("done") /\ UNCHANGED disk
ShutdownBound == stage = "stopping" /\ Exit("bound") /\ UNCHANGED disk

\* The CI timer ends the process where it stands.
SelfExit == CIMode /\ stage \in Up /\ Exit("selfexit") /\ UNCHANGED disk

WritingEnv ==
    \/ stage = "secret" /\ CIMode /\ secret # None
    \/ stage = "load" /\ envFile = "absent"

\* SIGKILL, or a crash; a download leaves what it has written, and os.WriteFile
\* an empty file.
Kill ==
    /\ stage # "exited"
    /\ Exit("killed")
    /\ binary' \in IF stage = "download" THEN {"absent", "partial"} ELSE {binary}
    /\ envFile' \in IF WritingEnv THEN {envFile, "blank"} ELSE {envFile}
    /\ UNCHANGED <<secret, identity, links>>

Next ==
    \/ Boot \/ ExportSecretEnv \/ writeDefaultEnvFile \/ LoadConfig \/ Ensure \/ NewEngine \/ EnsureBinary
    \/ Downloaded \/ DownloadFails
    \/ \E g \in Goroutine : Return(g)
    \/ TunnelStep \/ SupervisorReturns
    \/ OnHostname \/ ListenerDies \/ ProbeListener \/ RecordLiveness
    \/ Signal \/ StopServices \/ ShutdownDone \/ ShutdownBound \/ SelfExit \/ Kill

\* Local steps and timers go on.  The network is waited for only as long as
\* the context lives: deployment and download are fair once it is done.
\* The contract of the supervisor gives the rest (T!Spec: it stops).
Fairness ==
    /\ WF_vars(ExportSecretEnv) /\ WF_vars(writeDefaultEnvFile) /\ WF_vars(LoadConfig)
    /\ WF_vars(NewEngine) /\ WF_vars(EnsureBinary)
    /\ WF_vars(cancelled /\ Ensure) /\ WF_vars(cancelled /\ DownloadFails)
    /\ WF_vars(ProbeListener) /\ WF_vars(RecordLiveness)
    /\ WF_vars(StopServices)
    /\ WF_vars(ShutdownDone) /\ WF_vars(ShutdownBound)
    /\ WF_vars(SupervisorReturns)

Spec == Init /\ [][Next]_vars
FairSpec == Spec /\ Fairness

-----------------------------------------------------------------------------
(* A cloudflared that outlives a process that was neither killed, nor cut  *)
(* by its own timer or by the ten-second bound, is one the supervisor had  *)
(* already given up: run waited for it, and nobody returned while it was   *)
(* still on its way (the comment on wg in run).                            *)
NoneLeftBehind ==
    stage = "exited" /\ alive /\ cause \notin {"bound", "selfexit", "killed"}
    => tunnel = "stopped"

(* xray_up is not blamed on one lost probe, and does not outlive two:      *)
(* while the process runs it is false if and only if the last two probes   *)
(* failed.  And once the services are being stopped it stays false,        *)
(* although xray-core still accepts connections and the ticker may still   *)
(* tick: only a probe that succeeded before can turn it back.              *)
XrayUpFollowsProbes ==
    /\ stage = "running" => (~xrayUp <=> lastProbe = "failed" /\ priorProbe = "failed")
    /\ stage = "stopping" /\ xrayUp => late

(* The links in the file keep working across restarts: the identity in     *)
(* them is the one xray-core accepts, unless .env holds none, as the       *)
(* installer leaves it by default and a kill in the first start for good   *)
(* (it is then drawn at every start); and they lead to it (see             *)
(* Configuration), whatever the setting.                                   *)
LinksWork ==
    stage \in Up =>
       /\ links \in {None, identity} \/ envFile = "blank"
       /\ LinksReachInbound

(* cloudflared is never launched ahead of what it needs: while it lives in *)
(* a process that is up, the file EnsureBinary found or downloaded is in   *)
(* place (whole or not), xray-core has an identity, and, until the         *)
(* supervisor has given it up, run waits for the goroutine that stops it.  *)
LaunchedInOrder ==
    alive /\ stage # "exited" =>
       /\ stage \in Up
       /\ binary # "absent" /\ identity # None
       /\ tunnel # "stopped" => "supervisor" \in wg

(* A signal ends the process wherever it is: in the deployment, in a       *)
(* download that hangs, or with a goroutine that does not come back.       *)
SignalEnds == cancelled ~> stage = "exited"

(* A listener of xray-core that dies is shown to be down, whatever a probe *)
(* found that was still on its way, unless the process is ended first.     *)
DeadListenerNoticed == stage = "running" /\ ~listener ~> stage # "running" \/ ~xrayUp

\* Both are answers the process owes to what happens to it.
EventsAnswered == SignalEnds /\ DeadListenerNoticed
=============================================================================
