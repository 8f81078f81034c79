-------------------------- MODULE LifecycleProofs --------------------------
(***************************************************************************)
(* Proofs about the process lifecycle, in CI mode or not.                  *)
(*                                                                         *)
(* Waited: from the start of the supervisor until it returns, run waits    *)
(* for it, and before that there is no cloudflared.  Counted: the failure  *)
(* count is about the last probes recorded.  Stopping: what can turn       *)
(* xray_up back during the shutdown was known when it began.               *)
(* OneIdentity: the links, .env and the ENV_CONFIG that replaces it hold   *)
(* one identity, or .env holds none.                                       *)
(***************************************************************************)
EXTENDS Lifecycle, TLAPS

Waited ==
    /\ stage \in Starting => ~alive
    /\ stage \in Up /\ tunnel # "stopped" => "supervisor" \in wg

Counted ==
    /\ consecutiveProbeFailures >= 1 <=> lastProbe = "failed"
    /\ consecutiveProbeFailures >= 2 <=> lastProbe = "failed" /\ priorProbe = "failed"
    /\ stage \notin Up => probe = "none" /\ lastProbe = "ok"
    /\ stage \in {"binary", "download"} => xrayUp

Stopping ==
    stage = "stopping" => cancelled /\ (probe = "ok" => late)

Overridden == CIMode /\ secret # None

OneIdentity ==
    /\ Overridden /\ stage \notin {"secret", "exited"} => envFile = secret
    /\ stage \in Up \cup {"deploy", "engine", "binary", "download"} => envFile \in {identity, "blank"}
    /\ links # None =>
          \/ Overridden /\ secret \in {"blank", links}
          \/ ~Overridden /\ envFile \in {"blank", links}

IInv == TypeOK /\ Waited /\ NoneLeftBehind /\ Counted /\ Stopping /\ XrayUpFollowsProbes

-----------------------------------------------------------------------------
LEMMA InitInv == ASSUME LifecycleAssumption, Init PROVE IInv
<1>1. TypeOK
  <2>1. /\ cancelled \in BOOLEAN /\ alive \in BOOLEAN /\ shown \in BOOLEAN
        /\ listener \in BOOLEAN /\ xrayUp \in BOOLEAN /\ late \in BOOLEAN
    BY Zenon DEF Init, T!Init
  <2>2. consecutiveProbeFailures \in 0..livenessFailureThreshold
    BY DEF Init, LifecycleAssumption
  <2>3. KeptOK
    BY DEF Init, KeptOK, LifecycleAssumption
  <2> QED
    BY <2>1, <2>2, <2>3 DEF Init, T!Init, TypeOK, Starting
<1>2. Waited /\ NoneLeftBehind /\ Counted /\ Stopping /\ XrayUpFollowsProbes
  BY DEF Init, T!Init, Waited, NoneLeftBehind, Counted, Stopping, XrayUpFollowsProbes, Up
<1> QED
  BY <1>1, <1>2 DEF IInv

\* The process ends: nothing but cloudflared and the file is left of it.
LEMMA ExitInv ==
    ASSUME IInv, NEW why \in {"fatal", "done", "bound", "selfexit", "killed"}, Exit(why),
           binary' \in {"absent", "partial", "whole"}, KeptOK', LifecycleAssumption,
           alive /\ why \notin {"bound", "selfexit", "killed"} => tunnel = "stopped"
    PROVE  IInv'
<1>1. /\ stage' = "exited" /\ cause' = why /\ wg' = {} /\ listener' = FALSE /\ probe' = "none"
      /\ xrayUp' = FALSE /\ consecutiveProbeFailures' = 0 /\ late' = FALSE
      /\ lastProbe' = "ok" /\ priorProbe' = "ok"
      /\ UNCHANGED <<cancelled, tunnel, alive, shown>>
  BY DEF Exit, tunnelVars
<1>4. xrayUp' \in BOOLEAN /\ listener' \in BOOLEAN /\ late' \in BOOLEAN
  BY <1>1, Zenon
<1>5. consecutiveProbeFailures' \in 0..livenessFailureThreshold
  BY <1>1 DEF LifecycleAssumption
<1>2. TypeOK'
  BY <1>1, <1>4, <1>5 DEF IInv, TypeOK
<1>3. Waited' /\ NoneLeftBehind' /\ Counted' /\ Stopping' /\ XrayUpFollowsProbes'
  BY <1>1 DEF IInv, Waited, NoneLeftBehind, Counted, Stopping, XrayUpFollowsProbes,
              Starting, Up
<1> QED
  BY <1>2, <1>3 DEF IInv

\* Starting the goroutines, with the binary in place.
LEMMA StartInv ==
    ASSUME IInv, stage \in {"binary", "download"}, StartGoroutines, KeptOK',
           binary' \in {"absent", "partial", "whole"}
    PROVE  IInv'
<1>1. /\ stage' = "running" /\ wg' = wg \cup {"supervisor", "traffic", "liveness"}
      /\ UNCHANGED <<cause, cancelled, tunnel, alive, shown, listener, xrayUp,
                     consecutiveProbeFailures, lastProbe, priorProbe, probe, late>>
  BY DEF StartGoroutines, tunnelVars, status
<1>2. TypeOK'
  BY <1>1 DEF IInv, TypeOK, Goroutine, Up
<1>3. Waited' /\ NoneLeftBehind'
  BY <1>1 DEF IInv, Waited, NoneLeftBehind, Starting, Up
<1>4. Counted' /\ Stopping' /\ XrayUpFollowsProbes'
  BY <1>1 DEF IInv, Counted, Stopping, XrayUpFollowsProbes, Up
<1> QED
  BY <1>2, <1>3, <1>4 DEF IInv

LEMMA StartingInv ==
    ASSUME LifecycleAssumption, IInv, KeptOK',
           Boot \/ ExportSecretEnv \/ writeDefaultEnvFile \/ LoadConfig \/ Ensure \/ NewEngine \/ EnsureBinary
           \/ Downloaded \/ DownloadFails
    PROVE  IInv'
<1>1. CASE Boot
  <2>1. TypeOK'
    <3>1. cancelled' \in BOOLEAN /\ alive' \in BOOLEAN /\ shown' \in BOOLEAN
      BY <1>1, Zenon DEF Boot
    <3> QED
      BY <1>1, <3>1 DEF Boot, IInv, TypeOK, Starting, status, disk
  <2>2. Waited' /\ NoneLeftBehind' /\ Counted' /\ Stopping' /\ XrayUpFollowsProbes'
    BY <1>1 DEF Boot, IInv, Waited, NoneLeftBehind, Counted, Stopping,
                XrayUpFollowsProbes, Up, status
  <2> QED
    BY <2>1, <2>2 DEF IInv
<1>2. ASSUME stage \in Starting, Exit("fatal"), binary' \in {"absent", "partial", "whole"}
      PROVE  IInv'
  BY <1>2, ExitInv DEF IInv, Waited
<1>3. CASE ExportSecretEnv \/ writeDefaultEnvFile \/ LoadConfig
  <2>1. CASE Exit("fatal")
    BY <1>2, <1>3, <2>1 DEF ExportSecretEnv, writeDefaultEnvFile, LoadConfig, IInv, TypeOK, Starting
  <2>2. CASE ~Exit("fatal")
    <3>1. /\ stage \in {"secret", "load"} /\ stage' \in {"load", "deploy"}
          /\ UNCHANGED <<cause, cancelled, tunnel, alive, shown, wg, listener, xrayUp, probe, binary,
                         consecutiveProbeFailures, lastProbe, priorProbe, late>>
      BY <1>3, <2>2 DEF ExportSecretEnv, writeDefaultEnvFile, LoadConfig, tunnelVars, status
    <3> QED
      BY <3>1 DEF IInv, TypeOK, Waited, NoneLeftBehind, Counted, Stopping, XrayUpFollowsProbes,
                  Starting, Up
  <2> QED
    BY <2>1, <2>2
<1>4. CASE Ensure
  BY <1>4 DEF Ensure, IInv, TypeOK, Waited, NoneLeftBehind, Counted, Stopping,
              XrayUpFollowsProbes, Starting, Up, Goroutine, tunnelVars, status, disk
<1>5. CASE NewEngine
  <2>1. CASE Exit("fatal")
    BY <1>2, <1>5, <2>1 DEF NewEngine, disk, IInv, TypeOK, Starting
  <2>2. CASE ~Exit("fatal")
    <3>1. /\ stage = "engine" /\ stage' = "binary" /\ listener' = TRUE /\ xrayUp' = TRUE
          /\ UNCHANGED <<cause, cancelled, tunnel, alive, shown, wg, late, probe, binary,
                         consecutiveProbeFailures, lastProbe, priorProbe>>
      BY <1>5, <2>2 DEF NewEngine, tunnelVars, disk
    <3>2. TypeOK'
      BY <3>1 DEF IInv, TypeOK, Starting
    <3>3. Waited' /\ NoneLeftBehind' /\ Counted' /\ Stopping' /\ XrayUpFollowsProbes'
      BY <3>1 DEF IInv, Waited, NoneLeftBehind, Counted, Stopping, XrayUpFollowsProbes,
                  Starting, Up
    <3> QED
      BY <3>2, <3>3 DEF IInv
  <2> QED
    BY <2>1, <2>2
<1>6. CASE EnsureBinary
  <2> SUFFICES ASSUME ~Exit("fatal") PROVE IInv'
    BY <1>2, <1>6 DEF EnsureBinary, disk, IInv, TypeOK, Starting
  <2>1. CASE binary = "absent"
    <3>1. /\ stage = "binary" /\ stage' = "download"
          /\ UNCHANGED <<cause, cancelled, tunnel, alive, shown, wg, listener, xrayUp, late, probe,
                         binary, consecutiveProbeFailures, lastProbe, priorProbe>>
      BY <1>6, <2>1 DEF EnsureBinary, tunnelVars, status, disk
    <3>2. TypeOK'
      BY <3>1 DEF IInv, TypeOK, Starting
    <3>3. Waited' /\ NoneLeftBehind' /\ Counted' /\ Stopping' /\ XrayUpFollowsProbes'
      BY <3>1 DEF IInv, Waited, NoneLeftBehind, Counted, Stopping, XrayUpFollowsProbes,
                  Starting, Up
    <3> QED
      BY <3>2, <3>3 DEF IInv
  <2>2. CASE binary # "absent"
    BY <1>6, <2>2, StartInv DEF EnsureBinary, IInv, TypeOK, disk
  <2> QED
    BY <2>1, <2>2
<1>7. CASE Downloaded
  BY <1>7, StartInv DEF Downloaded
<1>8. CASE DownloadFails
  BY <1>2, <1>8 DEF DownloadFails, Starting
<1> QED
  BY <1>1, <1>3, <1>4, <1>5, <1>6, <1>7, <1>8

LEMMA GoroutineInv ==
    ASSUME LifecycleAssumption, IInv, KeptOK',
           (\E g \in Goroutine : Return(g)) \/ TunnelStep \/ SupervisorReturns
           \/ OnHostname \/ ListenerDies \/ ProbeListener
    PROVE  IInv'
<1> USE DEF IInv
<1>1. CASE \E g \in Goroutine : Return(g)
  <2> PICK g \in Goroutine : Return(g)
    BY <1>1
  <2> QED
    BY DEF Return, TypeOK, Waited, NoneLeftBehind, Counted, Stopping,
           XrayUpFollowsProbes, Starting, Up, tunnelVars, status, disk
<1>2. CASE TunnelStep
  <2>1. /\ stage \in Up
        /\ UNCHANGED <<stage, cause, wg, listener, xrayUp, consecutiveProbeFailures, lastProbe, priorProbe,
                       probe, binary, late, cancelled>>
        /\ tunnel' \in {"down", "up"} \/ tunnel' = tunnel
        /\ tunnel = "stopped" => tunnel' = tunnel
        /\ alive' \in BOOLEAN /\ shown' \in BOOLEAN
    BY <1>2 DEF TunnelStep, T!Report, T!Exit, T!Retire, T!Start, status, disk, TypeOK
  <2>2. TypeOK' /\ Waited'
    BY <2>1 DEF TypeOK, Waited, Starting, Up
  <2> QED
    BY <2>1, <2>2 DEF NoneLeftBehind, Counted, Stopping, XrayUpFollowsProbes, Up
<1>3. CASE SupervisorReturns
  BY <1>3 DEF SupervisorReturns, T!Stop, TypeOK, Waited, NoneLeftBehind, Counted, Stopping,
              XrayUpFollowsProbes, Starting, Up, status, disk
<1>4. CASE ListenerDies
  <2>1. /\ listener' = FALSE
        /\ UNCHANGED <<stage, cause, cancelled, tunnel, alive, shown, wg, xrayUp, late, probe,
                       consecutiveProbeFailures, lastProbe, priorProbe, binary>>
    BY <1>4 DEF ListenerDies, tunnelVars, status, disk
  <2>2. listener' \in BOOLEAN
    BY <2>1, Zenon
  <2>3. TypeOK'
    BY <2>1, <2>2 DEF TypeOK
  <2> QED
    BY <2>1, <2>3 DEF Waited, NoneLeftBehind, Counted, Stopping, XrayUpFollowsProbes
<1>5. CASE ProbeListener
  <2>1. /\ stage \in Up /\ probe' \in {"ok", "failed"} /\ (probe' = "ok" => ~cancelled)
        /\ UNCHANGED <<stage, cause, cancelled, tunnel, alive, shown, wg, listener, xrayUp,
                       consecutiveProbeFailures, lastProbe, priorProbe, binary, late>>
    BY <1>5 DEF ProbeListener, tunnelVars, status, disk
  <2> QED
    BY <2>1 DEF TypeOK, Waited, NoneLeftBehind, Counted, Stopping, XrayUpFollowsProbes
<1>6. CASE OnHostname
  BY <1>6 DEF OnHostname, TypeOK, Waited, NoneLeftBehind, Counted, Stopping,
              XrayUpFollowsProbes, tunnelVars, status
<1> QED
  BY <1>1, <1>2, <1>3, <1>4, <1>5, <1>6

LEMMA RecordInv == ASSUME LifecycleAssumption, IInv, KeptOK', RecordLiveness PROVE IInv'
<1> USE DEF IInv
<1>1. /\ UNCHANGED <<stage, cause, cancelled, tunnel, alive, shown, wg, listener, binary, late>>
      /\ probe \in {"ok", "failed"} /\ probe' = "none" /\ stage \in Up
      /\ lastProbe' = probe /\ priorProbe' = lastProbe
  BY DEF RecordLiveness, tunnelVars, disk, TypeOK, Counted
<1>2. /\ xrayUp' \in BOOLEAN /\ consecutiveProbeFailures' \in 0..livenessFailureThreshold
      /\ probe = "ok" => consecutiveProbeFailures' = 0 /\ xrayUp'
      /\ probe # "ok" => /\ consecutiveProbeFailures' >= 1
                         /\ consecutiveProbeFailures' >= 2 <=> consecutiveProbeFailures >= 1
                         /\ xrayUp' <=> xrayUp /\ ~(consecutiveProbeFailures' >= 2)
  <2>1. CASE probe = "ok"
    BY <2>1 DEF RecordLiveness, LifecycleAssumption
  <2>2. CASE probe # "ok"
    <3>1. /\ consecutiveProbeFailures' \in 0..livenessFailureThreshold
          /\ consecutiveProbeFailures' >= 1
          /\ consecutiveProbeFailures' >= 2 <=> consecutiveProbeFailures >= 1
      BY <2>2 DEF RecordLiveness, TypeOK, LifecycleAssumption
    <3>2. /\ consecutiveProbeFailures' >= 2 => ~xrayUp'
          /\ ~(consecutiveProbeFailures' >= 2) => xrayUp' = xrayUp
      BY <2>2, Zenon DEF RecordLiveness, LifecycleAssumption
    <3>3. xrayUp' \in BOOLEAN
      BY <2>2, Zenon DEF RecordLiveness, IInv, TypeOK
    <3>4. xrayUp' <=> xrayUp /\ ~(consecutiveProbeFailures' >= 2)
      <4>1. CASE consecutiveProbeFailures' >= 2
        BY <3>2, <4>1, Zenon
      <4>2. CASE ~(consecutiveProbeFailures' >= 2)
        <5>1. xrayUp' = xrayUp
          BY <3>2, <4>2
        <5> QED
          BY <4>2, <5>1, Zenon
      <4> QED
        BY <4>1, <4>2
    <3> QED
      BY <2>2, <3>1, <3>3, <3>4
  <2> QED
    BY <2>1, <2>2
<1>3. TypeOK'
  BY <1>1, <1>2 DEF TypeOK
<1>4. Waited' /\ NoneLeftBehind' /\ Stopping'
  BY <1>1 DEF Waited, NoneLeftBehind, Stopping
<1>5. Counted'
  <2>1. /\ consecutiveProbeFailures' >= 1 <=> lastProbe' = "failed"
        /\ consecutiveProbeFailures' >= 2 <=> lastProbe' = "failed" /\ priorProbe' = "failed"
    <3>1. CASE probe = "ok"
      BY <1>1, <1>2, <3>1
    <3>2. CASE probe = "failed"
      BY <1>1, <1>2, <3>2 DEF Counted
    <3> QED
      BY <1>1, <3>1, <3>2
  <2> QED
    BY <1>1, <2>1 DEF Counted, Up
\* The failures in a row are the last two outcomes, before and after.
<1>6. ASSUME stage = "running"
      PROVE  ~xrayUp' <=> lastProbe' = "failed" /\ priorProbe' = "failed"
  <2>1. ~xrayUp <=> lastProbe = "failed" /\ priorProbe = "failed"
    BY <1>6 DEF XrayUpFollowsProbes
  <2>2. CASE probe = "ok"
    BY <1>1, <1>2, <2>2
  <2>3. CASE probe = "failed"
    <3>1. xrayUp' <=> xrayUp /\ lastProbe # "failed"
      BY <1>2, <2>3 DEF Counted
    <3>2. lastProbe' = "failed" /\ priorProbe' = lastProbe
      BY <1>1, <2>3
    <3> QED
      BY <2>1, <3>1, <3>2
  <2> QED
    BY <1>1, <2>2, <2>3
<1>7. ASSUME stage = "stopping", xrayUp' PROVE late
  BY <1>1, <1>2, <1>7 DEF Stopping, XrayUpFollowsProbes
<1>8. XrayUpFollowsProbes'
  <2>1. stage' = stage /\ late' = late
    BY <1>1
  <2> QED
    BY <1>6, <1>7, <2>1, Zenon DEF XrayUpFollowsProbes
<1> QED
  BY <1>3, <1>4, <1>5, <1>8

LEMMA EndingInv ==
    ASSUME LifecycleAssumption, IInv, KeptOK',
           Signal \/ StopServices \/ ShutdownDone \/ ShutdownBound \/ SelfExit \/ Kill
    PROVE  IInv'
<1> USE DEF IInv
<1>1. CASE Signal
  BY <1>1 DEF Signal, T!Cancel, TypeOK, Waited, NoneLeftBehind, Counted, Stopping,
              XrayUpFollowsProbes, Starting, Up, status, disk
<1>2. CASE StopServices
  <2>1. /\ stage = "running" /\ stage' = "stopping" /\ cancelled /\ xrayUp' = FALSE
        /\ late' \in BOOLEAN /\ (probe = "ok" => late')
        /\ UNCHANGED <<cause, cancelled, tunnel, alive, shown, wg, listener, probe, binary,
                       consecutiveProbeFailures, lastProbe, priorProbe>>
    BY <1>2 DEF StopServices, tunnelVars, disk
  <2>4. xrayUp' \in BOOLEAN /\ late' \in BOOLEAN
    BY <2>1, Zenon
  <2>2. TypeOK'
    BY <2>1, <2>4 DEF TypeOK, Up
  <2>3. Waited' /\ NoneLeftBehind' /\ Counted' /\ Stopping' /\ XrayUpFollowsProbes'
    BY <2>1 DEF Waited, NoneLeftBehind, Counted, Stopping, XrayUpFollowsProbes, Starting, Up
  <2> QED
    BY <2>2, <2>3
<1>3. CASE ShutdownDone
  BY <1>3, ExitInv DEF ShutdownDone, TypeOK, Waited, Up, disk
<1>4. CASE ShutdownBound
  BY <1>4, ExitInv DEF ShutdownBound, TypeOK, disk
<1>5. CASE SelfExit
  BY <1>5, ExitInv DEF SelfExit, TypeOK, disk
<1>6. CASE Kill
  BY <1>6, ExitInv DEF Kill, TypeOK
<1> QED
  BY <1>1, <1>2, <1>3, <1>4, <1>5, <1>6

\* What outlives the process: untouched, or written in one of four places.
Untouched == UNCHANGED kept

LEMMA KeptSteps ==
    ASSUME Next
    PROVE  \/ ExportSecretEnv \/ writeDefaultEnvFile \/ LoadConfig \/ OnHostname \/ Kill
           \/ Untouched
<1>1. CASE \E g \in Goroutine : Return(g)
  <2> PICK g \in Goroutine : Return(g)
    BY <1>1
  <2> QED
    BY DEF Return, Untouched, disk
<1>2. CASE Boot \/ Ensure \/ NewEngine \/ EnsureBinary \/ Downloaded \/ DownloadFails
  BY <1>2 DEF Boot, Ensure, NewEngine, EnsureBinary, Downloaded, DownloadFails, Untouched, disk
<1>3. CASE TunnelStep \/ SupervisorReturns \/ ListenerDies \/ ProbeListener \/ RecordLiveness
  BY <1>3 DEF TunnelStep, SupervisorReturns, ListenerDies, ProbeListener, RecordLiveness,
              Untouched, disk
<1>4. CASE Signal \/ StopServices \/ ShutdownDone \/ ShutdownBound \/ SelfExit
  BY <1>4 DEF Signal, StopServices, ShutdownDone, ShutdownBound, SelfExit, Untouched, disk
<1> QED
  BY <1>1, <1>2, <1>3, <1>4 DEF Next

LEMMA KeptType == ASSUME KeptOK, [Next]_vars PROVE KeptOK'
<1>1. CASE ExportSecretEnv \/ writeDefaultEnvFile \/ Kill
  BY <1>1 DEF ExportSecretEnv, writeDefaultEnvFile, Kill, Fresh, KeptOK
<1>2. CASE LoadConfig \/ OnHostname
  BY <1>2 DEF LoadConfig, OnHostname, Fresh, getenvOrGenerate, KeptOK
<1>3. CASE Untouched
  BY <1>3 DEF Untouched, kept, KeptOK
<1> QED
  BY <1>1, <1>2, <1>3, KeptSteps DEF vars, disk, Untouched

LEMMA Step == ASSUME LifecycleAssumption, IInv, [Next]_vars PROVE IInv'
<1>1. CASE UNCHANGED vars
  BY <1>1 DEF vars, disk, kept, tunnelVars, status, IInv, TypeOK, KeptOK, Waited, NoneLeftBehind,
              Counted, Stopping, XrayUpFollowsProbes
<1>2. CASE Next
  <2>1. KeptOK'
    BY <1>2, KeptType DEF IInv, TypeOK
  <2> QED
    BY <1>2, <2>1, StartingInv, GoroutineInv, RecordInv, EndingInv DEF Next
<1> QED
  BY <1>1, <1>2

LEMMA Inductive == Spec => []IInv
  BY InitInv, Step, LifecycleAssumption, PTL DEF Spec

-----------------------------------------------------------------------------
(* One identity, across restarts.                                          *)

LEMMA OneIdentityInit == ASSUME LifecycleAssumption, Init PROVE OneIdentity
  BY DEF Init, OneIdentity, Up, LifecycleAssumption

\* What ends a process leaves the identity alone, and of .env at most nothing.
LEMMA OneIdentityExit ==
    ASSUME LifecycleAssumption, OneIdentity, stage' = "exited", envFile' \in {envFile, "blank"},
           UNCHANGED <<secret, identity, links>>
    PROVE  OneIdentity'
  BY DEF OneIdentity, Overridden, Up, LifecycleAssumption

LEMMA OneIdentityStep ==
    ASSUME LifecycleAssumption, IInv, OneIdentity, [Next]_vars PROVE OneIdentity'
<1> USE DEF LifecycleAssumption, Overridden
<1>1. CASE ExportSecretEnv
  <2>1. CASE Exit("fatal")
    BY <1>1, <2>1, OneIdentityExit DEF ExportSecretEnv, Exit
  <2>2. CASE ~Exit("fatal")
    BY <1>1, <2>2 DEF ExportSecretEnv, OneIdentity, Up, IInv, TypeOK, KeptOK
  <2> QED
    BY <2>1, <2>2
<1>2. CASE writeDefaultEnvFile
  <2>1. CASE Exit("fatal")
    BY <1>2, <2>1, OneIdentityExit DEF writeDefaultEnvFile, Exit
  <2>2. CASE ~Exit("fatal")
    <3>1. /\ stage = "load" /\ stage' = "load" /\ envFile = "absent" /\ ~Overridden
          /\ UNCHANGED <<secret, identity, links>>
      BY <1>2, <2>2 DEF writeDefaultEnvFile, OneIdentity, IInv, TypeOK, KeptOK
    <3>2. links = None
      BY <3>1 DEF OneIdentity, IInv, TypeOK, KeptOK
    <3> QED
      BY <3>1, <3>2 DEF OneIdentity, Up
  <2> QED
    BY <2>1, <2>2
<1>3. CASE LoadConfig
  <2>1. CASE Exit("fatal")
    BY <1>3, <2>1, OneIdentityExit DEF LoadConfig, Exit
  <2>2. CASE ~Exit("fatal")
    BY <1>3, <2>2 DEF LoadConfig, getenvOrGenerate, OneIdentity, Up, IInv, TypeOK, KeptOK
  <2> QED
    BY <2>1, <2>2
<1>4. CASE OnHostname
  <2>1. /\ stage \in Up /\ links' = identity /\ UNCHANGED <<stage, secret, envFile, identity>>
    BY <1>4 DEF OnHostname
  <2>2. envFile \in {identity, "blank"}
    BY <2>1 DEF OneIdentity
  <2> QED
    BY <2>1, <2>2 DEF OneIdentity, Up, IInv, TypeOK, KeptOK
<1>5. CASE Kill
  <2>1. stage' = "exited" /\ envFile' \in {envFile, "blank"} /\ UNCHANGED <<secret, identity, links>>
    BY <1>5 DEF Kill, Exit
  <2> QED
    BY <2>1, OneIdentityExit
<1>6. CASE Untouched /\ Next
  <2>1. \/ stage' \in {"secret", "exited"}
        \/ stage' = stage
        \/ /\ stage \in {"deploy", "engine", "binary", "download", "running"}
           /\ stage' \in Up \cup {"engine", "binary", "download"}
        \/ ExportSecretEnv \/ writeDefaultEnvFile \/ LoadConfig
    <3>1. CASE \E g \in Goroutine : Return(g)
      BY <3>1 DEF Return
    <3>2. CASE Boot \/ Ensure \/ NewEngine \/ EnsureBinary \/ Downloaded \/ DownloadFails
      BY <3>2 DEF Boot, Ensure, NewEngine, EnsureBinary, Downloaded, DownloadFails, Exit,
                  StartGoroutines, Up
    <3>3. CASE TunnelStep \/ SupervisorReturns \/ ListenerDies \/ ProbeListener \/ RecordLiveness
               \/ OnHostname \/ Signal
      BY <3>3 DEF TunnelStep, SupervisorReturns, ListenerDies, ProbeListener, RecordLiveness,
                  OnHostname, Signal
    <3>4. CASE StopServices \/ ShutdownDone \/ ShutdownBound \/ SelfExit \/ Kill
      BY <3>4 DEF StopServices, ShutdownDone, ShutdownBound, SelfExit, Kill, Exit, Up
    <3> QED
      BY <1>6, <3>1, <3>2, <3>3, <3>4 DEF Next
  <2>2. UNCHANGED <<secret, envFile, identity, links>>
    BY <1>6 DEF Untouched, kept
  <2> QED
    BY <1>1, <1>2, <1>3, <2>1, <2>2 DEF OneIdentity, Up
<1>7. CASE UNCHANGED vars
  BY <1>7 DEF vars, disk, kept, OneIdentity, Up
<1> QED
  BY <1>1, <1>2, <1>3, <1>4, <1>5, <1>6, <1>7, KeptSteps

-----------------------------------------------------------------------------
(* The links of every setting.                                             *)

LEMMA FirstEntry ==
    ASSUME NEW S, NEW p \in Seq(S), Len(p) # 0
    PROVE  Len(p) \in Nat \ {0} /\ 1 \in DOMAIN p /\ p[1] \in S
<1>1. Len(p) \in Nat /\ DOMAIN p = 1..Len(p)
  OBVIOUS
<1>2. 1 \in DOMAIN p
  BY <1>1
<1> QED
  BY <1>1, <1>2

LEMMA PathIsBytes ==
    ASSUME NEW env, env.WS_PATH \in Seq(Byte)
    PROVE  WSPath(env) \in Seq(Byte)
<1>1. Slash \in Byte
  BY DEF Slash, Byte
<1>2. <<Slash>> \in Seq(Byte)
  BY <1>1
<1>3. <<Slash>> \o env.WS_PATH \in Seq(Byte)
  BY <1>2
<1> QED
  BY <1>3 DEF WSPath

LEMMA TwoDigits ==
    ASSUME NEW c \in 0..255
    PROVE  /\ c \div 16 \in 0..15 /\ c % 16 \in 0..15
           /\ 16 * (c \div 16) + (c % 16) = c
  OBVIOUS

LEMMA OneDigit ==
    ASSUME NEW n \in 0..15
    PROVE  HexValue(hexDigit(n)) = n
  BY DEF HexValue, hexDigit

LEMMA PlainIsItself ==
    ASSUME NEW c \in 0..255, isPyUnreserved(c)
    PROVE  c \notin Ends /\ c # Plus
  BY DEF isPyUnreserved, Ends, Plus

\* Piece by piece, a client reads back the byte that was quoted.
LEMMA QuotedIsReadBack ==
    ASSUME NEW text \in Seq(Byte)
    PROVE  Unquote(safeQuote(text)) = text
<1>1. ASSUME NEW k \in DOMAIN text, NEW piece, piece = safeQuote(text)[k]
      PROVE  Unquote(safeQuote(text))[k] = text[k]
  <2>1. text[k] \in 0..255
    <3>1. text[k] \in Byte
      OBVIOUS
    <3> QED
      BY <3>1 DEF Byte
  <2>2. Unquote(safeQuote(text))[k] =
          CASE Len(piece) = 3 -> 16 * HexValue(piece[2]) + HexValue(piece[3])
            [] Len(piece) = 1 /\ piece[1] \in Ends -> Unusable
            [] Len(piece) = 1 /\ piece[1] = Plus -> 32
            [] OTHER -> piece[1]
    BY <1>1 DEF Unquote, safeQuote
  <2>3. CASE isPyUnreserved(text[k])
    <3>1. piece = <<text[k]>>
      BY <1>1, <2>3 DEF safeQuote
    <3>2. text[k] \notin Ends /\ text[k] # Plus
      BY <2>1, <2>3, PlainIsItself
    <3> QED
      BY <2>2, <3>1, <3>2
  <2>4. CASE ~isPyUnreserved(text[k])
    <3>1. piece = <<Percent, hexDigit(text[k] \div 16), hexDigit(text[k] % 16)>>
      BY <1>1, <2>4 DEF safeQuote
    <3>2. Len(piece) = 3 /\ piece[2] = hexDigit(text[k] \div 16) /\ piece[3] = hexDigit(text[k] % 16)
      BY <3>1
    <3>3. /\ HexValue(piece[2]) = text[k] \div 16
          /\ HexValue(piece[3]) = text[k] % 16
      <4>1. text[k] \div 16 \in 0..15 /\ text[k] % 16 \in 0..15
        BY <2>1, TwoDigits
      <4> QED
        BY <3>2, <4>1, OneDigit
    <3>4. 16 * HexValue(piece[2]) + HexValue(piece[3]) = text[k]
      BY <2>1, <3>3, TwoDigits
    <3> QED
      BY <2>2, <3>2, <3>4
  <2> QED
    BY <2>3, <2>4
<1>2. \A k \in DOMAIN text : Unquote(safeQuote(text))[k] = text[k]
  BY <1>1
<1>3. DOMAIN Unquote(safeQuote(text)) = DOMAIN text
  BY DEF Unquote, safeQuote
<1>4. Unquote(safeQuote(text)) = [k \in DOMAIN text |-> Unquote(safeQuote(text))[k]]
  BY <1>3 DEF Unquote
<1>5. text = [k \in DOMAIN text |-> text[k]]
  OBVIOUS
<1> QED
  BY <1>2, <1>4, <1>5

\* Whatever the addresses, exactly a first one that can be dialled, with an
\* origin and a hostname of one tunnel, makes a link work.
LEMMA LinksReach == ConfigurationAssumption => LinksReachInbound
<1> SUFFICES ASSUME ConfigurationAssumption, NEW env \in Environment, fromEnv(env) # Unusable
             PROVE  LET cfg == fromEnv(env) IN
                    /\ \A link \in BuildLinks(cfg, Launch(cfg).hostname) :
                          Reaches(link, cfg) <=> HostMatchesToken(cfg) /\ cfg.Ports[1].ListenIP # "::1"
                    /\ probeAddr(cfg) = Launch(cfg).url
  BY DEF LinksReachInbound
<1> DEFINE cfg == fromEnv(env)
           first == env.PORT[1]
<1>1. /\ env.PORT \in Seq(Entry) /\ Len(env.PORT) \in Nat \ {0} /\ 1 \in DOMAIN env.PORT
      /\ first \in Entry /\ first.listen # "wrong"
      /\ env.TUNNEL_TOKEN \in {"", "token"} /\ env.WS_HOST \in {"", DefaultHost, FixedHost}
  <2>1. env \in Setting /\ env.WS_HOST \in {"", DefaultHost, FixedHost}
    BY DEF ConfigurationAssumption
  <2>2. env.PORT \in Seq(Entry) /\ env.TUNNEL_TOKEN \in {"", "token"}
    BY <2>1 DEF Setting
  <2>3. Len(env.PORT) # 0 /\ \A k \in DOMAIN env.PORT : env.PORT[k].listen # "wrong"
    BY DEF fromEnv, Parsable
  <2>4. Len(env.PORT) \in Nat \ {0} /\ 1 \in DOMAIN env.PORT /\ first \in Entry
    BY <2>2, <2>3, FirstEntry
  <2> QED
    BY <2>1, <2>2, <2>3, <2>4
<1>2. /\ cfg.Ports = ParsePorts(env.PORT) /\ cfg.Target = TunnelTarget(cfg.Ports)
      /\ cfg.WSHost = env.WS_HOST /\ cfg.TunnelToken = env.TUNNEL_TOKEN
      /\ cfg.Transport \in {"xhttp", "websocket"} /\ cfg.WSPath \in Seq(Byte)
  <2>1. env.WS_PATH \in Seq(Byte)
    BY DEF ConfigurationAssumption, Setting
  <2>2. WSPath(env) \in Seq(Byte)
    BY <2>1, PathIsBytes
  <2> QED
    BY <2>2 DEF fromEnv, Transport
<1>3. 1 \in DOMAIN cfg.Ports /\ cfg.Ports[1] = Inbound(first)
  BY <1>1, <1>2 DEF ParsePorts
<1>4. probeAddr(cfg) = Launch(cfg).url
  BY <1>2 DEF probeAddr, Launch, WriteNamedTunnelConfig, TunnelTarget
<1> HIDE DEF cfg
<1>5. ASSUME NEW link \in BuildLinks(cfg, Launch(cfg).hostname)
      PROVE  Reaches(link, cfg) <=> HostMatchesToken(cfg) /\ cfg.Ports[1].ListenIP # "::1"
  <2>1. /\ link.host = LinkHost(cfg, Launch(cfg).hostname)
        /\ link.type = Network(cfg) /\ link.mode = StreamMode(cfg)
        /\ Unquote(link.path) = cfg.WSPath
    <3>1. PICK sni \in cfg.FakeSNI :
              link \in {Link(cfg, Launch(cfg).hostname, sni, port) : port \in {443, 80}}
      BY <1>5 DEF BuildLinks
    <3>2. PICK port \in {443, 80} : link = Link(cfg, Launch(cfg).hostname, sni, port)
      BY <3>1
    <3> QED
      BY <1>2, <3>2, QuotedIsReadBack DEF Link
  <2>2. HostMatchesToken(cfg) <=> link.host = Launch(cfg).hostname /\ link.host \notin {"", DefaultHost}
    BY <1>1, <1>2, <2>1 DEF HostMatchesToken, LinkHost, Launch, WriteNamedTunnelConfig, ConfigurationAssumption,
                            DefaultHost, FixedHost
  <2>3. ASSUME NEW inbound \in BuildConfig(cfg)
        PROVE  /\ inbound.network = link.type /\ inbound.path = Unquote(link.path)
               /\ inbound.mode = link.mode
               /\ Launch(cfg).http2Origin <=> inbound.network = "xhttp"
    <3> PICK k \in DOMAIN cfg.Ports : inbound = Listener(cfg, cfg.Ports[k])
      BY <2>3 DEF BuildConfig
    <3>1. Launch(cfg).http2Origin <=> cfg.Transport = "xhttp"
      BY DEF Launch, WriteNamedTunnelConfig
    <3> QED
      BY <1>2, <2>1, <3>1 DEF Listener, Network
  <2>4. (\E inbound \in BuildConfig(cfg) : Dials(Launch(cfg).url, inbound))
        <=> cfg.Ports[1].ListenIP # "::1"
    <3>1. Listener(cfg, Inbound(first)) \in BuildConfig(cfg)
      BY <1>3 DEF BuildConfig
    <3>2. Launch(cfg).url = TunnelTarget(cfg.Ports)
      BY <1>2 DEF Launch, WriteNamedTunnelConfig
    <3>3. /\ TunnelTarget(cfg.Ports).port = Inbound(first).Port
          /\ TunnelTarget(cfg.Ports).ip = IF Inbound(first).ListenIP = "0.0.0.0" THEN "127.0.0.1"
                                          ELSE Inbound(first).ListenIP
      BY <1>3 DEF TunnelTarget
    <3>4. /\ Listener(cfg, Inbound(first)).port = Inbound(first).Port
          /\ Listener(cfg, Inbound(first)).listen = IF Inbound(first).ListenIP = "[::1]" THEN "::1"
                                                    ELSE Inbound(first).ListenIP
      BY DEF Listener
    <3>5. Inbound(first).ListenIP \in {"0.0.0.0", "127.0.0.1", "::1", "[::1]"}
      BY <1>1 DEF Inbound, Entry, Listen
    <3>6. Inbound(first).ListenIP # "::1"
          => Dials(TunnelTarget(cfg.Ports), Listener(cfg, Inbound(first)))
      BY <3>3, <3>4, <3>5 DEF Dials
    <3>7. ASSUME NEW inbound \in BuildConfig(cfg), Dials(TunnelTarget(cfg.Ports), inbound)
          PROVE  Inbound(first).ListenIP # "::1"
      BY <3>3, <3>7 DEF Dials
    <3> QED
      BY <1>3, <3>1, <3>2, <3>6, <3>7
  <2> QED
    BY <2>2, <2>3, <2>4 DEF Reaches
<1> QED
  BY <1>4, <1>5 DEF cfg

-----------------------------------------------------------------------------
(* The lifecycle is typed, across failed starts, kills and restarts.       *)
THEOREM TypeCorrect == Spec => []TypeOK
  BY Inductive, PTL DEF IInv

(* run leaves no cloudflared behind that the supervisor had not given up,  *)
(* but for a kill, the CI timer and the ten-second bound.                  *)
THEOREM ShutdownWaits == Spec => []NoneLeftBehind
  BY Inductive, PTL DEF IInv

(* xray_up falls on two failed probes in a row, and only on them, and a    *)
(* shutdown cannot be talked out of it by a probe that started after the   *)
(* signal.                                                                 *)
THEOREM XrayUpIsDebounced == Spec => []XrayUpFollowsProbes
  BY Inductive, PTL DEF IInv

(* The links in the file are of the identity that is accepted, restarts,   *)
(* kills while .env is written and ENV_CONFIG included, unless .env holds  *)
(* none; and they lead to xray-core whatever the setting.                  *)
THEOREM LinksKeepWorking == Spec => []LinksWork
<1>1. IInv /\ OneIdentity => LinksWork
  BY LinksReach, ConfigurationAssumption, LifecycleAssumption
     DEF IInv, TypeOK, KeptOK, OneIdentity, Overridden, LinksWork, Up
<1>2. Spec => []OneIdentity
  BY Inductive, OneIdentityInit, OneIdentityStep, LifecycleAssumption, PTL DEF Spec
<1> QED
  BY <1>1, <1>2, Inductive, PTL

-----------------------------------------------------------------------------
(* The order of the start.  Ready: the configuration has been read by the  *)
(* time xray-core is built from it, and nothing takes the file away again. *)
Ready ==
    /\ stage \in {"deploy", "engine", "binary", "download"} \cup Up => identity # None
    /\ stage \in Up => binary # "absent"

LEMMA ReadyStep == ASSUME LifecycleAssumption, IInv, Ready, [Next]_vars PROVE Ready'
<1> USE DEF Ready, Up
<1>1. CASE Boot \/ ExportSecretEnv \/ writeDefaultEnvFile
  BY <1>1 DEF Boot, ExportSecretEnv, writeDefaultEnvFile, Exit
<1>2. CASE LoadConfig
  <2>1. CASE Exit("fatal")
    BY <2>1 DEF Exit
  <2>2. CASE ~Exit("fatal")
    <3>1. stage' = "deploy" /\ identity' \in Identity
      BY <1>2, <2>2 DEF LoadConfig, getenvOrGenerate, Fresh
    <3> QED
      BY <3>1 DEF LifecycleAssumption
  <2> QED
    BY <2>1, <2>2
<1>3. CASE Ensure \/ NewEngine
  BY <1>3 DEF Ensure, NewEngine, Exit, disk, kept
<1>4. CASE EnsureBinary \/ Downloaded \/ DownloadFails
  BY <1>4 DEF EnsureBinary, Downloaded, DownloadFails, StartGoroutines, Exit, disk, kept
<1>5. CASE \E g \in Goroutine : Return(g)
  <2> PICK g \in Goroutine : Return(g)
    BY <1>5
  <2> QED
    BY DEF Return, disk, kept
<1>6. CASE TunnelStep \/ SupervisorReturns \/ OnHostname \/ ListenerDies \/ ProbeListener \/ Signal
  BY <1>6 DEF TunnelStep, SupervisorReturns, OnHostname, ListenerDies, ProbeListener, Signal,
              disk, kept
<1>7. CASE RecordLiveness
  BY <1>7 DEF RecordLiveness, disk, kept
<1>8. CASE StopServices
  BY <1>8 DEF StopServices, disk, kept
<1>9. CASE ShutdownDone \/ ShutdownBound \/ SelfExit \/ Kill
  BY <1>9 DEF ShutdownDone, ShutdownBound, SelfExit, Kill, Exit
<1>10. CASE UNCHANGED vars
  BY <1>10 DEF vars, disk, kept
<1> QED
  BY <1>1, <1>2, <1>3, <1>4, <1>5, <1>6, <1>7, <1>8, <1>9, <1>10 DEF Next

(* cloudflared lives only in a process that has read its configuration,    *)
(* has a file to launch, and waits for the supervisor until it has given   *)
(* it up: a failed, cut or skipped step of the start never leads past it.  *)
THEOREM CloudflaredComesLast == Spec => []LaunchedInOrder
<1>1. Init => Ready
  BY DEF Init, Ready, Up
<1>2. IInv /\ Ready => LaunchedInOrder
  BY DEF IInv, TypeOK, Waited, Ready, LaunchedInOrder, Up
<1> QED
  BY <1>1, <1>2, Inductive, ReadyStep, LifecycleAssumption, PTL DEF Spec
=============================================================================
