# xrayws: TLA+ models, model checks and proofs

`xrayws` runs a VLESS proxy (xray-core, in process) behind a Cloudflare tunnel (`cloudflared`, a supervised
subprocess). It provisions the Cloudflare side at startup, publishes the links clients use, serves a password
protected dashboard, and updates itself. This directory holds TLA+ models of the parts of it that have state,
concurrency or failures, the TLC configurations that check them on small instances, and theorems about them that
the TLA+ proof system checks for every value of the constants. Paths below are relative to `src/`.

Contents: 1 inventory · 2 modules and code · 3 runs, bounds and what they show · 4 fairness · 5 proofs ·
6 disagreements between code and text · 7 assumptions and known limits · 8 not modelled · 9 plan.

## 1. Inventory

| Component | State it keeps | Operations | What makes it correct |
|---|---|---|---|
| Lifecycle, `cmd/xrayws/main.go`, `internal/ci/timer.go` | phase of `run`, the WaitGroup, the signal context | load configuration, deploy, start engine, fetch cloudflared, start goroutines, stop, ten-second bound, self-exit | a signal always ends the process; nobody returns before the goroutine that owns the subprocess |
| Tunnel supervisor, `internal/tunnel/supervisor.go`, `ready.go`, `launch.go` | the subprocess, its exit channel, the poll channel, the not-ready spell, the backoff | launch, watch (four select cases), terminate, kill, back off, poll `/ready` | one cloudflared at a time, no stale "ready", no healthy tunnel dropped, shutdown ends |
| Log reader and hostname parser, `internal/tunnel/hostname.go` | whether the banner was seen | feed a line | a URL counts once, after the banner, never on its line |
| Link export and webhook, `exportLinks` in `main.go`, `internal/linkgen` | two files, the hostname on the dashboard, webhooks in flight | look up the IP, write both files, post | the files and the endpoint show the current tunnel |
| Readers of the export, `handleVlessInfo`, `handleSubscription` in `internal/logserver/server.go` | none; two reads of two files | answer the links, answer links and hostname | links and hostname of one answer belong together |
| CI watcher, `internal/ci/watcher.go`, `gitpush.go` | mtime seen and last upload per path, a clone, the branch | poll, debounce, sync, commit, push, retry | what counts as seen is published; no file is taken back |
| Self-update and rollback, `internal/selfupdate` | the executable, `.prev`, temporary files | download, verify, link, chmod, rename, restart; stat, rename, restart | the executable is whole at every instant; a finished update can be rolled back |
| Cloudflare provisioning, `internal/cfdeploy` | the account: namespaces, script, domain, tunnels, DNS | list or create, upload, attach, route | what the process adopts exists and is routed; stored values survive redeployment |
| Worker, `internal/cfdeploy/assets/worker.js` | globals per isolate, four KV keys | `/setapi`, `/sub`, proxy | a target is whole, a success is durable |
| Dashboard, `internal/logserver`, `web/logserver/static/app.js` | the log ring, the signing secret, the cookie, what the page has drawn | push, login, logout, `/logs`, poll, draw | no line missed, a dead session is noticed |
| xray-core engine and status, `internal/xraycore`, `internal/logserver/status.go` | the instance, `xray_up`, probe failures, rates | start, probe, record, close | one lost probe is not blamed, a dead listener is |
| cloudflared download, `internal/tunnel/download.go` | the file `cloudflared` | take it if it exists, download, chmod | ends on a signal |
| Configuration, `internal/config`, and what is made of it: `xraycore/config.go`, `tunnel/launch.go`, `named.go`, `linkgen/links.go` | `.env`, the environment | load, parse ports and SNI list, draw what is blank; build inbounds, arguments, links | what four parts compute from one setting fits together; the identity in a link is the accepted one |
| CI bridge and timers, `internal/ci/bridge.go`, `timer.go`, `env.go` | a five-hour timer, the self-exit at 5h40, the ENV_CONFIG secret | find the workflow, dispatch it, replace `.env` | dispatched at most once; the chain of jobs goes on |
| Installer, `install.sh` | `.env`, the executable, the systemd unit | ask, download, verify, smoke-test, stop, start | a broken binary is not left behind, the service not left down |
| Build workflow, smoke test of xray-core, test double | none at run time | | |

**How they interact.** `run` calls `cfdeploy.Ensure` and blocks on it, then starts the log server, xray-core and the
download of cloudflared, one after the other, and then three kinds of goroutine: the supervisor, two tickers, and in
CI mode a watcher and two timers. The supervisor calls back into `run` (`OnHostname`, `OnReady`, `LogLine`) from
*its* goroutines: the log reader of each launch runs `exportLinks`, which blocks it for as long as the IP lookup
takes, and starts one more goroutine for the webhook. `exportLinks` writes the files the CI watcher pushes and the
dashboard serves. The webhook reaches the Worker that `Ensure` uploaded, whose answer to the next client depends on
which isolate handles it. A CI job dispatches the next one after five hours and runs on beside it for forty minutes,
both pushing to one branch. `install.sh` and `--update` work on the executable of a service that systemd restarts.
Everything below the process is shared through files, KV keys, a git branch or the Cloudflare account, with no locks
around them.

**What is hard.** A Go `select` with several ready cases takes any; a channel of one slot that two paths receive
from; timers that race polls; a process that can be killed between two system calls; answers of HTTP requests that
are lost after their effect, or that never come; two goroutines in `os.WriteFile` on one path; JavaScript that
interleaves requests at every `await`; polls that overlap; a secret that changes with the process. Each such place
is listed with its line in `PROJECT.json` under `hazards`, with the properties that cover it.

## 2. Modules and code

`PROJECT.json` maps each definition to the lines it translates. Every component has up to three modules: `X` (the
model), `XProofs` (theorems; EXTENDS `X`) and `MCX` (values for TLC). Actions keep the name of the function they
stand for where one function is one action.

| Module | Actions and the code they stand for | Abstractions |
|---|---|---|
| `TunnelService` | the contract of the supervisor: Start, Report, Exit, Retire, Cancel, Stop | no goroutines, channels or timers |
| `InstalledRelease` | the contract of `internal/selfupdate` and install.sh: Update, Reinstall, Keep, Rollback, Forget, Launch, Outage | no processes, system calls or temporary files |
| `Mirror` | the contract of `internal/ci`'s watcher: Write, Publish, Override, OtherEnds, HandOver, End | no clones, commits, retries or timers |
| `TargetStore` | the contract of worker.js: Post, Adopt, Commit, Settle, Refresh, Suspect, Evict | no requests, awaits or keys |
| `Hosting` | the contract of `internal/cfdeploy`: Start, Deploy, End, DeleteTunnel | no requests to the API |
| `Publication` | the contract of `exportLinks`: Begin, Arrive, Fail, Empty, Disorder, End | no log readers, lookups, open files or requests in flight |
| `LogView` | the contract of the dashboard's log: Write, Restart, Draw, Overlap, Open | no requests, sessions or intervals |
| `Supervisor` | `Supervisor.Run` (RunLoop), each case of the select in `watch` (Watch...), the waiter (WaiterSend), `PollReady` (Poller...), the subprocess and the caller | timers fire at any time, except the not-ready spell, counted in ticks |
| `Configuration` | no state: `ParsePorts`, `TunnelTarget`, `fromEnv`; `BuildConfig`, `Launch`, `WriteNamedTunnelConfig`, the probe address, `BuildLinks`; `safeQuote`; what a client of a link meets (Unquote, Reaches) | names and hostnames are values; a path is its bytes, quoted and read back byte by byte; an entry of PORT is its address and its number |
| `Lifecycle` | EXTENDS `Configuration`. `run` and `main`: one action per phase, `ENV_CONFIG` and `.env` (ExportSecretEnv, writeDefaultEnvFile, LoadConfig), `Return(g)` for goroutines, probes and `RecordLiveness`, the ways to end; the tunnel by `T == INSTANCE TunnelService` | the network answers, fails or hangs; one identity stands for all that is drawn where `.env` leaves it blank |
| `LinkExport` | `HostnameParser.Feed` (Banner, Announce), `exportLinks` and `Export`, one action per system call; webhooks; the readers `handleVlessInfo` (ReadConfig, ReadMeta) and `handleSubscription` | a set of links is the launch it was made for; a log line is a banner, a URL or neither |
| `CIBridge` | the hours of a job: `ScheduleBridge` (BridgeDelay, BridgeCancelled), `fetchWorkflowID`, `dispatchWorkflow`, the end of the previous job | of the time only the hand-over and the end count: early, late, over; whether the previous job still runs is a state of its own |
| `CIWatcher` | EXTENDS `CIBridge`. `checkAndUpload`, `UploadFile` and its git commands, the pushes of the other jobs of the chain (OtherJobPush: the previous one until it ends, the successor once it is dispatched), the end of this one | contents and mtime are one number; odd ones are a file truncated and not yet written |
| `SelfUpdate` | every system call and request of `Run` and `Rollback`, the second part of `install.sh`, systemd's starts; any number of invocations | names refer to inodes; a release is one value |
| `CfDeploy` | every API request of `Ensure`, and what `run` adopts of it | a namespace or tunnel is named after the run that made it |
| `WorkerBridge` | worker.js between two awaits; Workers KV, which shows earlier values until it has settled (Readable, Settle) | a configuration is one value; proxied bytes are left out |
| `Dashboard` | the ring, the session, `/logs` and the handlers of app.js | a line is its number and the process that wrote it; a token is the process that signed it |

*Composition.* `Lifecycle` uses the contract `TunnelService` in place of the supervisor: its TunnelStep and
SupervisorReturns are steps of the contract. `CIWatcher` is composed with `CIBridge` (the watcher lives in the hours of
its job), and `Lifecycle` with `Configuration` (what a running process does with each setting of `.env`).

*Refinement.* Seven components have an abstract specification of what they promise, and implement it under a mapping
(`INSTANCE ... WITH`) that stands at the end of the module; TLC checks the implication on the instance of the run, and a
theorem states it for every value of the constants:

| Component | implements | The mapping |
|---|---|---|
| `Supervisor` | `TunnelService`, as ImplementsService | `Service`: the subprocess and what Run has told of it; liveness included, by TLC |
| `SelfUpdate` | `InstalledRelease`, as ImplementsRelease | `Release`: the release behind each name and behind the service; `Past`, the inodes a name referred to, temporary files apart |
| `CIWatcher` | `Mirror`, as ImplementsMirror | `Branch`: the tree of the branch is the mirror; which other job of the chain pushes is read off the previous one and the successors |
| `WorkerBridge` | `TargetStore`, as ImplementsTargetStore | `Targets`: three keys that agree are a stored target, an isolate's host and path a served one (`Whole`); a post is adopted from the assignment and committed with its last put (`Stage`) |
| `CfDeploy` | `Hosting`, as ImplementsHosting | `Host`: a run is deploying from its first request to the one after which main adopts; the uploaded script gives the namespace and the run the Worker is bound to (`BoundTo`, `UploadedBy`) |
| `LinkExport` | `Publication`, as ImplementsPublication | `Board`: the files and the endpoint are places (`Place`), where the export of the hostname on the dashboard is says which one is next (`Stage`) |
| `Dashboard` | `LogView`, as ImplementsLogView | `View`: the lines on the page and the number it asks from; what a request carries is not seen until it is drawn |

The abstract specifications say what is *not* promised as well: TargetStore promises nothing more once a post
failed or met another, nor of an isolate that loaded during one or before the store had settled, Publication nothing of exports that overlap (Disorder), Mirror allows the jobs before and after
this one to reset the branch, Hosting lets runs that are not exclusive use what another one replaced, InstalledRelease lets an update with
a competitor lose the fallback.

*Mutants.* Next to some actions stands a `Mutant:`, the action with a plausible bug. Nothing refers to it; it
records which mistake each property would catch (`mutants` in `PROJECT.json`).

## 3. Runs, bounds and what they show

| Run | Instance | Distinct states | Shows |
|---|---|---|---|
| `supervisor` | named tunnel; grace 2 ticks; backoffs 2 and 3 | 7,456 | no receive without a sender (ExitStillToCome); a living process is given up only after the grace; a crash is handled, a not-ready spell ends; ImplementsService: one cloudflared at a time, a launch only after the last one is dead and its ready status withdrawn, and a cancelled context makes Run return |
| `supervisor_orphan` | the same, one more backoff | stops at the violation | *violated*: NoOrphan, see section 6 |
| `lifecycle` | CI mode, threshold 2, three identities, every setting with up to two ports and one of five paths | 139,110 | NoneLeftBehind; XrayUpFollowsProbes: shown down exactly after two failed probes in a row; LinksWork: an exported link holds the accepted identity, carries the path it was given, and leads to xray-core; EventsAnswered: a signal ends the process, and a dead listener is noticed |
| `linkexport` | two launches, readers at any time | 134,731 | an export that nothing overlapped stands in both files and at the endpoint, its own failures excepted (LoneExportStands), and is what readers are answered (AnswersAgree); ImplementsPublication: it goes from place to place and is touched by nobody else; every export ends (EveryHostnameExported) |
| `ciwatcher` | two files, two writes each, two attempts, a previous job, a bridge and its successor | 790,478 | SeenIsPublished, EveryChangeAnswered, HandedOverOnce; ImplementsMirror: no file of the branch is taken back but by another job of the chain |
| `ciwatcher_debounce` | one file, two writes, git never fails, no bridge | stops at the violation | *violated*: ChangeIsUploaded |
| `selfupdate` | three invocations: updates, rollbacks, installations | 238,963 | NamesStayWhole, FailedUpdateLeavesNothing, StaleServiceExplained, OutageExplained; ImplementsRelease: one register with a fallback, through any overlap |
| `selfupdate_rollback_twice` | the same | stops at the violation | *violated*: RollbackConsumesPrev |
| `cfdeploy` | three runs on at most two machines, three `.env` files (nothing, Worker, Worker and tunnel) | 219,006 | WebhookIsLive, TokenMatchesRoute; ImplementsHosting: the Worker keeps its namespace, a run uses only what is in place |
| `cfdeploy_stall` | two runs | stops at the violation | *violated*: NeverBlocksStartup |
| `worker` | two isolates, two configurations, one reading request at a time, a KV that lags | 3,549,565 | NeverHalfConfigured, AnsweredIsDurable; ImplementsTargetStore: targets are stored and served whole |
| `dashboard` | two requests in flight, ring of 2, three lines in each of two processes | 68,281 | EachLineOnce; ImplementsLogView: the page shows stretches of the log, in order and without gaps; CatchesUp, also across a restart; StaleSessionNoticed |

Every passing run also checks the module's TypeOK.

*Why these bounds are enough to meet the interesting cases.* Supervisor: two backoffs give one that doubles and one
that is capped, and a grace of two ticks lets polls, errors and the exit fall before, at and after its end; the state
space is finite without any other bound, so that runs are of any length. CIWatcher: two files are what main.go
watches, and they make the one-tree-per-push hazard visible; two writes are one that truncates a file and one that
completes it, two attempts one retry that can run out (the theorems hold for any number of each; with a previous job
and a bridge in the model a third write multiplies the states by seven). The chain of jobs is seen from one of them:
the one before it and the one after it push when they like, while they run. SelfUpdate: an update that fails, a rollback and an
update or an installation after it need three invocations, and overlaps of three are included. CfDeploy: a run that
leaves something half made, one that finds it and one that competes; at most two of them are alive at a time
(`TwoMachines`, a constraint: a third competitor multiplies the states by five), and states that differ in what a run
that is over had found are one (`Relevant`, a view: no later step depends on it). Worker: the races are between two isolates and
between two configurations; a loading request restarts as often as it likes. At most one isolate is torn at a time
(`FewTorn`, a constraint): of a torn one only NeverHalfConfigured speaks, of each isolate by itself. Dashboard: a ring that overflows needs
one line more than its capacity, a reordering two requests, a restart two processes. LinkExport: the overlap of a
launch with its replacement. Lifecycle has no bound on restarts; three identities are one given by the owner, and two
that are drawn, so that each start can draw another one than the last. Its settings are all combinations of six ways
to write an address on one or two ports, host given or not, token or not, transports with their aliases, and modes
known and unknown; the paths are an empty one, one without its slash, one with it, one with every byte that means
something in a link, and one that is not ASCII. The `MC` instances use symmetry only where no liveness property is checked.

`CHECK_DEADLOCK FALSE` stands where the system may really stop: all invocations, runs, configurations or launches are
used up (`linkexport`, `worker`, `cfdeploy`). CIWatcher, Supervisor and SelfUpdate end in explicit stuttering or
never end.

## 4. Fairness

Fairness is only assumed of what the Go runtime, the browser or a deadline in the code provides; a module without
liveness properties has none.

* **Supervisor.** Goroutines that can run do (weak fairness). A ready select case that is ready again and again is
  taken eventually, since Go chooses at random among the ready ones (strong fairness per case). Nothing is assumed of
  cloudflared, of a launch, or of the caller.
* **Lifecycle.** Local steps and tickers are weakly fair. `Ensure` and the download are fair only once the context is
  done, because only the context ends a hanging request. That the supervisor returns is the liveness of
  `TunnelService`, which the `supervisor` run establishes. The ten-second timer is fair. The deferred `engine.Close`
  of the exit is part of the step that ends the process.
* **LinkExport.** The reader goroutine runs, and the IP lookup has a deadline of its own (publicip.go). The webhook may
  be lost; nothing is asked of the network.
* **CIWatcher.** The watcher runs, the debounce passes, and main ends the process some time after the context is done.
  Pushes may fail for ever. Nothing makes GitHub answer, the previous job end or the hours pass: what is promised of a
  quiet file is promised within them.
* **CfDeploy.** A request that is answered at all is answered: the stalled one is the counterexample.
* **Dashboard.** The intervals fire. Requests may be lost, but of infinitely many some are served and some of their
  answers arrive (strong fairness over all requests together, never of a given one). Nothing is assumed of the user.

## 5. Proofs

Each `XProofs` module proves an inductive invariant `IInv` in three steps (`Init => IInv`, `IInv /\ [Next]_vars =>
IInv'`, and the theorem by PTL), one step per action. The only assumptions are the named ASSUMEs on the constants:
distinct model values (in `CfDeploy` also distinct from the records that describe a script), positive bounds, a
backoff that does not start above its maximum. The numbers of files, launches, runs, isolates, configurations,
invocations and requests are arbitrary.

| Module | Theorems | The strengthening, and why it is needed |
|---|---|---|
| `SupervisorProofs` | TypeCorrect, RestartsReplace, StatusWithdrawn, ExitReceivable, SurvivorsInterrupted, GraceRespected, ServiceImplemented | GoroutinesAgree: what the exit channel, the poller and the subprocess say together. The poll channel only closes after a cancellation and the exit channel is filled once, after the process died; without it `watch` could be left with a living process |
| `SelfUpdateProofs` | TypeCorrect, ExecutableStaysWhole, FailuresCleanUp, StaleServiceHasReason, OutageHasReason, UpdateKeepsFallback, ReleaseImplemented | StepsInOrder: the file about to be installed is verified and executable, and no other name refers to it before; of an installation, what it has and has not done yet, and, in `missed`, where it met another invocation's file under the executable's name. AloneInv for the fallback: between link and rename nobody else moves .prev. PastInv for the release: which binaries have been put in place can be read off the files, so that no step but `mv`, the swap and a rollback changes what a name means |
| `CIWatcherProofs` | TypeCorrect, UnchangedIsPublished, OneSuccessor, BranchOnlyMovesForward, MirrorImplemented | CloneBetween (branch ≤ clone ≤ files) and SeenIsHandled (a seen change is published, dropped, in hand, or pushed over by another job); for the bridge, that it posts at most once and what it is at in which hour; OverStopped, without which a push could follow the end of the job |
| `LinkExportProofs` | TypeCorrect, LoneExportIsKept, SteadyAnswersAgree, PublicationImplemented | Kept: at every step of a lone export, what it is past is in place or recorded as spoiled; for the readers, what was read first is still in the file as long as nobody exports; PInv for the publication: the order announce, export, send of each launch |
| `WorkerBridgeProofs` | TypeCorrect, NeverHalf, SuccessIsDurable, MixedNeedsDisturbance, TargetStoreImplemented | DInv for durability: the keys already put by the latest configuration; MInv for mixing: what an undisturbed isolate and a load in it have read is of one configuration; LInv for the store: while calm, the post being handled is the latest. All of them with a KV that may lag |
| `CfDeployProofs` | TypeCorrect, WebhookDeployed, RouteLeadsToTunnel, StoredValuesSurvive, HostingImplemented | AloneInv, TunInv, KvInv, DeployedInv: what each request can rely on from the ones before it, and that an account has one namespace and one tunnel unless runs overlap or the list has a second page. Hosting needs no more than these: what a run starts to use is what the invariant says of the *next* state |
| `DashboardProofs` | TypeCorrect, EachLineDrawnOnce, LogViewImplemented | Known, Seen, Shape, Fresh: what a request in flight knows, so that its late answer can be applied in any order; Carried for the view: the lines of an answer are a stretch of the log of one run, from the page's own number on unless requests overlapped |
| `LifecycleProofs` | TypeCorrect, ShutdownWaits, XrayUpIsDebounced, LinksKeepWorking, CloudflaredComesLast | Waited (the supervisor is in the WaitGroup until it has stopped), Counted (the failure counter agrees with the last two outcomes), Stopping; OneIdentity (links, `.env` and the ENV_CONFIG that replaces it hold one identity, or `.env` holds none); the lemma LinksReach compares what the four parts make of an arbitrary setting, and QuotedIsReadBack gives back any path; Ready (the configuration and the file come first and stay) for CloudflaredComesLast |

*The refinements.* Each of the seven goes the same way: the initial states map to initial states; one lemma per
action (or per group with the same effect) shows that the step is a step of the abstract specification or leaves its
variables unchanged, from the invariant that is already proved plus the strengthening named above; PTL combines them.
What such a theorem adds to the invariants: they say which states are possible, the refinement which *changes* are.
NamesStayWhole allows a name to turn from any whole binary to any other, ReleaseImplemented only forward or by a
rollback; MixedNeedsDisturbance allows a stored target to be replaced at any time, TargetStoreImplemented only by
the post that was adopted. ServiceImplemented is the safety half of ImplementsService. Seven theorems state properties
that no run checks any more; for six of them a refinement beside them does the work of a run: RestartsReplace
(NoLiveProcessBetweenLaunches), StatusWithdrawn (NoStaleReady), UpdateKeepsFallback (FallbackKept), BranchOnlyMovesForward
(NoFileGoesBack), MixedNeedsDisturbance (MixedOnlyIfDisturbed) and StoredValuesSurvive (StoredConfigKept); the
seventh is CloudflaredComesLast (LaunchedInOrder).

`Lifecycle` is composed with the contract of its supervisor by construction: its tunnel steps are the actions of
`TunnelService`, which `supervisor` and ServiceImplemented establish, and Boot begins the contract anew. What the process
adds to it is the order of its start, which is CloudflaredComesLast (`LaunchedInOrder` in `Lifecycle`): a cloudflared lives
only in a process that has read its configuration, has a file to launch, whole or not, and waits for the supervisor
until that has given it up.

*Only model-checked:* the properties under fairness, that is CrashIsNoticed, NotReadySpellEnds and the liveness half of
ImplementsService (`supervisor`), EventsAnswered (`lifecycle`), EveryHostnameExported (`linkexport`), EveryChangeAnswered
(`ciwatcher`), CatchesUp and StaleSessionNoticed (`dashboard`). They need `ENABLED`, which is out of the prover's reach.
Every invariant and every action property of a passing run is also a theorem. The prover cannot do induction over data
with the installed backends either; nothing here needs it, as the parsers are modelled entry by
entry and the quoting byte by byte.

## 6. Disagreements between the code and its text

Each of these has a run that TLC finds violated.

1. **Supervisor, NoOrphan.** `watch` waits for the subprocess only in its `ctx.Done()` case. If another case is taken
   while the context is already done, `Run` interrupts cloudflared and returns at once, against the comment at
   supervisor.go:124-129. What does hold is that a survivor was interrupted (theorem SurvivorsInterrupted).
2. **SelfUpdate, RollbackConsumesPrev.** An update that stops between the link and the rename leaves `.prev` and the
   executable as one inode; rename of one onto the other then does nothing, so that `--rollback` "succeeds" for ever
   (rollback.go:13-18, README.md:162-163 say the second one fails).
3. **CIWatcher, ChangeIsUploaded.** `checkAndUpload` remembers the mtime before it looks at the debounce, so that a
   change inside the debounce is never uploaded (watcher.go:26-28).
4. **CfDeploy, NeverBlocksStartup.** API requests have no deadline (client.go:35), although deploy.go:41-42 and
   README.md:197-198 say that provisioning never blocks startup.

These appear in a passing run as a named exception of a property:

5. **LinksWork, a blank identity.** A blank XRAY_UUID, LOG_PASSWORD or WORKER_PASSWORD is drawn at *every* start and not
   written back (config.go:168-173; the comment at config.go:97-107 says so), while install.sh:64 and :92, README.md:190
   and docs/architecture.md:132 and :143-144 say "on first run" or "generated once". The default answer of install.sh
   leaves XRAY_UUID blank, and a kill while the first start writes `.env` leaves an empty file for good; exported links
   are then refused after a restart until the next export. In CI mode ENV_CONFIG repairs the file.
6. **LinksWork, HostMatchesToken.** `BuildLinks` prefers WS_HOST over the hostname of a quick tunnel that was started
   because provisioning failed (links.go:22-27); architecture.md:135 says it is overridden. None of the links work then.
7. **LinksWork, an IPv6 address without brackets** as first entry of PORT: xray-core listens on it, and neither
   cloudflared nor the probe can dial what `TunnelTarget` and main.go:240-244 make of it.
8. **NamesStayWhole, an installation.** install.sh puts its binary in place (180) before it verifies it (187-206). One
   that does not verify stays there, for systemd's next restart, and for the `.prev` of a later update, which
   rollback.go:16-18 takes to be verified. It marks executable (181) and hashes (194-199) whatever its path names by
   then: after an update in between, `.prev` names a file that is neither verified nor executable, and after one
   before the hash the file that was checked is not the one that was installed. Its smoke test (255-267) can be answered by the service that is still running
   (it is stopped at 310-314), against README.md:83-87. Under `set -euo pipefail` the warning at 191-192 is unreachable:
   the failed `grep` ends the script first.

And this one is a matter of reading, with no property: the check that refuses to start without LOG_PASSWORD
(main.go:96, README.md:110-118) never refuses, since `fromEnv` has drawn one, which is not shown.

## 7. Assumptions and known limits

* A Cloudflare request acts before its answer or never; one account; every run uses the same `WS_HOST`. `exclusive`
  (runs or invocations do not overlap), `unique` (the account refuses a second object of one name) and `paged` (the
  list of namespaces may hide one beyond the first page) are circumstances chosen in Init, so that each property says
  under which of them it holds.
* A KV put takes effect once, by the time it returns; until KV has settled a get returns the stored value or any
  earlier one. An isolate that read a value no longer stored is among those MixedOnlyIfDisturbed and TargetStore
  name (`torn`); every theorem about the Worker holds with this KV.
* `os.WriteFile` is a truncation and one write. `rename` and `link` are atomic; rename of two links of one inode does
  nothing (POSIX).
* `Lifecycle` has the dashboard on (the default). Configuration that leaves it off removes the two tickers.
* One operator answers the questions of install.sh, so that two installations do not overlap; updates and rollbacks may
  overlap with it. The script is modelled from its download on, in an existing installation.
* In `Configuration` a port is a number; that it fits sixteen bits is not checked by the code either. An address
  is one of six ways to write one, IPv6 is the loopback; an entry of the form ":port" is left out.

Behaviours a reader should know of, which the models have but which no text contradicts clearly, or which lie outside a
property:

* Two launches that follow closely can export at once: the files may end with the older hostname, or with bytes of
  both. LoneExportStands says when this is excluded.
* In the Worker, a load that is in its awaits while `/setapi` is handled overwrites the new target of the isolate with
  the old one; and a warm isolate never reads KV again.
* After a restart of the process, a page that was not reloaded asks from its old line number and shows nothing until
  the new process has written as many lines. A late 401 can log a fresh session out. A logout request that fails
  leaves the session alive behind the login form.
* The CI self-exit is `os.Exit` and leaves cloudflared to the end of the job (timer.go); NoneLeftBehind names it,
  the kill and the ten-second bound as its exceptions.
* A CI job and its successor overlap for forty minutes and both force-push one branch. What one pushes over the other
  stays until a file of the other changes again: SeenIsPublished, EveryChangeAnswered and Mirror (Override) name it, for
  the job before this one and for the one after it.
* An export between the two reads of `handleVlessInfo` (server.go:223) answers the links of one tunnel with the hostname
  of another; AnswersAgree is about the answers that no export overlaps.
* A cloudflared that is blocked on its log pipe, since bufio.Scanner stops at a long line, is not modelled itself: the
  polls that then fail are.
* The bridge sends its dispatch once; when it fails, or GitHub does not answer (the client has no timeout), the chain
  ends with the job. The branch it names is what follows the last slash of GITHUB_REF: "feature/x" becomes "x".
* The smoke test of install.sh is one more run of the program beside the service: its provisioning is one of
  the overlapping runs of `CfDeploy`.
* A poll whose body does not decode leaves the status as it was: a cloudflared that answers so for ever stays "ready".
* A cloudflared file that was cut by a kill is trusted and launched at every later start (download.go:90-99 accepts
  this).

## 8. Not modelled

* *Text and encoding*: the bytes of links, the path apart, and of config.yml, remarks of FAKE_SNI, release JSON, log
  lines beyond what the hostname parser tells apart, credential redaction, the page's layout and its QR encoder.
* *Numbers*: traffic rates and their history (`RecordTraffic`, `/stats`): differences of two totals over a measured
  time, under one lock.
* *Proxying itself*: xray-core and cloudflared, the rewriting of URLs and the transport in worker.js.
* *Interactive and platform parts*: the questions of install.sh, the unpacking of the cloudflared archive.
* *Not part of the service*: the smoke test of xray-core, the test double of cloudflared, the build workflow.

## 9. Plan

Done, in this order, the behaviour users depend on first: the supervisor and its contract; self-update; CI watcher;
link export; Worker; provisioning; dashboard; lifecycle over the contract; the configuration and what four parts make
of it, with the identity across restarts, in `Lifecycle`; the readers of the exported files and the hostname parser,
in `LinkExport`; the hours of a CI job, its bridge and the job before it, in `CIWatcher`; the installer, in
`SelfUpdate`; an invariant or action theorem for each safety property; the abstract specifications `InstalledRelease`,
`Mirror`, `TargetStore`, `Hosting`, `LogView` and `Publication`, each with its refinement proved; the successor's pushes
in `CIWatcher`, a KV that lags in `WorkerBridge`, the order of the start in `Lifecycle`.

Next:

1. *Status*: the throughput history and `/stats` polls, in `Dashboard`.
2. *A re-installation* that writes another `.env` under a running service, in `Lifecycle`.
