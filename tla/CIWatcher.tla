----------------------------- MODULE CIWatcher -----------------------------
(***************************************************************************)
(* The --ci-mode watcher of internal/ci: WatchAndUpload polls the exported *)
(* files and pushes a changed one to the config branch through a clone of  *)
(* its own (UploadFile), while exportLinks keeps rewriting the files.      *)
(*                                                                         *)
(* The mtime of a file and its bytes are one number, which grows with      *)
(* every write: os.WriteFile is two of them, the truncation (odd, partial  *)
(* bytes) and the completion (even).  Uploads of one job are sequential,   *)
(* but the jobs of a chain overlap (CIBridge): the previous one until it   *)
(* ends, and the successor from the dispatch on, push trees of their own   *)
(* to the same branch, by force.  Bytes another job wrote count as 0.      *)
(***************************************************************************)
EXTENDS CIBridge

CONSTANTS
    NumFiles,   \* the watched paths are 1..NumFiles, in order
    MaxWrites,  \* bound on the writes of each file
    Retries,    \* uploadRetries
    GitFails    \* may git commands fail?

ASSUME CIWatcherAssumption ==
    /\ NumFiles \in Nat \ {0}
    /\ MaxWrites \in Nat
    /\ Retries \in Nat \ {0}
    /\ GitFails \in BOOLEAN

VARIABLES
    file,     \* the bytes (and mtime) of each path, 0 while it does not exist
    seen,     \* state.lastMtime, 0 while haveLastMtime is false
    recent,   \* is the last upload at most uploadDebounce old?
    w,        \* where the watcher is
    cur,      \* the path it is at
    attempt,  \* the upload attempt it is at
    local,    \* the config branch of the clone, NoBranch before the checkout
    remote,   \* the config branch on GitHub
    dropped,     \* the changes seen and not uploaded (history)
    overridden   \* another job pushed after this one's last push (history)

jobVars == <<file, seen, recent, w, cur, attempt, local, remote, dropped, overridden>>
vars == <<jobVars, bridgeVars>>

Files == 1..NumFiles
NoBranch == [f \in Files |-> -1]
EmptyTree == [f \in Files |-> 0]
Tree == [Files -> 0..MaxWrites] \cup {NoBranch}
Uploading == {"sync", "commit", "push", "backoff"}

TypeOK ==
    /\ file \in [Files -> 0..MaxWrites]
    /\ seen \in [Files -> 0..MaxWrites]
    /\ recent \in [Files -> BOOLEAN]
    /\ w \in {"sleep", "stat", "stopped"} \cup Uploading
    /\ cur \in Files
    /\ attempt \in 1..Retries
    /\ local \in Tree
    /\ remote \in Tree
    /\ dropped \in [Files -> BOOLEAN]
    /\ overridden \in BOOLEAN
    /\ BridgeTypeOK

Init ==
    /\ file = EmptyTree
    /\ seen = EmptyTree
    /\ recent = [f \in Files |-> FALSE]
    /\ w = "sleep"
    /\ cur = 1
    /\ attempt = 1
    /\ local = NoBranch
    /\ remote \in {NoBranch, EmptyTree}
    /\ dropped = [f \in Files |-> FALSE]
    /\ overridden = FALSE
    /\ BridgeInit

-----------------------------------------------------------------------------
(* The loop and checkAndUpload.                                            *)

Tick ==
    /\ w = "sleep"
    /\ w' = "stat"
    /\ cur' = 1
    /\ UNCHANGED <<file, seen, recent, attempt, local, remote, dropped, overridden, bridgeVars>>

Stop ==
    /\ w = "sleep"
    /\ ctx = "done"
    /\ w' = "stopped"
    /\ UNCHANGED <<file, seen, recent, cur, attempt, local, remote, dropped, overridden, bridgeVars>>

\* checkAndUpload returned: the next path, or the next tick.
NextPath ==
    \/ cur < NumFiles /\ w' = "stat" /\ cur' = cur + 1
    \/ cur = NumFiles /\ w' = "sleep" /\ UNCHANGED cur

StatMissing ==
    /\ w = "stat"
    /\ file[cur] = 0
    /\ NextPath
    /\ UNCHANGED <<file, seen, recent, attempt, local, remote, dropped, overridden, bridgeVars>>

StatUnchanged ==
    /\ w = "stat"
    /\ file[cur] # 0 /\ file[cur] = seen[cur]
    /\ NextPath
    /\ UNCHANGED <<file, seen, recent, attempt, local, remote, dropped, overridden, bridgeVars>>

\* The new mtime is remembered before the debounce is looked at.
StatDebounced ==
    /\ w = "stat"
    /\ file[cur] # seen[cur] /\ recent[cur]
    /\ seen' = [seen EXCEPT ![cur] = file[cur]]
    /\ dropped' = [dropped EXCEPT ![cur] = TRUE]
    /\ NextPath
    /\ UNCHANGED <<file, recent, attempt, local, remote, overridden, bridgeVars>>

StatChanged ==
    /\ w = "stat"
    /\ file[cur] # seen[cur] /\ ~recent[cur]
    /\ seen' = [seen EXCEPT ![cur] = file[cur]]
    /\ w' = "sync"
    /\ attempt' = 1
    /\ UNCHANGED <<file, recent, cur, local, remote, dropped, overridden, bridgeVars>>

\* Mutant: one attempt too many.
FailedOffByOne ==
    \/ /\ attempt <= Retries
       /\ w' = "backoff"
       /\ UNCHANGED <<cur, dropped>>
    \/ /\ attempt > Retries
       /\ dropped' = [dropped EXCEPT ![cur] = TRUE]
       /\ NextPath

\* An attempt failed: wait and retry, or give the change up.
Failed ==
    \/ /\ attempt < Retries
       /\ w' = "backoff"
       /\ UNCHANGED <<cur, dropped>>
    \/ /\ attempt = Retries
       /\ dropped' = [dropped EXCEPT ![cur] = TRUE]
       /\ NextPath

Retry ==
    /\ w = "backoff"
    /\ w' = "sync"
    /\ attempt' = attempt + 1
    /\ UNCHANGED <<file, seen, recent, cur, local, remote, dropped, overridden, bridgeVars>>

\* checkAndUpload leaves the retry loop when the context is done.
RetryCancelled ==
    /\ w = "backoff"
    /\ ctx = "done"
    /\ dropped' = [dropped EXCEPT ![cur] = TRUE]
    /\ NextPath
    /\ UNCHANGED <<file, seen, recent, attempt, local, remote, overridden, bridgeVars>>

-----------------------------------------------------------------------------
(* UploadFile: clone and fetch, check the branch out, commit, push.        *)

\* Mutant: the orphan branch is made afresh for every upload.
SyncAlwaysOrphan ==
    /\ w = "sync"
    /\ ctx = "live"
    /\ w' = "commit"
    /\ local' = EmptyTree
    /\ remote' = IF remote = NoBranch THEN EmptyTree ELSE remote
    /\ UNCHANGED <<file, seen, recent, cur, attempt, dropped, overridden, bridgeVars>>

\* The clone keeps its own branch; fetch --all never moves it.  A missing
\* branch is created empty, locally and on GitHub.
Sync ==
    /\ w = "sync"
    /\ ctx = "live"
    /\ w' = "commit"
    /\ \/ local # NoBranch /\ UNCHANGED <<local, remote>>
       \/ local = NoBranch /\ remote # NoBranch /\ local' = remote /\ UNCHANGED remote
       \/ local = NoBranch /\ remote = NoBranch /\ local' = EmptyTree /\ remote' = EmptyTree
    /\ UNCHANGED <<file, seen, recent, cur, attempt, dropped, overridden, bridgeVars>>

\* The push of the new orphan branch fails after the local commit, as it
\* does when another job made the branch after the fetch: this push is
\* not forced.
SyncHalf ==
    /\ w = "sync"
    /\ local = NoBranch /\ remote = NoBranch
    /\ \/ GitFails /\ UNCHANGED <<remote, overridden>>
       \/ OtherJob /\ remote' = EmptyTree /\ overridden' = TRUE
    /\ local' = EmptyTree
    /\ Failed
    /\ UNCHANGED <<file, seen, recent, attempt, bridgeVars>>

\* Mutant: a file that is already in the clone is not copied again.
CommitOnce ==
    /\ w = "commit"
    /\ ctx = "live"
    /\ local' = [local EXCEPT ![cur] = IF @ = 0 THEN file[cur] ELSE @]
    /\ w' = "push"
    /\ UNCHANGED <<file, seen, recent, cur, attempt, remote, dropped, overridden, bridgeVars>>

\* copyFile, git add, git commit --allow-empty.
Commit ==
    /\ w = "commit"
    /\ ctx = "live"
    /\ local' = [local EXCEPT ![cur] = file[cur]]
    /\ w' = "push"
    /\ UNCHANGED <<file, seen, recent, cur, attempt, remote, dropped, overridden, bridgeVars>>

\* Mutant: the mtime is remembered after the upload, not before it.
PushThenStat ==
    /\ w = "push"
    /\ ctx = "live"
    /\ remote' = local
    /\ overridden' = FALSE
    /\ recent' = [recent EXCEPT ![cur] = TRUE]
    /\ dropped' = [dropped EXCEPT ![cur] = FALSE]
    /\ seen' = [seen EXCEPT ![cur] = file[cur]]
    /\ NextPath
    /\ UNCHANGED <<file, attempt, local, bridgeVars>>

\* git push --force: GitHub's branch becomes the local one.
Push ==
    /\ w = "push"
    /\ ctx = "live"
    /\ remote' = local
    /\ overridden' = FALSE
    /\ recent' = [recent EXCEPT ![cur] = TRUE]
    /\ dropped' = [dropped EXCEPT ![cur] = FALSE]
    /\ NextPath
    /\ UNCHANGED <<file, seen, attempt, local, bridgeVars>>

\* The push arrived, but git or the rev-parse after it reported an error.
PushUnconfirmed ==
    /\ w = "push"
    /\ GitFails \/ ctx = "done"
    /\ remote' = local
    /\ overridden' = FALSE
    /\ Failed
    /\ UNCHANGED <<file, seen, recent, attempt, local, bridgeVars>>

GitError ==
    /\ w \in {"sync", "commit", "push"}
    /\ GitFails \/ ctx = "done"
    /\ Failed
    /\ UNCHANGED <<file, seen, recent, attempt, local, remote, overridden, bridgeVars>>

-----------------------------------------------------------------------------
(* exportLinks in the same process, the clock, the shutdown.               *)

Write(f) ==
    /\ file[f] < MaxWrites /\ hour # "over"
    /\ file' = [file EXCEPT ![f] = @ + 1]
    /\ UNCHANGED <<seen, recent, w, cur, attempt, local, remote, dropped, overridden,
                   bridgeVars>>

DebounceElapsed(f) ==
    /\ recent[f] /\ hour # "over"
    /\ recent' = [recent EXCEPT ![f] = FALSE]
    /\ UNCHANGED <<file, seen, w, cur, attempt, local, remote, dropped, overridden,
                   bridgeVars>>

\* The same push, by force, in another job of the chain: each file as it wrote
\* it, or as it cloned it, which is at most what this job's clone has.
OtherJobPush ==
    /\ OtherJob
    /\ \E t \in [Files -> 0..MaxWrites] :
          /\ \A f \in Files : t[f] = 0 \/ t[f] <= local[f]
          /\ remote' = t
    /\ overridden' = TRUE
    /\ UNCHANGED <<file, seen, recent, w, cur, attempt, local, dropped, bridgeVars>>

\* The process ends, after a shutdown or by the timer's os.Exit: nothing
\* waits for the watcher, and a git push under way may still arrive.
Exit ==
    /\ hour # "over"
    /\ ctx = "done" \/ hour = "late"
    /\ hour' = "over"
    /\ w' = "stopped"
    /\ \/ UNCHANGED <<remote, overridden>>
       \/ w = "push" /\ remote' = local /\ overridden' = FALSE
    /\ UNCHANGED <<file, seen, recent, cur, attempt, local, dropped, ctx, previous, bridge,
                   successors>>

Over ==
    /\ hour = "over"
    /\ UNCHANGED vars

-----------------------------------------------------------------------------

Check == StatMissing \/ StatUnchanged \/ StatDebounced \/ StatChanged
Upload ==
    \/ Sync \/ SyncHalf \/ Commit \/ Push \/ PushUnconfirmed \/ GitError
    \/ Retry \/ RetryCancelled
Watcher == Tick \/ Stop \/ Check \/ Upload
Bridge == BridgeDelay \/ BridgeCancelled \/ FetchWorkflowID \/ Dispatch

Next ==
    \/ Watcher
    \/ \E f \in Files : Write(f) \/ DebounceElapsed(f)
    \/ OtherJobPush
    \/ (Bridge \/ Cancel \/ PreviousJobEnds) /\ UNCHANGED jobVars
    \/ Exit \/ Over

\* The watcher keeps running, main ends the process some seconds after the
\* context is done, and the seconds of the debounce pass.  Nothing makes the
\* exporter write, the caller cancel, GitHub answer, or another job push or
\* end; nor do the hours pass: what is promised of a quiet file is promised
\* within them.
Fairness ==
    /\ WF_vars(Watcher)
    /\ WF_vars(ctx = "done" /\ Exit)
    /\ \A f \in Files : WF_vars(DebounceElapsed(f))

Spec == Init /\ [][Next]_vars /\ Fairness

-----------------------------------------------------------------------------
(* Properties.                                                             *)

Published(f) == remote[f] = file[f]

\* What the watcher believes unchanged is on the branch: between two ticks
\* the bytes of every mtime it has seen, or newer ones, are published, unless
\* it dropped that change (debounced, out of retries, or cancelled) or another
\* job of the chain has pushed since.  One push of either file repairs both.
SeenIsPublished ==
    \A f \in Files :
        (w = "sleep" \/ w = "stat") /\ seen[f] # 0 /\ ~dropped[f] /\ ~overridden =>
            remote[f] >= seen[f]

\* A push publishes the tree of the clone, all files of it: none of them may
\* go back to older bytes, but for a push of another job.
NoFileGoesBack ==
    [][OtherJobPush \/ \A f \in Files : remote'[f] >= remote[f]]_vars

\* The branch as a mirror of the files.
Branch == INSTANCE Mirror WITH
    source <- file,
    mirror <- remote,
    mine <- hour # "over",
    other <- CASE previous -> "before"
               [] successors > 0 -> "after"
               [] OTHER -> "none"

\* Through retries, failures, torn copies and pushes that report an error but
\* arrived, the branch is a mirror of the files: no push takes one of them
\* back or invents bytes, only another job of the chain does, the one before
\* it until that ends or the one after it once it was dispatched, and this job
\* changes nothing once it is over.
ImplementsMirror == Branch!Spec

\* When the exporter is quiet, every file ends up published as it is, unless
\* its last change was dropped, another job overrode it, or the job ended.
EveryChangeAnswered ==
    \A f \in Files :
        <>[](file[f] = 0 \/ Published(f) \/ dropped[f] \/ overridden \/ w = "stopped")

\* What the comment of WatchAndUpload promises when git never fails: a
\* changed file is uploaded, after the debounce if need be.
ChangeIsUploaded ==
    \A f \in Files : \A n \in 1..MaxWrites :
        (file[f] = n) ~> (remote[f] >= n \/ w = "stopped")

=============================================================================
