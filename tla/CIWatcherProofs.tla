-------------------------- MODULE CIWatcherProofs --------------------------
(***************************************************************************)
(* Proofs about CIWatcher for any number of files, writes and retries, and *)
(* with or without git failures and other jobs that push beside it: what   *)
(* the watcher takes for unchanged is published, no file of the branch     *)
(* goes back to older bytes, and a job hands over at most once.            *)
(***************************************************************************)
EXTENDS CIWatcher, TLAPS

\* The attempt after a backoff is one of those allowed, and a branch is
\* checked out before it is committed to.
InOrder ==
    /\ w = "backoff" => attempt < Retries
    /\ w \in {"commit", "push"} => local # NoBranch

\* The clone is between the branch and the files: it has everything pushed
\* so far, and nothing the exporter has not written.
CloneBetween ==
    /\ local # NoBranch =>
          \A f \in Files : remote[f] <= local[f] /\ local[f] <= file[f]
    /\ local = NoBranch => remote \in {NoBranch, EmptyTree}

\* A change that was seen is in the clone, dropped, or being uploaded, with
\* its bytes already in the clone once they are to be pushed; and it is on
\* the branch too while no other job has pushed over it.
SeenIsHandled ==
    /\ \A f \in Files :
          \/ seen[f] = 0 \/ dropped[f] \/ w = "stopped"
          \/ f = cur /\ w \in Uploading
          \/ local[f] >= seen[f] /\ (overridden \/ remote[f] >= seen[f])
    /\ \A f \in Files : seen[f] <= file[f]
    /\ w = "push" => local[cur] >= seen[cur]

\* The bridge has posted its dispatch at most once: while it waits, fetches
\* or is off there is no successor; and nothing is posted before the previous
\* job ended.
PostedOnce ==
    /\ bridge \in {"off", "waiting", "fetching", "posting"} => successors = 0
    /\ successors <= 1
    /\ bridge = "done" => successors = 1
    /\ bridge = "waiting" => hour = "early" \/ ctx = "done"
    /\ previous => bridge \in {"off", "waiting"}
    /\ BridgeWorkflows /\ bridge = "off" => ctx = "done"

IInv == TypeOK /\ InOrder /\ CloneBetween /\ SeenIsHandled /\ PostedOnce

LEMMA TypeInit == Init => TypeOK
<1>1. Init => BridgeTypeOK
  BY CIBridgeAssumption DEF Init, BridgeTypeOK, BridgeInit
<1>2. Init => overridden \in BOOLEAN  BY Zenon DEF Init
<1>3. QED
  BY <1>1, <1>2, CIWatcherAssumption
  DEF Init, TypeOK, Uploading, Files, EmptyTree, NoBranch, Tree

LEMMA NextPathType ==
    ASSUME TypeOK, NextPath
    PROVE  cur' \in Files /\ w' \in {"stat", "sleep"}
BY CIWatcherAssumption DEF TypeOK, NextPath, Files

LEMMA FailedType ==
    ASSUME TypeOK, Failed
    PROVE  /\ cur' \in Files
           /\ w' \in {"stat", "sleep", "backoff"}
           /\ dropped' \in [Files -> BOOLEAN]
           /\ w' = "backoff" => attempt < Retries
BY NextPathType, CIWatcherAssumption DEF Failed, TypeOK

LEMMA TreeTypes == EmptyTree \in Tree /\ NoBranch \in Tree /\ EmptyTree # NoBranch
<1>1. 1 \in Files  BY CIWatcherAssumption DEF Files
<1>2. EmptyTree[1] # NoBranch[1]  BY <1>1 DEF EmptyTree, NoBranch
<1>3. QED  BY <1>2, CIWatcherAssumption DEF EmptyTree, Tree

\* A step of the bridge, of the clock or of the caller leaves the watcher alone.
BridgeStep == (Bridge \/ Cancel \/ PreviousJobEnds) /\ UNCHANGED jobVars

LEMMA BridgeTypeStep == BridgeTypeOK /\ BridgeStep => BridgeTypeOK'
<1> SUFFICES ASSUME BridgeTypeOK, BridgeStep
             PROVE  BridgeTypeOK'
  OBVIOUS
<1> USE DEF BridgeTypeOK
<1>1. CASE BridgeDelay  BY <1>1 DEF BridgeDelay
<1>2. CASE BridgeCancelled  BY <1>2 DEF BridgeCancelled
<1>3. CASE FetchWorkflowID  BY <1>3 DEF FetchWorkflowID
<1>4. CASE Dispatch  BY <1>4 DEF Dispatch
<1>5. CASE Cancel  BY <1>5 DEF Cancel
<1>6. CASE PreviousJobEnds  BY <1>6 DEF PreviousJobEnds
<1>7. QED  BY <1>1, <1>2, <1>3, <1>4, <1>5, <1>6 DEF BridgeStep, Bridge

LEMMA TypeStep == TypeOK /\ InOrder /\ [Next]_vars => TypeOK' /\ InOrder'
<1> SUFFICES ASSUME TypeOK, InOrder, [Next]_vars
             PROVE  TypeOK' /\ InOrder'
  OBVIOUS
<1> USE CIWatcherAssumption DEF TypeOK, InOrder, Uploading, bridgeVars, BridgeTypeOK
<1>1. CASE Tick  BY <1>1 DEF Tick, Files
<1>2. CASE Stop  BY <1>2 DEF Stop
<1>3. CASE Check
  <2>1. CASE StatMissing  BY <2>1, NextPathType DEF StatMissing
  <2>2. CASE StatUnchanged  BY <2>2, NextPathType DEF StatUnchanged
  <2>3. CASE StatDebounced  BY <2>3, NextPathType DEF StatDebounced
  <2>4. CASE StatChanged  BY <2>4 DEF StatChanged
  <2>5. QED  BY <1>3, <2>1, <2>2, <2>3, <2>4 DEF Check
<1>4. CASE Upload
  <2>1. CASE Sync  BY <2>1, TreeTypes DEF Sync
  <2>2. CASE SyncHalf  BY <2>2, FailedType, TreeTypes DEF SyncHalf
  <2>3. CASE Commit
    <3>1. local' \in Tree
      BY <2>3 DEF Commit, Tree
    <3>2. local' # NoBranch
      <4>1. local'[cur] # NoBranch[cur]  BY <2>3 DEF Commit, Tree, NoBranch
      <4>2. QED  BY <4>1
    <3>3. QED  BY <2>3, <3>1, <3>2 DEF Commit
  <2>4. CASE Push  BY <2>4, NextPathType DEF Push
  <2>5. CASE PushUnconfirmed  BY <2>5, FailedType DEF PushUnconfirmed
  <2>6. CASE GitError  BY <2>6, FailedType DEF GitError
  <2>7. CASE Retry  BY <2>7 DEF Retry
  <2>8. CASE RetryCancelled  BY <2>8, NextPathType DEF RetryCancelled
  <2>9. QED  BY <1>4, <2>1, <2>2, <2>3, <2>4, <2>5, <2>6, <2>7, <2>8 DEF Upload
<1>5. ASSUME NEW f \in Files, Write(f) \/ DebounceElapsed(f)
      PROVE  TypeOK' /\ InOrder'
  <2>1. CASE Write(f)
    <3>1. file' \in [Files -> 0..MaxWrites]  BY <2>1 DEF Write
    <3>2. QED  BY <2>1, <3>1 DEF Write
  <2>2. CASE DebounceElapsed(f)  BY <2>2 DEF DebounceElapsed
  <2>3. QED  BY <1>5, <2>1, <2>2
<1>6. CASE OtherJobPush  BY <1>6 DEF OtherJobPush, Tree
<1>7. CASE BridgeStep  BY <1>7, BridgeTypeStep DEF BridgeStep, jobVars
<1>8. CASE Exit  BY <1>8 DEF Exit
<1>9. CASE UNCHANGED vars  BY <1>9 DEF vars, jobVars
<1> HIDE DEF TypeOK, InOrder
<1>10. QED
  BY <1>1, <1>2, <1>3, <1>4, <1>5, <1>6, <1>7, <1>8, <1>9
  DEF Next, Watcher, Over, BridgeStep

THEOREM TypeCorrect == Spec => []TypeOK
<1>1. Init => TypeOK /\ InOrder
  BY TypeInit DEF Init, InOrder
<1>2. QED  BY <1>1, TypeStep, PTL DEF Spec

LEMMA IInvInit == Init => IInv
<1>1. Init => TypeOK /\ InOrder /\ CloneBetween /\ SeenIsHandled
  BY TypeInit, CIWatcherAssumption
     DEF Init, InOrder, CloneBetween, SeenIsHandled, EmptyTree, NoBranch, Files
<1>2. Init => PostedOnce
  BY CIBridgeAssumption DEF Init, BridgeInit, PostedOnce
<1>3. QED  BY <1>1, <1>2 DEF IInv

\* What a commit and a push find in the clone.
LEMMA CheckedOut ==
    ASSUME TypeOK, InOrder, w \in {"commit", "push"}
    PROVE  local \in [Files -> 0..MaxWrites] /\ local # NoBranch
BY DEF TypeOK, InOrder, Tree

LEMMA CommitLocal ==
    ASSUME TypeOK, InOrder, Commit
    PROVE  /\ local' # NoBranch
           /\ \A f \in Files : local'[f] = IF f = cur THEN file[f] ELSE local[f]
<1>1. local \in [Files -> 0..MaxWrites]  BY CheckedOut DEF Commit
<1>2. \A f \in Files : local'[f] = IF f = cur THEN file[f] ELSE local[f]
  BY <1>1 DEF Commit
<1>3. local'[cur] # NoBranch[cur]
  BY <1>2 DEF TypeOK, NoBranch
<1>4. QED  BY <1>2, <1>3

LEMMA CloneStep == IInv /\ [Next]_vars => CloneBetween'
<1> SUFFICES ASSUME IInv, [Next]_vars
             PROVE  CloneBetween'
  OBVIOUS
<1> USE CIWatcherAssumption, TreeTypes
<1> USE DEF IInv, TypeOK, InOrder, CloneBetween, Failed, NextPath
<1>1. CASE Tick \/ Stop \/ BridgeStep \/ UNCHANGED vars
  BY <1>1 DEF Tick, Stop, BridgeStep, jobVars, vars
<1>2. CASE Check
  BY <1>2 DEF Check, StatMissing, StatUnchanged, StatDebounced, StatChanged
<1>3. CASE Upload
  <2>1. CASE Sync  BY <2>1 DEF Sync, EmptyTree, Files
  <2>2. CASE SyncHalf  BY <2>2 DEF SyncHalf, EmptyTree, NoBranch, Files
  <2>3. CASE Commit
    <3>1. local \in [Files -> 0..MaxWrites] /\ local # NoBranch
      BY <2>3, CheckedOut DEF Commit
    <3>2. \A f \in Files : remote[f] \in Int
      BY DEF Tree, NoBranch
    <3>3. /\ local' # NoBranch
          /\ \A f \in Files : local'[f] = IF f = cur THEN file[f] ELSE local[f]
      BY <2>3, CommitLocal
    <3>4. \A f \in Files : remote[f] <= local'[f] /\ local'[f] <= file[f]
      BY <3>1, <3>2, <3>3
    <3>5. QED  BY <2>3, <3>3, <3>4 DEF Commit
  <2>4. CASE Push \/ PushUnconfirmed  BY <2>4 DEF Push, PushUnconfirmed, Tree
  <2>5. CASE GitError  BY <2>5 DEF GitError
  <2>6. CASE Retry \/ RetryCancelled  BY <2>6 DEF Retry, RetryCancelled
  <2>7. QED  BY <1>3, <2>1, <2>2, <2>3, <2>4, <2>5, <2>6 DEF Upload
<1>4. ASSUME NEW f \in Files, Write(f) \/ DebounceElapsed(f)
      PROVE  CloneBetween'
  <2>1. CASE Write(f)  BY <2>1 DEF Write, Tree
  <2>2. CASE DebounceElapsed(f)  BY <2>2 DEF DebounceElapsed
  <2>3. QED  BY <1>4, <2>1, <2>2
<1>5. CASE OtherJobPush
  <2> PICK t \in [Files -> 0..MaxWrites] :
             remote' = t /\ \A f \in Files : t[f] = 0 \/ t[f] <= local[f]
    BY <1>5 DEF OtherJobPush
  <2>1. UNCHANGED <<file, local>>  BY <1>5 DEF OtherJobPush
  <2>2. CASE local = NoBranch
    <3>1. \A f \in Files : t[f] = 0  BY <2>2 DEF NoBranch
    <3>2. t = EmptyTree  BY <3>1 DEF EmptyTree
    <3>3. QED  BY <2>1, <2>2, <3>2
  <2>3. CASE local # NoBranch
    <3>1. local \in [Files -> 0..MaxWrites]  BY <2>3 DEF Tree
    <3>2. \A f \in Files : t[f] <= local[f]  BY <3>1
    <3>3. QED  BY <2>1, <2>3, <3>2
  <2>4. QED  BY <2>2, <2>3
<1>6. CASE Exit
  <2>1. CASE UNCHANGED remote  BY <1>6, <2>1 DEF Exit
  <2>2. CASE w = "push" /\ remote' = local
    BY <1>6, <2>2, CheckedOut DEF Exit
  <2>3. QED  BY <1>6, <2>1, <2>2 DEF Exit
<1> HIDE DEF CloneBetween
<1>7. QED
  BY <1>1, <1>2, <1>3, <1>4, <1>5, <1>6 DEF Next, Watcher, Over, BridgeStep

LEMMA SeenStep == IInv /\ [Next]_vars => SeenIsHandled'
<1> SUFFICES ASSUME IInv, [Next]_vars
             PROVE  SeenIsHandled'
  OBVIOUS
<1> USE CIWatcherAssumption
<1> USE DEF IInv, TypeOK, InOrder, CloneBetween, SeenIsHandled, NextPath, Uploading
<1>1. CASE Tick \/ Stop \/ BridgeStep \/ UNCHANGED vars
  BY <1>1 DEF Tick, Stop, BridgeStep, jobVars, vars
<1>2. CASE Check
  <2>1. CASE StatMissing \/ StatUnchanged
    BY <2>1 DEF StatMissing, StatUnchanged
  <2>2. CASE StatDebounced  BY <2>2 DEF StatDebounced
  <2>3. CASE StatChanged  BY <2>3 DEF StatChanged
  <2>4. QED  BY <1>2, <2>1, <2>2, <2>3 DEF Check
<1>3. CASE Upload
  <2> USE DEF Failed
  <2>1. CASE Sync  BY <2>1, TreeTypes DEF Sync, NoBranch, EmptyTree, Tree
  <2>2. CASE SyncHalf
    <3>1. \A f \in Files : seen[f] \in Nat /\ local[f] = -1
      BY <2>2 DEF SyncHalf, NoBranch
    <3>2. QED  BY <2>2, <3>1 DEF SyncHalf
  <2>3. CASE Commit  BY <2>3 DEF Commit, Tree
  <2>4. CASE Push \/ PushUnconfirmed
    <3>1. local \in [Files -> 0..MaxWrites] /\ local # NoBranch
      BY <2>4, CheckedOut DEF Push, PushUnconfirmed
    <3>2. \A f \in Files : remote[f] <= remote'[f]
      BY <2>4, <3>1 DEF Push, PushUnconfirmed
    <3>3. \A f \in Files : remote[f] \in Int /\ remote'[f] \in Int
      BY <2>4, <3>1 DEF Push, PushUnconfirmed, Tree, NoBranch
    <3>4. remote'[cur] >= seen[cur]
      BY <2>4 DEF Push, PushUnconfirmed
    <3>5. CASE Push  BY <3>2, <3>3, <3>4, <3>5 DEF Push
    <3>6. CASE PushUnconfirmed  BY <3>2, <3>3, <3>4, <3>6 DEF PushUnconfirmed
    <3>7. QED  BY <2>4, <3>5, <3>6
  <2>6. CASE GitError  BY <2>6 DEF GitError
  <2>7. CASE Retry \/ RetryCancelled  BY <2>7 DEF Retry, RetryCancelled
  <2>8. QED  BY <1>3, <2>1, <2>2, <2>3, <2>4, <2>6, <2>7 DEF Upload
<1>4. ASSUME NEW f \in Files, Write(f) \/ DebounceElapsed(f)
      PROVE  SeenIsHandled'
  <2>1. CASE Write(f)  BY <2>1 DEF Write, Tree
  <2>2. CASE DebounceElapsed(f)  BY <2>2 DEF DebounceElapsed
  <2>3. QED  BY <1>4, <2>1, <2>2
<1>5. CASE OtherJobPush  BY <1>5 DEF OtherJobPush
<1>6. CASE Exit  BY <1>6 DEF Exit
<1> HIDE DEF SeenIsHandled
<1>7. QED
  BY <1>1, <1>2, <1>3, <1>4, <1>5, <1>6 DEF Next, Watcher, Over, BridgeStep

LEMMA PostedStep == IInv /\ [Next]_vars => PostedOnce'
<1> SUFFICES ASSUME IInv, [Next]_vars
             PROVE  PostedOnce'
  OBVIOUS
<1> USE CIBridgeAssumption DEF IInv, TypeOK, BridgeTypeOK, PostedOnce
<1>1. CASE UNCHANGED bridgeVars  BY <1>1 DEF bridgeVars
<1>2. CASE BridgeDelay  BY <1>2 DEF BridgeDelay
<1>3. CASE BridgeCancelled  BY <1>3 DEF BridgeCancelled
<1>4. CASE FetchWorkflowID  BY <1>4 DEF FetchWorkflowID
<1>5. CASE Dispatch  BY <1>5 DEF Dispatch
<1>6. CASE Cancel  BY <1>6 DEF Cancel
<1>7. CASE PreviousJobEnds  BY <1>7 DEF PreviousJobEnds
<1>8. CASE Exit  BY <1>8 DEF Exit
<1>9. [Next]_vars => \/ UNCHANGED bridgeVars \/ Exit
                     \/ Bridge \/ Cancel \/ PreviousJobEnds
  BY DEF Next, Watcher, Tick, Stop, Check, StatMissing, StatUnchanged, StatDebounced,
         StatChanged, Upload, Sync, SyncHalf, Commit, Push, PushUnconfirmed, GitError,
         Retry, RetryCancelled, Write, DebounceElapsed, OtherJobPush, Over, vars
<1>10. QED
  BY <1>1, <1>2, <1>3, <1>4, <1>5, <1>6, <1>7, <1>8, <1>9 DEF Bridge

THEOREM IInvAlways == Spec => []IInv
<1>1. IInv /\ [Next]_vars => IInv'
  <2> SUFFICES ASSUME IInv, [Next]_vars
               PROVE  IInv'
    OBVIOUS
  <2>1. TypeOK' /\ InOrder'  BY TypeStep DEF IInv
  <2>2. QED  BY <2>1, CloneStep, SeenStep, PostedStep DEF IInv
<1>2. QED  BY <1>1, IInvInit, PTL DEF Spec

\* Every mtime the watcher will not look at again is published, except for
\* the changes it dropped.
THEOREM UnchangedIsPublished == Spec => []SeenIsPublished
<1>1. IInv => SeenIsPublished
  BY DEF IInv, SeenIsHandled, SeenIsPublished, Uploading
<1>2. QED  BY <1>1, IInvAlways, PTL

\* Whatever becomes of the answer, a job dispatches one successor at most,
\* and one that ran its time out did so, failed or still waits for GitHub.
THEOREM OneSuccessor == Spec => []HandedOverOnce
<1>1. IInv => HandedOverOnce
  BY DEF IInv, TypeOK, BridgeTypeOK, PostedOnce, HandedOverOnce
<1>2. QED  BY <1>1, IInvAlways, PTL

\* Pushing one file of the clone never takes another one back.
THEOREM BranchOnlyMovesForward == Spec => NoFileGoesBack
<1>1. IInv /\ [Next]_vars => [OtherJobPush \/ \A f \in Files : remote'[f] >= remote[f]]_vars
  <2> SUFFICES ASSUME IInv, Next, ~OtherJobPush, NEW f \in Files
               PROVE  remote'[f] >= remote[f]
    OBVIOUS
  <2> USE CIWatcherAssumption DEF IInv, TypeOK, InOrder, CloneBetween, Tree
  <2>1. remote[f] \in Int  BY DEF NoBranch
  <2>2. CASE Sync  BY <2>1, <2>2 DEF Sync, EmptyTree, NoBranch
  <2>3. CASE Push \/ PushUnconfirmed  BY <2>1, <2>3 DEF Push, PushUnconfirmed
  <2>4. CASE SyncHalf  BY <2>1, <2>4 DEF SyncHalf, EmptyTree, NoBranch
  <2>5. CASE Exit  BY <2>1, <2>5 DEF Exit
  <2>6. CASE UNCHANGED remote  BY <2>1, <2>6
  <2>7. QED
    BY <2>2, <2>3, <2>4, <2>5, <2>6
    DEF Next, Watcher, Tick, Stop, Check, StatMissing, StatUnchanged, StatDebounced,
        StatChanged, Upload, Commit, GitError, Retry, RetryCancelled, Write,
        DebounceElapsed, jobVars, Over, vars
<1>2. QED  BY <1>1, IInvAlways, PTL DEF Spec, NoFileGoesBack

-----------------------------------------------------------------------------
(* The branch is a mirror of the files.                                    *)

\* The watcher does not outlive the process.
OverStopped == hour = "over" => w = "stopped"

LEMMA OverStep ==
    ASSUME IInv, OverStopped, [Next]_vars
    PROVE  OverStopped'
<1> USE DEF OverStopped
<1>1. CASE Tick \/ Stop  BY <1>1 DEF Tick, Stop, bridgeVars
<1>2. CASE Check
  BY <1>2 DEF Check, StatMissing, StatUnchanged, StatDebounced, StatChanged, bridgeVars
<1>3. CASE Upload
  BY <1>3 DEF Upload, Sync, SyncHalf, Commit, Push, PushUnconfirmed, GitError, Retry,
              RetryCancelled, bridgeVars
<1>4. ASSUME NEW f \in Files, Write(f) \/ DebounceElapsed(f)
      PROVE  OverStopped'
  BY <1>4 DEF Write, DebounceElapsed, bridgeVars
<1>5. CASE OtherJobPush  BY <1>5 DEF OtherJobPush, bridgeVars
<1>6. CASE BridgeStep
  BY <1>6 DEF BridgeStep, Bridge, BridgeDelay, BridgeCancelled, FetchWorkflowID, Dispatch,
              Cancel, PreviousJobEnds, jobVars
<1>7. CASE Exit  BY <1>7 DEF Exit
<1>8. CASE UNCHANGED vars  BY <1>8 DEF vars, jobVars, bridgeVars
<1>9. QED
  BY <1>1, <1>2, <1>3, <1>4, <1>5, <1>6, <1>7, <1>8 DEF Next, Watcher, Over, BridgeStep

\* Whoever is still to push, the branch has nothing the files have not; an
\* upload may make it, or replace it by the clone.
LEMMA BranchBehind ==
    ASSUME IInv
    PROVE  /\ remote \in [Files -> Int] /\ file \in [Files -> Int]
           /\ \A f \in Files : remote[f] <= file[f] /\ EmptyTree[f] <= file[f]
           /\ remote = NoBranch => \A f \in Files : remote[f] <= EmptyTree[f]
           /\ w = "push" => Branch!Forward \/ remote' # local
           /\ OtherJobPush =>
                /\ remote' \in [Files -> Int]
                /\ \A f \in Files : 0 <= remote'[f] /\ remote'[f] <= file[f]
<1> USE CIWatcherAssumption
    DEF IInv, TypeOK, InOrder, CloneBetween, Tree, NoBranch, EmptyTree, Branch!Forward
<1>1. remote \in [Files -> Int] /\ file \in [Files -> Int]  OBVIOUS
<1>2. \A f \in Files : remote[f] <= file[f] /\ EmptyTree[f] <= file[f]  OBVIOUS
<1>3. remote = NoBranch => \A f \in Files : remote[f] <= EmptyTree[f]  OBVIOUS
<1>4. ASSUME w = "push", remote' = local
      PROVE  Branch!Forward
  BY <1>4
<1>5. ASSUME OtherJobPush
      PROVE  /\ remote' \in [Files -> Int]
             /\ \A f \in Files : 0 <= remote'[f] /\ remote'[f] <= file[f]
  <2>1. PICK t \in [Files -> 0..MaxWrites] :
               remote' = t /\ \A f \in Files : t[f] = 0 \/ t[f] <= local[f]
    BY <1>5 DEF OtherJobPush
  <2>2. \A f \in Files : local[f] \in Int /\ local[f] <= file[f]  OBVIOUS
  <2>3. QED  BY <2>1, <2>2
<1>6. QED  BY <1>1, <1>2, <1>3, <1>4, <1>5

\* The steps that keep the hour and the files: they publish, or leave the
\* branch as it is, or are another job's.
LEMMA UploadStep ==
    ASSUME IInv, OverStopped, Watcher \/ OtherJobPush
    PROVE  Branch!Publish \/ Branch!Override \/ UNCHANGED Branch!vars
<1>1. UNCHANGED <<file, hour, previous, successors>>
  BY DEF Watcher, Tick, Stop, Check, StatMissing, StatUnchanged, StatDebounced, StatChanged,
         Upload, Sync, SyncHalf, Commit, Push, PushUnconfirmed, GitError, Retry,
         RetryCancelled, OtherJobPush, bridgeVars
<1>2. CASE UNCHANGED remote  BY <1>1, <1>2 DEF Branch!vars
<1>3. CASE Sync /\ remote' # remote
  <2>1. remote = NoBranch /\ remote' = EmptyTree /\ hour # "over"
    BY <1>3 DEF Sync, OverStopped
  <2>2. EmptyTree \in [Files -> Int]  BY DEF EmptyTree
  <2>3. Branch!Forward  BY <2>1, <2>2, BranchBehind DEF Branch!Forward
  <2>4. QED  BY <1>1, <2>1, <2>3 DEF Branch!Publish
<1>4. CASE Push \/ PushUnconfirmed
  <2>1. Branch!Forward  BY <1>4, BranchBehind DEF Push, PushUnconfirmed
  <2>2. hour # "over"  BY <1>4 DEF Push, PushUnconfirmed, OverStopped
  <2>3. QED  BY <1>1, <2>1, <2>2 DEF Branch!Publish
<1>5. CASE (SyncHalf \/ OtherJobPush) /\ remote' # remote
  <2>1. previous \/ successors > 0
    BY <1>5 DEF SyncHalf, OtherJobPush, OtherJob
  <2>2. /\ remote' \in [Files -> Int]
        /\ \A f \in Files : 0 <= remote'[f] /\ remote'[f] <= file[f]
    <3>1. CASE OtherJobPush  BY <3>1, BranchBehind
    <3>2. CASE SyncHalf /\ remote' = EmptyTree  BY <3>2, BranchBehind DEF EmptyTree
    <3>3. QED  BY <1>5, <3>1, <3>2 DEF SyncHalf
  <2>3. QED  BY <1>1, <2>1, <2>2 DEF Branch!Override
<1>6. QED
  BY <1>2, <1>3, <1>4, <1>5
  DEF Watcher, Tick, Stop, Check, StatMissing, StatUnchanged, StatDebounced, StatChanged,
      Upload, Commit, GitError, Retry, RetryCancelled

LEMMA MirrorStep ==
    ASSUME IInv, OverStopped, [Next]_vars
    PROVE  [Branch!Next]_(Branch!vars)
<1>1. CASE Watcher \/ OtherJobPush
  BY <1>1, UploadStep DEF Branch!Next
<1>2. ASSUME NEW f \in Files, Write(f)
      PROVE  Branch!Next
  BY <1>2 DEF Write, bridgeVars, Branch!Next, Branch!Write
<1>3. ASSUME NEW f \in Files, DebounceElapsed(f)
      PROVE  UNCHANGED Branch!vars
  BY <1>3 DEF DebounceElapsed, bridgeVars, Branch!vars
<1>4. CASE BridgeStep
  <2>1. CASE PreviousJobEnds
    <3>1. successors = 0
      BY <2>1 DEF IInv, PostedOnce, PreviousJobEnds
    <3>2. QED
      BY <1>4, <2>1, <3>1
      DEF BridgeStep, jobVars, PreviousJobEnds, Branch!Next, Branch!OtherEnds
  <2>2. CASE Dispatch
    <3>1. ~previous /\ successors = 0 /\ hour # "over"
      BY <2>2 DEF IInv, PostedOnce, Dispatch
    <3>2. UNCHANGED <<file, remote, hour, previous>> /\ successors' \in {0, 1}
      BY <1>4, <2>2, <3>1 DEF BridgeStep, jobVars, Dispatch
    <3>3. QED  BY <3>1, <3>2 DEF Branch!Next, Branch!HandOver, Branch!vars
  <2>3. CASE BridgeDelay \/ BridgeCancelled \/ FetchWorkflowID \/ Cancel
    BY <1>4, <2>3 DEF BridgeStep, jobVars, BridgeDelay, BridgeCancelled,
                      FetchWorkflowID, Cancel, Branch!vars
  <2>4. QED  BY <1>4, <2>1, <2>2, <2>3 DEF BridgeStep, Bridge
<1>5. CASE Exit
  <2>1. Branch!Forward
    BY <1>5, BranchBehind DEF Exit, Branch!Forward
  <2>2. QED
    BY <1>5, <2>1 DEF Exit, Branch!Next, Branch!End
<1>6. CASE UNCHANGED vars
  BY <1>6 DEF vars, jobVars, bridgeVars, Branch!vars
<1>7. QED
  BY <1>1, <1>2, <1>3, <1>4, <1>5, <1>6 DEF Next, Over, BridgeStep

\* The watcher, its retries and the end of the job implement the mirror.
THEOREM MirrorImplemented == Spec => ImplementsMirror
<1>1. Init => OverStopped  BY DEF Init, BridgeInit, OverStopped
<1>2. Init => Branch!Init
  BY DEF Init, BridgeInit, EmptyTree, NoBranch, Branch!Init, Branch!Empty
<1>3. QED
  BY <1>1, <1>2, MirrorStep, OverStep, IInvAlways, PTL DEF Spec, ImplementsMirror, Branch!Spec

=============================================================================
