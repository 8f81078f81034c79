-------------------------- MODULE SelfUpdateProofs --------------------------
(***************************************************************************)
(* Proofs about SelfUpdate for any set of invocations, run one at a time   *)
(* or together, updates, rollbacks and installations: the executable and   *)
(* its rollback copy stay whole, failed updates leave nothing behind, a    *)
(* stale or stopped service is explained and, one invocation at a time, a  *)
(* finished update leaves the binary it replaced.                          *)
(***************************************************************************)
EXTENDS SelfUpdate, TLAPS

LEMMA TypeInit == Init => TypeOK
BY DEF Init, TypeOK, Inodes

LEMMA TypeStep == TypeOK /\ [Next]_vars => TypeOK'
<1> SUFFICES ASSUME TypeOK, [Next]_vars
             PROVE  TypeOK'
  OBVIOUS
<1>0. exclusive' = exclusive  BY DEF Next, vars
<1> USE <1>0 DEF TypeOK, Goto, files, unit, manual, Active, Ended, Updating, RollingBack, Installing
<1>1. ASSUME NEW p \in Procs, Start(p, "release") \/ Start(p, "stat")
      PROVE  TypeOK'
  BY <1>1 DEF Start
<1>2. ASSUME NEW p \in Procs, Update(p)
      PROVE  TypeOK'
  <2>1. CASE latestRelease(p)  BY <2>1 DEF latestRelease
  <2>2. CASE CreateTemp(p)  BY <2>2 DEF CreateTemp
  <2>3. CASE fetchExpectedHash(p)  BY <2>3 DEF fetchExpectedHash
  <2>4. CASE downloadFile(p)  BY <2>4 DEF downloadFile, Inodes
  <2>5. CASE verifyHash(p)  BY <2>5 DEF verifyHash
  <2>6. CASE RemovePrev(p)  BY <2>6 DEF RemovePrev
  <2>7. CASE LinkPrev(p)  BY <2>7 DEF LinkPrev
  <2>8. CASE Chmod(p)  BY <2>8 DEF Chmod, Inodes
  <2>9. CASE Swap(p)  BY <2>9 DEF Swap, Inodes
  <2>10. CASE UpdateFails(p)  BY <2>10 DEF UpdateFails
  <2>11. QED
    BY <1>2, <2>1, <2>2, <2>3, <2>4, <2>5, <2>6, <2>7, <2>8, <2>9, <2>10 DEF Update
<1>3. ASSUME NEW p \in Procs, Rollback(p)
      PROVE  TypeOK'
  <2>1. CASE StatPrev(p)  BY <2>1 DEF StatPrev
  <2>2. CASE checkWritable(p)  BY <2>2 DEF checkWritable
  <2>3. CASE Restore(p)  BY <2>3 DEF Restore
  <2>4. CASE RollbackFails(p)  BY <2>4 DEF RollbackFails
  <2>5. QED  BY <1>3, <2>1, <2>2, <2>3, <2>4 DEF Rollback
<1>4. ASSUME NEW p \in Procs, Finish(p) \/ Crash(p)
      PROVE  TypeOK'
  BY <1>4 DEF Finish, Restarted, NotRestarted, Crash, Launched
<1>5. ASSUME NEW p \in Procs, Install(p)
      PROVE  TypeOK'
  <2>1. CASE StartInstall(p)  BY <2>1 DEF StartInstall
  <2>2. CASE Wget(p)  BY <2>2 DEF Wget, Inodes
  <2>3. CASE Mv(p)  BY <2>3 DEF Mv, Inodes
  <2>4. CASE ChmodX(p)  BY <2>4 DEF ChmodX, Misses, Inodes
  <2>5. CASE VerifyChecksum(p)  BY <2>5 DEF VerifyChecksum, Misses
  <2>6. CASE SmokeTest(p)  BY <2>6 DEF SmokeTest
  <2>7. CASE Foreground(p)  BY <2>7 DEF Foreground
  <2>8. CASE StopService(p)  BY <2>8 DEF StopService
  <2>9. CASE StartService(p)  BY <2>9 DEF StartService, Launched
  <2>10. CASE InstallFails(p)  BY <2>10 DEF InstallFails
  <2>11. QED
    BY <1>5, <2>1, <2>2, <2>3, <2>4, <2>5, <2>6, <2>7, <2>8, <2>9, <2>10 DEF Install
<1>6. CASE ServiceRestarts  BY <1>6 DEF ServiceRestarts, Launched
<1>7. CASE UNCHANGED vars  BY <1>7 DEF vars
<1>8. QED  BY <1>1, <1>2, <1>3, <1>4, <1>5, <1>6, <1>7 DEF Next, AllEnded

\* Names refer to inodes, and every invocation is at one of its steps.
THEOREM TypeCorrect == Spec => []TypeOK
BY TypeInit, TypeStep, PTL DEF Spec

\* One invocation at a time: only one is active; between its link and its
\* rename .prev names the executable, and what install.sh moved into place
\* stays there until it is verified.
AloneInv ==
    exclusive =>
      /\ \A p, q \in Procs : pc[p] \in Active /\ pc[q] \in Active => p = q
      /\ \A p \in Procs : pc[p] \in {"chmod", "swap"} => prev = exec
      /\ \A p \in Procs : pc[p] \in {"mark", "check"} => exec = p
      /\ missed = {}

LEMMA AloneStep ==
    ASSUME TypeOK, AloneInv, [Next]_vars
    PROVE  AloneInv'
<1>0. exclusive' = exclusive  BY DEF Next, vars
<1> USE <1>0 DEF AloneInv, TypeOK, Goto, files, manual, Active, Ended, Updating, RollingBack, Installing
<1>1. ASSUME NEW p \in Procs, Start(p, "release") \/ Start(p, "stat")
      PROVE  AloneInv'
  BY <1>1 DEF Start
<1>2. ASSUME NEW p \in Procs, Update(p)
      PROVE  AloneInv'
  <2>1. CASE latestRelease(p)  BY <2>1 DEF latestRelease
  <2>2. CASE CreateTemp(p)  BY <2>2 DEF CreateTemp
  <2>3. CASE fetchExpectedHash(p)  BY <2>3 DEF fetchExpectedHash
  <2>4. CASE downloadFile(p)  BY <2>4 DEF downloadFile
  <2>5. CASE verifyHash(p)  BY <2>5 DEF verifyHash
  <2>6. CASE RemovePrev(p)  BY <2>6 DEF RemovePrev
  <2>7. CASE LinkPrev(p)  BY <2>7 DEF LinkPrev
  <2>8. CASE Chmod(p)  BY <2>8 DEF Chmod
  <2>9. CASE Swap(p)  BY <2>9 DEF Swap
  <2>10. CASE UpdateFails(p)  BY <2>10 DEF UpdateFails
  <2>11. QED
    BY <1>2, <2>1, <2>2, <2>3, <2>4, <2>5, <2>6, <2>7, <2>8, <2>9, <2>10 DEF Update
<1>3. ASSUME NEW p \in Procs, Rollback(p)
      PROVE  AloneInv'
  <2>1. CASE StatPrev(p)  BY <2>1 DEF StatPrev
  <2>2. CASE checkWritable(p)  BY <2>2 DEF checkWritable
  <2>3. CASE Restore(p)  BY <2>3 DEF Restore
  <2>4. CASE RollbackFails(p)  BY <2>4 DEF RollbackFails
  <2>5. QED  BY <1>3, <2>1, <2>2, <2>3, <2>4 DEF Rollback
<1>4. ASSUME NEW p \in Procs, Finish(p) \/ Crash(p)
      PROVE  AloneInv'
  BY <1>4 DEF Finish, Restarted, NotRestarted, Crash
<1>5. ASSUME NEW p \in Procs, Install(p)
      PROVE  AloneInv'
  <2>1. CASE StartInstall(p)  BY <2>1 DEF StartInstall
  <2>2. CASE Wget(p)  BY <2>2 DEF Wget
  <2>3. CASE Mv(p)  BY <2>3 DEF Mv
  <2>4. CASE ChmodX(p)  BY <2>4 DEF ChmodX, Misses
  <2>5. CASE VerifyChecksum(p)  BY <2>5 DEF VerifyChecksum, Misses
  <2>6. CASE SmokeTest(p)  BY <2>6 DEF SmokeTest
  <2>7. CASE Foreground(p)  BY <2>7 DEF Foreground
  <2>8. CASE StopService(p)  BY <2>8 DEF StopService
  <2>9. CASE StartService(p)  BY <2>9 DEF StartService, Launched
  <2>10. CASE InstallFails(p)  BY <2>10 DEF InstallFails
  <2>11. QED
    BY <1>5, <2>1, <2>2, <2>3, <2>4, <2>5, <2>6, <2>7, <2>8, <2>9, <2>10 DEF Install
<1>6. CASE ServiceRestarts  BY <1>6 DEF ServiceRestarts
<1>7. CASE UNCHANGED vars  BY <1>7 DEF vars
<1>8. QED  BY <1>1, <1>2, <1>3, <1>4, <1>5, <1>6, <1>7 DEF Next, AllEnded

IInv ==
    /\ TypeOK
    /\ AloneInv
    /\ StepsInOrder
    /\ NamesStayWhole
    /\ StaleServiceExplained
    /\ OutageExplained

LEMMA IInvInit == Init => IInv
BY TypeInit, SelfUpdateAssumption
   DEF Init, IInv, AloneInv, Active, RollingBack, StepsInOrder, NamesStayWhole, Whole, StaleServiceExplained,
       OutageExplained, Inodes, Updating, Installing, Ended

\* What one step keeps of IInv, TypeOK apart.
Kept == StepsInOrder /\ NamesStayWhole /\ StaleServiceExplained /\ OutageExplained

LEMMA IInvStep == IInv /\ [Next]_vars => IInv'
<1> SUFFICES ASSUME IInv, [Next]_vars
             PROVE  Kept'
  BY TypeStep, AloneStep DEF IInv, Kept
<1>0. exclusive' = exclusive  BY DEF Next, vars
<1>1. exclusive' => missed' = {}  BY AloneStep DEF IInv, AloneInv
<1> USE <1>0, <1>1, SelfUpdateAssumption
<1> USE DEF IInv, Kept, StepsInOrder, NamesStayWhole, Unverified, Whole,
            StaleServiceExplained, OutageExplained, TypeOK, Goto, files, unit, manual, Inodes,
            Active, Ended, Updating, RollingBack, Installing
<1>3. ASSUME NEW p \in Procs, Start(p, "release") \/ Start(p, "stat")
      PROVE  Kept'
  BY <1>3 DEF Start
<1>4. ASSUME NEW p \in Procs, Update(p)
      PROVE  Kept'
  <2>1. CASE latestRelease(p)  BY <2>1 DEF latestRelease
  <2>2. CASE CreateTemp(p)  BY <2>2 DEF CreateTemp
  <2>3. CASE fetchExpectedHash(p)  BY <2>3 DEF fetchExpectedHash
  <2>4. CASE downloadFile(p)  BY <2>4 DEF downloadFile
  <2>5. CASE verifyHash(p)  BY <2>5 DEF verifyHash
  <2>6. CASE RemovePrev(p)  BY <2>6 DEF RemovePrev
  <2>7. CASE LinkPrev(p)  BY <2>7 DEF LinkPrev
  <2>8. CASE Chmod(p)  BY <2>8 DEF Chmod
  <2>9. CASE Swap(p)  BY <2>9 DEF Swap
  <2>10. CASE UpdateFails(p)  BY <2>10 DEF UpdateFails
  <2>11. QED
    BY <1>4, <2>1, <2>2, <2>3, <2>4, <2>5, <2>6, <2>7, <2>8, <2>9, <2>10 DEF Update
<1>5. ASSUME NEW p \in Procs, Rollback(p)
      PROVE  Kept'
  <2>1. CASE StatPrev(p)  BY <2>1 DEF StatPrev
  <2>2. CASE checkWritable(p)  BY <2>2 DEF checkWritable
  <2>3. CASE Restore(p)  BY <2>3 DEF Restore
  <2>4. CASE RollbackFails(p)  BY <2>4 DEF RollbackFails
  <2>5. QED  BY <1>5, <2>1, <2>2, <2>3, <2>4 DEF Rollback
<1>6. ASSUME NEW p \in Procs, Finish(p) \/ Crash(p)
      PROVE  Kept'
  <2>1. CASE Restarted(p)  BY <2>1 DEF Restarted, Launched
  <2>2. CASE NotRestarted(p)  BY <2>2 DEF NotRestarted
  <2>3. CASE Crash(p)  BY <2>3 DEF Crash
  <2>4. QED  BY <1>6, <2>1, <2>2, <2>3 DEF Finish
<1>7. ASSUME NEW p \in Procs, Install(p)
      PROVE  Kept'
  <2>1. CASE StartInstall(p)  BY <2>1 DEF StartInstall
  <2>2. CASE Wget(p)  BY <2>2 DEF Wget
  <2>3. CASE Mv(p)  BY <2>3 DEF Mv
  <2>4. CASE ChmodX(p)  BY <2>4 DEF ChmodX, Misses
  <2>5. CASE VerifyChecksum(p)  BY <2>5 DEF VerifyChecksum, Misses
  <2>6. CASE SmokeTest(p)  BY <2>6 DEF SmokeTest
  <2>7. CASE Foreground(p)  BY <2>7 DEF Foreground
  <2>8. CASE StopService(p)  BY <2>8 DEF StopService
  <2>9. CASE StartService(p)  BY <2>9 DEF StartService, Launched
  <2>10. CASE InstallFails(p)  BY <2>10 DEF InstallFails
  <2>11. QED
    BY <1>7, <2>1, <2>2, <2>3, <2>4, <2>5, <2>6, <2>7, <2>8, <2>9, <2>10 DEF Install
<1>8. CASE ServiceRestarts  BY <1>8 DEF ServiceRestarts, Launched
<1>9. CASE UNCHANGED vars  BY <1>9 DEF vars
<1>10. QED
  BY <1>3, <1>4, <1>5, <1>6, <1>7, <1>8, <1>9 DEF Next, AllEnded

THEOREM IInvAlways == Spec => []IInv
BY IInvInit, IInvStep, PTL DEF Spec

\* No failure, kill or overlap of invocations leaves an executable that
\* cannot start, or one that a rollback would install, but for a binary
\* install.sh put in place unverified.
THEOREM ExecutableStaysWhole == Spec => []NamesStayWhole
<1>1. IInv => NamesStayWhole  BY DEF IInv
<1>2. QED  BY <1>1, IInvAlways, PTL

\* An update that failed left neither its temporary file nor its binary.
THEOREM FailuresCleanUp == Spec => []FailedUpdateLeavesNothing
<1>1. IInv => FailedUpdateLeavesNothing
  BY DEF IInv, TypeOK, StepsInOrder, FailedUpdateLeavesNothing, Updating, Ended
<1>2. QED  BY <1>1, IInvAlways, PTL

\* Only an installation can take the service down.
THEOREM OutageHasReason == Spec => []OutageExplained
<1>1. IInv => OutageExplained  BY DEF IInv
<1>2. QED  BY <1>1, IInvAlways, PTL

\* The service runs the installed binary unless an invocation is about to
\* restart it or did not.
THEOREM StaleServiceHasReason == Spec => []StaleServiceExplained
<1>1. IInv => StaleServiceExplained  BY DEF IInv
<1>2. QED  BY <1>1, IInvAlways, PTL

-----------------------------------------------------------------------------
(* One invocation at a time.                                               *)

\* An update that swaps its binary in has kept the one it replaces, when no
\* other invocation runs at the same time.
THEOREM UpdateKeepsFallback == Spec => FallbackKept
<1>1. Init => AloneInv
  BY DEF Init, AloneInv, Active, Updating, RollingBack, Installing
<1>2. TypeOK /\ AloneInv /\ [Next]_vars => AloneInv'
  BY AloneStep
<1>3. TypeOK /\ AloneInv /\ [Next]_vars =>
        [exclusive =>
           \A p \in Procs : pc[p] = "swap" /\ pc'[p] = "restart" => prev' = exec]_vars
  <2> SUFFICES ASSUME TypeOK, AloneInv, Next, exclusive, NEW p \in Procs,
                      pc[p] = "swap", pc'[p] = "restart"
               PROVE  prev' = exec
    OBVIOUS
  <2> USE DEF TypeOK, AloneInv, Goto, files
  <2>1. ASSUME NEW q \in Procs, Start(q, "release") \/ Start(q, "stat")
        PROVE  prev' = exec
    BY <2>1 DEF Start
  <2>2. ASSUME NEW q \in Procs, Update(q)
        PROVE  prev' = exec
    BY <2>2 DEF Update, latestRelease, CreateTemp, fetchExpectedHash, downloadFile,
                verifyHash, RemovePrev, LinkPrev, Chmod, Swap, UpdateFails
  <2>3. ASSUME NEW q \in Procs, Rollback(q)
        PROVE  prev' = exec
    BY <2>3 DEF Rollback, StatPrev, checkWritable, Restore, RollbackFails
  <2>4. ASSUME NEW q \in Procs, Finish(q) \/ Crash(q)
        PROVE  prev' = exec
    BY <2>4 DEF Finish, Restarted, NotRestarted, Crash
  <2>5. ASSUME NEW q \in Procs, Install(q)
        PROVE  prev' = exec
    BY <2>5 DEF Install, StartInstall, Wget, Mv, ChmodX, VerifyChecksum, SmokeTest,
                Foreground, StopService, StartService, InstallFails
  <2>6. CASE ServiceRestarts  BY <2>6 DEF ServiceRestarts
  <2>7. CASE AllEnded  BY <2>7 DEF AllEnded, vars
  <2>8. QED  BY <2>1, <2>2, <2>3, <2>4, <2>5, <2>6, <2>7 DEF Next
<1>4. QED  BY <1>1, <1>2, <1>3, TypeCorrect, PTL DEF Spec, FallbackKept

-----------------------------------------------------------------------------
(* SelfUpdate implements InstalledRelease.                                 *)

\* Which binaries have been put in place can be read off the files: one being
\* made has its temporary file, or no bytes yet, and what the names refer to
\* has been put in place.
PastInv ==
    /\ \A p \in Procs :
          /\ pc[p] \in {"idle", "release", "create", "wget"} \cup RollingBack => bytes[p] = "partial"
          /\ pc[p] \in (Updating \ {"create"}) \cup {"mv"} => p \in tmp
          /\ pc[p] = "mv" => bytes[p] # "partial"
          /\ pc[p] \in Installing \ {"wget", "mv"} => p \in Past
    /\ exec \in Past
    /\ prev \in Past \cup {None}

\* A step that leaves the files, and the set of installers, alone puts nothing
\* in place, provided that it does not delete an update's file.
LEMMA SamePast ==
    ASSUME IInv, PastInv, NEW p \in Procs, pc[p] \in Active, NEW to \in Active \cup Ended,
           pc' = [pc EXCEPT ![p] = to], UNCHANGED <<tmp, bytes, installers>>,
           to = "failed" => p \in installers \/ p \in tmp \/ bytes[p] = "partial"
    PROVE  Past' = Past
<1> USE DEF IInv, TypeOK, Active, Ended, Updating, RollingBack, Installing
<1>1. ASSUME NEW q \in Procs
      PROVE  (q \in Past)' <=> q \in Past
  BY DEF Past
<1>2. QED  BY <1>1, SelfUpdateAssumption DEF Past

\* Every other step that keeps the names leaves the release register alone.
LEMMA Stutter ==
    ASSUME Past' = Past, UNCHANGED <<exec, prev, service, installers, exclusive>>
    PROVE  UNCHANGED Release!vars
BY DEF Release!vars

\* The steps of one invocation that neither touch a name nor put a binary in
\* place, but may delete a temporary file or write one.
LEMMA QuietStep ==
    ASSUME IInv, PastInv, NEW p \in Procs, Next, UNCHANGED <<exec, prev, service>>,
           \/ Start(p, "release") \/ Start(p, "stat") \/ latestRelease(p) \/ CreateTemp(p)
           \/ fetchExpectedHash(p) \/ downloadFile(p) \/ verifyHash(p) \/ Chmod(p)
           \/ UpdateFails(p) \/ StatPrev(p) \/ checkWritable(p) \/ RollbackFails(p)
           \/ NotRestarted(p) \/ Crash(p) \/ Wget(p) \/ ChmodX(p) \/ VerifyChecksum(p)
           \/ SmokeTest(p) \/ Foreground(p) \/ InstallFails(p)
    PROVE  PastInv' /\ UNCHANGED Release!vars
<1>0. exclusive' = exclusive  BY DEF Next
<1> USE SelfUpdateAssumption
    DEF IInv, TypeOK, StepsInOrder, PastInv, Goto, files, unit, manual, Active, Ended, Updating,
        RollingBack, Installing
<1>1. CASE Start(p, "release") \/ Start(p, "stat")
  <2>1. \A q \in Procs : (q \in Past)' <=> q \in Past  BY <1>1 DEF Start, Past
  <2>2. Past' = Past  BY <2>1 DEF Past
  <2>3. QED  BY <1>0, <1>1, <2>2, Stutter DEF Start
<1>2. CASE latestRelease(p)
  <2>1. \A q \in Procs : (q \in Past)' <=> q \in Past  BY <1>2 DEF latestRelease, Past
  <2>2. Past' = Past  BY <2>1 DEF Past
  <2>3. QED  BY <1>0, <1>2, <2>2, Stutter DEF latestRelease
<1>3. CASE CreateTemp(p)
  <2>1. \A q \in Procs : (q \in Past)' <=> q \in Past  BY <1>3 DEF CreateTemp, Past
  <2>2. Past' = Past  BY <2>1 DEF Past
  <2>3. QED  BY <1>0, <1>3, <2>2, Stutter DEF CreateTemp
<1>4. CASE downloadFile(p)
  <2>1. \A q \in Procs : (q \in Past)' <=> q \in Past  BY <1>4 DEF downloadFile, Past, Inodes
  <2>2. Past' = Past  BY <2>1 DEF Past
  <2>3. QED  BY <1>0, <1>4, <2>2, Stutter DEF downloadFile, Inodes
<1>5. CASE fetchExpectedHash(p) \/ verifyHash(p)
  <2>1. Past' = Past  BY <1>5, SamePast DEF fetchExpectedHash, verifyHash
  <2>2. QED  BY <1>0, <1>5, <2>1, Stutter DEF fetchExpectedHash, verifyHash
<1>6. CASE Chmod(p) \/ ChmodX(p)
  <2>1. Past' = Past  BY <1>6, SamePast DEF Chmod, ChmodX
  <2>2. QED  BY <1>0, <1>6, <2>1, Stutter DEF Chmod, ChmodX
<1>7. CASE UpdateFails(p)
  <2>1. \A q \in Procs : (q \in Past)' <=> q \in Past  BY <1>7 DEF UpdateFails, Past
  <2>2. Past' = Past  BY <2>1 DEF Past
  <2>3. QED  BY <1>0, <1>7, <2>2, Stutter DEF UpdateFails
<1>8. CASE StatPrev(p) \/ checkWritable(p) \/ RollbackFails(p)
  <2>1. Past' = Past  BY <1>8, SamePast DEF StatPrev, checkWritable, RollbackFails
  <2>2. QED  BY <1>0, <1>8, <2>1, Stutter DEF StatPrev, checkWritable, RollbackFails
<1>9. CASE NotRestarted(p) \/ Crash(p)
  <2>1. Past' = Past  BY <1>9, SamePast DEF NotRestarted, Crash
  <2>2. QED  BY <1>0, <1>9, <2>1, Stutter DEF NotRestarted, Crash
<1>10. CASE Wget(p)
  <2>1. \A q \in Procs : (q \in Past)' <=> q \in Past  BY <1>10 DEF Wget, Past, Inodes
  <2>2. Past' = Past  BY <2>1 DEF Past
  <2>3. QED  BY <1>0, <1>10, <2>2, Stutter DEF Wget, Inodes
<1>11. CASE VerifyChecksum(p) \/ SmokeTest(p) \/ Foreground(p) \/ InstallFails(p)
  <2>1. Past' = Past
    BY <1>11, SamePast DEF VerifyChecksum, SmokeTest, Foreground, InstallFails
  <2>2. QED
    BY <1>0, <1>11, <2>1, Stutter DEF VerifyChecksum, SmokeTest, Foreground, InstallFails
<1>12. QED
  BY <1>1, <1>2, <1>3, <1>4, <1>5, <1>6, <1>7, <1>8, <1>9, <1>10, <1>11

LEMMA StartInstallStep ==
    ASSUME IInv, PastInv, NEW p \in Procs, Next, StartInstall(p)
    PROVE  PastInv' /\ UNCHANGED Release!vars
<1> USE DEF IInv, TypeOK, PastInv, Goto, files, unit, manual, StartInstall, Updating, RollingBack,
            Installing
<1>1. \A q \in Procs : (q \in Past)' <=> q \in Past  BY DEF Past
<1>2. Past' = Past  BY <1>1 DEF Past
<1>3. p \notin Past  BY SelfUpdateAssumption DEF Past
<1>4. (installers \cap Past)' = installers \cap Past  BY <1>2, <1>3
<1>5. PastInv'  BY <1>2
<1>6. UNCHANGED Release!vars  BY <1>2, <1>4 DEF Release!vars, Next
<1>7. QED  BY <1>5, <1>6

\* An update swaps its binary in: with no competitor, .prev is the one it
\* replaces.
LEMMA SwapStep ==
    ASSUME IInv, PastInv, AloneInv, NEW p \in Procs, Next, Swap(p)
    PROVE  PastInv' /\ Release!Update(p) /\ UNCHANGED exclusive
<1> USE SelfUpdateAssumption
    DEF IInv, TypeOK, StepsInOrder, PastInv, Goto, unit, manual, Swap, Updating, RollingBack, Installing
<1>1. p \notin Past /\ p \notin installers  BY DEF Past, Ended
<1>2. \A q \in Procs : (q \in Past)' <=> q \in Past \/ q = p  BY <1>1 DEF Past
<1>3. Past' = Past \cup {p}  BY <1>2 DEF Past
<1>4. (installers \cap Past)' = installers \cap Past  BY <1>1, <1>3
<1>5. exclusive => prev = exec  BY DEF AloneInv
<1>6. PastInv'  BY <1>3
<1>7. Release!Update(p)
  BY <1>1, <1>3, <1>4, <1>5 DEF Release!Update, Release!Replace
<1>8. QED  BY <1>6, <1>7 DEF Next

LEMMA MvStep ==
    ASSUME IInv, PastInv, NEW p \in Procs, Next, Mv(p)
    PROVE  PastInv' /\ Release!Reinstall(p) /\ UNCHANGED exclusive
<1> USE SelfUpdateAssumption
    DEF IInv, TypeOK, StepsInOrder, PastInv, Goto, unit, manual, Mv, Updating, RollingBack, Installing
<1>1. p \notin Past /\ p \in installers  BY DEF Past
<1>2. \A q \in Procs : (q \in Past)' <=> q \in Past \/ q = p  BY <1>1 DEF Past
<1>3. Past' = Past \cup {p}  BY <1>2 DEF Past
<1>4. (installers \cap Past)' = (installers \cap Past) \cup {p}  BY <1>1, <1>3
<1>5. PastInv'  BY <1>3
<1>6. Release!Reinstall(p)
  BY <1>1, <1>3, <1>4 DEF Release!Reinstall, Release!Replace
<1>7. QED  BY <1>5, <1>6 DEF Next

LEMMA PrevStep ==
    ASSUME IInv, PastInv, NEW p \in Procs, Next, RemovePrev(p) \/ LinkPrev(p) \/ Restore(p)
    PROVE  PastInv' /\ (Release!Forget \/ Release!Keep \/ Release!Rollback)
<1> USE SelfUpdateAssumption
    DEF IInv, TypeOK, PastInv, Goto, unit, manual, Active, Ended, Updating, RollingBack, Installing
<1>1. Past' = Past  BY SamePast DEF RemovePrev, LinkPrev, Restore
<1>2. CASE RemovePrev(p)  BY <1>1, <1>2 DEF RemovePrev, Release!Forget
<1>3. CASE LinkPrev(p)  BY <1>1, <1>3 DEF LinkPrev, Release!Keep
<1>4. CASE Restore(p)  BY <1>1, <1>4 DEF Restore, Release!Rollback
<1>5. QED  BY <1>2, <1>3, <1>4

\* The service is down only if install.sh stopped it, or put a binary in place
\* that is not whole.
LEMMA LaunchStep ==
    ASSUME IInv, PastInv, UNCHANGED <<exec, prev, installers>>, Past' = Past,
           Launched \/ (service' = None /\ \E p \in Procs : pc[p] = "stop")
    PROVE  Release!Launch \/ Release!Outage
<1>1. CASE service' = exec  BY <1>1 DEF Release!Launch
<1>2. CASE service' = None
  <2>1. installers \cap Past # {}
    <3>1. CASE \E p \in Procs : pc[p] = "stop"
      BY <3>1 DEF IInv, StepsInOrder, PastInv, Installing
    <3>2. CASE Launched /\ service' # exec
      <4>1. ~Whole(exec)  BY <3>2 DEF Launched
      <4>2. exec \in installers
        BY <4>1, SelfUpdateAssumption DEF IInv, TypeOK, NamesStayWhole, Unverified, Inodes
      <4>3. QED  BY <4>2 DEF PastInv
    <3>3. CASE service' = exec
      BY <3>3, <1>2, SelfUpdateAssumption DEF IInv, TypeOK, Inodes
    <3>4. QED  BY <3>1, <3>2, <3>3
  <2>2. QED  BY <1>2, <2>1 DEF Release!Outage
<1>3. QED  BY <1>1, <1>2 DEF Launched

LEMMA UnitStep ==
    ASSUME IInv, PastInv, Next,
           ServiceRestarts \/ \E p \in Procs : Restarted(p) \/ StopService(p) \/ StartService(p)
    PROVE  PastInv' /\ (Release!Launch \/ Release!Outage)
<1> USE DEF files, unit, manual
<1>1. CASE ServiceRestarts
  <2>1. Past' = Past  BY <1>1 DEF ServiceRestarts, Past
  <2>2. QED  BY <1>1, <2>1, LaunchStep DEF ServiceRestarts, PastInv
<1>2. ASSUME NEW p \in Procs, Restarted(p) \/ StopService(p) \/ StartService(p)
      PROVE  PastInv' /\ (Release!Launch \/ Release!Outage)
  <2> USE DEF Goto, Restarted, StopService, StartService
  <2>1. Past' = Past
    BY <1>2, SamePast DEF Active, Ended, Updating, RollingBack, Installing
  <2>2. PastInv'
    BY <1>2, <2>1 DEF IInv, TypeOK, PastInv, Updating, RollingBack, Installing
  <2>3. QED  BY <1>2, <2>1, <2>2, LaunchStep
<1>3. QED  BY <1>1, <1>2

LEMMA ReleaseStep ==
    ASSUME IInv, PastInv, AloneInv, [Next]_vars
    PROVE  PastInv' /\ [Release!Next]_(Release!vars)
<1>0. CASE UNCHANGED vars
  <2>1. Past' = Past  BY <1>0 DEF vars, files, unit, manual, Past
  <2>2. QED  BY <1>0, <2>1, Stutter DEF vars, files, unit, manual, PastInv
<1> SUFFICES ASSUME Next
             PROVE  PastInv' /\ [Release!Next]_(Release!vars)
  BY <1>0
<1>1. exclusive' = exclusive  BY DEF Next
<1>2. ASSUME NEW p \in Procs, Start(p, "release") \/ Start(p, "stat") \/ Finish(p) \/ Crash(p)
      PROVE  PastInv' /\ [Release!Next]_(Release!vars)
  <2>1. CASE Restarted(p)  BY <1>1, <2>1, UnitStep DEF Release!Next
  <2>2. QED
    BY <1>2, <2>1, QuietStep DEF Start, Finish, NotRestarted, Crash, files, unit
<1>3. ASSUME NEW p \in Procs, Update(p)
      PROVE  PastInv' /\ [Release!Next]_(Release!vars)
  <2>1. CASE Swap(p)  BY <2>1, SwapStep DEF Release!Next, Inodes
  <2>2. CASE RemovePrev(p) \/ LinkPrev(p)  BY <1>1, <2>2, PrevStep DEF Release!Next
  <2>3. QED
    BY <1>3, <2>1, <2>2, QuietStep
       DEF Update, latestRelease, CreateTemp, fetchExpectedHash, downloadFile, verifyHash,
           Chmod, UpdateFails, files, unit
<1>4. ASSUME NEW p \in Procs, Rollback(p)
      PROVE  PastInv' /\ [Release!Next]_(Release!vars)
  <2>1. CASE Restore(p)  BY <1>1, <2>1, PrevStep DEF Release!Next
  <2>2. QED
    BY <1>4, <2>1, QuietStep DEF Rollback, StatPrev, checkWritable, RollbackFails, files, unit
<1>5. ASSUME NEW p \in Procs, Install(p)
      PROVE  PastInv' /\ [Release!Next]_(Release!vars)
  <2>1. CASE StartInstall(p)  BY <2>1, StartInstallStep
  <2>2. CASE Mv(p)  BY <2>2, MvStep DEF Release!Next, Inodes
  <2>3. CASE StopService(p) \/ StartService(p)  BY <1>1, <2>3, UnitStep DEF Release!Next
  <2>4. QED
    BY <1>5, <2>1, <2>2, <2>3, QuietStep
       DEF Install, Wget, ChmodX, VerifyChecksum, SmokeTest, Foreground, InstallFails,
           files, unit
<1>6. CASE ServiceRestarts  BY <1>1, <1>6, UnitStep DEF Release!Next
<1>7. CASE AllEnded  BY <1>0, <1>7 DEF AllEnded
<1>8. QED  BY <1>2, <1>3, <1>4, <1>5, <1>6, <1>7 DEF Next

\* Any number of overlapping, failing and killed invocations keep the promise
\* of one register with a fallback.
THEOREM ReleaseImplemented == Spec => ImplementsRelease
<1> USE SelfUpdateAssumption
    DEF Init, Past, Inodes, Active, Updating, RollingBack, Installing
<1>1. Init => PastInv /\ AloneInv  BY DEF PastInv, AloneInv
<1>2. Init => Release!Init  BY DEF Release!Init
<1>3. IInv => TypeOK  BY DEF IInv
<1>4. QED
  BY <1>1, <1>2, <1>3, ReleaseStep, AloneStep, IInvAlways, PTL
     DEF Spec, ImplementsRelease, Release!Spec

=============================================================================
