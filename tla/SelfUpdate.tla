----------------------------- MODULE SelfUpdate -----------------------------
(***************************************************************************)
(* `xrayws --update` and `xrayws --rollback` (internal/selfupdate): every  *)
(* invocation is a process that works on three names of one directory, the *)
(* executable, its ".prev" and a temporary file of its own.  install.sh,   *)
(* run again over an installation, is an invocation too: it replaces the   *)
(* executable first and verifies it in place.  systemd runs the service    *)
(* from the executable and restarts it when it fails.                      *)
(*                                                                         *)
(* Names are hard links, so they are modelled as the inodes they refer to. *)
(* A process may be killed between any two system calls, and every system  *)
(* call or request that reports errors may fail.  An update writes one new *)
(* inode, named here after the process.  Nothing in the code keeps two     *)
(* invocations apart; `exclusive` says whether the operator does.          *)
(***************************************************************************)
EXTENDS FiniteSets

CONSTANTS
    Procs,      \* the invocations
    Installed,  \* the inode of the binary install.sh left
    None        \* no file

ASSUME SelfUpdateAssumption ==
    /\ Installed \notin Procs
    /\ None \notin Procs \cup {Installed}

VARIABLES
    pc,       \* where each invocation is
    exec,     \* the inode execPath names
    prev,     \* the inode execPath.prev names
    tmp,      \* the processes whose temporary file still has its name
    bytes,    \* what each inode holds
    runnable, \* the inodes with mode 0755
    service,  \* the inode systemd runs xrayws.service from, None while it is down
    stopped,  \* did install.sh stop the unit, so that systemd leaves it down?
    installers, \* the invocations that are install.sh
    missed,   \* history: installations whose chmod or checksum met the file of another
    exclusive \* does the operator run one invocation at a time?

files == <<exec, prev, tmp, bytes, runnable>>
unit == <<service, stopped>>
manual == <<installers, missed>>
vars == <<pc, files, unit, manual, exclusive>>

Inodes == Procs \cup {Installed}
Updating == {"create", "sums", "download", "verify", "unlink", "link", "chmod", "swap"}
RollingBack == {"stat", "writable", "restore"}
Installing == {"wget", "mv", "mark", "check", "smoke", "stop", "start"}
Active == {"release", "restart"} \cup Updating \cup RollingBack \cup Installing
Ended == {"ok", "failed", "unrestarted", "foreground", "crashed"}

TypeOK ==
    /\ pc \in [Procs -> {"idle"} \cup Active \cup Ended]
    /\ exec \in Inodes
    /\ prev \in Inodes \cup {None}
    /\ tmp \subseteq Procs
    /\ bytes \in [Inodes -> {"partial", "wrong", "release"}]
    /\ runnable \subseteq Inodes
    /\ service \in Inodes \cup {None}
    /\ stopped \in BOOLEAN
    /\ installers \subseteq Procs
    /\ missed \subseteq Procs
    /\ exclusive \in BOOLEAN

Init ==
    /\ pc = [p \in Procs |-> "idle"]
    /\ exec = Installed
    /\ prev = None
    /\ tmp = {}
    /\ bytes = [i \in Inodes |-> IF i = Installed THEN "release" ELSE "partial"]
    /\ runnable = {Installed}
    /\ service = Installed
    /\ stopped = FALSE
    /\ installers = {}
    /\ missed = {}
    /\ exclusive \in BOOLEAN

Goto(p, from, to) ==
    /\ pc[p] = from
    /\ pc' = [pc EXCEPT ![p] = to]

-----------------------------------------------------------------------------
(* Run (run.go, verify.go, swap.go), one action per call it makes.         *)

\* The executable itself is run, to update or to roll back.
Start(p, at) ==
    /\ exclusive => \A q \in Procs : pc[q] \notin Active
    /\ exec \in runnable
    /\ Goto(p, "idle", at)
    /\ UNCHANGED <<files, unit, manual>>

\* The latest release is another one, is the running one, or is unreadable.
latestRelease(p) ==
    /\ \E to \in {"create", "ok", "failed"} : Goto(p, "release", to)
    /\ UNCHANGED <<files, unit, manual>>

CreateTemp(p) ==
    /\ Goto(p, "create", "sums")
    /\ tmp' = tmp \cup {p}
    /\ UNCHANGED <<exec, prev, bytes, runnable, unit, manual>>

fetchExpectedHash(p) ==
    /\ Goto(p, "sums", "download")
    /\ UNCHANGED <<files, unit, manual>>

\* The asset arrives as published or, uploaded again since, as other bytes.
downloadFile(p) ==
    /\ Goto(p, "download", "verify")
    /\ bytes' \in {[bytes EXCEPT ![p] = b] : b \in {"wrong", "release"}}
    /\ UNCHANGED <<exec, prev, tmp, runnable, unit, manual>>

\* Mutant: the checksum is not compared.
verifyNothing(p) ==
    /\ Goto(p, "verify", "unlink")
    /\ UNCHANGED <<files, unit, manual>>

verifyHash(p) ==
    /\ Goto(p, "verify", "unlink")
    /\ bytes[p] = "release"
    /\ UNCHANGED <<files, unit, manual>>

RemovePrev(p) ==
    /\ Goto(p, "unlink", "link")
    /\ prev' = None
    /\ UNCHANGED <<exec, tmp, bytes, runnable, unit, manual>>

\* Mutant: a link that cannot be made does not stop the update.
LinkPrevBestEffort(p) ==
    /\ Goto(p, "link", "chmod")
    /\ prev' \in {prev, exec}
    /\ UNCHANGED <<exec, tmp, bytes, runnable, unit, manual>>

\* link(2) fails when another invocation created .prev in the meantime.
LinkPrev(p) ==
    /\ prev = None
    /\ Goto(p, "link", "chmod")
    /\ prev' = exec
    /\ UNCHANGED <<exec, tmp, bytes, runnable, unit, manual>>

\* Mutant: the new binary keeps mode 0600.
ChmodForgotten(p) ==
    /\ Goto(p, "chmod", "swap")
    /\ UNCHANGED <<files, unit, manual>>

Chmod(p) ==
    /\ Goto(p, "chmod", "swap")
    /\ runnable' = runnable \cup {p}
    /\ UNCHANGED <<exec, prev, tmp, bytes, unit, manual>>

Swap(p) ==
    /\ Goto(p, "swap", "restart")
    /\ exec' = p
    /\ tmp' = tmp \ {p}
    /\ UNCHANGED <<prev, bytes, runnable, unit, manual>>

\* Mutant: an early return forgets the temporary file.
UpdateFailsAndLitters(p) ==
    /\ pc[p] \in Updating
    /\ pc' = [pc EXCEPT ![p] = "failed"]
    /\ UNCHANGED <<files, unit, manual>>

\* Any of these calls fails; Run, or the deferred Remove of atomicReplace,
\* deletes the temporary file.  A cut download leaves partial bytes in it.
UpdateFails(p) ==
    /\ pc[p] \in Updating
    /\ pc' = [pc EXCEPT ![p] = "failed"]
    /\ tmp' = tmp \ {p}
    /\ UNCHANGED <<exec, prev, bytes, runnable, unit, manual>>

-----------------------------------------------------------------------------
(* Rollback (rollback.go).                                                 *)

StatPrev(p) ==
    /\ prev # None
    /\ Goto(p, "stat", "writable")
    /\ UNCHANGED <<files, unit, manual>>

checkWritable(p) ==
    /\ Goto(p, "writable", "restore")
    /\ UNCHANGED <<files, unit, manual>>

\* Mutant: .prev is not looked at again, and may be gone.
RestoreMissing(p) ==
    /\ Goto(p, "restore", "restart")
    /\ exec' = prev
    /\ prev' = None
    /\ UNCHANGED <<tmp, bytes, runnable, unit, manual>>

\* rename(2) of two names of one inode succeeds and keeps both of them.
Restore(p) ==
    /\ prev # None
    /\ Goto(p, "restore", "restart")
    /\ exec' = prev
    /\ prev' = IF prev = exec THEN prev ELSE None
    /\ UNCHANGED <<tmp, bytes, runnable, unit, manual>>

RollbackFails(p) ==
    /\ pc[p] \in RollingBack
    /\ pc' = [pc EXCEPT ![p] = "failed"]
    /\ UNCHANGED <<files, unit, manual>>

-----------------------------------------------------------------------------
(* The unit of install.sh, restartService (restart.go), and processes that *)
(* are killed.                                                             *)

Whole(i) == bytes[i] = "release" /\ i \in runnable

\* systemctl start, and systemd's own Restart=on-failure: a file that is not
\* a whole release may run or fail, one without its mode fails.
Launched ==
    /\ stopped' = FALSE
    /\ \/ exec \in runnable /\ service' = exec
       \/ ~Whole(exec) /\ service' = None

\* The service fails and systemd starts it again.
ServiceRestarts ==
    /\ ~stopped
    /\ Launched
    /\ UNCHANGED <<pc, files, manual>>

\* Mutant: success is reported without a restart.
RestartSkipped(p) ==
    /\ Goto(p, "restart", "ok")
    /\ UNCHANGED <<files, unit, manual>>

Restarted(p) ==
    /\ Goto(p, "restart", "ok")
    /\ Launched
    /\ UNCHANGED <<files, manual>>

\* No systemd unit, or systemctl failed: the new binary is not running yet.
NotRestarted(p) ==
    /\ Goto(p, "restart", "unrestarted")
    /\ UNCHANGED <<files, unit, manual>>

Crash(p) ==
    /\ pc[p] \in Active
    /\ pc' = [pc EXCEPT ![p] = "crashed"]
    /\ UNCHANGED <<files, unit, manual>>

AllEnded ==
    /\ \A p \in Procs : pc[p] \in Ended
    /\ UNCHANGED vars

-----------------------------------------------------------------------------
(* install.sh run over an installation (its second part; `set -e` ends it  *)
(* at the first command that fails).  One operator answers its questions,  *)
(* so that two of them do not overlap.                                     *)

StartInstall(p) ==
    /\ \A q \in installers : pc[q] \notin Active
    /\ exclusive => \A q \in Procs : pc[q] \notin Active
    /\ Goto(p, "idle", "wget")
    /\ installers' = installers \cup {p}
    /\ UNCHANGED <<files, unit, missed>>

Wget(p) ==
    /\ Goto(p, "wget", "mv")
    /\ bytes' \in {[bytes EXCEPT ![p] = b] : b \in {"wrong", "release"}}
    /\ tmp' = tmp \cup {p}
    /\ UNCHANGED <<exec, prev, runnable, unit, manual>>

Mv(p) ==
    /\ Goto(p, "mv", "mark")
    /\ exec' = p
    /\ tmp' = tmp \ {p}
    /\ UNCHANGED <<prev, bytes, runnable, unit, manual>>

\* chmod and sha256sum take the path, which an update or a rollback may have
\* given another file since the mv.
Misses(p) == missed' = IF exec = p THEN missed ELSE missed \cup {p}

ChmodX(p) ==
    /\ Goto(p, "mark", "check")
    /\ runnable' = runnable \cup {exec}
    /\ Misses(p)
    /\ UNCHANGED <<exec, prev, tmp, bytes, unit, installers>>

\* A mismatch ends the script (InstallFails), and so does an asset SHA256SUMS
\* does not list: under pipefail the failed grep ends it before the warning.
VerifyChecksum(p) ==
    /\ Goto(p, "check", "smoke")
    /\ bytes[exec] = "release"
    /\ Misses(p)
    /\ UNCHANGED <<files, unit, installers>>

\* The probe of the port cannot tell the binary under test from the service
\* that still runs.
SmokeTest(p) ==
    /\ exec \in runnable \/ service # None
    /\ Goto(p, "smoke", "stop")
    /\ UNCHANGED <<files, unit, manual>>

\* No systemd, or the smoke test failed: exec ./xrayws.
Foreground(p) ==
    /\ Goto(p, "smoke", "foreground")
    /\ UNCHANGED <<files, unit, manual>>

\* Only a unit that is active is stopped.
StopService(p) ==
    /\ Goto(p, "stop", "start")
    /\ \/ service # None /\ service' = None /\ stopped' = TRUE
       \/ service = None /\ UNCHANGED unit
    /\ UNCHANGED <<files, manual>>

StartService(p) ==
    /\ Goto(p, "start", "ok")
    /\ Launched
    /\ UNCHANGED <<files, manual>>

InstallFails(p) ==
    /\ pc[p] \in Installing
    /\ pc' = [pc EXCEPT ![p] = "failed"]
    /\ UNCHANGED <<files, unit, manual>>

-----------------------------------------------------------------------------

Update(p) ==
    \/ latestRelease(p) \/ CreateTemp(p) \/ fetchExpectedHash(p) \/ downloadFile(p)
    \/ verifyHash(p) \/ RemovePrev(p) \/ LinkPrev(p) \/ Chmod(p) \/ Swap(p)
    \/ UpdateFails(p)
Rollback(p) == StatPrev(p) \/ checkWritable(p) \/ Restore(p) \/ RollbackFails(p)
Finish(p) == Restarted(p) \/ NotRestarted(p)
Install(p) ==
    \/ StartInstall(p) \/ Wget(p) \/ Mv(p) \/ ChmodX(p) \/ VerifyChecksum(p)
    \/ SmokeTest(p) \/ Foreground(p) \/ StopService(p) \/ StartService(p)
    \/ InstallFails(p)

Next ==
    /\ UNCHANGED exclusive
    /\ \/ \E p \in Procs :
             \/ Start(p, "release") \/ Start(p, "stat")
             \/ Update(p) \/ Rollback(p) \/ Finish(p) \/ Install(p) \/ Crash(p)
       \/ ServiceRestarts
       \/ AllEnded

Spec == Init /\ [][Next]_vars

-----------------------------------------------------------------------------
(* Properties.                                                             *)

\* install.sh has put its binary in place and not verified it: it is at that,
\* failed or died there, or verified the file another invocation had put there
\* since.
Unverified(p) ==
    p \in installers /\ (pc[p] \in {"mark", "check", "failed", "crashed"} \/ p \in missed)

\* Whatever fails, is killed or runs at the same time, the executable and its
\* rollback copy are whole releases, but for a binary install.sh has put in
\* place unverified; and install.sh verifies its own binary when nothing else
\* runs.
NamesStayWhole ==
    /\ \A i \in {exec, prev} \ {None} : Whole(i) \/ (i \in Procs /\ Unverified(i))
    /\ exclusive => missed = {}

\* What each step relies on: the file it is about to install is verified and
\* executable, and no name but its own refers to it before.
StepsInOrder ==
    \A p \in Procs :
        /\ pc[p] \in {"unlink", "link", "chmod", "swap"} => bytes[p] = "release"
        /\ pc[p] = "swap" => p \in runnable
        /\ p \in tmp => pc[p] \in Updating \cup {"mv", "failed", "crashed"}
        /\ p \in tmp /\ pc[p] = "failed" => p \in installers
        /\ p \in {exec, prev} /\ p \notin installers =>
               pc[p] \in {"restart", "ok", "unrestarted", "crashed"}
        /\ p \in {exec, prev} => pc[p] \notin {"wget", "mv"}
        /\ pc[p] = "check" => p \in runnable \/ p \in missed
        /\ pc[p] \in Installing \cup {"foreground"} => p \in installers
        /\ p \in installers => pc[p] \in Installing \cup (Ended \ {"unrestarted"})

\* An update that failed has changed nothing: its temporary file is gone and
\* no name refers to its binary.
FailedUpdateLeavesNothing ==
    \A p \in Procs \ installers :
        pc[p] = "failed" => p \notin tmp /\ p \notin {exec, prev}

\* A service that runs another binary than the installed one is explained:
\* an invocation is about to restart it, or said or died that it did not.
StaleServiceExplained ==
    service \notin {exec, None} =>
        \E p \in Procs :
            \/ pc[p] \in {"restart", "unrestarted", "crashed"}
            \/ p \in installers /\ pc[p] \in Installing \cup {"failed", "foreground"}

\* Updates and rollbacks never take the service down.  When it is down,
\* install.sh has put a binary in place that could not be started, and systemd
\* tries again; or install.sh stopped the service and did not start it yet,
\* or never will.
OutageExplained ==
    service = None =>
        \E p \in installers : stopped => pc[p] \in {"start", "failed", "crashed"}

\* A finished update has a safety net: when it swaps the new binary in,
\* .prev is the binary it replaces, if invocations do not overlap.
FallbackKept ==
    [][exclusive =>
         \A p \in Procs : pc[p] = "swap" /\ pc'[p] = "restart" => prev' = exec]_vars

\* What rollback.go and the README say: a successful rollback consumes
\* .prev, so a second one in a row fails.
RollbackConsumesPrev ==
    [][exclusive =>
         \A p \in Procs : pc[p] = "restore" /\ pc'[p] = "restart" => prev' = None]_vars

-----------------------------------------------------------------------------
(* The promise these programs keep together.                               *)

\* The binaries that have been put in place: written, no temporary file any
\* more, and not deleted with it by an update that failed.
Past ==
    {Installed} \cup
    {p \in Procs : p \notin tmp /\ bytes[p] # "partial" /\ (p \in installers \/ pc[p] # "failed")}

Release == INSTANCE InstalledRelease WITH
    Release <- Inodes,
    installed <- exec,
    fallback <- prev,
    running <- service,
    past <- Past,
    byHand <- installers \cap Past

\* Whatever overlaps, fails or is killed, the three names and the unit behave
\* like a register with a fallback: a binary is put in place once, an update
\* with no competitor leaves the one it replaces, only a rollback brings one
\* back, the service is given the installed one, and without install.sh it is
\* never down.
ImplementsRelease == Release!Spec

=============================================================================
