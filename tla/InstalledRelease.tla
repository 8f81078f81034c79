-------------------------- MODULE InstalledRelease --------------------------
(***************************************************************************)
(* What --update, --rollback and install.sh promise whoever runs them,     *)
(* without processes, system calls or temporary files: which release is    *)
(* installed, which one a rollback would bring back, and which one the     *)
(* service runs.  A release is put in place once; after it was replaced    *)
(* nothing but a rollback brings it back.                                  *)
(***************************************************************************)

CONSTANTS
    Release,  \* the releases
    None      \* no fallback, no service

VARIABLES
    installed,  \* the release a start would run
    fallback,   \* the release a rollback would restore
    running,    \* the release the service runs
    past,       \* the releases that have been put in place
    byHand,     \* those of them install.sh put there
    exclusive   \* is there one invocation at a time?

vars == <<installed, fallback, running, past, byHand, exclusive>>

Init ==
    /\ installed \in Release
    /\ fallback = None
    /\ running = installed
    /\ past = {installed}
    /\ byHand = {}
    /\ exclusive \in BOOLEAN

Replace(r) ==
    /\ r \notin past
    /\ installed' = r
    /\ past' = past \cup {r}
    /\ UNCHANGED <<fallback, running>>

\* What an update replaces can be restored, if it has no competitor.
Update(r) ==
    /\ exclusive => fallback = installed
    /\ Replace(r)
    /\ UNCHANGED byHand

\* install.sh keeps nothing.
Reinstall(r) ==
    /\ Replace(r)
    /\ byHand' = byHand \cup {r}

Forget ==
    /\ fallback' = None
    /\ UNCHANGED <<installed, running, past, byHand>>

Keep ==
    /\ fallback = None
    /\ fallback' = installed
    /\ UNCHANGED <<installed, running, past, byHand>>

\* A rollback consumes the fallback, unless it restores what is installed.
Rollback ==
    /\ fallback # None
    /\ installed' = fallback
    /\ fallback' = IF fallback = installed THEN fallback ELSE None
    /\ UNCHANGED <<running, past, byHand>>

Launch ==
    /\ running' = installed
    /\ UNCHANGED <<installed, fallback, past, byHand>>

\* The service can only be down once install.sh has been at work.
Outage ==
    /\ byHand # {}
    /\ running' = None
    /\ UNCHANGED <<installed, fallback, past, byHand>>

Next ==
    /\ UNCHANGED exclusive
    /\ \/ \E r \in Release : Update(r) \/ Reinstall(r)
       \/ Forget \/ Keep \/ Rollback \/ Launch \/ Outage

Spec == Init /\ [][Next]_vars

=============================================================================
