------------------------------- MODULE Mirror -------------------------------
(***************************************************************************)
(* What the watcher of internal/ci promises of the config branch, without  *)
(* clones, commits, retries or timers: it is a mirror that lags behind the *)
(* exported files.  All files are mirrored together, each never to older   *)
(* bytes than the mirror has and never to bytes the exporter did not       *)
(* write.  The branch is handed along a chain of jobs: the one before and  *)
(* the one after overlap with this one, and whatever they push replaces    *)
(* the mirror.  This job mirrors nothing once it is over.                  *)
(***************************************************************************)
EXTENDS Integers

CONSTANT Files

VARIABLES
    source,  \* the bytes of each file, a number that grows with every write
    mirror,  \* the bytes of each file on the branch, -1 without a branch
    mine,    \* does this job push?
    other    \* the other job that pushes: the one before, the one after, or none

vars == <<source, mirror, mine, other>>

Empty == [f \in Files |-> 0]

Init ==
    /\ source = Empty
    /\ mirror \in {Empty, [f \in Files |-> -1]}
    /\ mine = TRUE
    /\ other \in {"before", "none"}

Write(f) ==
    /\ mine
    /\ source' = [source EXCEPT ![f] = @ + 1]
    /\ UNCHANGED <<mirror, mine, other>>

Forward ==
    /\ mirror' \in [Files -> Int]
    /\ \A f \in Files : mirror[f] <= mirror'[f] /\ mirror'[f] <= source[f]

Publish ==
    /\ mine
    /\ Forward
    /\ UNCHANGED <<source, mine, other>>

\* Another job's tree: its own files, or earlier ones of this job.
Override ==
    /\ other # "none"
    /\ mirror' \in [Files -> Int]
    /\ \A f \in Files : 0 <= mirror'[f] /\ mirror'[f] <= source[f]
    /\ UNCHANGED <<source, mine, other>>

OtherEnds ==
    /\ other = "before"
    /\ other' = "none"
    /\ UNCHANGED <<source, mirror, mine>>

HandOver ==
    /\ mine /\ other = "none"
    /\ other' = "after"
    /\ UNCHANGED <<source, mirror, mine>>

\* A push under way may still arrive.
End ==
    /\ mine
    /\ mine' = FALSE
    /\ Forward
    /\ UNCHANGED <<source, other>>

Next ==
    \/ \E f \in Files : Write(f)
    \/ Publish \/ Override \/ OtherEnds \/ HandOver \/ End

Spec == Init /\ [][Next]_vars

=============================================================================
