---------------------------- MODULE Publication ----------------------------
(***************************************************************************)
(* What exportLinks promises of the hostname it is given, without readers  *)
(* of logs, lookups, open files or requests in flight: it appears on the   *)
(* dashboard, then in two files and then at an endpoint, in this order; a  *)
(* place that cannot be reached is recorded as failed and does not keep it *)
(* from the next one.  Nobody else touches them meanwhile, provided that   *)
(* the export is a lone one; of others nothing is promised.  What stands   *)
(* in the files outlives the process.                                      *)
(***************************************************************************)

CONSTANTS
    Launch,    \* the launches of cloudflared, each with a hostname
    None,      \* no hostname
    Truncated  \* a file that was emptied

VARIABLES
    current,  \* the hostname on the dashboard
    place,    \* what stands in the files and at the endpoint
    stage,    \* the place the hostname is brought to, or "done"
    failed,   \* the places it could not be brought to
    lone      \* did no other export or webhook run beside it?

vars == <<current, place, stage, failed, lone>>

File == {"config", "json"}

Init ==
    /\ current = None
    /\ place["webhook"] = None
    /\ stage = "done" /\ failed = {}
    /\ lone = FALSE

\* It can only be a lone one when the one before it is done.
Begin(l) ==
    /\ current' = l
    /\ stage' = "config" /\ failed' = {}
    /\ lone' = TRUE => stage = "done"
    /\ UNCHANGED place

NextStage == [config |-> "json", json |-> "webhook", webhook |-> "done"]

Leave ==
    /\ stage # "done"
    /\ stage' = NextStage[stage]
    /\ UNCHANGED <<current, lone>>

Arrive ==
    /\ Leave
    /\ place' = [place EXCEPT ![stage] = current]
    /\ UNCHANGED failed

Fail ==
    /\ Leave
    /\ failed' = failed \cup {stage}
    /\ UNCHANGED place

Empty ==
    /\ stage \in File
    /\ place' = [place EXCEPT ![stage] = Truncated]
    /\ UNCHANGED <<current, stage, failed, lone>>

\* Exports that overlap, and webhooks of a process that has ended.
Disorder ==
    /\ ~lone
    /\ current = None => \A f \in File : place'[f] = place[f]
    /\ UNCHANGED <<current, lone>>

End ==
    /\ current' = None
    /\ stage' = "done" /\ failed' = {}
    /\ lone' = FALSE
    /\ UNCHANGED place

Next ==
    \/ \E l \in Launch : Begin(l)
    \/ lone /\ (Arrive \/ Fail \/ Empty)
    \/ Disorder \/ End

Spec == Init /\ [][Next]_vars

=============================================================================
