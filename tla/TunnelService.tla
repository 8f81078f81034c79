--------------------------- MODULE TunnelService ---------------------------
(***************************************************************************)
(* What the supervisor of internal/tunnel promises its caller, without     *)
(* goroutines, channels or timers: one cloudflared at a time, a status     *)
(* that is "not ready" whenever the tunnel is down, and an end once the    *)
(* context is cancelled.                                                   *)
(***************************************************************************)

VARIABLES
    cancelled,  \* has the caller cancelled the context?
    phase,      \* "down" between two launches, "up" in one, "stopped" after Run
    alive,      \* is the cloudflared of the latest launch alive?
    shown       \* does the dashboard show the tunnel as ready?

vars == <<cancelled, phase, alive, shown>>

Init ==
    /\ cancelled = FALSE
    /\ phase = "down"
    /\ alive = FALSE
    /\ shown = FALSE

\* A new cloudflared replaces one that is gone and no longer shown.
Start ==
    /\ phase = "down" /\ ~alive /\ ~shown
    /\ phase' = "up"
    /\ alive' = TRUE
    /\ UNCHANGED <<cancelled, shown>>

Report ==
    /\ phase = "up"
    /\ shown' \in BOOLEAN
    /\ UNCHANGED <<cancelled, phase, alive>>

Exit ==
    /\ alive
    /\ alive' = FALSE
    /\ UNCHANGED <<cancelled, phase, shown>>

\* A launch is given up: its cloudflared is dead and its status withdrawn.
Retire ==
    /\ phase = "up" /\ ~shown
    /\ phase' = "down"
    /\ alive' = FALSE
    /\ UNCHANGED <<cancelled, shown>>

Cancel ==
    /\ ~cancelled
    /\ cancelled' = TRUE
    /\ UNCHANGED <<phase, alive, shown>>

Stop ==
    /\ cancelled
    /\ phase # "stopped"
    /\ phase' = "stopped"
    /\ UNCHANGED <<cancelled, alive, shown>>

Next == Start \/ Report \/ Exit \/ Retire \/ Cancel \/ Stop

SafeSpec == Init /\ [][Next]_vars

\* Once cancelled, the service stops, launch or no launch.
Spec == SafeSpec /\ WF_vars(Stop)

=============================================================================
