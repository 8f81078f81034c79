------------------------------ MODULE Hosting ------------------------------
(***************************************************************************)
(* What provisioning promises the program and its user, without the        *)
(* requests to the Cloudflare API it is made of: a Worker that stays bound *)
(* to the namespace it was first bound to, a hostname that is only ever    *)
(* routed to a tunnel that exists, and runs that use nothing which is not  *)
(* in place.  Whatever fails, a run goes on with what it has.              *)
(*                                                                         *)
(* Runs on several machines, namespaces beyond the first page of a list,   *)
(* and an account that allows a name twice take parts of it back.          *)
(***************************************************************************)

CONSTANTS
    Run,  \* the runs of the program
    None  \* no namespace, run or tunnel

VARIABLES
    phase,      \* of a run: "idle", "deploying", "running" or "ended"
    hook,       \* does it use the webhook of the Worker?
    token,      \* the tunnel it connects
    bound,      \* the namespace the Worker is bound to
    uploader,   \* the run whose password the Worker has
    attached,   \* is the Worker's domain attached?
    tunnels,    \* the tunnels of the account
    route,      \* the tunnel the hostname is routed to
    exclusive,  \* does each run end before the next starts?
    unique,     \* does the account refuse a second namespace or tunnel?
    paged       \* may a list not show what is there?

worker == <<bound, uploader, attached>>
hostname == <<tunnels, route>>
circumstances == <<exclusive, unique, paged>>
vars == <<phase, hook, token, worker, hostname, circumstances>>

Init ==
    /\ phase = [r \in Run |-> "idle"]
    /\ hook = [r \in Run |-> FALSE] /\ token = [r \in Run |-> None]
    /\ bound = None /\ uploader = None /\ attached = FALSE
    /\ tunnels = {} /\ route = None

OneNamespace == unique \/ (exclusive /\ ~paged)
OneTunnel == unique \/ exclusive

Live(r) == phase[r] \in {"deploying", "running"}

-----------------------------------------------------------------------------
(* What a request may change of the account.                               *)

Upload(r) ==
    /\ uploader' = r
    /\ bound' # None
    /\ OneNamespace /\ bound # None => bound' = bound
    /\ UNCHANGED <<attached, hostname>>

Attach == attached' = TRUE /\ UNCHANGED <<bound, uploader, hostname>>

CreateTunnel ==
    /\ OneTunnel => tunnels = {}
    /\ \E t \in Run : tunnels' = tunnels \cup {t}
    /\ UNCHANGED <<route, worker>>

Route == route' \in tunnels /\ UNCHANGED <<tunnels, worker>>

\* What it may mean for the run: it goes on, or is done and takes what is
\* in place, in part or as a whole.
Goes(r, to) ==
    /\ phase' = [phase EXCEPT ![r] = to]
    /\ \A q \in Run \ {r} : hook'[q] = hook[q] /\ token'[q] = token[q]

Continue(r) == UNCHANGED <<phase, hook, token>>

Serve(r) ==
    /\ Goes(r, "running")
    /\ exclusive /\ hook'[r] => attached' /\ uploader' = r
    /\ OneTunnel /\ token'[r] # None => route' = token'[r] /\ token'[r] \in tunnels'

-----------------------------------------------------------------------------
Start(r) ==
    /\ phase[r] = "idle"
    /\ exclusive => \A q \in Run : ~Live(q)
    /\ \/ phase' = [phase EXCEPT ![r] = "deploying"] /\ UNCHANGED <<hook, token>>
       \/ Serve(r) /\ ~hook'[r] /\ token'[r] = None
    /\ UNCHANGED <<worker, hostname, circumstances>>

Deploy(r) ==
    /\ phase[r] = "deploying"
    /\ Upload(r) \/ Attach \/ CreateTunnel \/ Route \/ UNCHANGED <<worker, hostname>>
    /\ Continue(r) \/ Serve(r)
    /\ UNCHANGED circumstances

End(r) ==
    /\ Live(r)
    /\ phase' = [phase EXCEPT ![r] = "ended"]
    /\ UNCHANGED <<hook, token, worker, hostname, circumstances>>

\* The user deletes the tunnels between two runs; the route dangles.
DeleteTunnel ==
    /\ \A r \in Run : ~Live(r)
    /\ tunnels' = {}
    /\ UNCHANGED <<phase, hook, token, worker, route, circumstances>>

Next == DeleteTunnel \/ \E r \in Run : Start(r) \/ Deploy(r) \/ End(r)

Spec == Init /\ [][Next]_vars

=============================================================================
