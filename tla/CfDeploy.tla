------------------------------ MODULE CfDeploy ------------------------------
(***************************************************************************)
(* Provisioning at startup (internal/cfdeploy and its call in main.go):    *)
(* every run of the program finds or creates a Workers KV namespace,       *)
(* uploads the Worker bound to it, attaches its domain and, if no token is *)
(* configured, finds or creates a named tunnel, fetches its token and      *)
(* routes WS_HOST to it.  Each step is one request to the Cloudflare API:  *)
(* it may be refused, be carried out and its answer lost, or never be      *)
(* answered.  A run may be killed at any time, and runs on several         *)
(* machines may share the account.                                         *)
(*                                                                         *)
(* A run creates at most one namespace and one tunnel: each is named here  *)
(* after the run that created it.                                          *)
(***************************************************************************)
EXTENDS FiniteSets

CONSTANTS
    Run,     \* the runs of the program
    Config,  \* the settings an .env file may hold
    None     \* no namespace, tunnel, script, record or run

WsHosts == {"", "quick", "worker", "outside", "inside"}

ASSUME CfDeployAssumption ==
    /\ None \notin Run \cup [ns : Run, by : Run]
    /\ Config \subseteq [apiToken : BOOLEAN, domain : BOOLEAN,
                         tunnelToken : BOOLEAN, wsHost : WsHosts]

VARIABLES
    \* the runs
    pc,        \* the request each run waits for
    cfg,       \* the settings of each run
    ns,        \* the namespace each run found or created
    tun,       \* the tunnel each run found or created
    webhook,   \* does the run use the Worker's webhook?
    token,     \* the tunnel whose token the run uses
    stalled,   \* the runs whose request is never answered
    \* the Cloudflare account
    namespaces, tunnels,
    script,    \* the namespace the script is bound to and the run that uploaded it
    attached,  \* is the Worker's domain attached?
    dns,       \* the tunnel the CNAME of WS_HOST names
    \* the circumstances
    exclusive, \* does each run end before the next starts?
    unique,    \* does the account refuse a second namespace or tunnel of a name?
    paged      \* are there more namespaces than the first page shows?

runs == <<pc, webhook, token>>
found == <<ns, tun>>
account == <<namespaces, tunnels, script, attached, dns>>
circumstances == <<exclusive, unique, paged>>
vars == <<runs, cfg, found, stalled, account, circumstances>>

WorkerSteps == {"account", "list kv", "create kv", "upload", "attach"}
TunnelSteps == {"list tunnels", "create tunnel", "token", "zone", "list dns",
                "create dns", "update dns"}
Requests == WorkerSteps \cup TunnelSteps

TypeOK ==
    /\ pc \in [Run -> Requests \cup {"idle", "running", "ended"}]
    /\ cfg \in [Run -> Config]
    /\ ns \in [Run -> Run \cup {None}]
    /\ tun \in [Run -> Run \cup {None}]
    /\ webhook \in [Run -> BOOLEAN]
    /\ token \in [Run -> Run \cup {None}]
    /\ stalled \subseteq Run
    /\ namespaces \subseteq Run
    /\ tunnels \subseteq Run
    /\ script \in [ns : Run, by : Run] \cup {None}
    /\ attached \in BOOLEAN
    /\ dns \in Run \cup {None}
    /\ exclusive \in BOOLEAN
    /\ unique \in BOOLEAN
    /\ paged \in BOOLEAN

Init ==
    /\ pc = [r \in Run |-> "idle"]
    /\ cfg \in [Run -> Config]
    /\ ns = [r \in Run |-> None]
    /\ tun = [r \in Run |-> None]
    /\ webhook = [r \in Run |-> FALSE]
    /\ token = [r \in Run |-> None]
    /\ stalled = {}
    /\ namespaces = {}
    /\ tunnels = {}
    /\ script = None
    /\ attached = FALSE
    /\ dns = None
    /\ exclusive \in BOOLEAN
    /\ unique \in BOOLEAN
    /\ paged \in BOOLEAN

-----------------------------------------------------------------------------
(* How a run goes on.                                                      *)

\* Ensure does something at all.
Enabled(c) == c.apiToken /\ c.domain

\* ensureNamedTunnel does something: no token is configured, and WS_HOST is
\* the domain or below it and not the Worker's own hostname.
WantsTunnel(c) == ~c.tunnelToken /\ c.wsHost = "inside"

At(r, request) == pc[r] = request /\ r \notin stalled

Proceed(r, to) ==
    /\ pc' = [pc EXCEPT ![r] = to]
    /\ UNCHANGED <<webhook, token>>

\* Ensure returns and main adopts what it got: the webhook if hook, and the
\* token of tunnel t if there is one.
Return(r, hook, t) ==
    /\ pc' = [pc EXCEPT ![r] = "running"]
    /\ webhook' = [webhook EXCEPT ![r] = hook]
    /\ token' = [token EXCEPT ![r] = t]

\* Mutant: the webhook is adopted whatever failed.
GiveUpWithWebhook(r) == Return(r, TRUE, None)

\* An error ends Ensure; the Worker's half is kept if it was complete.
GiveUp(r) == Return(r, pc[r] \in TunnelSteps, None)

-----------------------------------------------------------------------------
(* The requests.                                                           *)

Start(r) ==
    /\ pc[r] = "idle"
    /\ exclusive => \A q \in Run : pc[q] \in {"idle", "ended"}
    /\ IF Enabled(cfg[r]) THEN Proceed(r, "account") ELSE Return(r, FALSE, None)
    /\ UNCHANGED <<cfg, found, stalled, account, circumstances>>

resolveAccountID(r) ==
    /\ At(r, "account")
    /\ Proceed(r, "list kv")
    /\ UNCHANGED <<cfg, found, stalled, account, circumstances>>

\* Mutant: the list is not searched for the title.
ListNamespacesUnsearched(r) ==
    /\ At(r, "list kv")
    /\ Proceed(r, "create kv")
    /\ UNCHANGED <<cfg, found, stalled, account, circumstances>>

\* Mutant: an empty list is taken for a found namespace.
ListNamespacesFirst(r) ==
    /\ At(r, "list kv")
    /\ Proceed(r, "upload")
    /\ ns' = [ns EXCEPT ![r] = IF namespaces = {} THEN None
                               ELSE CHOOSE n \in namespaces : TRUE]
    /\ UNCHANGED <<cfg, tun, stalled, account, circumstances>>

\* ensureKVNamespace: the first page may not show the namespace.
ListNamespaces(r) ==
    /\ At(r, "list kv")
    /\ \/ /\ Proceed(r, "upload")
          /\ \E n \in namespaces : ns' = [ns EXCEPT ![r] = n]
       \/ /\ namespaces = {} \/ paged
          /\ Proceed(r, "create kv")
          /\ ns' = ns
    /\ UNCHANGED <<cfg, tun, stalled, account, circumstances>>

CreateNamespace(r) ==
    /\ At(r, "create kv")
    /\ unique => namespaces = {}
    /\ namespaces' = namespaces \cup {r}
    /\ ns' = [ns EXCEPT ![r] = r]
    /\ Proceed(r, "upload") \/ GiveUp(r)
    /\ UNCHANGED <<cfg, tun, stalled, tunnels, script, attached, dns, circumstances>>

\* Mutant: a failed upload does not stop the deployment.
UploadBestEffort(r) ==
    /\ At(r, "upload")
    /\ script' \in {script, [ns |-> ns[r], by |-> r]}
    /\ Proceed(r, "attach")
    /\ UNCHANGED <<cfg, found, stalled, namespaces, tunnels, attached, dns, circumstances>>

uploadScript(r) ==
    /\ At(r, "upload")
    /\ script' = [ns |-> ns[r], by |-> r]
    /\ Proceed(r, "attach") \/ GiveUp(r)
    /\ UNCHANGED <<cfg, found, stalled, namespaces, tunnels, attached, dns, circumstances>>

attachCustomDomain(r) ==
    /\ At(r, "attach")
    /\ attached' = TRUE
    /\ \/ /\ WantsTunnel(cfg[r])
          /\ Proceed(r, "list tunnels")
       \/ /\ ~WantsTunnel(cfg[r])
          /\ Return(r, TRUE, None)
       \/ GiveUp(r)
    /\ UNCHANGED <<cfg, found, stalled, namespaces, tunnels, script, dns, circumstances>>

\* ensureTunnel: the list is filtered by name.
ListTunnels(r) ==
    /\ At(r, "list tunnels")
    /\ \/ /\ Proceed(r, "token")
          /\ \E t \in tunnels : tun' = [tun EXCEPT ![r] = t]
       \/ /\ tunnels = {}
          /\ Proceed(r, "create tunnel")
          /\ tun' = tun
    /\ UNCHANGED <<cfg, ns, stalled, account, circumstances>>

CreateTunnel(r) ==
    /\ At(r, "create tunnel")
    /\ unique => tunnels = {}
    /\ tunnels' = tunnels \cup {r}
    /\ tun' = [tun EXCEPT ![r] = r]
    /\ Proceed(r, "token") \/ GiveUp(r)
    /\ UNCHANGED <<cfg, ns, stalled, namespaces, script, attached, dns, circumstances>>

ensureTunnelToken(r) ==
    /\ At(r, "token")
    /\ Proceed(r, "zone")
    /\ UNCHANGED <<cfg, found, stalled, account, circumstances>>

resolveZoneID(r) ==
    /\ At(r, "zone")
    /\ Proceed(r, "list dns")
    /\ UNCHANGED <<cfg, found, stalled, account, circumstances>>

\* Mutant: a record that is there is taken for the right one.
ListDnsAnyRecord(r) ==
    /\ At(r, "list dns")
    /\ \/ dns # None /\ Return(r, TRUE, tun[r])
       \/ dns = None /\ Proceed(r, "create dns")
    /\ UNCHANGED <<cfg, found, stalled, account, circumstances>>

\* ensureDNSRoute
ListDns(r) ==
    /\ At(r, "list dns")
    /\ \/ dns = tun[r] /\ Return(r, TRUE, tun[r])
       \/ dns = None /\ Proceed(r, "create dns")
       \/ dns \notin {None, tun[r]} /\ Proceed(r, "update dns")
    /\ UNCHANGED <<cfg, found, stalled, account, circumstances>>

\* A name has one CNAME: a second one is refused.
WriteDns(r) ==
    /\ \/ At(r, "create dns") /\ dns = None
       \/ At(r, "update dns")
    /\ dns' = tun[r]
    /\ Return(r, TRUE, tun[r]) \/ GiveUp(r)
    /\ UNCHANGED <<cfg, found, stalled, namespaces, tunnels, script, attached, circumstances>>

\* The request is refused, or is not carried out.
RequestFails(r) ==
    /\ pc[r] \in Requests /\ r \notin stalled
    /\ GiveUp(r)
    /\ UNCHANGED <<cfg, found, stalled, account, circumstances>>

\* The API accepts the connection and never answers: the client has neither
\* a timeout nor a deadline in its context.
Stall(r) ==
    /\ pc[r] \in Requests /\ r \notin stalled
    /\ stalled' = stalled \cup {r}
    /\ UNCHANGED <<runs, cfg, found, account, circumstances>>

\* The run is killed, or is done.
End(r) ==
    /\ pc[r] \in Requests \cup {"running"}
    /\ pc' = [pc EXCEPT ![r] = "ended"]
    /\ UNCHANGED <<webhook, token, cfg, found, stalled, account, circumstances>>

\* Between two runs the user deletes the tunnel; its CNAME stays.
DeleteTunnel ==
    /\ \A r \in Run : pc[r] \in {"idle", "ended"}
    /\ tunnels # {}
    /\ tunnels' = {}
    /\ UNCHANGED <<runs, cfg, found, stalled, namespaces, script, attached, dns,
                   circumstances>>

-----------------------------------------------------------------------------

Worker(r) ==
    \/ resolveAccountID(r) \/ ListNamespaces(r) \/ CreateNamespace(r)
    \/ uploadScript(r) \/ attachCustomDomain(r)

NamedTunnel(r) ==
    \/ ListTunnels(r) \/ CreateTunnel(r) \/ ensureTunnelToken(r)
    \/ resolveZoneID(r) \/ ListDns(r) \/ WriteDns(r)

Ensure(r) == Worker(r) \/ NamedTunnel(r) \/ RequestFails(r)

Next ==
    \/ \E r \in Run : Start(r) \/ Ensure(r) \/ Stall(r) \/ End(r)
    \/ DeleteTunnel

Spec == Init /\ [][Next]_vars

\* A started run goes on: a request that is answered at all is answered.
FairSpec == Spec /\ \A r \in Run : WF_vars(Ensure(r))

-----------------------------------------------------------------------------
(* Properties.                                                             *)

\* Two machines at once, or a namespace beyond the first page, may make a
\* second namespace unless the account refuses it.
OneNamespace == unique \/ (exclusive /\ ~paged)
OneTunnel == unique \/ exclusive

\* What the Worker stored survives every restart, failure and lost answer:
\* an upload never binds the script to another namespace.
StoredConfigKept ==
    [][OneNamespace /\ script # None => script'.ns = script.ns]_vars

\* The webhook a run uses works: the script it uploaded, with its password,
\* is bound to a namespace and attached to the domain.
WebhookIsLive ==
    \A r \in Run :
       exclusive /\ pc[r] = "running" /\ webhook[r] =>
          /\ attached
          /\ script = [ns |-> ns[r], by |-> r]
          /\ ns[r] \in namespaces

\* A run that connects a tunnel it provisioned is reachable under WS_HOST:
\* the CNAME names that tunnel, not a deleted one nor another machine's.
TokenMatchesRoute ==
    \A r \in Run :
       OneTunnel /\ pc[r] = "running" /\ token[r] # None =>
          /\ dns = token[r]
          /\ token[r] \in tunnels

\* The Worker's script under its two parts.
BoundTo == IF script = None THEN None ELSE script.ns
UploadedBy == IF script = None THEN None ELSE script.by

Host == INSTANCE Hosting WITH
    phase <- [r \in Run |-> IF pc[r] \in Requests THEN "deploying" ELSE pc[r]],
    hook <- webhook,
    bound <- BoundTo,
    uploader <- UploadedBy,
    route <- dns

\* The requests, in whatever order they fail, amount to one deployment that
\* runs share: the Worker keeps its namespace, WS_HOST is only routed to a
\* tunnel that exists, and a run uses a webhook or a tunnel only when what
\* it needs is in place at that moment.
ImplementsHosting == Host!Spec

\* What deploy.go says: provisioning never keeps the tunnel from starting.
NeverBlocksStartup ==
    \A r \in Run : pc[r] \in Requests ~> pc[r] \in {"running", "ended"}

=============================================================================
