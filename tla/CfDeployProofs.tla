--------------------------- MODULE CfDeployProofs ---------------------------
(***************************************************************************)
(* Proofs about CfDeploy for any set of runs and settings: the tunnel a    *)
(* run connects is the one WS_HOST is routed to, the webhook it uses is    *)
(* deployed, and no upload takes the Worker away from its stored values.   *)
(***************************************************************************)
EXTENDS CfDeploy, TLAPS

Live(r) == pc[r] \in Requests \cup {"running"}

\* Without overlap, one run at most is live.
AloneInv == exclusive => \A q, r \in Run : Live(q) /\ Live(r) => q = r

\* What the steps of the tunnel half have found.
TunInv ==
    /\ \A r \in Run : pc[r] \in {"token", "zone", "list dns", "create dns", "update dns"}
          => tun[r] \in tunnels
    /\ OneTunnel =>
          /\ \A t, u \in tunnels : t = u
          /\ \A r \in Run : pc[r] = "create tunnel" /\ ~unique => tunnels = {}

\* What the steps of the Worker half have found and done.
KvInv ==
    /\ \A r \in Run : pc[r] \in {"upload", "attach"} \cup TunnelSteps => ns[r] \in namespaces
    /\ script # None => script.ns \in namespaces
    /\ OneNamespace =>
          /\ \A m, n \in namespaces : m = n
          /\ \A r \in Run : pc[r] = "create kv" /\ ~unique => namespaces = {}

DeployedInv ==
    exclusive =>
      \A r \in Run :
        /\ pc[r] \in {"attach"} \cup TunnelSteps => script = [ns |-> ns[r], by |-> r]
        /\ pc[r] \in TunnelSteps => attached

IInv ==
    /\ TypeOK
    /\ AloneInv
    /\ TunInv
    /\ KvInv
    /\ DeployedInv
    /\ WebhookIsLive
    /\ TokenMatchesRoute

LEMMA IInvInit == Init => IInv
BY CfDeployAssumption
   DEF Init, IInv, TypeOK, AloneInv, TunInv, KvInv, DeployedInv, WebhookIsLive,
       TokenMatchesRoute, Live, Requests, WorkerSteps, TunnelSteps, OneTunnel,
       OneNamespace

-----------------------------------------------------------------------------
(* What a step changes of the runs, point by point.                        *)

Runs ==
    /\ pc \in [Run -> Requests \cup {"idle", "running", "ended"}]
    /\ webhook \in [Run -> BOOLEAN]
    /\ token \in [Run -> Run \cup {None}]

Moves(r, S) ==
    /\ Runs'
    /\ pc'[r] \in S
    /\ \A q \in Run \ {r} : /\ pc'[q] = pc[q]
                            /\ webhook'[q] = webhook[q]
                            /\ token'[q] = token[q]

LEMMA ProceedMoves ==
    ASSUME Runs, NEW r \in Run, NEW to \in Requests, Proceed(r, to)
    PROVE  Moves(r, {to}) /\ UNCHANGED <<webhook, token>>
BY DEF Runs, Proceed, Moves

LEMMA ReturnMoves ==
    ASSUME Runs, NEW r \in Run, NEW hook \in BOOLEAN, NEW t \in Run \cup {None},
           Return(r, hook, t)
    PROVE  Moves(r, {"running"}) /\ webhook'[r] = hook /\ token'[r] = t
BY DEF Runs, Return, Moves

LEMMA GiveUpMoves ==
    ASSUME Runs, NEW r \in Run, GiveUp(r)
    PROVE  /\ Moves(r, {"running"})
           /\ webhook'[r] => pc[r] \in TunnelSteps
           /\ token'[r] = None
<1>1. (pc[r] \in TunnelSteps) \in BOOLEAN  OBVIOUS
<1>2. Return(r, pc[r] \in TunnelSteps, None)  BY DEF GiveUp
<1>3. QED  BY <1>1, <1>2, ReturnMoves

-----------------------------------------------------------------------------
(* Requests that change nothing, runs that begin and end.                  *)

LEMMA StartStep ==
    ASSUME IInv, NEW r \in Run, Start(r)
    PROVE  IInv'
<1> USE DEF Requests, WorkerSteps, TunnelSteps
<1>0. Runs  BY DEF IInv, TypeOK, Runs
<1>1. /\ Moves(r, {"account", "running"})
      /\ pc[r] = "idle"
      /\ exclusive => \A q \in Run : pc[q] \in {"idle", "ended"}
      /\ pc'[r] = "running" => ~webhook'[r] /\ token'[r] = None
  <2>1. CASE Proceed(r, "account")
    <3>1. Moves(r, {"account"})  BY <1>0, <2>1, ProceedMoves
    <3>2. QED  BY <3>1 DEF Start, Moves
  <2>2. CASE Return(r, FALSE, None)
    <3>1. Moves(r, {"running"}) /\ ~webhook'[r] /\ token'[r] = None
      BY <1>0, <2>2, ReturnMoves
    <3>2. QED  BY <3>1 DEF Start, Moves
  <2>3. QED  BY <2>1, <2>2 DEF Start
<1>2. UNCHANGED <<cfg, ns, tun, stalled, namespaces, tunnels, script, attached, dns, exclusive, unique, paged>>
  BY DEF Start, found, account, circumstances, runs
<1>4. TypeOK'  BY <1>1, <1>2 DEF Moves, Runs, IInv, TypeOK
<1>5. AloneInv'  BY <1>1, <1>2 DEF IInv, Moves, AloneInv, Live
<1>6. TunInv'  BY <1>1, <1>2 DEF IInv, Moves, TunInv, OneTunnel
<1>7. KvInv'  BY <1>1, <1>2 DEF IInv, Moves, KvInv, OneNamespace
<1>8. DeployedInv'  BY <1>1, <1>2 DEF IInv, Moves, DeployedInv
<1>9. WebhookIsLive'  BY <1>1, <1>2 DEF IInv, Moves, WebhookIsLive, DeployedInv, KvInv
<1>10. TokenMatchesRoute'  BY <1>1, <1>2 DEF IInv, Moves, TokenMatchesRoute, OneTunnel
<1>11. QED  BY <1>4, <1>5, <1>6, <1>7, <1>8, <1>9, <1>10 DEF IInv

LEMMA ReadStep ==
    ASSUME IInv, NEW r \in Run, resolveAccountID(r) \/ ensureTunnelToken(r) \/ resolveZoneID(r)
    PROVE  IInv'
<1> USE DEF Requests, WorkerSteps, TunnelSteps
<1>0. Runs  BY DEF IInv, TypeOK, Runs
<1>1. \/ pc[r] = "account" /\ Moves(r, {"list kv"})
      \/ pc[r] = "token" /\ Moves(r, {"zone"})
      \/ pc[r] = "zone" /\ Moves(r, {"list dns"})
  BY <1>0, ProceedMoves DEF resolveAccountID, ensureTunnelToken, resolveZoneID, At
<1>2. UNCHANGED <<cfg, ns, tun, stalled, namespaces, tunnels, script, attached, dns, exclusive, unique, paged>>
  BY DEF resolveAccountID, ensureTunnelToken, resolveZoneID, found, account, circumstances, runs
<1>4. TypeOK'  BY <1>1, <1>2 DEF Moves, Runs, IInv, TypeOK
<1>5. AloneInv'  BY <1>1, <1>2 DEF IInv, Moves, AloneInv, Live
<1>6. TunInv'  BY <1>1, <1>2 DEF IInv, Moves, TunInv, OneTunnel
<1>7. KvInv'  BY <1>1, <1>2 DEF IInv, Moves, KvInv, OneNamespace
<1>8. DeployedInv'  BY <1>1, <1>2 DEF IInv, Moves, DeployedInv
<1>9. WebhookIsLive'  BY <1>1, <1>2 DEF IInv, Moves, WebhookIsLive, DeployedInv, KvInv
<1>10. TokenMatchesRoute'  BY <1>1, <1>2 DEF IInv, Moves, TokenMatchesRoute, OneTunnel
<1>11. QED  BY <1>4, <1>5, <1>6, <1>7, <1>8, <1>9, <1>10 DEF IInv

\* An error anywhere: the webhook is adopted only after the Worker's half.
LEMMA FailStep ==
    ASSUME IInv, NEW r \in Run, RequestFails(r)
    PROVE  IInv'
<1> USE DEF Requests, WorkerSteps, TunnelSteps
<1>0. Runs  BY DEF IInv, TypeOK, Runs
<1>1. /\ pc[r] \in Requests /\ Moves(r, {"running"})
      /\ webhook'[r] => pc[r] \in TunnelSteps
      /\ token'[r] = None
  BY <1>0, GiveUpMoves DEF RequestFails
<1>2. UNCHANGED <<cfg, ns, tun, stalled, namespaces, tunnels, script, attached, dns, exclusive, unique, paged>>
  BY DEF RequestFails, found, account, circumstances, runs
<1>4. TypeOK'  BY <1>1, <1>2 DEF Moves, Runs, IInv, TypeOK
<1>5. AloneInv'  BY <1>1, <1>2 DEF IInv, Moves, AloneInv, Live
<1>6. TunInv'  BY <1>1, <1>2 DEF IInv, Moves, TunInv, OneTunnel
<1>7. KvInv'  BY <1>1, <1>2 DEF IInv, Moves, KvInv, OneNamespace
<1>8. DeployedInv'  BY <1>1, <1>2 DEF IInv, Moves, DeployedInv
<1>9. WebhookIsLive'  BY <1>1, <1>2 DEF IInv, Moves, WebhookIsLive, DeployedInv, KvInv
<1>10. TokenMatchesRoute'  BY <1>1, <1>2 DEF IInv, Moves, TokenMatchesRoute, OneTunnel
<1>11. QED  BY <1>4, <1>5, <1>6, <1>7, <1>8, <1>9, <1>10 DEF IInv

LEMMA EndStep ==
    ASSUME IInv, NEW r \in Run, End(r)
    PROVE  IInv'
<1> USE DEF Requests, WorkerSteps, TunnelSteps
<1>0. Runs  BY DEF IInv, TypeOK, Runs
<1>1. pc[r] \in Requests \cup {"running"} /\ Moves(r, {"ended"})
  BY <1>0 DEF End, Moves, Runs
<1>2. UNCHANGED <<cfg, ns, tun, stalled, namespaces, tunnels, script, attached, dns, exclusive, unique, paged>>
  BY DEF End, found, account, circumstances, runs
<1>4. TypeOK'  BY <1>1, <1>2 DEF Moves, Runs, IInv, TypeOK
<1>5. AloneInv'  BY <1>1, <1>2 DEF IInv, Moves, AloneInv, Live
<1>6. TunInv'  BY <1>1, <1>2 DEF IInv, Moves, TunInv, OneTunnel
<1>7. KvInv'  BY <1>1, <1>2 DEF IInv, Moves, KvInv, OneNamespace
<1>8. DeployedInv'  BY <1>1, <1>2 DEF IInv, Moves, DeployedInv
<1>9. WebhookIsLive'  BY <1>1, <1>2 DEF IInv, Moves, WebhookIsLive, DeployedInv, KvInv
<1>10. TokenMatchesRoute'  BY <1>1, <1>2 DEF IInv, Moves, TokenMatchesRoute, OneTunnel
<1>11. QED  BY <1>4, <1>5, <1>6, <1>7, <1>8, <1>9, <1>10 DEF IInv

LEMMA StallStep ==
    ASSUME IInv, NEW r \in Run, Stall(r)
    PROVE  IInv'
<1>1. stalled' \subseteq Run  BY DEF IInv, TypeOK, Stall
<1>2. UNCHANGED <<runs, cfg, found, account, circumstances>>  BY DEF Stall
<1>3. TypeOK'  BY <1>1, <1>2 DEF IInv, TypeOK, runs, found, account, circumstances
<1>4. (AloneInv /\ TunInv /\ KvInv /\ DeployedInv)'
  BY <1>2 DEF IInv, AloneInv, Live, TunInv, KvInv, DeployedInv, OneTunnel, OneNamespace,
              runs, found, account, circumstances
<1>5. (WebhookIsLive /\ TokenMatchesRoute)'
  BY <1>2 DEF IInv, WebhookIsLive, TokenMatchesRoute, OneTunnel,
              runs, found, account, circumstances
<1>6. QED  BY <1>3, <1>4, <1>5 DEF IInv

LEMMA DeleteStep ==
    ASSUME IInv, DeleteTunnel
    PROVE  IInv'
<1> USE DEF DeleteTunnel, runs, found, account, circumstances,
            Requests, WorkerSteps, TunnelSteps
<1>1. TypeOK'  BY DEF IInv, TypeOK
<1>2. AloneInv'  BY DEF IInv, AloneInv, Live
<1>3. TunInv'  BY DEF IInv, TunInv, OneTunnel
<1>4. KvInv'  BY DEF IInv, KvInv, OneNamespace
<1>5. DeployedInv'  BY DEF IInv, DeployedInv
<1>6. WebhookIsLive'  BY DEF IInv, WebhookIsLive
<1>7. TokenMatchesRoute'  BY DEF IInv, TokenMatchesRoute, OneTunnel
<1>8. QED  BY <1>1, <1>2, <1>3, <1>4, <1>5, <1>6, <1>7 DEF IInv

-----------------------------------------------------------------------------
(* The Worker half.                                                        *)

LEMMA ListNamespacesStep ==
    ASSUME IInv, NEW r \in Run, ListNamespaces(r)
    PROVE  IInv'
<1> USE DEF Requests, WorkerSteps, TunnelSteps
<1>0. Runs  BY DEF IInv, TypeOK, Runs
<1>1. /\ pc[r] = "list kv" /\ Moves(r, {"upload", "create kv"})
      /\ pc'[r] = "create kv" => namespaces = {} \/ paged
  <2>1. \/ Proceed(r, "upload")
        \/ Proceed(r, "create kv") /\ (namespaces = {} \/ paged)
    BY DEF ListNamespaces
  <2>2. \/ Moves(r, {"upload"})
        \/ Moves(r, {"create kv"}) /\ (namespaces = {} \/ paged)
    BY <1>0, <2>1, ProceedMoves
  <2>3. QED  BY <2>2 DEF ListNamespaces, At, Moves
<1>2. UNCHANGED <<cfg, tun, stalled, namespaces, tunnels, script, attached, dns, exclusive, unique, paged>>
  BY DEF ListNamespaces, found, account, circumstances, runs
<1>3. /\ ns' \in [Run -> Run \cup {None}]
      /\ \A q \in Run : ns'[q] = ns[q] \/ (q = r /\ ns'[r] \in namespaces)
      /\ pc'[r] = "upload" => ns'[r] \in namespaces
  BY DEF ListNamespaces, Proceed, IInv, TypeOK
<1>4. TypeOK'  BY <1>1, <1>2, <1>3 DEF Moves, Runs, IInv, TypeOK
<1>5. AloneInv'  BY <1>1, <1>2, <1>3 DEF IInv, Moves, AloneInv, Live
<1>6. TunInv'  BY <1>1, <1>2, <1>3 DEF IInv, Moves, TunInv, OneTunnel
<1>7. KvInv'  BY <1>1, <1>2, <1>3 DEF IInv, Moves, KvInv, OneNamespace
<1>8. DeployedInv'  BY <1>1, <1>2, <1>3 DEF IInv, Moves, DeployedInv
<1>9. WebhookIsLive'  BY <1>1, <1>2, <1>3 DEF IInv, Moves, WebhookIsLive, DeployedInv, KvInv
<1>10. TokenMatchesRoute'  BY <1>1, <1>2, <1>3 DEF IInv, Moves, TokenMatchesRoute, OneTunnel
<1>11. QED  BY <1>4, <1>5, <1>6, <1>7, <1>8, <1>9, <1>10 DEF IInv

LEMMA CreateNamespaceStep ==
    ASSUME IInv, NEW r \in Run, CreateNamespace(r)
    PROVE  IInv'
<1> USE DEF Requests, WorkerSteps, TunnelSteps
<1>0. Runs  BY DEF IInv, TypeOK, Runs
<1>1. /\ pc[r] = "create kv" /\ Moves(r, {"upload", "running"})
      /\ pc'[r] = "running" => ~webhook'[r] /\ token'[r] = None
  <2>1. Proceed(r, "upload") \/ GiveUp(r)  BY DEF CreateNamespace
  <2>2. pc[r] \notin TunnelSteps  BY DEF CreateNamespace, At
  <2>3. CASE Proceed(r, "upload")
    <3>1. Moves(r, {"upload"})  BY <1>0, <2>3, ProceedMoves
    <3>2. QED  BY <3>1 DEF CreateNamespace, At, Moves
  <2>4. CASE GiveUp(r)
    <3>1. Moves(r, {"running"}) /\ ~webhook'[r] /\ token'[r] = None
      BY <1>0, <2>2, <2>4, GiveUpMoves
    <3>2. QED  BY <3>1 DEF CreateNamespace, At, Moves
  <2>5. QED  BY <2>1, <2>3, <2>4
<1>2. UNCHANGED <<cfg, tun, stalled, tunnels, script, attached, dns, exclusive, unique, paged>>
  BY DEF CreateNamespace, found, account, circumstances, runs
<1>3. /\ ns' \in [Run -> Run \cup {None}] /\ ns'[r] = r
      /\ \A q \in Run \ {r} : ns'[q] = ns[q]
      /\ namespaces' = namespaces \cup {r}
      /\ unique => namespaces = {}
  BY DEF CreateNamespace, IInv, TypeOK
<1>4. TypeOK'  BY <1>1, <1>2, <1>3 DEF Moves, Runs, IInv, TypeOK
<1>5. AloneInv'  BY <1>1, <1>2, <1>3 DEF IInv, Moves, AloneInv, Live
<1>6. TunInv'  BY <1>1, <1>2, <1>3 DEF IInv, Moves, TunInv, OneTunnel
<1>7. KvInv'
  <2>1. \A q \in Run : pc'[q] \in {"upload", "attach"} \cup TunnelSteps
           => ns'[q] \in namespaces'
    BY <1>1, <1>2, <1>3 DEF IInv, Moves, KvInv
  <2>2. script' # None => script'.ns \in namespaces'
    BY <1>2, <1>3 DEF IInv, KvInv
  <2>3. ASSUME OneNamespace'
        PROVE  namespaces = {}
    BY <2>3, <1>1, <1>2, <1>3 DEF IInv, KvInv, OneNamespace
  <2>4. ASSUME OneNamespace', NEW q \in Run, pc'[q] = "create kv"
        PROVE  unique'
    BY <2>4, <1>1, <1>2 DEF IInv, Moves, AloneInv, Live, OneNamespace
  <2>5. QED  BY <2>1, <2>2, <2>3, <2>4, <1>3 DEF KvInv
<1>8. DeployedInv'  BY <1>1, <1>2, <1>3 DEF IInv, Moves, DeployedInv
<1>9. WebhookIsLive'  BY <1>1, <1>2, <1>3 DEF IInv, Moves, WebhookIsLive, DeployedInv, KvInv
<1>10. TokenMatchesRoute'  BY <1>1, <1>2, <1>3 DEF IInv, Moves, TokenMatchesRoute, OneTunnel
<1>11. QED  BY <1>4, <1>5, <1>6, <1>7, <1>8, <1>9, <1>10 DEF IInv

LEMMA UploadStep ==
    ASSUME IInv, NEW r \in Run, uploadScript(r)
    PROVE  IInv'
<1> USE DEF Requests, WorkerSteps, TunnelSteps
<1>0. Runs  BY DEF IInv, TypeOK, Runs
<1>1. /\ pc[r] = "upload" /\ Moves(r, {"attach", "running"})
      /\ pc'[r] = "running" => ~webhook'[r] /\ token'[r] = None
  <2>1. Proceed(r, "attach") \/ GiveUp(r)  BY DEF uploadScript
  <2>2. pc[r] \notin TunnelSteps  BY DEF uploadScript, At
  <2>3. CASE Proceed(r, "attach")
    <3>1. Moves(r, {"attach"})  BY <1>0, <2>3, ProceedMoves
    <3>2. QED  BY <3>1 DEF uploadScript, At, Moves
  <2>4. CASE GiveUp(r)
    <3>1. Moves(r, {"running"}) /\ ~webhook'[r] /\ token'[r] = None
      BY <1>0, <2>2, <2>4, GiveUpMoves
    <3>2. QED  BY <3>1 DEF uploadScript, At, Moves
  <2>5. QED  BY <2>1, <2>3, <2>4
<1>2. UNCHANGED <<cfg, ns, tun, stalled, namespaces, tunnels, attached, dns, exclusive, unique, paged>>
  BY DEF uploadScript, found, account, circumstances, runs
<1>3. /\ script' = [ns |-> ns[r], by |-> r]
      /\ ns[r] \in namespaces /\ ns[r] \in Run /\ script'.ns = ns[r]
  BY <1>1 DEF uploadScript, IInv, TypeOK, KvInv
<1>4. TypeOK'  BY <1>1, <1>2, <1>3 DEF Moves, Runs, IInv, TypeOK
<1>5. AloneInv'  BY <1>1, <1>2, <1>3 DEF IInv, Moves, AloneInv, Live
<1>6. TunInv'  BY <1>1, <1>2, <1>3 DEF IInv, Moves, TunInv, OneTunnel
<1>7. KvInv'  BY <1>1, <1>2, <1>3 DEF IInv, Moves, KvInv, OneNamespace
<1>8. DeployedInv'  BY <1>1, <1>2, <1>3 DEF IInv, Moves, DeployedInv, AloneInv, Live
<1>9. WebhookIsLive'  BY <1>1, <1>2, <1>3 DEF IInv, Moves, WebhookIsLive, AloneInv, Live
<1>10. TokenMatchesRoute'  BY <1>1, <1>2, <1>3 DEF IInv, Moves, TokenMatchesRoute, OneTunnel
<1>11. QED  BY <1>4, <1>5, <1>6, <1>7, <1>8, <1>9, <1>10 DEF IInv

LEMMA AttachStep ==
    ASSUME IInv, NEW r \in Run, attachCustomDomain(r)
    PROVE  IInv'
<1> USE DEF Requests, WorkerSteps, TunnelSteps
<1>0. Runs  BY DEF IInv, TypeOK, Runs
<1>1. /\ pc[r] = "attach" /\ Moves(r, {"list tunnels", "running"})
      /\ pc'[r] = "running" => token'[r] = None
  <2>1. Proceed(r, "list tunnels") \/ Return(r, TRUE, None) \/ GiveUp(r)
    BY DEF attachCustomDomain
  <2>2. \/ Moves(r, {"list tunnels"})
        \/ Moves(r, {"running"}) /\ token'[r] = None
    BY <1>0, <2>1, ProceedMoves, ReturnMoves, GiveUpMoves
  <2>3. QED  BY <2>2 DEF attachCustomDomain, At, Moves
<1>2. UNCHANGED <<cfg, ns, tun, stalled, namespaces, tunnels, script, dns, exclusive, unique, paged>>
  BY DEF attachCustomDomain, found, account, circumstances, runs
<1>3. attached' = TRUE  BY DEF attachCustomDomain
<1>4. TypeOK'  BY <1>1, <1>2, <1>3 DEF Moves, Runs, IInv, TypeOK
<1>5. AloneInv'  BY <1>1, <1>2, <1>3 DEF IInv, Moves, AloneInv, Live
<1>6. TunInv'  BY <1>1, <1>2, <1>3 DEF IInv, Moves, TunInv, OneTunnel
<1>7. KvInv'  BY <1>1, <1>2, <1>3 DEF IInv, Moves, KvInv, OneNamespace
<1>8. DeployedInv'  BY <1>1, <1>2, <1>3 DEF IInv, Moves, DeployedInv
<1>9. WebhookIsLive'  BY <1>1, <1>2, <1>3 DEF IInv, Moves, WebhookIsLive, DeployedInv, KvInv
<1>10. TokenMatchesRoute'  BY <1>1, <1>2, <1>3 DEF IInv, Moves, TokenMatchesRoute, OneTunnel
<1>11. QED  BY <1>4, <1>5, <1>6, <1>7, <1>8, <1>9, <1>10 DEF IInv

-----------------------------------------------------------------------------
(* The tunnel half.                                                        *)

LEMMA ListTunnelsStep ==
    ASSUME IInv, NEW r \in Run, ListTunnels(r)
    PROVE  IInv'
<1> USE DEF Requests, WorkerSteps, TunnelSteps
<1>0. Runs  BY DEF IInv, TypeOK, Runs
<1>1. /\ pc[r] = "list tunnels" /\ Moves(r, {"token", "create tunnel"})
      /\ pc'[r] = "create tunnel" => tunnels = {}
  <2>1. Proceed(r, "token") \/ (Proceed(r, "create tunnel") /\ tunnels = {})
    BY DEF ListTunnels
  <2>2. Moves(r, {"token"}) \/ (Moves(r, {"create tunnel"}) /\ tunnels = {})
    BY <1>0, <2>1, ProceedMoves
  <2>3. QED  BY <2>2 DEF ListTunnels, At, Moves
<1>2. UNCHANGED <<cfg, ns, stalled, namespaces, tunnels, script, attached, dns, exclusive, unique, paged>>
  BY DEF ListTunnels, found, account, circumstances, runs
<1>3. /\ tun' \in [Run -> Run \cup {None}]
      /\ \A q \in Run : tun'[q] = tun[q] \/ (q = r /\ tun'[r] \in tunnels)
      /\ pc'[r] = "token" => tun'[r] \in tunnels
  BY DEF ListTunnels, Proceed, IInv, TypeOK
<1>4. TypeOK'  BY <1>1, <1>2, <1>3 DEF Moves, Runs, IInv, TypeOK
<1>5. AloneInv'  BY <1>1, <1>2, <1>3 DEF IInv, Moves, AloneInv, Live
<1>6. TunInv'  BY <1>1, <1>2, <1>3 DEF IInv, Moves, TunInv, OneTunnel
<1>7. KvInv'  BY <1>1, <1>2, <1>3 DEF IInv, Moves, KvInv, OneNamespace
<1>8. DeployedInv'  BY <1>1, <1>2, <1>3 DEF IInv, Moves, DeployedInv
<1>9. WebhookIsLive'  BY <1>1, <1>2, <1>3 DEF IInv, Moves, WebhookIsLive, DeployedInv, KvInv
<1>10. TokenMatchesRoute'  BY <1>1, <1>2, <1>3 DEF IInv, Moves, TokenMatchesRoute, OneTunnel
<1>11. QED  BY <1>4, <1>5, <1>6, <1>7, <1>8, <1>9, <1>10 DEF IInv

LEMMA CreateTunnelStep ==
    ASSUME IInv, NEW r \in Run, CreateTunnel(r)
    PROVE  IInv'
<1> USE DEF Requests, WorkerSteps, TunnelSteps
<1>0. Runs  BY DEF IInv, TypeOK, Runs
<1>1. /\ pc[r] = "create tunnel" /\ Moves(r, {"token", "running"})
      /\ pc'[r] = "running" => token'[r] = None
  <2>1. Proceed(r, "token") \/ GiveUp(r)  BY DEF CreateTunnel
  <2>2. \/ Moves(r, {"token"})
        \/ /\ Moves(r, {"running"}) /\ token'[r] = None
           /\ webhook'[r] => pc[r] \in TunnelSteps
    BY <1>0, <2>1, ProceedMoves, GiveUpMoves
  <2>3. QED  BY <2>2 DEF CreateTunnel, At, Moves
<1>2. UNCHANGED <<cfg, ns, stalled, namespaces, script, attached, dns, exclusive, unique, paged>>
  BY DEF CreateTunnel, found, account, circumstances, runs
<1>3. /\ tun' \in [Run -> Run \cup {None}] /\ tun'[r] = r
      /\ \A q \in Run \ {r} : tun'[q] = tun[q]
      /\ tunnels' = tunnels \cup {r}
      /\ unique => tunnels = {}
  BY DEF CreateTunnel, IInv, TypeOK
<1>4. TypeOK'  BY <1>1, <1>2, <1>3 DEF Moves, Runs, IInv, TypeOK
<1>5. AloneInv'  BY <1>1, <1>2, <1>3 DEF IInv, Moves, AloneInv, Live
<1>6. TunInv'
  <2>1. \A q \in Run : pc'[q] \in {"token", "zone", "list dns", "create dns", "update dns"}
           => tun'[q] \in tunnels'
    BY <1>1, <1>2, <1>3 DEF IInv, Moves, TunInv
  <2>2. ASSUME OneTunnel'
        PROVE  tunnels = {}
    BY <2>2, <1>1, <1>2, <1>3 DEF IInv, TunInv, OneTunnel
  <2>3. ASSUME OneTunnel', NEW q \in Run, pc'[q] = "create tunnel"
        PROVE  unique'
    BY <2>3, <1>1, <1>2 DEF IInv, Moves, AloneInv, Live, OneTunnel
  <2>4. QED  BY <2>1, <2>2, <2>3, <1>3 DEF TunInv
<1>7. KvInv'  BY <1>1, <1>2, <1>3 DEF IInv, Moves, KvInv, OneNamespace
<1>8. DeployedInv'  BY <1>1, <1>2, <1>3 DEF IInv, Moves, DeployedInv
<1>9. WebhookIsLive'  BY <1>1, <1>2, <1>3 DEF IInv, Moves, WebhookIsLive, DeployedInv, KvInv
<1>10. TokenMatchesRoute'  BY <1>1, <1>2, <1>3 DEF IInv, Moves, TokenMatchesRoute, OneTunnel
<1>11. QED  BY <1>4, <1>5, <1>6, <1>7, <1>8, <1>9, <1>10 DEF IInv

LEMMA ListDnsStep ==
    ASSUME IInv, NEW r \in Run, ListDns(r)
    PROVE  IInv'
<1> USE DEF Requests, WorkerSteps, TunnelSteps
<1>0. Runs  BY DEF IInv, TypeOK, Runs
<1>1. /\ pc[r] = "list dns" /\ Moves(r, {"create dns", "update dns", "running"})
      /\ pc'[r] = "running" => token'[r] = dns /\ dns = tun[r]
  <2>1. tun[r] \in Run \cup {None}  BY DEF IInv, TypeOK
  <2>2. \/ Return(r, TRUE, tun[r]) /\ dns = tun[r]
        \/ Proceed(r, "create dns")
        \/ Proceed(r, "update dns")
    BY DEF ListDns
  <2>3. \/ Moves(r, {"running"}) /\ token'[r] = tun[r] /\ dns = tun[r]
        \/ Moves(r, {"create dns"})
        \/ Moves(r, {"update dns"})
    BY <1>0, <2>1, <2>2, ProceedMoves, ReturnMoves
  <2>4. QED  BY <2>3 DEF ListDns, At, Moves
<1>2. UNCHANGED <<cfg, ns, tun, stalled, namespaces, tunnels, script, attached, dns, exclusive, unique, paged>>
  BY DEF ListDns, found, account, circumstances, runs
<1>4. TypeOK'  BY <1>1, <1>2 DEF Moves, Runs, IInv, TypeOK
<1>5. AloneInv'  BY <1>1, <1>2 DEF IInv, Moves, AloneInv, Live
<1>6. TunInv'  BY <1>1, <1>2 DEF IInv, Moves, TunInv, OneTunnel
<1>7. KvInv'  BY <1>1, <1>2 DEF IInv, Moves, KvInv, OneNamespace
<1>8. DeployedInv'  BY <1>1, <1>2 DEF IInv, Moves, DeployedInv
<1>9. WebhookIsLive'  BY <1>1, <1>2 DEF IInv, Moves, WebhookIsLive, DeployedInv, KvInv
<1>10. TokenMatchesRoute'  BY <1>1, <1>2 DEF IInv, Moves, TokenMatchesRoute, OneTunnel, TunInv
<1>11. QED  BY <1>4, <1>5, <1>6, <1>7, <1>8, <1>9, <1>10 DEF IInv

LEMMA WriteDnsStep ==
    ASSUME IInv, NEW r \in Run, WriteDns(r)
    PROVE  IInv'
<1> USE DEF Requests, WorkerSteps, TunnelSteps
<1>0. Runs  BY DEF IInv, TypeOK, Runs
<1>1. /\ pc[r] \in {"create dns", "update dns"} /\ Moves(r, {"running"})
      /\ token'[r] \in {tun[r], None}
  <2>1. tun[r] \in Run \cup {None}  BY DEF IInv, TypeOK
  <2>2. QED  BY <1>0, <2>1, ReturnMoves, GiveUpMoves DEF WriteDns, At, Moves
<1>2. UNCHANGED <<cfg, ns, tun, stalled, namespaces, tunnels, script, attached, exclusive, unique, paged>>
  BY DEF WriteDns, found, account, circumstances, runs
<1>3. dns' = tun[r] /\ tun[r] \in tunnels /\ tun[r] \in Run
  BY <1>1 DEF WriteDns, IInv, TypeOK, TunInv
<1>4. TypeOK'  BY <1>1, <1>2, <1>3 DEF Moves, Runs, IInv, TypeOK
<1>5. AloneInv'  BY <1>1, <1>2, <1>3 DEF IInv, Moves, AloneInv, Live
<1>6. TunInv'  BY <1>1, <1>2, <1>3 DEF IInv, Moves, TunInv, OneTunnel
<1>7. KvInv'  BY <1>1, <1>2, <1>3 DEF IInv, Moves, KvInv, OneNamespace
<1>8. DeployedInv'  BY <1>1, <1>2, <1>3 DEF IInv, Moves, DeployedInv
<1>9. WebhookIsLive'  BY <1>1, <1>2, <1>3 DEF IInv, Moves, WebhookIsLive, DeployedInv, KvInv
<1>10. TokenMatchesRoute'
  <2> SUFFICES ASSUME NEW q \in Run, OneTunnel', pc'[q] = "running", token'[q] # None
               PROVE  dns' = token'[q] /\ token'[q] \in tunnels'
    BY DEF TokenMatchesRoute
  <2>1. CASE q = r  BY <1>1, <1>2, <1>3, <2>1
  <2>2. CASE q # r
    <3>1. token'[q] = token[q] /\ token[q] \in tunnels
      BY <2>2, <1>1, <1>2 DEF IInv, Moves, TokenMatchesRoute, OneTunnel
    <3>2. token[q] = tun[r]
      BY <1>2, <1>3, <3>1 DEF IInv, TunInv, OneTunnel
    <3>3. QED  BY <1>2, <1>3, <3>1, <3>2
  <2>3. QED  BY <2>1, <2>2
<1>11. QED  BY <1>4, <1>5, <1>6, <1>7, <1>8, <1>9, <1>10 DEF IInv

-----------------------------------------------------------------------------

LEMMA IInvStep == IInv /\ [Next]_vars => IInv'
<1> SUFFICES ASSUME IInv, [Next]_vars
             PROVE  IInv'
  OBVIOUS
<1>1. ASSUME NEW r \in Run, Start(r) \/ Ensure(r) \/ Stall(r) \/ End(r)
      PROVE  IInv'
  BY <1>1, StartStep, ReadStep, FailStep, StallStep, EndStep, ListNamespacesStep,
     CreateNamespaceStep, UploadStep, AttachStep, ListTunnelsStep,
     CreateTunnelStep, ListDnsStep, WriteDnsStep
     DEF Ensure, Worker, NamedTunnel
<1>2. CASE DeleteTunnel  BY <1>2, DeleteStep
<1>3. CASE UNCHANGED vars
  BY <1>3 DEF vars, runs, found, account, circumstances, IInv, TypeOK, AloneInv, Live,
     TunInv, KvInv, DeployedInv, WebhookIsLive, TokenMatchesRoute, OneTunnel, OneNamespace
<1>4. QED  BY <1>1, <1>2, <1>3 DEF Next

THEOREM IInvAlways == Spec => []IInv
BY IInvInit, IInvStep, PTL DEF Spec

\* Every run waits for one of its requests, and uses what a run created.
THEOREM TypeCorrect == Spec => []TypeOK
<1>1. IInv => TypeOK  BY DEF IInv
<1>2. QED  BY <1>1, IInvAlways, PTL

\* Without overlap, the webhook of the running program is deployed whole.
THEOREM WebhookDeployed == Spec => []WebhookIsLive
<1>1. IInv => WebhookIsLive  BY DEF IInv
<1>2. QED  BY <1>1, IInvAlways, PTL

\* A provisioned tunnel is the one its hostname is routed to.
THEOREM RouteLeadsToTunnel == Spec => []TokenMatchesRoute
<1>1. IInv => TokenMatchesRoute  BY DEF IInv
<1>2. QED  BY <1>1, IInvAlways, PTL

\* No upload binds the Worker to another namespace than the last one did.
THEOREM StoredValuesSurvive == Spec => StoredConfigKept
<1>1. IInv /\ [Next]_vars =>
        [OneNamespace /\ script # None => script'.ns = script.ns]_vars
  <2> SUFFICES ASSUME IInv, Next, OneNamespace, script # None
               PROVE  script'.ns = script.ns
    OBVIOUS
  <2>1. ASSUME NEW r \in Run, uploadScript(r)
        PROVE  script'.ns = script.ns
    <3>1. script'.ns = ns[r] /\ ns[r] \in namespaces /\ script.ns \in namespaces
      BY <2>1 DEF uploadScript, At, IInv, KvInv
    <3>2. QED  BY <3>1 DEF IInv, KvInv
  <2>2. ASSUME NEW r \in Run, ~uploadScript(r),
               Start(r) \/ Ensure(r) \/ Stall(r) \/ End(r)
        PROVE  script' = script
    BY <2>2 DEF Ensure, Worker, NamedTunnel, Start, Stall, End, resolveAccountID,
       ListNamespaces, CreateNamespace, attachCustomDomain, ListTunnels, CreateTunnel,
       ensureTunnelToken, resolveZoneID, ListDns, WriteDns, RequestFails, account
  <2>3. CASE DeleteTunnel  BY <2>3 DEF DeleteTunnel
  <2>4. QED  BY <2>1, <2>2, <2>3 DEF Next
<1>2. QED  BY <1>1, IInvAlways, PTL DEF Spec, StoredConfigKept

-----------------------------------------------------------------------------
(* The step by step mapping to Hosting.  A request is mapped by its two    *)
(* halves: what it changes of the account, and where it leaves the run.    *)
(* The invariant of the state it leads to is what Hosting asks of a run    *)
(* that goes on.                                                           *)
Phase == [r \in Run |-> IF pc[r] \in Requests THEN "deploying" ELSE pc[r]]

LEMMA HostContinue ==
    ASSUME IInv, NEW r \in Run, pc[r] \in Requests, NEW to \in Requests, Proceed(r, to)
    PROVE  Host!Continue(r)
<1>1. pc' = [pc EXCEPT ![r] = to] /\ UNCHANGED <<webhook, token>>  BY DEF Proceed
<1>2. \A q \in Run : pc'[q] = IF q = r THEN to ELSE pc[q]  BY <1>1 DEF IInv, TypeOK
<1>3. Phase' = Phase  BY <1>2 DEF Phase
<1>4. QED  BY <1>1, <1>3 DEF Host!Continue, Phase

LEMMA HostServe ==
    ASSUME IInv, IInv', NEW r \in Run, NEW hook \in BOOLEAN, NEW t \in Run \cup {None},
           Return(r, hook, t), UNCHANGED circumstances
    PROVE  Host!Serve(r)
<1>0. Runs  BY DEF IInv, TypeOK, Runs
<1>1. /\ Moves(r, {"running"}) /\ pc'[r] = "running"
      /\ \A q \in Run \ {r} : pc'[q] = pc[q] /\ webhook'[q] = webhook[q] /\ token'[q] = token[q]
  BY <1>0, ReturnMoves DEF Moves
<1>2. "running" \notin Requests  BY DEF Requests, WorkerSteps, TunnelSteps
<1>3. Phase' = [Phase EXCEPT ![r] = "running"]  BY <1>1, <1>2 DEF Phase
<1>4. exclusive' /\ webhook'[r] => attached' /\ script' = [ns |-> ns'[r], by |-> r] /\ ns'[r] \in Run
  BY <1>1 DEF IInv, TypeOK, WebhookIsLive
<1>5. OneTunnel' /\ token'[r] # None => dns' = token'[r] /\ token'[r] \in tunnels'
  BY <1>1 DEF IInv, TokenMatchesRoute
<1>6. r # None  BY CfDeployAssumption
<1>7. exclusive' /\ webhook'[r] => UploadedBy' = r
  <2>1. ASSUME script' = [ns |-> ns'[r], by |-> r], ns'[r] \in Run
        PROVE  UploadedBy' = r
    BY <2>1, CfDeployAssumption DEF UploadedBy
  <2>2. QED  BY <1>4, <2>1
<1>8. QED  BY <1>1, <1>3, <1>4, <1>5, <1>7 DEF Host!Serve, Host!Goes, Host!OneTunnel, OneTunnel, Phase,
                  circumstances

\* Every request either goes on to another one or ends Ensure.
Goes(r) ==
    \/ \E to \in Requests : Proceed(r, to)
    \/ \E hook \in BOOLEAN, t \in Run \cup {None} : Return(r, hook, t)

LEMMA GiveUpGoes == ASSUME NEW r, GiveUp(r) PROVE Goes(r)
<1>1. (pc[r] \in TunnelSteps) \in BOOLEAN  OBVIOUS
<1>2. Return(r, pc[r] \in TunnelSteps, None)  BY DEF GiveUp
<1>3. QED  BY <1>1, <1>2 DEF Goes

LEMMA EnsureGoes ==
    ASSUME IInv, NEW r \in Run, Ensure(r)
    PROVE  pc[r] \in Requests /\ Goes(r) /\ UNCHANGED circumstances
<1> USE DEF Requests, WorkerSteps, TunnelSteps
<1>1. CASE resolveAccountID(r) \/ ListNamespaces(r) \/ CreateNamespace(r) \/ uploadScript(r)
  BY <1>1, GiveUpGoes DEF resolveAccountID, ListNamespaces, CreateNamespace, uploadScript, At, Goes
<1>2. CASE attachCustomDomain(r)
  <2>1. Return(r, TRUE, None) => Goes(r)  BY DEF Goes
  <2>2. QED  BY <1>2, <2>1, GiveUpGoes DEF attachCustomDomain, At, Goes
<1>3. CASE ListTunnels(r) \/ CreateTunnel(r) \/ ensureTunnelToken(r) \/ resolveZoneID(r)
  BY <1>3, GiveUpGoes DEF ListTunnels, CreateTunnel, ensureTunnelToken, resolveZoneID, At, Goes
<1>4. tun[r] \in Run \cup {None}  BY DEF IInv, TypeOK
<1>5. Return(r, TRUE, tun[r]) => Goes(r)  BY <1>4 DEF Goes
<1>6. CASE ListDns(r) \/ WriteDns(r)
  BY <1>5, <1>6, GiveUpGoes DEF ListDns, WriteDns, At, Goes
<1>7. CASE RequestFails(r)
  BY <1>7, GiveUpGoes DEF RequestFails
<1>8. QED  BY <1>1, <1>2, <1>3, <1>6, <1>7 DEF Ensure, Worker, NamedTunnel

LEMMA HostGoes ==
    ASSUME IInv, IInv', NEW r \in Run, pc[r] \in Requests, Goes(r), UNCHANGED circumstances
    PROVE  Host!Continue(r) \/ Host!Serve(r)
BY HostContinue, HostServe DEF Goes

\* The Worker, the tunnels and the route of an account.
LEMMA HostUpload ==
    ASSUME IInv, NEW r \in Run, uploadScript(r)
    PROVE  Host!Upload(r)
<1>1. /\ script' = [ns |-> ns[r], by |-> r]
      /\ UNCHANGED <<attached, tunnels, dns>>
  BY DEF uploadScript
<1>2. ns[r] \in namespaces /\ ns[r] \in Run
  BY DEF uploadScript, At, IInv, TypeOK, KvInv
<1>3. script' # None /\ ns[r] # None /\ script'.ns = ns[r] /\ script'.by = r
  BY <1>1, <1>2, CfDeployAssumption
<1>4. BoundTo' = ns[r] /\ UploadedBy' = r  BY <1>3 DEF BoundTo, UploadedBy
<1>5. OneNamespace /\ BoundTo # None => BoundTo = ns[r]
  BY <1>2 DEF BoundTo, IInv, KvInv
<1>6. QED  BY <1>1, <1>3, <1>4, <1>5 DEF Host!Upload, Host!hostname, Host!OneNamespace, OneNamespace

LEMMA HostCreateTunnel ==
    ASSUME IInv, NEW r \in Run, CreateTunnel(r)
    PROVE  Host!CreateTunnel
<1>1. /\ tunnels' = tunnels \cup {r}
      /\ UNCHANGED <<script, attached, dns>>
      /\ unique => tunnels = {}
      /\ pc[r] = "create tunnel"
  BY DEF CreateTunnel, At
<1>2. OneTunnel => tunnels = {}  BY <1>1 DEF IInv, TunInv, OneTunnel
<1>3. UNCHANGED <<BoundTo, UploadedBy>>  BY <1>1 DEF BoundTo, UploadedBy
<1>4. QED  BY <1>1, <1>2, <1>3 DEF Host!CreateTunnel, Host!OneTunnel, OneTunnel, Host!worker

LEMMA HostRoute ==
    ASSUME IInv, NEW r \in Run, WriteDns(r)
    PROVE  Host!Route
<1>1. dns' = tun[r] /\ tun[r] \in tunnels /\ UNCHANGED <<script, attached, tunnels>>
  BY DEF WriteDns, At, IInv, TunInv
<1>2. UNCHANGED <<BoundTo, UploadedBy>>  BY <1>1 DEF BoundTo, UploadedBy
<1>3. QED  BY <1>1, <1>2 DEF Host!Route, Host!worker

LEMMA HostAttach ==
    ASSUME NEW r \in Run, attachCustomDomain(r)
    PROVE  Host!Attach
<1>1. attached' = TRUE /\ UNCHANGED <<script, tunnels, dns>>  BY DEF attachCustomDomain
<1>2. UNCHANGED <<BoundTo, UploadedBy>>  BY <1>1 DEF BoundTo, UploadedBy
<1>3. QED  BY <1>1, <1>2 DEF Host!Attach, Host!hostname

LEMMA HostSame ==
    ASSUME UNCHANGED <<script, attached, tunnels, dns>>
    PROVE  UNCHANGED <<Host!worker, Host!hostname>>
<1>1. UNCHANGED <<BoundTo, UploadedBy>>  BY DEF BoundTo, UploadedBy
<1>2. QED  BY <1>1 DEF Host!worker, Host!hostname

LEMMA HostDeploy ==
    ASSUME IInv, IInv', NEW r \in Run, Ensure(r)
    PROVE  Host!Deploy(r)
<1>1. pc[r] \in Requests /\ Goes(r) /\ UNCHANGED circumstances  BY EnsureGoes
<1>2. Host!Continue(r) \/ Host!Serve(r)  BY <1>1, HostGoes
<1>3. UNCHANGED Host!circumstances  BY <1>1 DEF circumstances, Host!circumstances
<1>4. ASSUME ~uploadScript(r), ~CreateTunnel(r), ~WriteDns(r), ~attachCustomDomain(r)
      PROVE  UNCHANGED <<script, attached, tunnels, dns>>
  BY <1>4 DEF Ensure, Worker, NamedTunnel, resolveAccountID, ListNamespaces, CreateNamespace,
              ListTunnels, ensureTunnelToken, resolveZoneID, ListDns, RequestFails, account
<1>5. \/ Host!Upload(r) \/ Host!Attach \/ Host!CreateTunnel \/ Host!Route
      \/ UNCHANGED <<Host!worker, Host!hostname>>
  BY <1>4, HostUpload, HostCreateTunnel, HostRoute, HostAttach, HostSame
<1>6. QED  BY <1>1, <1>2, <1>3, <1>5 DEF Host!Deploy

LEMMA HostIdle ==
    ASSUME IInv, NEW r \in Run
    PROVE  Host!Live(r) <=> Live(r)
<1>1. pc[r] \in Requests \cup {"idle", "running", "ended"}  BY DEF IInv, TypeOK
<1>2. QED  BY <1>1 DEF Host!Live, Live, Requests, WorkerSteps, TunnelSteps

LEMMA HostStart ==
    ASSUME IInv, IInv', NEW r \in Run, Start(r)
    PROVE  Host!Start(r)
<1>1. /\ pc[r] = "idle" /\ UNCHANGED circumstances
      /\ UNCHANGED <<script, attached, tunnels, dns>>
      /\ exclusive => \A q \in Run : pc[q] \in {"idle", "ended"}
      /\ Proceed(r, "account") \/ Return(r, FALSE, None)
  BY DEF Start, account
<1>2. "idle" \notin Requests /\ "account" \in Requests
  BY DEF Requests, WorkerSteps, TunnelSteps
<1>3. exclusive => \A q \in Run : ~Host!Live(q)
  BY <1>1, HostIdle DEF Live, Requests, WorkerSteps, TunnelSteps
<1>4. UNCHANGED <<Host!worker, Host!hostname, Host!circumstances>>
  BY <1>1, HostSame DEF circumstances, Host!circumstances
<1>5. CASE Proceed(r, "account")
  <2>1. \A q \in Run : pc'[q] = IF q = r THEN "account" ELSE pc[q]
    BY <1>5 DEF Proceed, IInv, TypeOK
  <2>2. Phase' = [Phase EXCEPT ![r] = "deploying"] /\ UNCHANGED <<webhook, token>>
    BY <1>2, <1>5, <2>1 DEF Phase, Proceed
  <2>3. QED  BY <1>1, <1>2, <1>3, <1>4, <2>2 DEF Host!Start, Phase
<1>6. CASE Return(r, FALSE, None)
  <2>1. Host!Serve(r)  BY <1>1, <1>6, HostServe
  <2>2. ~webhook'[r] /\ token'[r] = None  BY <1>6 DEF Return, IInv, TypeOK
  <2>3. QED  BY <1>1, <1>2, <1>3, <1>4, <2>1, <2>2 DEF Host!Start
<1>7. QED  BY <1>1, <1>5, <1>6

LEMMA HostEnd ==
    ASSUME IInv, NEW r \in Run, End(r)
    PROVE  Host!End(r)
<1>1. /\ pc[r] \in Requests \cup {"running"} /\ pc' = [pc EXCEPT ![r] = "ended"]
      /\ UNCHANGED <<webhook, token, circumstances>>
      /\ UNCHANGED <<script, attached, tunnels, dns>>
  BY DEF End, account
<1>2. Host!Live(r)  BY <1>1, HostIdle DEF Live
<1>3. "ended" \notin Requests  BY DEF Requests, WorkerSteps, TunnelSteps
<1>4. \A q \in Run : pc'[q] = IF q = r THEN "ended" ELSE pc[q]  BY <1>1 DEF IInv, TypeOK
<1>5. Phase' = [Phase EXCEPT ![r] = "ended"]  BY <1>3, <1>4 DEF Phase
<1>6. UNCHANGED <<Host!worker, Host!hostname, Host!circumstances>>
  BY <1>1, HostSame DEF circumstances, Host!circumstances
<1>7. QED  BY <1>1, <1>2, <1>5, <1>6 DEF Host!End, Phase

LEMMA HostDelete ==
    ASSUME IInv, DeleteTunnel
    PROVE  Host!DeleteTunnel
<1>1. /\ \A r \in Run : pc[r] \in {"idle", "ended"}
      /\ tunnels' = {} /\ UNCHANGED <<pc, webhook, token, script, attached, dns, circumstances>>
  BY DEF DeleteTunnel, runs
<1>2. \A r \in Run : ~Host!Live(r)
  BY <1>1, HostIdle DEF Live, Requests, WorkerSteps, TunnelSteps
<1>3. UNCHANGED <<BoundTo, UploadedBy, Phase>>  BY <1>1 DEF BoundTo, UploadedBy, Phase
<1>4. QED  BY <1>1, <1>2, <1>3 DEF Host!DeleteTunnel, Host!worker, Host!circumstances, circumstances, Phase

LEMMA HostStep == ASSUME IInv, IInv', [Next]_vars PROVE [Host!Next]_(Host!vars)
<1>1. ASSUME UNCHANGED <<pc, webhook, token, script, attached, tunnels, dns, circumstances>>
      PROVE  UNCHANGED Host!vars
  <2>1. UNCHANGED Phase  BY <1>1 DEF Phase
  <2>2. UNCHANGED <<Host!worker, Host!hostname, Host!circumstances>>
    BY <1>1, HostSame DEF circumstances, Host!circumstances
  <2>3. QED  BY <1>1, <2>1, <2>2 DEF Host!vars, Phase
<1>2. (\E r \in Run : Stall(r)) \/ UNCHANGED vars => UNCHANGED Host!vars
  BY <1>1 DEF Stall, vars, runs, account
<1>3. QED  BY <1>2, HostStart, HostDeploy, HostEnd, HostDelete DEF Next, Host!Next

\* Whatever requests fail, and whoever runs at the same time, provisioning is
\* a deployment in the sense of Hosting, step by step.
THEOREM HostingImplemented == Spec => ImplementsHosting
<1>1. Init => Host!Init
  <2> SUFFICES ASSUME Init PROVE Host!Init
    OBVIOUS
  <2>1. BoundTo = None /\ UploadedBy = None  BY DEF Init, BoundTo, UploadedBy
  <2>2. Phase = [r \in Run |-> "idle"]
    BY DEF Init, Phase, Requests, WorkerSteps, TunnelSteps
  <2>3. QED  BY <2>1, <2>2 DEF Init, Host!Init, Phase
<1>2. IInv /\ IInv' /\ [Next]_vars => [Host!Next]_(Host!vars)  BY HostStep
<1>3. QED  BY <1>1, <1>2, IInvAlways, PTL DEF Spec, ImplementsHosting, Host!Spec

=============================================================================
