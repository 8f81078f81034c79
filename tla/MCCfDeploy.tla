----------------------------- MODULE MCCfDeploy -----------------------------
(* CfDeploy with three interchangeable runs, each with any of three .env   *)
(* files: nothing to provision, the Worker only, the Worker and a tunnel.  *)
EXTENDS CfDeploy, Integers, TLC

CONSTANTS r1, r2, r3

MCRun == {r1, r2, r3}
Env(domain, wsHost) ==
    [apiToken |-> TRUE, domain |-> domain, tunnelToken |-> FALSE, wsHost |-> wsHost]
MCConfig == {Env(FALSE, "quick"), Env(TRUE, "worker"), Env(TRUE, "inside")}
Symmetry == Permutations(MCRun)

\* Bound: two machines, on which at most one run at a time is not over.
TwoMachines == Cardinality({r \in Run : pc[r] \notin {"idle", "ended"}}) <= 2

\* Nobody reads what a run that is over had found.
Of(r) == IF pc[r] = "ended" THEN "ended"
         ELSE <<pc[r], cfg[r], ns[r], tun[r], webhook[r], token[r], r \in stalled>>
Relevant == <<[r \in Run |-> Of(r)], account, circumstances>>

=============================================================================
