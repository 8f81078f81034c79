---------------------------- MODULE TargetStore ----------------------------
(***************************************************************************)
(* What worker.js promises of the target its requests are proxied to,      *)
(* without requests, awaits or the three keys a target is stored under:    *)
(* one stored target, which a post replaces, and copies of it in the       *)
(* isolates, which nobody refreshes: an isolate serves what was posted to  *)
(* it or what was stored when it loaded.                                   *)
(*                                                                         *)
(* The promise is void once a post has failed or met another one, and for  *)
(* an isolate that loads while a post is under way, or before the store    *)
(* has settled, until it is evicted.                                       *)
(***************************************************************************)

CONSTANTS
    Isolate,  \* the isolates
    Config,   \* the configurations posted
    None      \* no target

VARIABLES
    stored,   \* the target in KV
    serving,  \* the target each isolate proxies to
    latest,   \* the configuration last posted
    home,     \* the isolate it was posted to
    stage,    \* how far the post is
    calm,     \* has no post failed or met another?
    suspect,  \* the isolates of which nothing is promised
    settled   \* is what is stored the same wherever it is read?

vars == <<stored, serving, latest, home, stage, calm, suspect, settled>>

Init ==
    /\ stored = None
    /\ serving = [i \in Isolate |-> None]
    /\ latest = None /\ home = None
    /\ stage = "done"
    /\ calm = TRUE
    /\ suspect = {}
    /\ settled = TRUE

\* The isolates something is promised of serve these targets next.
Serve(targets) == \A i \in Isolate \ suspect' : serving'[i] = targets[i]

\* A post begins when no other one is under way.
Post(c, i) ==
    /\ stage = "done"
    /\ latest' = c /\ home' = i
    /\ stage' = "posted"
    /\ suspect \subseteq suspect'
    /\ Serve(serving)
    /\ UNCHANGED <<stored, settled>>

\* The isolate that handles it serves it first ...
Adopt ==
    /\ stage = "posted"
    /\ stage' = "adopted"
    /\ settled' \in BOOLEAN
    /\ Serve([serving EXCEPT ![home] = latest])
    /\ UNCHANGED <<stored, latest, home, suspect>>

\* ... and then, at once, it is stored and answered.
Commit ==
    /\ stage = "adopted"
    /\ stage' = "done"
    /\ stored' = latest
    /\ settled' \in BOOLEAN
    /\ Serve(serving)
    /\ UNCHANGED <<latest, home, suspect>>

\* Storing unsettles the store, which settles by itself.
Settle ==
    /\ settled' = TRUE \/ (stage # "done" /\ settled' = FALSE)
    /\ Serve(serving)
    /\ UNCHANGED <<stored, latest, home, stage, suspect>>

Refresh(i) ==
    /\ stage = "done" /\ stored # None
    /\ Serve([serving EXCEPT ![i] = stored])
    /\ UNCHANGED <<stored, latest, home, stage, suspect, settled>>

\* A load that meets a post or an unsettled store; and whatever a suspect
\* serves.
Suspect ==
    /\ \/ suspect' = suspect
       \/ (stage # "done" \/ ~settled) /\ suspect \subseteq suspect'
    /\ Serve(serving)
    /\ UNCHANGED <<stored, latest, home, stage, settled>>

Evict(i) ==
    /\ stage # "done" => home # i
    /\ suspect' = suspect \ {i}
    /\ Serve([serving EXCEPT ![i] = None])
    /\ UNCHANGED <<stored, latest, home, stage, settled>>

Calm ==
    /\ calm /\ UNCHANGED calm
    /\ \/ \E c \in Config, i \in Isolate : Post(c, i)
       \/ Adopt \/ Commit \/ Settle \/ Suspect
       \/ \E i \in Isolate : Refresh(i) \/ Evict(i)

Disturbed == calm' = FALSE

Next == Calm \/ Disturbed

Spec == Init /\ [][Next]_vars

=============================================================================
