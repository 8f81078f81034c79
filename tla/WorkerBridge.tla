--------------------------- MODULE WorkerBridge ---------------------------
(***************************************************************************)
(* The Cloudflare Worker of internal/cfdeploy/assets/worker.js.  Requests  *)
(* run in isolates; each isolate has its own copy of the GLOBAL_           *)
(* variables, and JavaScript interleaves its requests at every await.  The *)
(* isolates share Workers KV, one key at a time.                           *)
(*                                                                         *)
(* A configuration stands for the wshost, wspath, entrypath and payloads   *)
(* of one POST to /setapi.  The transport, which only the answer of        *)
(* /setapi shows, and the rewriting of a proxied URL are left out.  KV is  *)
(* modelled from its use, and is eventually consistent: a put takes effect *)
(* once, by the time it returns, and until KV has settled a get returns    *)
(* the latest value or any earlier one.                                    *)
(***************************************************************************)
EXTENDS FiniteSets

CONSTANTS
    Isolate,  \* the isolates that run the Worker
    Config,   \* the configurations posted to /setapi, each once
    Load,     \* slots for requests that read KV
    None      \* an empty string: not configured

ASSUME WorkerAssumption == None \notin Config \cup Isolate

TargetKey == {"host", "path", "entry"}
Key == TargetKey \cup {"sub"}
Value == Config \cup {None}

VARIABLES
    ram,     \* the globals of each isolate
    kv,      \* the keys of KV_CONFIG
    settled, \* has what was put reached every location?
    setapi,  \* where the /setapi request of each configuration is
    at,      \* the isolate it runs in
    load,    \* where each request that reads KV is
    loadAt,  \* the isolate it runs in
    got,     \* what it has read
    latest,  \* history: the configuration last posted
    alone,   \* history: the ones posted with no other being handled
    calm,    \* history: no /setapi has failed, none has met another
    torn     \* history: the isolates that read KV while a /setapi was handled,
             \* or before KV had settled

kvVars == <<kv, settled>>
setVars == <<setapi, at>>
loadVars == <<load, loadAt, got>>
history == <<latest, alone, calm, torn>>
vars == <<ram, kvVars, setVars, loadVars, history>>

Putting == {"put sub", "put host", "put path", "put entry"}
Getting == {"get host", "get path", "get entry", "get sub"}
Active == {c \in Config : setapi[c] \in Putting}

TypeOK ==
    /\ ram \in [Isolate -> [Key -> Value]]
    /\ kv \in [Key -> Value]
    /\ settled \in BOOLEAN
    /\ setapi \in [Config -> Putting \cup {"unsent", "ok", "failed"}]
    /\ at \in [Config -> Isolate \cup {None}]
    /\ load \in [Load -> Getting \cup {"idle", "assign", "assign sub"}]
    /\ loadAt \in [Load -> Isolate \cup {None}]
    /\ \A r \in Load : load[r] = "idle" <=> loadAt[r] = None
    /\ got \in [Load -> [Key -> Value]]
    /\ latest \in Value
    /\ alone \subseteq Config
    /\ calm \in BOOLEAN
    /\ torn \subseteq Isolate

Blank == [k \in Key |-> None]

Init ==
    /\ ram = [i \in Isolate |-> Blank]
    /\ kv = Blank
    /\ settled = TRUE
    /\ setapi = [c \in Config |-> "unsent"]
    /\ at = [c \in Config |-> None]
    /\ load = [r \in Load |-> "idle"]
    /\ loadAt = [r \in Load |-> None]
    /\ got = [r \in Load |-> Blank]
    /\ latest = None
    /\ alone = {}
    /\ calm = TRUE
    /\ torn = {}

-----------------------------------------------------------------------------
(* /setapi: everything up to the first await is one step, then one step    *)
(* per put, which is the put's effect and the code up to the next await.   *)

Store(k, v) ==
    /\ kv' = [kv EXCEPT ![k] = v]
    /\ settled' = FALSE

Settle ==
    /\ ~settled
    /\ settled' = TRUE
    /\ UNCHANGED <<ram, kv, setVars, loadVars, history>>

\* The payloads reach the isolate at once; the put of SUBSCRIPTION starts.
SetApi(c, i) ==
    /\ setapi[c] = "unsent"
    /\ setapi' = [setapi EXCEPT ![c] = "put sub"]
    /\ at' = [at EXCEPT ![c] = i]
    /\ ram' = [ram EXCEPT ![i].sub = c]
    /\ latest' = c
    /\ alone' = IF Active = {} THEN alone \cup {c} ELSE alone
    /\ calm' = (calm /\ Active = {})
    /\ torn' = torn \cup {loadAt[r] : r \in {r \in Load : load[r] # "idle"}}
    /\ UNCHANGED <<kvVars, loadVars>>

\* Mutant: the entry path is only stored.
SetTargetWithoutEntry(i, v) ==
    [ram EXCEPT ![i] = [k \in Key |-> IF k \in {"host", "path"} THEN v ELSE @[k]]]

\* The host, path and entry path reach the isolate together.
SetTarget(i, v) == [ram EXCEPT ![i] = [k \in Key |-> IF k \in TargetKey THEN v ELSE @[k]]]

\* SUBSCRIPTION is stored, or its error is swallowed, whether or not the
\* value was stored; the target follows, and the put of TARGET_HOST starts.
PutSubscription(c) ==
    /\ setapi[c] = "put sub"
    /\ Store("sub", c) \/ UNCHANGED kvVars
    /\ ram' = SetTarget(at[c], c)
    /\ setapi' = [setapi EXCEPT ![c] = "put host"]
    /\ UNCHANGED <<at, loadVars, history>>

PutOf(k) == CASE k = "host" -> "put host" [] k = "path" -> "put path"
              [] k = "entry" -> "put entry"

\* Mutants: the answer does not wait for the last put, which is never made;
\* one more put follows, which nobody makes.
NextPutEndsEarly(k) == IF k = "host" THEN "put path" ELSE "ok"
NextPutGoesOn(k) == CASE k = "host" -> "put path" [] k = "path" -> "put entry"
                      [] k = "entry" -> "put transport"

NextPut(k) == CASE k = "host" -> "put path" [] k = "path" -> "put entry"
                [] k = "entry" -> "ok"

PutTarget(c, k) ==
    /\ setapi[c] = PutOf(k)
    /\ Store(k, c)
    /\ setapi' = [setapi EXCEPT ![c] = NextPut(k)]
    /\ UNCHANGED <<ram, at, loadVars, history>>

\* A put of the target fails, stored or not: the catch answers 400, and
\* what was set and stored before stays.
PutFails(c, k) ==
    /\ setapi[c] = PutOf(k)
    /\ Store(k, c) \/ UNCHANGED kvVars
    /\ setapi' = [setapi EXCEPT ![c] = "failed"]
    /\ calm' = FALSE
    /\ UNCHANGED <<ram, at, loadVars, latest, alone, torn>>

-----------------------------------------------------------------------------
(* A request that finds the globals it needs empty reads KV.  One that     *)
(* finds them set changes nothing and is no step of the model.             *)

\* What each key has held: the puts are made in one order, and one that
\* failed may have been stored.
PutsAfter(k) ==
    CASE k = "sub" -> {"put host", "put path", "put entry"}
      [] k = "host" -> {"put path", "put entry"}
      [] k = "path" -> {"put entry"}
      [] k = "entry" -> {}
Earlier(k) == {None} \cup {c \in Config : setapi[c] \in PutsAfter(k) \cup {"ok", "failed"}}

\* What a get can return.
Readable(k) == IF settled THEN {kv[k]} ELSE {kv[k]} \cup Earlier(k)

StartLoad(r, i, first) ==
    /\ load[r] = "idle"
    /\ load' = [load EXCEPT ![r] = first]
    /\ loadAt' = [loadAt EXCEPT ![r] = i]
    /\ torn' = IF Active = {} THEN torn ELSE torn \cup {i}
    /\ UNCHANGED <<ram, kvVars, setVars, got, latest, alone, calm>>

StartProxy(r, i) ==
    /\ ram[i].host = None \/ ram[i].path = None
    /\ StartLoad(r, i, "get host")

StartSub(r, i) ==
    /\ ram[i].sub = None
    /\ StartLoad(r, i, "get sub")

GetOf(k) == CASE k = "host" -> "get host" [] k = "path" -> "get path"
              [] k = "entry" -> "get entry" [] k = "sub" -> "get sub"
NextGet(k) == CASE k = "host" -> "get path" [] k = "path" -> "get entry"
                [] k = "entry" -> "assign" [] k = "sub" -> "assign sub"

Get(r, k) ==
    /\ load[r] = GetOf(k)
    /\ \E v \in Readable(k) :
          /\ got' = [got EXCEPT ![r][k] = v]
          /\ torn' = IF k \in TargetKey /\ v # kv[k] THEN torn \cup {loadAt[r]} ELSE torn
    /\ load' = [load EXCEPT ![r] = NextGet(k)]
    /\ UNCHANGED <<ram, kvVars, setVars, loadAt, latest, alone, calm>>

EndLoad(r) ==
    /\ load' = [load EXCEPT ![r] = "idle"]
    /\ loadAt' = [loadAt EXCEPT ![r] = None]
    /\ got' = [got EXCEPT ![r] = Blank]

\* Mutant: a host or a path is enough.
AssignEither(r) ==
    /\ load[r] = "assign"
    /\ ram' = IF got[r].host # None \/ got[r].path # None
                THEN [ram EXCEPT ![loadAt[r]] =
                        [k \in Key |-> IF k \in TargetKey THEN got[r][k] ELSE @[k]]]
                ELSE ram
    /\ EndLoad(r)
    /\ UNCHANGED <<kvVars, setVars, history>>

\* With a host and a path from KV the globals are overwritten, whatever they
\* hold by now.
Assign(r) ==
    /\ load[r] = "assign"
    /\ ram' = IF got[r].host # None /\ got[r].path # None
                THEN [ram EXCEPT ![loadAt[r]] =
                        [k \in Key |-> IF k \in TargetKey THEN got[r][k] ELSE @[k]]]
                ELSE ram
    /\ EndLoad(r)
    /\ UNCHANGED <<kvVars, setVars, history>>

AssignSub(r) ==
    /\ load[r] = "assign sub"
    /\ ram' = IF got[r].sub # None THEN [ram EXCEPT ![loadAt[r]].sub = got[r].sub] ELSE ram
    /\ EndLoad(r)
    /\ UNCHANGED <<kvVars, setVars, history>>

GetFails(r) ==
    /\ load[r] \in Getting
    /\ EndLoad(r)
    /\ UNCHANGED <<ram, kvVars, setVars, history>>

\* The platform stops an isolate: its globals and its requests are gone.
Evict(i) ==
    /\ ram[i] # Blank \/ \E r \in Load : loadAt[r] = i
    /\ ram' = [ram EXCEPT ![i] = Blank]
    /\ setapi' = [c \in Config |-> IF c \in Active /\ at[c] = i THEN "failed" ELSE setapi[c]]
    /\ load' = [r \in Load |-> IF loadAt[r] = i THEN "idle" ELSE load[r]]
    /\ loadAt' = [r \in Load |-> IF loadAt[r] = i THEN None ELSE loadAt[r]]
    /\ got' = [r \in Load |-> IF loadAt[r] = i THEN Blank ELSE got[r]]
    /\ calm' = (calm /\ \A c \in Active : at[c] # i)
    /\ torn' = torn \ {i}
    /\ UNCHANGED <<kvVars, at, latest, alone>>

Handle ==
    \/ \E c \in Config :
          PutSubscription(c) \/ \E k \in TargetKey : PutTarget(c, k) \/ PutFails(c, k)
    \/ \E r \in Load :
          \/ \E k \in Key : Get(r, k)
          \/ Assign(r) \/ AssignSub(r) \/ GetFails(r)

Next ==
    \/ \E c \in Config, i \in Isolate : SetApi(c, i)
    \/ \E r \in Load, i \in Isolate : StartProxy(r, i) \/ StartSub(r, i)
    \/ Handle
    \/ \E i \in Isolate : Evict(i)
    \/ Settle

Spec == Init /\ [][Next]_vars

-----------------------------------------------------------------------------
(* No isolate, warm or cold, ever has a host without a path or a path      *)
(* without a host: a request is proxied to a whole target or answered 503  *)
(* (the test of worker.js:161 looks at the host after "https://" has been  *)
(* put before it, so that it never finds an empty one).                    *)
NeverHalfConfigured ==
    \A i \in Isolate : ram[i].host = None <=> ram[i].path = None

(* A configuration answered with "success" survives the isolate: KV holds  *)
(* its host, path and entry path, provided that no other /setapi was being *)
(* handled when it came and none came since.                               *)
AnsweredIsDurable ==
    \A c \in alone : latest = c /\ setapi[c] = "ok" =>
        \A k \in TargetKey : kv[k] = c

(* An isolate mixes the targets of two configurations only after a /setapi *)
(* failed or met another, or if it read KV while one was being handled or  *)
(* before KV had settled; KV itself, when no /setapi is being handled,     *)
(* only after the first two.                                               *)
MixedOnlyIfDisturbed ==
    calm =>
      /\ \A i \in Isolate \ torn : \A k \in TargetKey : ram[i][k] = ram[i].host
      /\ Active = {} => \A k \in TargetKey : kv[k] = kv["host"]

-----------------------------------------------------------------------------
(* The store these requests keep together.                                 *)

\* A target under its three keys, if they agree.
Whole(t) == IF t.path = t.host /\ t.entry = t.host THEN t.host ELSE "mixed"

\* While a /setapi is being handled, its last put is the one that counts.
StoredTarget == IF Active = {} THEN Whole(kv) ELSE kv.entry

TargetPuts == {"put host", "put path", "put entry"}

\* How far the post of the latest configuration is.
Stage ==
    IF latest = None THEN "done"
    ELSE CASE setapi[latest] = "put sub" -> "posted"
           [] setapi[latest] \in TargetPuts -> "adopted"
           [] OTHER -> "done"

Targets == INSTANCE TargetStore WITH
    stored <- StoredTarget,
    serving <- [i \in Isolate |-> Whole(ram[i])],
    home <- IF latest = None THEN None ELSE at[latest],
    stage <- Stage,
    suspect <- torn

(* The requests and their awaits amount to one stored target and copies of *)
(* it: a target is stored and served whole or not at all, an isolate       *)
(* serves what was posted to it or what was stored when it loaded, and a   *)
(* post is adopted before it is stored.  Only a /setapi that fails, meets  *)
(* another, or meets an isolate's reads, or reads of a KV that has not     *)
(* settled since, can mix two targets.                                     *)
ImplementsTargetStore == Targets!Spec

=============================================================================
