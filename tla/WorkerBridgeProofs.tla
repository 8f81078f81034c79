------------------------ MODULE WorkerBridgeProofs ------------------------
(***************************************************************************)
(* Proofs about WorkerBridge, for any isolates, configurations and         *)
(* requests.                                                               *)
(***************************************************************************)
EXTENDS WorkerBridge, TLAPS

USE DEF TargetKey, Key

LEMMA Sequence ==
  /\ \A k \in TargetKey : PutOf(k) \in Putting /\ NextPut(k) \in Putting \cup {"ok"}
  /\ \A k \in Key : GetOf(k) \in Getting
                    /\ NextGet(k) \in Getting \cup {"assign", "assign sub"}
  BY DEF PutOf, NextPut, GetOf, NextGet, Putting, Getting

LEMMA InitTyped == Init => TypeOK
  BY DEF Init, TypeOK, Blank, Value

LEMMA StoreTyped ==
  ASSUME TypeOK, NEW k \in Key, NEW v \in Value, Store(k, v)
  PROVE  kv' \in [Key -> Value] /\ settled' \in BOOLEAN
  BY DEF Store, TypeOK

LEMMA EndLoadTyped ==
  ASSUME TypeOK, NEW r \in Load, EndLoad(r)
  PROVE  /\ load' \in [Load -> Getting \cup {"idle", "assign", "assign sub"}]
         /\ loadAt' \in [Load -> Isolate \cup {None}]
         /\ \A q \in Load : load'[q] = "idle" <=> loadAt'[q] = None
         /\ got' \in [Load -> [Key -> Value]]
<1>1. Blank \in [Key -> Value]
  BY DEF Blank, Value
<1> QED
  BY <1>1 DEF TypeOK, EndLoad

LEMMA TargetTyped ==
  ASSUME TypeOK, NEW i, NEW w \in [Key -> Value]
  PROVE  [ram EXCEPT ![i] = [k \in Key |-> IF k \in TargetKey THEN w[k] ELSE @[k]]]
            \in [Isolate -> [Key -> Value]]
<1>1. CASE i \in Isolate
  <2>1. [k \in Key |-> IF k \in TargetKey THEN w[k] ELSE ram[i][k]] \in [Key -> Value]
    <3>1. ram[i] \in [Key -> Value]
      BY <1>1 DEF TypeOK
    <3>2. \A k \in Key : w[k] \in Value /\ ram[i][k] \in Value
      BY <3>1
    <3> HIDE DEF Key, TargetKey
    <3> QED
      BY <3>2
  <2> QED
    BY <1>1, <2>1 DEF TypeOK
<1>2. CASE i \notin Isolate
  BY <1>2 DEF TypeOK
<1> QED
  BY <1>1, <1>2

LEMMA SetTargetTyped ==
  ASSUME TypeOK, NEW i, NEW v \in Value
  PROVE  SetTarget(i, v) \in [Isolate -> [Key -> Value]]
<1>1. CASE i \in Isolate
  <2>1. [k \in Key |-> IF k \in TargetKey THEN v ELSE ram[i][k]] \in [Key -> Value]
    <3>1. ram[i] \in [Key -> Value]
      BY <1>1 DEF TypeOK
    <3>2. \A k \in Key : ram[i][k] \in Value
      BY <3>1
    <3> HIDE DEF Key, TargetKey
    <3> QED
      BY <3>2
  <2> QED
    BY <1>1, <2>1 DEF TypeOK, SetTarget
<1>2. CASE i \notin Isolate
  BY <1>2 DEF TypeOK, SetTarget
<1> QED
  BY <1>1, <1>2

LEMMA NextTyped == TypeOK /\ [Next]_vars => TypeOK'
<1> SUFFICES ASSUME TypeOK, [Next]_vars PROVE TypeOK'
  OBVIOUS
<1> USE DEF kvVars, setVars, loadVars, history
<1>n. None \notin Isolate
  BY WorkerAssumption
<1>1. CASE UNCHANGED vars
  BY <1>1 DEF vars, TypeOK
<1>2. ASSUME NEW c \in Config, NEW i \in Isolate, SetApi(c, i) PROVE TypeOK'
  <2>1. torn' \subseteq Isolate
    BY <1>2 DEF SetApi, TypeOK
  <2>2. ram' \in [Isolate -> [Key -> Value]]
    BY <1>2 DEF SetApi, TypeOK, Value
  <2>3. calm' \in BOOLEAN /\ alone' \subseteq Config /\ latest' \in Value
    BY <1>2 DEF SetApi, TypeOK, Value
  <2> QED
    BY <1>2, <2>1, <2>2, <2>3 DEF SetApi, TypeOK, Putting
<1>3. ASSUME NEW c \in Config, PutSubscription(c) PROVE TypeOK'
  <2>1. c \in Value
    BY DEF Value
  <2>2. kv' \in [Key -> Value] /\ settled' \in BOOLEAN
    BY <1>3, <2>1, StoreTyped DEF PutSubscription, TypeOK
  <2>3. ram' \in [Isolate -> [Key -> Value]]
    BY <1>3, <2>1, SetTargetTyped DEF PutSubscription
  <2> QED
    BY <1>3, <2>2, <2>3 DEF PutSubscription, TypeOK, Putting
<1>4. ASSUME NEW c \in Config, NEW k \in TargetKey, PutTarget(c, k) PROVE TypeOK'
  <2>1. kv' \in [Key -> Value] /\ settled' \in BOOLEAN
    BY <1>4, StoreTyped DEF PutTarget, Value
  <2> QED
    BY <1>4, <2>1, Sequence DEF PutTarget, TypeOK
<1>5. ASSUME NEW c \in Config, NEW k \in TargetKey, PutFails(c, k) PROVE TypeOK'
  <2>1. kv' \in [Key -> Value] /\ settled' \in BOOLEAN
    BY <1>5, StoreTyped DEF PutFails, Value, TypeOK
  <2> QED
    BY <1>5, <2>1 DEF PutFails, TypeOK
<1>6. ASSUME NEW r \in Load, NEW i \in Isolate, NEW first \in Getting, StartLoad(r, i, first)
      PROVE TypeOK'
  BY <1>6, <1>n DEF StartLoad, TypeOK, Getting
<1>7. ASSUME NEW r \in Load, NEW k \in Key, Get(r, k) PROVE TypeOK'
  <2>1. Readable(k) \subseteq Value
    <3>1. kv[k] \in Value
      BY DEF TypeOK
    <3>2. Earlier(k) \subseteq Value
      BY DEF Earlier, Value
    <3> QED
      BY <3>1, <3>2 DEF Readable
  <2>2. got' \in [Load -> [Key -> Value]]
    <3>1. PICK v \in Readable(k) : got' = [got EXCEPT ![r][k] = v]
      BY <1>7 DEF Get
    <3> QED
      BY <2>1, <3>1 DEF TypeOK
  <2>3. load[r] # "idle" /\ load'[r] # "idle"
    BY <1>7 DEF Get, GetOf, NextGet, TypeOK
  <2>4. torn' \subseteq Isolate
    <3>1. loadAt[r] \in Isolate
      BY <2>3 DEF TypeOK
    <3> QED
      BY <1>7, <3>1 DEF Get, TypeOK
  <2> QED
    BY <1>7, <2>2, <2>3, <2>4, Sequence DEF Get, TypeOK
<1>8. ASSUME NEW r \in Load, Assign(r) PROVE TypeOK'
  <2>1. ram' \in [Isolate -> [Key -> Value]]
    <3>1. got[r] \in [Key -> Value]
      BY DEF TypeOK
    <3>2. CASE got[r].host # None /\ got[r].path # None
      BY <1>8, <3>1, <3>2, TargetTyped DEF Assign
    <3>3. CASE ~(got[r].host # None /\ got[r].path # None)
      BY <1>8, <3>3 DEF Assign, TypeOK
    <3> QED
      BY <3>2, <3>3
  <2> QED
    BY <1>8, <2>1, EndLoadTyped DEF Assign, TypeOK
<1>9. ASSUME NEW r \in Load, AssignSub(r) PROVE TypeOK'
  <2>1. ram' \in [Isolate -> [Key -> Value]]
    <3>1. got[r].sub \in Value
      BY DEF TypeOK
    <3>2. CASE got[r].sub # None /\ loadAt[r] \in Isolate
      BY <1>9, <3>1, <3>2 DEF AssignSub, TypeOK
    <3>3. CASE got[r].sub = None \/ loadAt[r] \notin Isolate
      BY <1>9, <3>3 DEF AssignSub, TypeOK
    <3> QED
      BY <3>2, <3>3
  <2> QED
    BY <1>9, <2>1, EndLoadTyped DEF AssignSub, TypeOK
<1>10. ASSUME NEW r \in Load, GetFails(r) PROVE TypeOK'
  BY <1>10, EndLoadTyped DEF GetFails, TypeOK
<1>11. ASSUME NEW i \in Isolate, Evict(i) PROVE TypeOK'
  <2>1. Blank \in [Key -> Value]
    BY DEF Blank, Value
  <2>2. /\ ram' \in [Isolate -> [Key -> Value]]
        /\ got' \in [Load -> [Key -> Value]]
    BY <1>11, <2>1 DEF Evict, TypeOK
  <2>3. setapi' \in [Config -> Putting \cup {"unsent", "ok", "failed"}]
    BY <1>11 DEF Evict, TypeOK
  <2>4. /\ load' \in [Load -> Getting \cup {"idle", "assign", "assign sub"}]
        /\ loadAt' \in [Load -> Isolate \cup {None}]
        /\ \A q \in Load : load'[q] = "idle" <=> loadAt'[q] = None
    BY <1>11 DEF Evict, TypeOK
  <2> QED
    BY <1>11, <2>2, <2>3, <2>4 DEF Evict, TypeOK
<1>12. ASSUME Settle PROVE TypeOK'
  BY <1>12 DEF Settle, TypeOK
<1> QED
  BY <1>1, <1>2, <1>3, <1>4, <1>5, <1>6, <1>7, <1>8, <1>9, <1>10, <1>11, <1>12
     DEF Next, Handle, StartProxy, StartSub, Getting

(* The globals, KV and the requests stay typed, whoever interleaves.       *)
THEOREM TypeCorrect == Spec => []TypeOK
  BY InitTyped, NextTyped, PTL DEF Spec

-----------------------------------------------------------------------------
LEMMA StepNeverHalf == TypeOK /\ NeverHalfConfigured /\ [Next]_vars => NeverHalfConfigured'
<1> SUFFICES ASSUME TypeOK, NeverHalfConfigured, [Next]_vars PROVE NeverHalfConfigured'
  OBVIOUS
<1> USE DEF NeverHalfConfigured, TypeOK
<1>1. ASSUME ram' = ram PROVE NeverHalfConfigured'
  BY <1>1
<1>2. ASSUME NEW c \in Config, NEW i \in Isolate, SetApi(c, i) PROVE NeverHalfConfigured'
  BY <1>2 DEF SetApi
<1>3. ASSUME NEW c \in Config, PutSubscription(c) PROVE NeverHalfConfigured'
  <2>1. c # None
    BY WorkerAssumption
  <2> QED
    BY <1>3, <2>1 DEF PutSubscription, SetTarget
<1>4. ASSUME NEW r \in Load, Assign(r) PROVE NeverHalfConfigured'
  BY <1>4 DEF Assign
<1>5. ASSUME NEW r \in Load, AssignSub(r) PROVE NeverHalfConfigured'
  BY <1>5 DEF AssignSub
<1>6. ASSUME NEW i \in Isolate, Evict(i) PROVE NeverHalfConfigured'
  BY <1>6 DEF Evict, Blank
<1> HIDE DEF NeverHalfConfigured, TypeOK
<1>7. ASSUME NEW c \in Config, NEW k \in TargetKey, PutTarget(c, k) \/ PutFails(c, k)
      PROVE NeverHalfConfigured'
  BY <1>7, <1>1 DEF PutTarget, PutFails
<1>8. ASSUME NEW r \in Load, NEW k \in Key, Get(r, k) PROVE NeverHalfConfigured'
  BY <1>8, <1>1 DEF Get
<1>9. ASSUME NEW r \in Load, NEW i \in Isolate, StartProxy(r, i) \/ StartSub(r, i) \/ GetFails(r)
      PROVE NeverHalfConfigured'
  BY <1>9, <1>1 DEF StartProxy, StartSub, StartLoad, GetFails
<1>10. ASSUME NEW r \in Load, GetFails(r) PROVE NeverHalfConfigured'
  BY <1>10, <1>1 DEF GetFails
<1>11. ASSUME Settle PROVE NeverHalfConfigured'
  BY <1>11, <1>1 DEF Settle
<1> QED
  BY <1>1, <1>2, <1>3, <1>4, <1>5, <1>6, <1>7, <1>8, <1>9, <1>10, <1>11 DEF Next, Handle, vars

(* No isolate has half a target: the guard on both keys of KV is enough    *)
(* for it whatever KV returns, stale reads, torn writes and evictions      *)
(* included.                                                               *)
THEOREM NeverHalf == Spec => []NeverHalfConfigured
<1>1. Init => NeverHalfConfigured
  BY DEF Init, NeverHalfConfigured, Blank
<1> QED
  BY <1>1, InitTyped, NextTyped, StepNeverHalf, PTL DEF Spec

-----------------------------------------------------------------------------
(* While the latest configuration is one that came alone, no other         *)
(* handler can touch KV, and the puts it has made are still there.         *)
Stored(c) ==
    /\ setapi[c] \in {"put path", "put entry", "ok"} => kv["host"] = c
    /\ setapi[c] \in {"put entry", "ok"} => kv["path"] = c
    /\ setapi[c] = "ok" => kv["entry"] = c

DInv ==
    \A c \in alone :
       /\ setapi[c] # "unsent"
       /\ latest = c => Stored(c) /\ \A e \in Config \ {c} : setapi[e] \notin Putting

LEMMA StepKeepsDInv == TypeOK /\ DInv /\ [Next]_vars => DInv'
<1> SUFFICES ASSUME TypeOK, DInv, [Next]_vars PROVE DInv'
  OBVIOUS
<1>1. ASSUME UNCHANGED <<alone, latest, setapi, kv>> PROVE DInv'
  BY <1>1 DEF DInv, Stored
<1>0. TypeOK'
  BY NextTyped
\* The cases below show it of one configuration that came alone.
<1> DEFINE D(d) == /\ setapi[d] # "unsent"
                   /\ latest = d => Stored(d) /\ \A e \in Config \ {d} : setapi[e] \notin Putting
<1>d. ASSUME \A d \in alone' : D(d)' PROVE DInv'
  BY <1>d DEF DInv
<1>o. \A d \in alone : d \in Config /\ D(d)
  BY DEF DInv, TypeOK
<1>2. ASSUME NEW c \in Config, NEW i \in Isolate, SetApi(c, i) PROVE DInv'
  <2>1. setapi[c] = "unsent" /\ latest' = c /\ UNCHANGED kv
    BY <1>2 DEF SetApi, kvVars
  <2>2. \A e \in Config : setapi'[e] = IF e = c THEN "put sub" ELSE setapi[e]
    BY <1>2 DEF SetApi, TypeOK
  <2>3. ASSUME NEW d \in alone' PROVE D(d)'
    <3>1. CASE d = c
      <4>1. c \notin alone
        BY <2>1, <1>o
      <4>2. Active = {}
        BY <1>2, <3>1, <4>1 DEF SetApi
      <4> QED
        BY <2>1, <2>2, <3>1, <4>2 DEF Stored, Active
    <3>2. CASE d # c
      <4>1. d \in alone
        BY <1>2, <3>2 DEF SetApi
      <4> QED
        BY <2>1, <2>2, <3>2, <4>1, <1>o
    <3> QED
      BY <3>1, <3>2
  <2> QED
    BY <2>3, <1>d
<1>3. ASSUME NEW c \in Config, PutSubscription(c) PROVE DInv'
  <2>1. setapi[c] = "put sub" /\ UNCHANGED <<alone, latest>>
    BY <1>3 DEF PutSubscription, history
  <2>2. \A k \in TargetKey : kv'[k] = kv[k]
    BY <1>3 DEF PutSubscription, Store, kvVars, TypeOK
  <2>3. \A e \in Config : setapi'[e] = IF e = c THEN "put host" ELSE setapi[e]
    BY <1>3 DEF PutSubscription, TypeOK
  <2>4. ASSUME NEW d \in alone' PROVE D(d)'
    BY <2>1, <2>2, <2>3, <1>o DEF Stored, Putting
  <2> QED
    BY <2>4, <1>d
<1>4. ASSUME NEW c \in Config, NEW k \in TargetKey, PutTarget(c, k) PROVE DInv'
  <2>1. setapi[c] = PutOf(k) /\ UNCHANGED <<alone, latest>>
    BY <1>4 DEF PutTarget, history
  <2>2. \A j \in TargetKey : kv'[j] = IF j = k THEN c ELSE kv[j]
    BY <1>4 DEF PutTarget, Store, TypeOK
  <2>3. \A e \in Config : setapi'[e] = IF e = c THEN NextPut(k) ELSE setapi[e]
    BY <1>4 DEF PutTarget, TypeOK
  <2>4. ASSUME NEW d \in alone' PROVE D(d)'
    <3>1. latest = d => d = c
      BY <2>1, <1>o, Sequence
    <3>2. CASE d # c
      BY <2>1, <2>3, <3>1, <3>2, <1>o
    <3>3. CASE d = c
      <4>1. NextPut(k) # "unsent"
        BY DEF NextPut
      <4>2. CASE k = "host"
        BY <2>1, <2>2, <2>3, <3>3, <4>1, <4>2, <1>o DEF Stored, PutOf, NextPut
      <4>3. CASE k = "path"
        BY <2>1, <2>2, <2>3, <3>3, <4>1, <4>3, <1>o DEF Stored, PutOf, NextPut
      <4>4. CASE k = "entry"
        BY <2>1, <2>2, <2>3, <3>3, <4>1, <4>4, <1>o DEF Stored, PutOf, NextPut
      <4> QED
        BY <4>2, <4>3, <4>4
    <3> QED
      BY <3>2, <3>3
  <2> QED
    BY <2>4, <1>d
<1>5. ASSUME NEW c \in Config, NEW k \in TargetKey, PutFails(c, k) PROVE DInv'
  <2>1. setapi[c] \in Putting /\ UNCHANGED <<alone, latest>>
    BY <1>5, Sequence DEF PutFails
  <2>2. \A e \in Config : setapi'[e] = IF e = c THEN "failed" ELSE setapi[e]
    BY <1>5 DEF PutFails, TypeOK
  <2>3. ASSUME NEW d \in alone' PROVE D(d)'
    BY <2>1, <2>2, <1>o DEF Stored, Putting
  <2> QED
    BY <2>3, <1>d
<1>6. ASSUME NEW i \in Isolate, Evict(i) PROVE DInv'
  <2>1. UNCHANGED <<alone, latest, kv>>
    BY <1>6 DEF Evict, kvVars
  <2>2. \A e \in Config : setapi'[e] \in {setapi[e], "failed"}
    BY <1>6 DEF Evict
  <2>3. ASSUME NEW d \in alone' PROVE D(d)'
    BY <2>1, <2>2, <1>o DEF Stored, Putting
  <2> QED
    BY <2>3, <1>d
<1>7. ASSUME NEW r \in Load PROVE
        /\ \A i \in Isolate : StartProxy(r, i) \/ StartSub(r, i) => DInv'
        /\ \A k \in Key : Get(r, k) => DInv'
        /\ Assign(r) \/ AssignSub(r) \/ GetFails(r) => DInv'
  BY <1>1 DEF StartProxy, StartSub, StartLoad, Get, Assign, AssignSub, GetFails,
              kvVars, setVars, history
<1>8. ASSUME Settle PROVE DInv'
  BY <1>1, <1>8 DEF Settle, setVars, history
<1> QED
  BY <1>1, <1>2, <1>3, <1>4, <1>5, <1>6, <1>7, <1>8
     DEF Next, Handle, vars, kvVars, setVars, history

(* The success of a /setapi that met no other one means that its target is *)
(* in KV and stays there until the next one comes.                         *)
THEOREM SuccessIsDurable == Spec => []AnsweredIsDurable
<1>1. Init => DInv
  BY DEF Init, DInv
<1>2. DInv => AnsweredIsDurable
  BY DEF DInv, Stored, AnsweredIsDurable
<1> QED
  BY <1>1, <1>2, InitTyped, NextTyped, StepKeepsDInv, PTL DEF Spec

-----------------------------------------------------------------------------
(* As long as no /setapi failed or met another, KV goes from one whole     *)
(* target to the next key by key, and an isolate that is not marked as     *)
(* torn is reading, or has read, what a KV at rest holds.                  *)
OneValue(w) == w["path"] = w["host"] /\ w["entry"] = w["host"]

KvInOrder ==
    /\ \A c, d \in Active : c = d
    /\ \A c \in Config :
          /\ setapi[c] = "put path" => kv["host"] = c /\ kv["path"] = kv["entry"]
          /\ setapi[c] = "put entry" => kv["host"] = c /\ kv["path"] = c
    /\ (\A c \in Config : setapi[c] \notin {"put path", "put entry"}) => OneValue(kv)

ReadsAtRest(r) ==
    /\ Active = {}
    /\ load[r] \in {"get path", "get entry", "assign"} => got[r]["host"] = kv["host"]
    /\ load[r] \in {"get entry", "assign"} => got[r]["path"] = kv["path"]
    /\ load[r] = "assign" => got[r]["entry"] = kv["entry"]

MInv ==
    calm =>
      /\ KvInOrder
      /\ \A r \in Load : load[r] # "idle" /\ loadAt[r] \notin torn => ReadsAtRest(r)
      /\ \A i \in Isolate \ torn : OneValue(ram[i])

LEMMA MInvSuffices == MInv => MixedOnlyIfDisturbed
<1> SUFFICES ASSUME MInv, calm PROVE
      /\ \A i \in Isolate \ torn : \A k \in TargetKey : ram[i][k] = ram[i].host
      /\ Active = {} => \A k \in TargetKey : kv[k] = kv["host"]
  BY DEF MixedOnlyIfDisturbed
<1>1. \A i \in Isolate \ torn : OneValue(ram[i])
  BY DEF MInv
<1>2. Active = {} => OneValue(kv)
  BY DEF MInv, KvInOrder, Active, Putting
<1> QED
  BY <1>1, <1>2 DEF OneValue

(* KV is read and never written by the requests that load: only the        *)
(* isolate and the reads have to be looked at.                             *)
LEMMA SetApiKeepsMInv ==
  ASSUME TypeOK, MInv, NEW c \in Config, NEW i \in Isolate, SetApi(c, i)
  PROVE  MInv'
<1> SUFFICES ASSUME calm' PROVE MInv'
  BY DEF MInv
<1>1. calm /\ Active = {} /\ setapi[c] = "unsent"
  BY DEF SetApi
<1>2. \A e \in Config : setapi'[e] = IF e = c THEN "put sub" ELSE setapi[e]
  BY DEF SetApi, TypeOK
<1>3. UNCHANGED <<kv, load, loadAt, got>>
  BY DEF SetApi, kvVars, loadVars
<1>4. KvInOrder'
  BY <1>1, <1>2, <1>3 DEF MInv, KvInOrder, Active, Putting
<1>5. \A r \in Load : load'[r] # "idle" => loadAt'[r] \in torn'
  BY <1>3 DEF SetApi
<1>6. \A j \in Isolate : OneValue(ram[j]) => OneValue(ram'[j])
  BY DEF SetApi, TypeOK, OneValue
<1>7. torn \subseteq torn'
  BY DEF SetApi
<1> QED
  BY <1>1, <1>4, <1>5, <1>6, <1>7 DEF MInv

LEMMA PutSubscriptionKeepsMInv ==
  ASSUME TypeOK, MInv, NEW c \in Config, PutSubscription(c)
  PROVE  MInv'
<1> SUFFICES ASSUME calm' PROVE MInv'
  BY DEF MInv
<1>1. calm /\ setapi[c] = "put sub" /\ UNCHANGED <<load, loadAt, got, torn>>
  BY DEF PutSubscription, history, loadVars
<1>2. \A e \in Config : setapi'[e] = IF e = c THEN "put host" ELSE setapi[e]
  BY DEF PutSubscription, TypeOK
<1>3. \A k \in TargetKey : kv'[k] = kv[k]
  BY DEF PutSubscription, Store, kvVars, TypeOK
<1>4. c \in Active /\ Active' = Active
  BY <1>1, <1>2 DEF Active, Putting
<1>5. KvInOrder'
  BY <1>1, <1>2, <1>3, <1>4 DEF MInv, KvInOrder, OneValue
<1>6. \A r \in Load : load'[r] # "idle" => loadAt'[r] \in torn'
  BY <1>1, <1>4 DEF MInv, ReadsAtRest
<1>7. \A j \in Isolate : OneValue(ram[j]) => OneValue(ram'[j])
  BY DEF PutSubscription, SetTarget, TypeOK, OneValue
<1> QED
  BY <1>1, <1>5, <1>6, <1>7 DEF MInv

LEMMA PutTargetKeepsMInv ==
  ASSUME TypeOK, MInv, NEW c \in Config, NEW k \in TargetKey, PutTarget(c, k)
  PROVE  MInv'
<1> SUFFICES ASSUME calm' PROVE MInv'
  BY DEF MInv
<1>1. calm /\ setapi[c] = PutOf(k) /\ UNCHANGED <<load, loadAt, got, torn, ram>>
  BY DEF PutTarget, history, loadVars
<1>2. \A e \in Config : setapi'[e] = IF e = c THEN NextPut(k) ELSE setapi[e]
  BY DEF PutTarget, TypeOK
<1>3. \A j \in TargetKey : kv'[j] = IF j = k THEN c ELSE kv[j]
  BY DEF PutTarget, Store, TypeOK
<1>4. c \in Active
  BY <1>1, Sequence DEF Active
<1>5. Active' \subseteq Active
  BY <1>2, <1>4 DEF Active
<1>6. \A e \in Config \ {c} : setapi[e] \notin Putting
  BY <1>1, <1>4 DEF MInv, KvInOrder, Active
<1>7. KvInOrder'
  <2>1. \A d, e \in Active' : d = e
    BY <1>1, <1>5 DEF MInv, KvInOrder
  <2>2. CASE k = "host"
    <3>1. kv["path"] = kv["entry"]
      BY <1>1, <1>6, <2>2 DEF MInv, KvInOrder, OneValue, PutOf, Putting
    <3> QED
      BY <1>2, <1>3, <1>6, <2>1, <2>2, <3>1 DEF KvInOrder, NextPut, Putting
  <2>3. CASE k = "path"
    <3>1. kv["host"] = c
      BY <1>1, <2>3 DEF MInv, KvInOrder, PutOf
    <3> QED
      BY <1>2, <1>3, <1>6, <2>1, <2>3, <3>1 DEF KvInOrder, NextPut, Putting
  <2>4. CASE k = "entry"
    <3>1. kv["host"] = c /\ kv["path"] = c
      BY <1>1, <2>4 DEF MInv, KvInOrder, PutOf
    <3> QED
      BY <1>2, <1>3, <1>6, <2>1, <2>4, <3>1 DEF KvInOrder, NextPut, Putting, OneValue
  <2> QED
    BY <2>2, <2>3, <2>4
<1>8. \A r \in Load : load'[r] # "idle" => loadAt'[r] \in torn'
  BY <1>1, <1>4 DEF MInv, ReadsAtRest
<1> QED
  BY <1>1, <1>7, <1>8 DEF MInv

LEMMA StartLoadKeepsMInv ==
  ASSUME TypeOK, MInv, NEW r \in Load, NEW i \in Isolate, NEW first \in {"get host", "get sub"},
         StartLoad(r, i, first)
  PROVE  MInv'
<1> SUFFICES ASSUME calm' PROVE MInv'
  BY DEF MInv
<1>1. calm /\ UNCHANGED <<kv, setapi, ram, got>>
  BY DEF StartLoad, kvVars, setVars
<1>2. KvInOrder' /\ Active' = Active
  BY <1>1 DEF MInv, KvInOrder, OneValue, Active
<1>3. torn \subseteq torn' /\ (i \notin torn' => Active = {})
  BY DEF StartLoad
<1>4. ASSUME NEW q \in Load, load'[q] # "idle", loadAt'[q] \notin torn' PROVE ReadsAtRest(q)'
  <2>1. CASE q = r
    <3>1. load'[q] = first /\ loadAt'[q] = i
      BY <2>1 DEF StartLoad, TypeOK
    <3> QED
      BY <1>2, <1>3, <1>4, <3>1 DEF ReadsAtRest
  <2>2. CASE q # r
    <3>1. load'[q] = load[q] /\ loadAt'[q] = loadAt[q]
      BY <2>2 DEF StartLoad, TypeOK
    <3> QED
      BY <1>1, <1>2, <1>3, <1>4, <3>1 DEF MInv, ReadsAtRest
  <2> QED
    BY <2>1, <2>2
<1>5. \A j \in Isolate \ torn' : OneValue(ram'[j])
  BY <1>1, <1>3 DEF MInv
<1> QED
  BY <1>2, <1>4, <1>5 DEF MInv

LEMMA GetKeepsMInv ==
  ASSUME TypeOK, MInv, NEW r \in Load, NEW k \in Key, Get(r, k)
  PROVE  MInv'
<1> SUFFICES ASSUME calm' PROVE MInv'
  BY DEF MInv
<1>1. calm /\ UNCHANGED <<kv, setapi, ram, loadAt>> /\ load[r] = GetOf(k)
  BY DEF Get, kvVars, setVars
<1>2. KvInOrder' /\ Active' = Active
  BY <1>1 DEF MInv, KvInOrder, OneValue, Active
<1>3. PICK v \in Readable(k) :
         /\ got' = [got EXCEPT ![r][k] = v]
         /\ torn' = IF k \in TargetKey /\ v # kv[k] THEN torn \cup {loadAt[r]} ELSE torn
  BY DEF Get
<1>4. torn \subseteq torn'
  BY <1>3
<1>5. ASSUME NEW q \in Load, load'[q] # "idle", loadAt'[q] \notin torn' PROVE ReadsAtRest(q)'
  <2>1. CASE q = r
    <3>1. ReadsAtRest(r)
      BY <1>1, <1>4, <1>5, <2>1 DEF MInv, GetOf
    <3>2. load'[r] = NextGet(k)
      BY DEF Get, TypeOK
    <3>3. \A j \in Key : got'[r][j] = IF j = k THEN v ELSE got[r][j]
      BY <1>3 DEF TypeOK
    <3>4. k \in TargetKey => v = kv[k]
      BY <1>1, <1>3, <1>5, <2>1
    <3>5. CASE k = "host"
      BY <1>1, <1>2, <2>1, <3>1, <3>2, <3>3, <3>4, <3>5 DEF ReadsAtRest, NextGet, GetOf
    <3>6. CASE k = "path"
      BY <1>1, <1>2, <2>1, <3>1, <3>2, <3>3, <3>4, <3>6 DEF ReadsAtRest, NextGet, GetOf
    <3>7. CASE k = "entry"
      BY <1>1, <1>2, <2>1, <3>1, <3>2, <3>3, <3>4, <3>7 DEF ReadsAtRest, NextGet, GetOf
    <3>8. CASE k = "sub"
      BY <1>1, <1>2, <2>1, <3>1, <3>2, <3>3, <3>8 DEF ReadsAtRest, NextGet, GetOf
    <3> QED
      BY <3>5, <3>6, <3>7, <3>8
  <2>2. CASE q # r
    <3>1. load'[q] = load[q] /\ got'[q] = got[q]
      BY <2>2, <1>3 DEF Get, TypeOK
    <3> QED
      BY <1>1, <1>2, <1>4, <1>5, <3>1 DEF MInv, ReadsAtRest
  <2> QED
    BY <2>1, <2>2
<1>6. \A j \in Isolate \ torn' : OneValue(ram'[j])
  BY <1>1, <1>4 DEF MInv
<1> QED
  BY <1>2, <1>5, <1>6 DEF MInv

\* The three ways a request that loads can end.
LEMMA EndLoadKeepsMInv ==
  ASSUME TypeOK, MInv, NEW r \in Load, EndLoad(r),
         UNCHANGED <<kvVars, setVars, history>>,
         calm => \A j \in Isolate \ torn : OneValue(ram[j]) => OneValue(ram'[j])
  PROVE  MInv'
<1> SUFFICES ASSUME calm' PROVE MInv'
  BY DEF MInv
<1>1. calm /\ UNCHANGED <<kv, setapi, torn>>
  BY DEF kvVars, setVars, history
<1>2. KvInOrder' /\ Active' = Active
  BY <1>1 DEF MInv, KvInOrder, OneValue, Active
<1>3. \A q \in Load : load'[q] # "idle" =>
         load'[q] = load[q] /\ loadAt'[q] = loadAt[q] /\ got'[q] = got[q]
  BY DEF EndLoad, TypeOK
<1>4. \A q \in Load : load'[q] # "idle" /\ loadAt'[q] \notin torn' => ReadsAtRest(q)'
  BY <1>1, <1>2, <1>3 DEF MInv, ReadsAtRest
<1> QED
  BY <1>1, <1>2, <1>4 DEF MInv

LEMMA AssignKeepsMInv ==
  ASSUME TypeOK, MInv, NEW r \in Load, Assign(r)
  PROVE  MInv'
<1>1. EndLoad(r) /\ UNCHANGED <<kvVars, setVars, history>> /\ load[r] = "assign"
  BY DEF Assign
<1>2. ASSUME calm, NEW j \in Isolate \ torn, OneValue(ram[j]) PROVE OneValue(ram'[j])
  <2>1. CASE ram'[j] = ram[j]
    BY <1>2, <2>1
  <2>2. CASE ram'[j] # ram[j]
    <3>1. loadAt[r] = j
      BY <2>2 DEF Assign, TypeOK
    <3>2. \A k \in TargetKey : ram'[j][k] = got[r][k]
      BY <2>2, <3>1 DEF Assign, TypeOK
    <3>3. ReadsAtRest(r)
      BY <1>1, <1>2, <3>1 DEF MInv
    <3>4. OneValue(kv)
      BY <1>2, <3>3 DEF MInv, KvInOrder, ReadsAtRest, Active, Putting
    <3> QED
      BY <1>1, <3>2, <3>3, <3>4 DEF OneValue, ReadsAtRest
  <2> QED
    BY <2>1, <2>2
<1> QED
  BY <1>1, <1>2, EndLoadKeepsMInv

LEMMA EvictKeepsMInv ==
  ASSUME TypeOK, MInv, NEW i \in Isolate, Evict(i)
  PROVE  MInv'
<1> SUFFICES ASSUME calm' PROVE MInv'
  BY DEF MInv
<1>1. calm /\ (\A c \in Active : at[c] # i) /\ torn' = torn \ {i} /\ UNCHANGED kv
  BY DEF Evict, kvVars
<1>2. \A c \in Config : setapi'[c] = setapi[c]
  BY <1>1 DEF Evict, Active
<1>3. KvInOrder' /\ Active' = Active
  BY <1>1, <1>2 DEF MInv, KvInOrder, OneValue, Active
<1>4. \A q \in Load : load'[q] # "idle" =>
         /\ loadAt[q] # i
         /\ load'[q] = load[q] /\ loadAt'[q] = loadAt[q] /\ got'[q] = got[q]
  BY DEF Evict
<1>5. \A q \in Load : load'[q] # "idle" /\ loadAt'[q] \notin torn' => ReadsAtRest(q)'
  BY <1>1, <1>3, <1>4 DEF MInv, ReadsAtRest
<1>6. \A j \in Isolate : ram'[j] = IF j = i THEN Blank ELSE ram[j]
  BY DEF Evict, TypeOK
<1>7. \A j \in Isolate \ torn' : OneValue(ram'[j])
  BY <1>1, <1>6 DEF MInv, OneValue, Blank
<1> QED
  BY <1>3, <1>5, <1>7 DEF MInv

LEMMA StepKeepsMInv == TypeOK /\ MInv /\ [Next]_vars => MInv'
<1> SUFFICES ASSUME TypeOK, MInv, [Next]_vars PROVE MInv'
  OBVIOUS
<1>1. CASE UNCHANGED vars
  BY <1>1 DEF vars, kvVars, setVars, loadVars, history, MInv, KvInOrder, ReadsAtRest,
              OneValue, Active
<1>2. ASSUME NEW c \in Config, NEW k \in TargetKey, PutFails(c, k) PROVE MInv'
  BY <1>2 DEF PutFails, MInv
<1>3. ASSUME NEW r \in Load, NEW i \in Isolate, StartProxy(r, i) \/ StartSub(r, i) PROVE MInv'
  BY <1>3, StartLoadKeepsMInv DEF StartProxy, StartSub
<1>4. ASSUME NEW r \in Load, AssignSub(r) PROVE MInv'
  <2>1. \A j \in Isolate : OneValue(ram[j]) => OneValue(ram'[j])
    BY <1>4 DEF AssignSub, TypeOK, OneValue
  <2> QED
    BY <1>4, <2>1, EndLoadKeepsMInv DEF AssignSub
<1>5. ASSUME NEW r \in Load, GetFails(r) PROVE MInv'
  BY <1>5, EndLoadKeepsMInv DEF GetFails
<1>6. ASSUME Settle PROVE MInv'
  BY <1>6 DEF Settle, setVars, loadVars, history, MInv, KvInOrder, ReadsAtRest, OneValue, Active
<1> QED
  BY <1>1, <1>2, <1>3, <1>4, <1>5, <1>6, SetApiKeepsMInv, PutSubscriptionKeepsMInv,
     PutTargetKeepsMInv, GetKeepsMInv, AssignKeepsMInv, EvictKeepsMInv DEF Next, Handle

(* Whatever KV has not yet made visible, two configurations mix in an      *)
(* isolate, or in a KV at rest, only after a /setapi failed or overlapped  *)
(* another one or the isolate's own reads, or the isolate read a value     *)
(* that was no longer the stored one.                                      *)
THEOREM MixedNeedsDisturbance == Spec => []MixedOnlyIfDisturbed
<1>1. Init => MInv
  BY DEF Init, MInv, KvInOrder, OneValue, Active, Putting, Blank
<1> QED
  BY <1>1, InitTyped, NextTyped, StepKeepsMInv, MInvSuffices, PTL DEF Spec

-----------------------------------------------------------------------------
(* The step by step mapping to TargetStore.  As long as nothing disturbed  *)
(* it, the one /setapi being handled is the latest: the stage of the post  *)
(* says where it is, and no other handler touches what is stored.          *)
LInv == calm => \A c \in Active : c = latest

LEMMA StepKeepsLInv == TypeOK /\ LInv /\ [Next]_vars => LInv'
<1> SUFFICES ASSUME TypeOK, LInv, [Next]_vars, calm' PROVE \A c \in Active' : c = latest'
  BY DEF LInv
<1>1. ASSUME calm, UNCHANGED latest, Active' \subseteq Active
      PROVE  \A c \in Active' : c = latest'
  BY <1>1 DEF LInv
<1>2. ASSUME UNCHANGED <<setapi, latest, calm>> PROVE \A c \in Active' : c = latest'
  BY <1>1, <1>2 DEF Active
<1>3. ASSUME NEW c \in Config, NEW i \in Isolate, SetApi(c, i)
      PROVE  \A e \in Active' : e = latest'
  <2>1. Active = {} /\ latest' = c
    BY <1>3 DEF SetApi
  <2>2. \A e \in Config : setapi'[e] = IF e = c THEN "put sub" ELSE setapi[e]
    BY <1>3 DEF SetApi, TypeOK
  <2> QED
    BY <2>1, <2>2 DEF Active
<1>4. ASSUME NEW c \in Config, PutSubscription(c) PROVE \A e \in Active' : e = latest'
  <2>1. \A e \in Config : setapi'[e] = IF e = c THEN "put host" ELSE setapi[e]
    BY <1>4 DEF PutSubscription, TypeOK
  <2>2. setapi[c] = "put sub" /\ UNCHANGED <<latest, calm>>
    BY <1>4 DEF PutSubscription, history
  <2> QED
    BY <1>1, <2>1, <2>2 DEF Active, Putting
<1>5. ASSUME NEW c \in Config, NEW k \in TargetKey, PutTarget(c, k)
      PROVE  \A e \in Active' : e = latest'
  <2>1. \A e \in Config : setapi'[e] = IF e = c THEN NextPut(k) ELSE setapi[e]
    BY <1>5 DEF PutTarget, TypeOK
  <2>2. setapi[c] \in Putting /\ UNCHANGED <<latest, calm>>
    BY <1>5, Sequence DEF PutTarget, history
  <2> QED
    BY <1>1, <2>1, <2>2 DEF Active
<1>6. ASSUME NEW c \in Config, NEW k \in TargetKey, PutFails(c, k)
      PROVE  \A e \in Active' : e = latest'
  BY <1>6 DEF PutFails
<1>7. ASSUME NEW i \in Isolate, Evict(i) PROVE \A e \in Active' : e = latest'
  <2>1. \A e \in Config : setapi'[e] \in {setapi[e], "failed"}
    BY <1>7 DEF Evict
  <2>2. calm /\ UNCHANGED latest
    BY <1>7 DEF Evict
  <2> QED
    BY <1>1, <2>1, <2>2 DEF Active, Putting
<1>8. ASSUME NEW r \in Load PROVE
        /\ \A i \in Isolate : StartProxy(r, i) \/ StartSub(r, i) => UNCHANGED <<setapi, latest, calm>>
        /\ \A k \in Key : Get(r, k) => UNCHANGED <<setapi, latest, calm>>
        /\ Assign(r) \/ AssignSub(r) \/ GetFails(r) => UNCHANGED <<setapi, latest, calm>>
  BY DEF StartProxy, StartSub, StartLoad, Get, Assign, AssignSub, GetFails,
         setVars, history
<1>9. ASSUME Settle PROVE \A e \in Active' : e = latest'
  BY <1>2, <1>9 DEF Settle, setVars, history
<1> QED
  BY <1>2, <1>3, <1>4, <1>5, <1>6, <1>7, <1>8, <1>9
     DEF Next, Handle, vars, setVars, history

\* What a state of the model is in the abstract store, where it is calm.
Serving == [i \in Isolate |-> Whole(ram[i])]
Home == IF latest = None THEN None ELSE at[latest]

LEMMA AtRest ==
  ASSUME TypeOK, calm, MInv, LInv
  PROVE  /\ Active = {} <=> Stage = "done"
         /\ Active = {} => OneValue(kv) /\ StoredTarget = kv["host"] /\ StoredTarget = kv["entry"]
<1>1. Active = {} => OneValue(kv)
  BY DEF MInv, KvInOrder, Active, Putting
<1>2. Active = {} => StoredTarget = kv["host"] /\ StoredTarget = kv["entry"]
  BY <1>1 DEF StoredTarget, Whole, OneValue
<1>3. Active # {} => Stage # "done"
  <2> SUFFICES ASSUME NEW c \in Active PROVE Stage # "done"
    OBVIOUS
  <2>1. c = latest /\ c \in Config /\ setapi[c] \in Putting
    BY DEF LInv, Active
  <2>2. c # None
    BY <2>1, WorkerAssumption
  <2> QED
    BY <2>1, <2>2 DEF Stage, TargetPuts, Putting
<1>4. Active = {} => Stage = "done"
  <2>1. latest # None => latest \in Config
    BY DEF TypeOK, Value
  <2> QED
    BY <2>1 DEF Stage, Active, TargetPuts, Putting
<1> QED
  BY <1>1, <1>2, <1>3, <1>4

LEMMA PostStep ==
  ASSUME TypeOK, MInv, LInv, NEW c \in Config, NEW i \in Isolate, SetApi(c, i), calm'
  PROVE  Targets!Post(c, i)
<1>1. calm /\ Active = {} /\ latest' = c /\ UNCHANGED <<kv, settled>> /\ torn \subseteq torn'
  BY DEF SetApi, kvVars
<1>2. Stage = "done" /\ StoredTarget = kv["entry"]
  BY <1>1, AtRest
<1>3. setapi'[c] = "put sub" /\ at'[c] = i
  BY DEF SetApi, TypeOK
<1>4. c # None
  BY WorkerAssumption
<1>5. Stage' = "posted" /\ Home' = i
  BY <1>1, <1>3, <1>4 DEF Stage, Home, TargetPuts
<1>6. StoredTarget' = kv'["entry"]
  <2>1. c \in Active'
    BY <1>3 DEF Active, Putting
  <2> QED
    BY <2>1 DEF StoredTarget
<1>7. \A j \in Isolate : Whole(ram'[j]) = Whole(ram[j])
  BY DEF SetApi, TypeOK, Whole
<1> QED
  BY <1>1, <1>2, <1>5, <1>6, <1>7 DEF Targets!Post, Targets!Serve, Home

LEMMA AdoptStep ==
  ASSUME TypeOK, MInv, LInv, NEW c \in Config, PutSubscription(c), calm'
  PROVE  Targets!Adopt
<1>1. calm /\ setapi[c] = "put sub" /\ UNCHANGED <<latest, at, torn>>
  BY DEF PutSubscription, history
<1>2. c \in Active /\ c = latest /\ c # None
  BY <1>1, WorkerAssumption DEF LInv, Active, Putting
<1>3. \A e \in Config : setapi'[e] = IF e = c THEN "put host" ELSE setapi[e]
  BY DEF PutSubscription, TypeOK
<1>4. Stage = "posted" /\ Stage' = "adopted"
  BY <1>1, <1>2, <1>3 DEF Stage, TargetPuts
<1>5. kv'["entry"] = kv["entry"]
  BY DEF PutSubscription, Store, kvVars, TypeOK
<1>6. StoredTarget' = StoredTarget
  <2>1. c \in Active'
    BY <1>3 DEF Active, Putting
  <2> QED
    BY <1>2, <1>5, <2>1 DEF StoredTarget
<1>7. \A j \in Isolate : Whole(ram'[j]) = IF j = at[c] THEN c ELSE Whole(ram[j])
  BY DEF PutSubscription, SetTarget, TypeOK, Whole
<1>8. Home = at[c] /\ Home' = Home
  BY <1>1, <1>2 DEF Home
<1>9. settled' \in BOOLEAN
  BY NextTyped DEF TypeOK, Next, Handle
<1> QED
  BY <1>1, <1>2, <1>4, <1>6, <1>7, <1>8, <1>9 DEF Targets!Adopt, Targets!Serve, Home

LEMMA PutTargetStep ==
  ASSUME TypeOK, MInv, LInv, NEW c \in Config, NEW k \in TargetKey, PutTarget(c, k), calm'
  PROVE  Targets!Commit \/ Targets!Settle
<1>1. /\ calm /\ setapi[c] = PutOf(k) /\ settled' = FALSE
      /\ UNCHANGED <<latest, at, torn, ram>>
  BY DEF PutTarget, Store, history
<1>2. c \in Active /\ c = latest /\ c # None
  BY <1>1, Sequence, WorkerAssumption DEF LInv, Active
<1>3. \A e \in Config : setapi'[e] = IF e = c THEN NextPut(k) ELSE setapi[e]
  BY DEF PutTarget, TypeOK
<1>4. \A j \in TargetKey : kv'[j] = IF j = k THEN c ELSE kv[j]
  BY DEF PutTarget, Store, TypeOK
<1>5. Stage = "adopted" /\ Home' = Home
  BY <1>1, <1>2 DEF Stage, Home, TargetPuts, PutOf
<1>6. \A i \in Isolate : Whole(ram'[i]) = Whole(ram[i])
  BY <1>1
<1>7. CASE k = "entry"
  <2>1. \A e \in Config : e \in Active => e = c
    BY <1>1, <1>2 DEF LInv
  <2>2. Active' = {}
    BY <1>3, <1>7, <2>1 DEF Active, NextPut, Putting
  <2>3. kv["host"] = c /\ kv["path"] = c
    BY <1>1, <1>7 DEF MInv, KvInOrder, PutOf
  <2>4. StoredTarget' = c
    BY <1>4, <1>7, <2>2, <2>3 DEF StoredTarget, Whole
  <2>5. Stage' = "done"
    BY <1>1, <1>2, <1>3, <1>7 DEF Stage, NextPut, TargetPuts
  <2> QED
    BY <1>1, <1>2, <1>5, <1>6, <2>4, <2>5 DEF Targets!Commit, Targets!Serve, Home
<1>8. CASE k # "entry"
  <2>1. NextPut(k) \in TargetPuts
    BY <1>8 DEF NextPut, TargetPuts
  <2>2. c \in Active'
    BY <1>3, <2>1 DEF Active, Putting, TargetPuts
  <2>3. StoredTarget' = StoredTarget
    BY <1>2, <1>4, <1>8, <2>2 DEF StoredTarget
  <2>4. Stage' = Stage
    BY <1>1, <1>2, <1>3, <1>5, <2>1 DEF Stage, TargetPuts
  <2> QED
    BY <1>1, <1>5, <1>6, <2>3, <2>4 DEF Targets!Settle, Targets!Serve, Home
<1> QED
  BY <1>7, <1>8

\* The steps of a request that loads, up to its last one.
LEMMA LoadingStep ==
  ASSUME UNCHANGED <<ram, kv, settled, setapi, at, latest>>,
         UNCHANGED torn \/ ((Stage # "done" \/ ~settled) /\ torn \subseteq torn')
  PROVE  Targets!Suspect
<1>1. Active' = Active
  BY DEF Active
<1>2. UNCHANGED StoredTarget /\ UNCHANGED Home
  BY <1>1 DEF StoredTarget, Home, Whole
<1>3. Stage' = Stage
  <2>1. setapi' = setapi /\ latest' = latest
    OBVIOUS
  <2> QED
    BY <2>1 DEF Stage, TargetPuts
<1> QED
  BY <1>2, <1>3 DEF Targets!Suspect, Targets!Serve, Home

LEMMA AssignStep ==
  ASSUME TypeOK, MInv, LInv, NEW r \in Load, Assign(r), calm'
  PROVE  Targets!Suspect \/ \E i \in Isolate : Targets!Refresh(i)
<1>1. calm /\ load[r] = "assign" /\ UNCHANGED <<kv, settled, setapi, at, latest, torn>>
  BY DEF Assign, kvVars, setVars, history
<1>2. Active' = Active
  BY <1>1 DEF Active
<1>3. UNCHANGED <<StoredTarget, Stage, Home>>
  BY <1>1, <1>2 DEF StoredTarget, Stage, Home, Whole
<1>4. loadAt[r] \in Isolate
  BY <1>1 DEF TypeOK
<1>5. \A j \in Isolate : j # loadAt[r] => ram'[j] = ram[j]
  BY DEF Assign, TypeOK
<1>6. CASE loadAt[r] \in torn \/ got[r].host = None \/ got[r].path = None
  <2>1. \A j \in Isolate \ torn' : Whole(ram'[j]) = Whole(ram[j])
    BY <1>1, <1>5, <1>6 DEF Assign
  <2> QED
    BY <1>1, <1>3, <2>1 DEF Targets!Suspect, Targets!Serve, Home
<1>7. CASE loadAt[r] \notin torn /\ got[r].host # None /\ got[r].path # None
  <2>1. ReadsAtRest(r)
    BY <1>1, <1>7 DEF MInv
  <2>2. Stage = "done" /\ OneValue(kv) /\ StoredTarget = kv["host"]
    BY <1>1, <2>1, AtRest DEF ReadsAtRest
  <2>3. \A k \in TargetKey : ram'[loadAt[r]][k] = got[r][k]
    BY <1>4, <1>7 DEF Assign, TypeOK
  <2>4. \A k \in TargetKey : got[r][k] = StoredTarget
    BY <1>1, <2>1, <2>2 DEF ReadsAtRest, OneValue
  <2>5. StoredTarget # None /\ Whole(ram'[loadAt[r]]) = StoredTarget
    BY <1>7, <2>3, <2>4 DEF Whole
  <2>6. \A j \in Isolate :
           Whole(ram'[j]) = IF j = loadAt[r] THEN StoredTarget ELSE Whole(ram[j])
    BY <1>5, <2>5
  <2>7. Targets!Refresh(loadAt[r])
    BY <1>1, <1>3, <1>4, <2>2, <2>5, <2>6 DEF Targets!Refresh, Targets!Serve, Home
  <2> QED
    BY <1>4, <2>7
<1> QED
  BY <1>6, <1>7

LEMMA AssignSubStep ==
  ASSUME TypeOK, NEW r \in Load, AssignSub(r)
  PROVE  Targets!Suspect
<1>1. UNCHANGED <<kv, settled, setapi, at, latest, torn>>
  BY DEF AssignSub, kvVars, setVars, history
<1>2. Active' = Active
  BY <1>1 DEF Active
<1>3. UNCHANGED <<StoredTarget, Stage, Home>>
  BY <1>1, <1>2 DEF StoredTarget, Stage, Home, Whole
<1>4. \A j \in Isolate : Whole(ram'[j]) = Whole(ram[j])
  BY DEF AssignSub, TypeOK, Whole
<1> QED
  BY <1>1, <1>3, <1>4 DEF Targets!Suspect, Targets!Serve, Home

LEMMA EvictStep ==
  ASSUME TypeOK, MInv, LInv, NEW i \in Isolate, Evict(i), calm'
  PROVE  Targets!Evict(i)
<1>1. /\ calm /\ \A c \in Active : at[c] # i
      /\ torn' = torn \ {i} /\ UNCHANGED <<kv, settled, at, latest>>
  BY DEF Evict, kvVars
<1>2. setapi' = setapi
  <2>1. \A c \in Config : setapi'[c] = setapi[c]
    BY <1>1 DEF Evict, Active
  <2> QED
    BY <2>1 DEF Evict, TypeOK
<1>3. Active' = Active
  BY <1>2 DEF Active
<1>4. UNCHANGED <<StoredTarget, Stage, Home>>
  BY <1>1, <1>2, <1>3 DEF StoredTarget, Stage, Home, Whole
<1>5. Stage # "done" => Home # i
  <2> SUFFICES ASSUME Stage # "done" PROVE Home # i
    OBVIOUS
  <2>1. PICK c \in Active : TRUE
    BY <1>1, AtRest
  <2>2. c = latest /\ c # None
    BY <1>1, <2>1, WorkerAssumption DEF LInv, Active
  <2> QED
    BY <1>1, <2>1, <2>2 DEF Home
<1>6. \A j \in Isolate : Whole(ram'[j]) = IF j = i THEN None ELSE Whole(ram[j])
  BY DEF Evict, Whole, Blank, TypeOK
<1> QED
  BY <1>1, <1>4, <1>5, <1>6 DEF Targets!Evict, Targets!Serve, Home

LEMMA SettleStep ==
  ASSUME Settle
  PROVE  Targets!Settle
<1>1. settled' = TRUE /\ UNCHANGED <<ram, kv, setapi, at, latest, torn>>
  BY DEF Settle, setVars, history
<1>2. Active' = Active
  BY <1>1 DEF Active
<1>3. UNCHANGED <<StoredTarget, Stage, Home>>
  BY <1>1, <1>2 DEF StoredTarget, Stage, Home, Whole
<1> QED
  BY <1>1, <1>3 DEF Targets!Settle, Targets!Serve, Home

LEMMA TargetStep ==
  ASSUME TypeOK, MInv, LInv, [Next]_vars
  PROVE  [Targets!Next]_(Targets!vars)
<1>0. TypeOK'
  BY NextTyped
<1>1. CASE UNCHANGED vars
  <2>1. UNCHANGED <<kv, settled, setapi, at, latest, torn, ram, calm>>
    BY <1>1 DEF vars, kvVars, setVars, history
  <2>2. UNCHANGED StoredTarget /\ UNCHANGED Home /\ UNCHANGED Serving
    BY <2>1 DEF StoredTarget, Active, Home, Serving, Whole
  <2>3. UNCHANGED Stage
    BY <2>1 DEF Stage, TargetPuts
  <2> QED
    BY <2>1, <2>2, <2>3 DEF Targets!vars, Home, Serving
<1>2. CASE ~calm'
  <2>1. calm' = FALSE
    BY <1>0, <1>2 DEF TypeOK
  <2> QED
    BY <2>1 DEF Targets!Next, Targets!Disturbed
<1>3. ASSUME calm', calm, \/ \E c \in Config, i \in Isolate : Targets!Post(c, i)
                          \/ Targets!Adopt \/ Targets!Commit
                          \/ Targets!Settle \/ Targets!Suspect
                          \/ \E i \in Isolate : Targets!Refresh(i) \/ Targets!Evict(i)
      PROVE  Targets!Next
  <2>1. calm' = calm
    BY <1>0, <1>3 DEF TypeOK
  <2> QED
    BY <1>3, <2>1 DEF Targets!Next, Targets!Calm
<1>4. ASSUME calm', NEW c \in Config, NEW i \in Isolate, SetApi(c, i) PROVE Targets!Next
  <2>1. calm
    BY <1>4 DEF SetApi
  <2> QED
    BY <1>3, <1>4, <2>1, PostStep
<1>5. ASSUME calm', NEW c \in Config, PutSubscription(c) PROVE Targets!Next
  <2>1. calm
    BY <1>5 DEF PutSubscription, history
  <2> QED
    BY <1>3, <1>5, <2>1, AdoptStep
<1>6. ASSUME calm', NEW c \in Config, NEW k \in TargetKey, PutTarget(c, k) PROVE Targets!Next
  <2>1. calm
    BY <1>6 DEF PutTarget, history
  <2> QED
    BY <1>3, <1>6, <2>1, PutTargetStep
<1>7. ASSUME NEW c \in Config, NEW k \in TargetKey, PutFails(c, k) PROVE ~calm'
  BY <1>7 DEF PutFails
<1>8. ASSUME calm', NEW r \in Load, NEW i \in Isolate, StartProxy(r, i) \/ StartSub(r, i)
      PROVE Targets!Next
  <2>1. calm /\ UNCHANGED <<ram, kv, settled, setapi, at, latest>>
    BY <1>8 DEF StartProxy, StartSub, StartLoad, kvVars, setVars
  <2>2. torn' = IF Active = {} THEN torn ELSE torn \cup {i}
    BY <1>8 DEF StartProxy, StartSub, StartLoad
  <2>3. UNCHANGED torn \/ (Stage # "done" /\ torn \subseteq torn')
    BY <2>1, <2>2, AtRest
  <2> QED
    BY <1>3, <1>8, <2>1, <2>3, LoadingStep
<1>9. ASSUME calm', NEW r \in Load, NEW k \in Key, Get(r, k) PROVE Targets!Next
  <2>1. calm /\ UNCHANGED <<ram, kv, settled, setapi, at, latest>>
    BY <1>9 DEF Get, kvVars, setVars
  <2>2. UNCHANGED torn \/ (~settled /\ torn \subseteq torn')
    BY <1>9 DEF Get, Readable
  <2> QED
    BY <1>3, <1>9, <2>1, <2>2, LoadingStep
<1>10. ASSUME calm', NEW r \in Load, GetFails(r) PROVE Targets!Next
  <2>1. calm /\ UNCHANGED <<ram, kv, settled, setapi, at, latest, torn>>
    BY <1>10 DEF GetFails, kvVars, setVars, history
  <2> QED
    BY <1>3, <1>10, <2>1, LoadingStep
<1>11. ASSUME calm', NEW r \in Load, Assign(r) PROVE Targets!Next
  <2>1. calm
    BY <1>11 DEF Assign, history
  <2> QED
    BY <1>3, <1>11, <2>1, AssignStep
<1>12. ASSUME calm', NEW r \in Load, AssignSub(r) PROVE Targets!Next
  <2>1. calm
    BY <1>12 DEF AssignSub, history
  <2> QED
    BY <1>3, <1>12, <2>1, AssignSubStep
<1>13. ASSUME calm', NEW i \in Isolate, Evict(i) PROVE Targets!Next
  <2>1. calm
    BY <1>13 DEF Evict
  <2> QED
    BY <1>3, <1>13, <2>1, EvictStep
<1>14. ASSUME calm', Settle PROVE Targets!Next
  <2>1. calm
    BY <1>14 DEF Settle, history
  <2> QED
    BY <1>3, <1>14, <2>1, SettleStep
<1> QED
  BY <1>1, <1>2, <1>4, <1>5, <1>6, <1>7, <1>8, <1>9, <1>10, <1>11, <1>12, <1>13, <1>14
     DEF Next, Handle

(* The Worker is the store of TargetStore: each step of a request is one   *)
(* of its steps, or changes nothing in it, however many isolates and       *)
(* requests interleave and however late a put becomes visible.             *)
THEOREM TargetStoreImplemented == Spec => ImplementsTargetStore
<1>1. Init => MInv /\ LInv
  BY DEF Init, MInv, LInv, KvInOrder, OneValue, Active, Putting, Blank
<1>2. Init => Targets!Init
  <2> SUFFICES ASSUME Init PROVE Targets!Init
    OBVIOUS
  <2>1. StoredTarget = None
    BY DEF Init, StoredTarget, Active, Putting, Whole, Blank
  <2>2. Stage = "done"
    BY DEF Init, Stage
  <2> QED
    BY <2>1, <2>2 DEF Init, Targets!Init, Whole, Blank
<1>3. TypeOK /\ MInv /\ LInv /\ [Next]_vars => [Targets!Next]_(Targets!vars)
  BY TargetStep
<1> QED
  BY <1>1, <1>2, <1>3, InitTyped, NextTyped, StepKeepsMInv, StepKeepsLInv, PTL
     DEF Spec, ImplementsTargetStore, Targets!Spec
=============================================================================
