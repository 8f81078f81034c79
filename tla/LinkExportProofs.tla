------------------------- MODULE LinkExportProofs -------------------------
(***************************************************************************)
(* Proofs about LinkExport, for any set of launches.                       *)
(*                                                                         *)
(* Kept: at every step of an export that is alone, what it is past is in   *)
(* place or recorded as spoiled.  PInv, for the publication: the order in  *)
(* which each launch announces, exports and sends.                         *)
(***************************************************************************)
EXTENDS LinkExport, TLAPS

LEMMA InitTyped == Init => TypeOK
  BY DEF Init, TypeOK, File, Content, Answer, NoAnswer

(* A reply is an answer, whatever the config file holds.                   *)
LEMMA ReplyTyped ==
    ASSUME NEW of \in {"vless-info", "sub"}, NEW links \in Content
    PROVE  Reply(of, links) \in Answer
  BY DEF Reply, Answer, Content

LEMMA NextTyped == TypeOK /\ [Next]_vars => TypeOK'
<1> SUFFICES ASSUME TypeOK, [Next]_vars PROVE TypeOK'
  OBVIOUS
<1> USE DEF TypeOK, Busy, File, Target, reader
<1>1. CASE UNCHANGED vars
  BY <1>1 DEF vars
<1>2. ASSUME NEW l \in Launch, Announce(l) PROVE TypeOK'
  <2>1. answer' \in Answer
    BY <1>2 DEF Announce, Answer
  <2> QED
    BY <1>2, <2>1 DEF Announce, Move
<1>12. ASSUME NEW l \in Launch, Banner(l) PROVE TypeOK'
  BY <1>12 DEF Banner, Move
<1>3. ASSUME NEW l \in Launch, EndOfLog(l) PROVE TypeOK'
  BY <1>3 DEF EndOfLog, Move
<1>4. ASSUME NEW l \in Launch, LookupPublicIP(l) PROVE TypeOK'
  BY <1>4 DEF LookupPublicIP, Move
<1>5. ASSUME NEW l \in Launch, NEW f \in File, OpenFile(l, f) PROVE TypeOK'
  BY <1>5 DEF OpenFile, Move, Writing, Content
<1>6. ASSUME NEW l \in Launch, NEW f \in File, WriteFile(l, f) PROVE TypeOK'
  <2>1. After(f) \in Busy
    BY DEF After
  <2>2. PICK content \in {l, Mixed} : file' = [file EXCEPT ![f] = content]
    BY <1>6 DEF WriteFile
  <2>3. file' \in [File -> Content]
    BY <2>2 DEF Content
  <2> QED
    BY <1>6, <2>1, <2>3 DEF WriteFile, Move
<1>7. ASSUME NEW l \in Launch, NEW f \in File, WriteError(l, f) PROVE TypeOK'
  <2>1. <<l, f>> \in Launch \X Target
    BY DEF Target
  <2>2. After(f) \in Busy
    BY DEF After
  <2>3. spoiled' \subseteq Launch \X Target
    BY <1>7, <2>1 DEF WriteError
  <2> QED
    BY <1>7, <2>2, <2>3 DEF WriteError
<1>8. ASSUME NEW l \in Launch, SendWebhook(l) PROVE TypeOK'
  BY <1>8 DEF SendWebhook, Move
<1>9. ASSUME NEW l \in Launch, WebhookArrives(l) PROVE TypeOK'
  BY <1>9 DEF WebhookArrives
<1>10. ASSUME NEW l \in Launch, WebhookLost(l) PROVE TypeOK'
  <2>1. <<l, "webhook">> \in Launch \X Target
    BY DEF Target
  <2>2. spoiled' \subseteq Launch \X Target
    BY <1>10, <2>1 DEF WebhookLost
  <2> QED
    BY <1>10, <2>2 DEF WebhookLost
<1>11. CASE Exit
  <2>1. NoAnswer \in Answer
    BY DEF NoAnswer, Answer, Content
  <2> QED
    BY <1>11, <2>1 DEF Exit, Exporting
<1>13. CASE ReadConfig
  BY <1>13, ReplyTyped DEF ReadConfig
<1>14. CASE ReadMeta
  <2>1. answer' \in Answer
    BY <1>14 DEF ReadMeta, Answer
  <2> QED
    BY <1>14, <2>1 DEF ReadMeta
<1>15. CASE handleSubscription
  BY <1>15, ReplyTyped DEF handleSubscription
<1> HIDE DEF TypeOK, Busy, File, Target
<1> QED
  BY <1>1, <1>2, <1>3, <1>4, <1>5, <1>6, <1>7, <1>8, <1>9, <1>10, <1>11,
     <1>12, <1>13, <1>14, <1>15
     DEF Next, ExportStep

(* The state stays typed: the readers, the files, the webhooks and the two *)
(* history variables never leave their ranges.                             *)
THEOREM TypeCorrect == Spec => []TypeOK
  BY InitTyped, NextTyped, PTL DEF Spec

-----------------------------------------------------------------------------
(* The strengthening.  While the last export to start is one that started  *)
(* alone, it is the only one going on, no older webhook can arrive, and it *)
(* has kept what it has written so far.                                    *)
PastConfig == {"open json", "write json", "notify", "done"}
PastJson == {"notify", "done"}

Kept(l) ==
    /\ \A m \in Launch \ {l} : export[m] \notin Busy
    /\ inFlight \subseteq {l}
    /\ export[l] = "write config" => file["config"] = Truncated
    /\ export[l] = "write json" => file["json"] = Truncated
    /\ export[l] \in PastConfig => file["config"] = l \/ <<l, "config">> \in spoiled
    /\ export[l] \in PastJson => file["json"] = l \/ <<l, "json">> \in spoiled
    /\ export[l] = "done" => heard = l \/ l \in inFlight \/ <<l, "webhook">> \in spoiled

IInv ==
    /\ TypeOK
    /\ \A l \in alone : export[l] \notin {"reading", "banner"}
    /\ \A l \in alone : hostname = l => Kept(l)

LEMMA StepKeepsIInv == IInv /\ [Next]_vars => IInv'
<1> SUFFICES ASSUME IInv, [Next]_vars PROVE IInv'
  OBVIOUS
<1> USE DEF IInv, TypeOK, Kept, Busy, File, PastConfig, PastJson
<1>0. TypeOK'
  BY NextTyped
<1> HIDE DEF IInv
<1>i. TypeOK /\ (\A l \in alone : export[l] \notin {"reading", "banner"})
      /\ (\A l \in alone : hostname = l => Kept(l))
  BY DEF IInv
<1>n. None \notin Launch
  BY LinkExportAssumption
<1> SUFFICES (\A a \in alone' : export'[a] \notin {"reading", "banner"})
             /\ (\A a \in alone' : hostname' = a => Kept(a)')
  BY <1>0 DEF IInv
<1> SUFFICES ASSUME NEW a \in alone'
             PROVE export'[a] \notin {"reading", "banner"} /\ (hostname' = a => Kept(a)')
  OBVIOUS
<1>a. a \in Launch
  BY <1>0
<1>1. CASE UNCHANGED vars
  BY <1>1, <1>i DEF vars
<1>2. ASSUME NEW l \in Launch, Announce(l) PROVE export'[a] \notin {"reading", "banner"} /\ (hostname' = a => Kept(a)')
  <2>1. CASE a = l
    <3>1. l \notin alone
      BY <1>2, <1>i DEF Announce, Move
    <3>2. Exporting = {} /\ inFlight = {}
      BY <1>2, <2>1, <3>1 DEF Announce
    <3> QED
      BY <1>2, <2>1, <3>2, <1>i DEF Announce, Move, Exporting
  <2>2. CASE a # l
    BY <1>2, <2>2, <1>i, <1>a DEF Announce, Move
  <2> QED
    BY <2>1, <2>2
<1>12. ASSUME NEW l \in Launch, Banner(l)
       PROVE export'[a] \notin {"reading", "banner"} /\ (hostname' = a => Kept(a)')
  BY <1>12, <1>i, <1>a DEF Banner, Move
<1>3. ASSUME NEW l \in Launch, EndOfLog(l) PROVE export'[a] \notin {"reading", "banner"} /\ (hostname' = a => Kept(a)')
  <2>1. PICK at \in {"reading", "banner"} : Move(l, at, "done")
    BY <1>3 DEF EndOfLog
  <2>2. a # l
    BY <1>3, <2>1, <1>i DEF EndOfLog, Move
  <2> QED
    BY <1>3, <2>1, <2>2, <1>i, <1>a DEF EndOfLog, Move
<1>4. ASSUME NEW l \in Launch, LookupPublicIP(l) PROVE export'[a] \notin {"reading", "banner"} /\ (hostname' = a => Kept(a)')
  BY <1>4, <1>i, <1>a DEF LookupPublicIP, Move
<1>5. ASSUME NEW l \in Launch, NEW f \in File, OpenFile(l, f)
      PROVE export'[a] \notin {"reading", "banner"} /\ (hostname' = a => Kept(a)')
  BY <1>5, <1>i, <1>a DEF OpenFile, Move, Opening, Writing
<1>6. ASSUME NEW l \in Launch, NEW f \in File, WriteFile(l, f)
      PROVE export'[a] \notin {"reading", "banner"} /\ (hostname' = a => Kept(a)')
  <2>1. PICK content \in IF file[f] = Truncated THEN {l} ELSE {l, Mixed} :
           file' = [file EXCEPT ![f] = content]
    BY <1>6 DEF WriteFile
  <2>2. CASE hostname' # a
    BY <1>6, <2>2, <1>i, <1>a DEF WriteFile, Move, Writing, After
  <2>3. CASE hostname' = a
    <3>1. a \in alone /\ hostname = a
      BY <1>6, <2>3 DEF WriteFile
    <3>2. l = a
      BY <1>6, <3>1, <1>i DEF WriteFile, Move, Writing
    <3>3. file[f] = Truncated
      BY <1>6, <3>1, <3>2, <1>i DEF WriteFile, Move, Writing
    <3>4. file' = [file EXCEPT ![f] = a]
      BY <2>1, <3>2, <3>3
    <3> QED
      BY <1>6, <3>1, <3>2, <3>4, <1>i, <1>a DEF WriteFile, Move, Writing, After
  <2> QED
    BY <2>2, <2>3
<1>7. ASSUME NEW l \in Launch, NEW f \in File, WriteError(l, f)
      PROVE export'[a] \notin {"reading", "banner"} /\ (hostname' = a => Kept(a)')
  BY <1>7, <1>i, <1>a DEF WriteError, Opening, Writing, After
<1>8. ASSUME NEW l \in Launch, SendWebhook(l) PROVE export'[a] \notin {"reading", "banner"} /\ (hostname' = a => Kept(a)')
  BY <1>8, <1>i, <1>a DEF SendWebhook, Move
<1>9. ASSUME NEW l \in Launch, WebhookArrives(l) PROVE export'[a] \notin {"reading", "banner"} /\ (hostname' = a => Kept(a)')
  BY <1>9, <1>i, <1>a DEF WebhookArrives
<1>10. ASSUME NEW l \in Launch, WebhookLost(l) PROVE export'[a] \notin {"reading", "banner"} /\ (hostname' = a => Kept(a)')
  BY <1>10, <1>i, <1>a DEF WebhookLost
<1>11. CASE Exit
  BY <1>11, <1>i, <1>a, <1>n DEF Exit, Exporting
<1>13. CASE ReadConfig \/ ReadMeta \/ handleSubscription
  BY <1>13, <1>i, <1>a DEF ReadConfig, ReadMeta, handleSubscription
<1> HIDE DEF TypeOK, Kept, Busy, File, PastConfig, PastJson
<1> QED
  BY <1>1, <1>2, <1>3, <1>4, <1>5, <1>6, <1>7, <1>8, <1>9, <1>10, <1>11, <1>12, <1>13
     DEF Next, ExportStep

LEMMA InitIInv == Init => IInv
  BY InitTyped DEF Init, IInv

(* An export that no other one overlapped leaves both files and the        *)
(* endpoint showing its hostname, its own failures excepted, however many  *)
(* launches there are and whatever the others do before it.                *)
THEOREM LoneExportIsKept == Spec => []LoneExportStands
<1>1. IInv => LoneExportStands
  BY DEF IInv, Kept, LoneExportStands, PastConfig, PastJson, File
<1> QED
  BY InitIInv, <1>1, StepKeepsIInv, PTL DEF Spec

-----------------------------------------------------------------------------
(* The readers.  As long as an answer is steady nobody writes: the first   *)
(* read saw what the last export left, and so does the second.             *)
LinksLast ==
    hostname \in alone =>
       answer.links = hostname \/ <<hostname, "config">> \in spoiled
HostnameLast ==
    hostname \in alone /\ handler = "idle" /\ answer.of = "vless-info" /\ answer.links # None =>
       answer.wshost = hostname \/ <<hostname, "json">> \in spoiled

RInv == answer.steady => Exporting = {} /\ LinksLast /\ HostnameLast

\* What the files hold while nobody exports.
LEMMA QuietFiles ==
    ASSUME IInv, Exporting = {}, hostname \in alone
    PROVE  \A f \in File : file[f] = hostname \/ <<hostname, f>> \in spoiled
  BY DEF IInv, Kept, Exporting, TypeOK, PastConfig, PastJson, File

LEMMA StepKeepsRInv == IInv /\ RInv /\ [Next]_vars => RInv'
<1> SUFFICES ASSUME IInv, RInv, [Next]_vars, answer'.steady
             PROVE  (Exporting = {})' /\ LinksLast' /\ HostnameLast'
  BY DEF RInv
<1>t. TypeOK
  BY DEF IInv
<1>s. Reply("vless-info", file["config"]).steady = (Exporting = {})
      /\ Reply("sub", file["config"]).steady = (Exporting = {})
  BY DEF Reply
<1>1. CASE UNCHANGED vars
  BY <1>1 DEF vars, reader, RInv, Exporting, LinksLast, HostnameLast
<1>2. ASSUME NEW l \in Launch, Announce(l) PROVE FALSE
  BY <1>2, <1>t DEF Announce, TypeOK, Answer
<1>3. ASSUME NEW l \in Launch, Banner(l) \/ EndOfLog(l)
      PROVE  (Exporting = {})' /\ LinksLast' /\ HostnameLast'
  BY <1>3, <1>t DEF Banner, EndOfLog, Move, reader, RInv, Exporting, LinksLast, HostnameLast,
     Busy, TypeOK
<1>4. ASSUME NEW l \in Launch, ExportStep(l) PROVE FALSE
  <2>1. l \in Exporting
    BY <1>4 DEF ExportStep, LookupPublicIP, OpenFile, WriteFile, WriteError, SendWebhook, Move,
       Opening, Writing, Exporting, Busy
  <2>2. answer' = answer
    BY <1>4 DEF ExportStep, LookupPublicIP, OpenFile, WriteFile, WriteError, SendWebhook, reader
  <2> QED
    BY <2>1, <2>2 DEF RInv
<1>5. ASSUME NEW l \in Launch, WebhookArrives(l) \/ WebhookLost(l)
      PROVE  (Exporting = {})' /\ LinksLast' /\ HostnameLast'
  BY <1>5 DEF WebhookArrives, WebhookLost, reader, RInv, Exporting, LinksLast, HostnameLast
<1>6. CASE Exit
  BY <1>6 DEF Exit, NoAnswer
<1>7. CASE ReadConfig
  <2>1. Exporting = {}
    BY <1>7, <1>s DEF ReadConfig
  <2>2. answer'.links = file["config"] /\ answer'.of = "vless-info"
    BY <1>7 DEF ReadConfig, Reply
  <2>3. handler' = "idle" => answer'.links = None
    BY <1>7, <2>2 DEF ReadConfig
  <2> QED
    BY <1>7, <2>1, <2>2, <2>3, QuietFiles DEF ReadConfig, Exporting, LinksLast, HostnameLast, File
<1>8. CASE ReadMeta
  <2>1. answer.steady /\ answer'.links = answer.links /\ answer'.wshost = file["json"]
    BY <1>8, <1>t DEF ReadMeta, TypeOK, Answer
  <2>2. Exporting = {} /\ LinksLast
    BY <2>1 DEF RInv
  <2> QED
    BY <1>8, <2>1, <2>2, QuietFiles DEF ReadMeta, Exporting, LinksLast, HostnameLast, File
<1>9. CASE handleSubscription
  <2>1. Exporting = {}
    BY <1>9, <1>s DEF handleSubscription
  <2>2. answer'.links = file["config"] /\ answer'.of = "sub"
    BY <1>9 DEF handleSubscription, Reply
  <2> QED
    BY <1>9, <2>1, <2>2, QuietFiles DEF handleSubscription, Exporting, LinksLast, HostnameLast, File
<1> QED
  BY <1>1, <1>2, <1>3, <1>4, <1>5, <1>6, <1>7, <1>8, <1>9 DEF Next

(* What /api/vless-info and /sub answer while no export is going on is the *)
(* last export, if it started alone and could write, for any number of     *)
(* launches: a mixed answer is one read across an export.                  *)
THEOREM SteadyAnswersAgree == Spec => []AnswersAgree
<1>1. Init => RInv
  BY DEF Init, RInv, NoAnswer
<1>2. RInv => AnswersAgree
  BY DEF RInv, LinksLast, HostnameLast, AnswersAgree
<1> QED
  BY InitIInv, <1>1, <1>2, StepKeepsIInv, StepKeepsRInv, PTL DEF Spec
-----------------------------------------------------------------------------
(* LinkExport implements Publication.                                      *)

\* The reader of a launch announces before it exports and exports before it
\* sends; and a process that has announced nothing is not exporting.
PInv ==
    /\ hostname = None => Exporting = {}
    /\ \A l \in Launch : export[l] # "done" => l \notin inFlight
    /\ \A l \in Launch : export[l] \in {"reading", "banner"} =>
          hostname # l /\ \A t \in Target : <<l, t>> \notin spoiled

\* In an export step its launch is busy, and hence announced something.
LEMMA ExportBusy ==
    ASSUME TypeOK, NEW l \in Launch, ExportStep(l)
    PROVE  /\ export[l] \in Busy /\ export'[l] \in Busy \cup {"done"}
           /\ \A e \in Launch \ {l} : export'[e] = export[e]
           /\ UNCHANGED <<hostname, heard, alone>>
<1>1. CASE LookupPublicIP(l) \/ SendWebhook(l)
  BY <1>1 DEF LookupPublicIP, SendWebhook, Move, TypeOK, Busy
<1>2. ASSUME NEW f \in File, OpenFile(l, f) \/ WriteFile(l, f) \/ WriteError(l, f)
      PROVE  /\ export[l] \in Busy /\ export'[l] \in Busy \cup {"done"}
             /\ \A e \in Launch \ {l} : export'[e] = export[e]
             /\ UNCHANGED <<hostname, heard, alone>>
  BY <1>2 DEF OpenFile, WriteFile, WriteError, Move, TypeOK, Busy, Opening, Writing, After, File
<1> QED
  BY <1>1, <1>2 DEF ExportStep

LEMMA StepKeepsPInv == TypeOK /\ PInv /\ [Next]_vars => PInv'
<1> SUFFICES ASSUME TypeOK, PInv, [Next]_vars PROVE PInv'
  OBVIOUS
<1>1. CASE UNCHANGED vars
  BY <1>1 DEF vars, PInv, Exporting
<1>2. ASSUME NEW l \in Launch, Banner(l) \/ Announce(l) \/ EndOfLog(l) PROVE PInv'
  BY <1>2, LinkExportAssumption
     DEF Banner, Announce, EndOfLog, Move, PInv, Exporting, Busy, TypeOK
<1>3. ASSUME NEW l \in Launch, ExportStep(l) PROVE PInv'
  <2>1. /\ export[l] \in Busy /\ export'[l] \in Busy \cup {"done"}
        /\ \A e \in Launch \ {l} : export'[e] = export[e]
        /\ UNCHANGED <<hostname, heard, alone>>
    BY <1>3, ExportBusy
  <2>2. hostname # None
    BY <2>1 DEF PInv, Exporting
  <2>3. \A e \in Launch : export'[e] # "done" => e \notin inFlight'
    <3>1. inFlight' = inFlight \/ (inFlight' = inFlight \cup {l} /\ export'[l] = "done")
      BY <1>3 DEF ExportStep, LookupPublicIP, OpenFile, WriteFile, WriteError, SendWebhook, Move, TypeOK
    <3> QED
      BY <2>1, <3>1 DEF PInv, Busy
  <2>4. \A e \in Launch : export'[e] \in {"reading", "banner"} => \A t \in Target : <<e, t>> \notin spoiled'
    <3>1. \A e \in Launch \ {l}, t \in Target : <<e, t>> \in spoiled' => <<e, t>> \in spoiled
      BY <1>3 DEF ExportStep, LookupPublicIP, OpenFile, WriteFile, WriteError, SendWebhook
    <3> QED
      BY <2>1, <3>1 DEF PInv, Busy
  <2>5. export'[hostname'] \notin {"reading", "banner"} \/ hostname' \notin Launch
    BY <2>1 DEF PInv, Busy
  <2> QED
    BY <2>1, <2>2, <2>3, <2>4, <2>5 DEF PInv
<1>4. ASSUME NEW l \in Launch, WebhookArrives(l) PROVE PInv'
  BY <1>4 DEF WebhookArrives, PInv, Exporting
<1>5. ASSUME NEW l \in Launch, WebhookLost(l) PROVE PInv'
  BY <1>5 DEF WebhookLost, PInv, Exporting
<1>6. CASE Exit
  <2>1. \A l \in Launch : export'[l] = IF l \in Exporting THEN "done" ELSE export[l]
    BY <1>6 DEF Exit
  <2>2. Exporting' = {}
    BY <2>1 DEF Exporting, Busy
  <2>3. \A l \in Launch, t \in Target : <<l, t>> \in spoiled' => <<l, t>> \in spoiled \/ l \in Exporting
    BY <1>6 DEF Exit
  <2>4. hostname' = None /\ inFlight' = inFlight
    BY <1>6 DEF Exit
  <2> QED
    BY <2>1, <2>2, <2>3, <2>4, LinkExportAssumption DEF PInv, Exporting
<1>7. CASE ReadConfig \/ ReadMeta \/ handleSubscription
  BY <1>7 DEF ReadConfig, ReadMeta, handleSubscription, PInv, Exporting
<1> QED
  BY <1>1, <1>2, <1>3, <1>4, <1>5, <1>6, <1>7 DEF Next

-----------------------------------------------------------------------------
\* A file is written: one place has another content.
LEMMA PlaceWritten ==
    ASSUME TypeOK, NEW f \in File, NEW c, file' = [file EXCEPT ![f] = c], heard' = heard
    PROVE  Place' = [Place EXCEPT ![f] = c]
<1>1. f \in Target /\ f # "webhook"
  BY DEF File, Target
<1>2. \A t \in Target \ {"webhook"} : file'[t] = IF t = f THEN c ELSE file[t]
  BY DEF TypeOK, Target, File
<1> QED
  BY <1>1, <1>2 DEF Place

LEMMA PlaceHeard ==
    ASSUME NEW c, file' = file, heard' = c
    PROVE  Place' = [Place EXCEPT !["webhook"] = c]
  BY DEF Place, Target

\* Outside a lone export only Announce and Exit are more than disorder.
LEMMA BoardDisorder ==
    ASSUME hostname \notin alone, UNCHANGED <<hostname, alone>>, hostname = None => file' = file
    PROVE  Board!Next
<1>1. hostname = None => \A f \in Board!File : Place'[f] = Place[f]
  BY DEF Place, Target, File, Board!File
<1> QED
  BY <1>1 DEF Board!Next, Board!Disorder

LEMMA BoardSame ==
    ASSUME UNCHANGED <<hostname, alone, file, heard, inFlight, spoiled>>,
           hostname # None => export'[hostname] = export[hostname]
    PROVE  UNCHANGED Board!vars
<1>1. Stage' = Stage
  <2>1. CASE hostname = None
    BY <2>1 DEF Stage
  <2>2. CASE hostname # None
    <3>1. hostname' = hostname /\ export'[hostname'] = export[hostname] /\ inFlight' = inFlight
      BY <2>2
    <3> QED
      BY <2>2, <3>1 DEF Stage
  <2> QED
    BY <2>1, <2>2
<1> QED
  BY <1>1 DEF Board!vars, Place, Failed

\* The export step of the lone launch.
LEMMA BoardExport ==
    ASSUME IInv, PInv, NEW l \in Launch, ExportStep(l), l = hostname, l \in alone
    PROVE  [Board!Next]_(Board!vars)
<1> USE LinkExportAssumption DEF IInv
<1>0. l # None /\ UNCHANGED <<hostname, heard, alone>> /\ l \notin inFlight
  BY ExportBusy DEF PInv, Busy
<1>1. CASE LookupPublicIP(l)
  <2>1. Stage = "config" /\ Stage' = "config"
    BY <1>0, <1>1 DEF LookupPublicIP, Move, TypeOK, Stage
  <2>2. UNCHANGED <<Place, Failed>>
    BY <1>0, <1>1 DEF LookupPublicIP, Place, Failed
  <2> QED
    BY <1>0, <2>1, <2>2 DEF Board!vars
<1>2. ASSUME NEW f \in File, OpenFile(l, f) PROVE Board!Next
  <2>1. Stage = f /\ Stage' = f
    BY <1>0, <1>2 DEF OpenFile, Move, TypeOK, Stage, Opening, Writing, File
  <2>2. Place' = [Place EXCEPT ![Stage] = Truncated]
    BY <1>0, <1>2, <2>1, PlaceWritten DEF OpenFile
  <2>3. Failed' = Failed
    BY <1>0, <1>2 DEF OpenFile, Failed
  <2>4. Stage \in Board!File
    BY <2>1 DEF File, Board!File
  <2> QED
    BY <1>0, <2>1, <2>2, <2>3, <2>4 DEF Board!Next, Board!Empty
<1>3. ASSUME NEW f \in File, WriteFile(l, f) PROVE Board!Next
  <2>1. Stage = f /\ Stage' = Board!NextStage[Stage] /\ Stage # "done"
    <3>1. export[l] = Writing(f) /\ export'[l] = After(f)
      BY <1>3 DEF WriteFile, Move, TypeOK
    <3>2. CASE f = "config"
      <4>1. export[l] \in {"write config"} /\ export'[l] = "open json"
        BY <3>1, <3>2 DEF Writing, After
      <4>2. Stage = "config"
        BY <1>0, <4>1 DEF Stage
      <4>3. inFlight' = inFlight
        BY <1>3 DEF WriteFile
      <4>4. Stage' = "json"
        BY <1>0, <4>1, <4>3 DEF Stage
      <4> QED
        BY <3>2, <4>2, <4>4 DEF Board!NextStage
    <3>3. CASE f = "json"
      BY <1>0, <3>1, <3>3 DEF Stage, Writing, After, Board!NextStage
    <3> QED
      BY <3>2, <3>3 DEF File
  <2>2. file[f] = Truncated
    BY <1>3 DEF Kept, WriteFile, Move, Writing, File
  <2>3. file' = [file EXCEPT ![f] = l]
    BY <1>3, <2>2 DEF WriteFile
  <2>4. Place' = [Place EXCEPT ![Stage] = hostname]
    BY <1>0, <2>1, <2>3, PlaceWritten
  <2>5. Failed' = Failed
    BY <1>0, <1>3 DEF WriteFile, Failed
  <2> QED
    BY <1>0, <2>1, <2>4, <2>5 DEF Board!Next, Board!Arrive, Board!Leave
<1>4. ASSUME NEW f \in File, WriteError(l, f) PROVE Board!Next
  <2>1. Stage = f /\ Stage' = Board!NextStage[Stage] /\ Stage # "done"
    <3>1. export[l] \in {Opening(f), Writing(f)} /\ export'[l] = After(f)
      BY <1>4 DEF WriteError, TypeOK
    <3>2. CASE f = "config"
      <4>1. export[l] \in {"open config", "write config"} /\ export'[l] = "open json"
        BY <3>1, <3>2 DEF Opening, Writing, After
      <4>2. Stage = "config"
        BY <1>0, <4>1 DEF Stage
      <4>3. inFlight' = inFlight
        BY <1>4 DEF WriteError
      <4>4. Stage' = "json"
        BY <1>0, <4>1, <4>3 DEF Stage
      <4> QED
        BY <3>2, <4>2, <4>4 DEF Board!NextStage
    <3>3. CASE f = "json"
      BY <1>0, <3>1, <3>3 DEF Stage, Opening, Writing, After, Board!NextStage
    <3> QED
      BY <3>2, <3>3 DEF File
  <2>2. Place' = Place
    BY <1>0, <1>4 DEF WriteError, Place
  <2>3. Failed' = Failed \cup {Stage}
    BY <1>0, <1>4, <2>1 DEF WriteError, Failed, Target, File
  <2> QED
    BY <1>0, <2>1, <2>2, <2>3 DEF Board!Next, Board!Fail, Board!Leave
<1>5. CASE SendWebhook(l)
  <2>1. Stage = "webhook" /\ Stage' = "webhook"
    BY <1>0, <1>5 DEF SendWebhook, Move, TypeOK, Stage
  <2>2. UNCHANGED <<Place, Failed>>
    BY <1>0, <1>5 DEF SendWebhook, Place, Failed
  <2> QED
    BY <1>0, <2>1, <2>2 DEF Board!vars
<1> QED
  BY <1>1, <1>2, <1>3, <1>4, <1>5 DEF ExportStep

LEMMA BoardWebhook ==
    ASSUME IInv, PInv, NEW l \in Launch, WebhookArrives(l) \/ WebhookLost(l), l = hostname, l \in alone
    PROVE  Board!Next
<1> USE LinkExportAssumption DEF IInv
<1>0. l # None /\ UNCHANGED <<hostname, export, alone, file>> /\ inFlight' = inFlight \ {l}
      /\ l \in inFlight
  BY DEF WebhookArrives, WebhookLost
<1>1. export[l] = "done"
  BY <1>0 DEF PInv
<1>2. Stage = "webhook" /\ Stage' = "done" /\ Stage' = Board!NextStage[Stage]
  BY <1>0, <1>1 DEF Stage, Board!NextStage
<1>3. CASE WebhookArrives(l)
  <2>1. Place' = [Place EXCEPT ![Stage] = hostname] /\ Failed' = Failed
    BY <1>0, <1>2, <1>3, PlaceHeard DEF WebhookArrives, Failed
  <2> QED
    BY <1>0, <1>2, <2>1 DEF Board!Next, Board!Arrive, Board!Leave
<1>4. CASE WebhookLost(l)
  <2>1. Place' = Place /\ Failed' = Failed \cup {Stage}
    BY <1>0, <1>2, <1>4 DEF WebhookLost, Failed, Place, Target
  <2> QED
    BY <1>0, <1>2, <2>1 DEF Board!Next, Board!Fail, Board!Leave
<1> QED
  BY <1>3, <1>4

LEMMA BoardBegin ==
    ASSUME IInv, PInv, NEW l \in Launch, Announce(l)
    PROVE  Board!Begin(l)
<1> USE LinkExportAssumption DEF IInv
<1>1. /\ export[l] = "banner" /\ export'[l] = "lookup" /\ hostname' = l
      /\ UNCHANGED <<file, inFlight, heard, spoiled>>
      /\ alone' = IF Exporting = {} /\ inFlight = {} THEN alone \cup {l} ELSE alone
  BY DEF Announce, Move, TypeOK
<1>2. Stage' = "config" /\ Failed' = {} /\ Place' = Place
  BY <1>1 DEF Stage, Failed, PInv, Place
<1>3. ASSUME l \in alone' PROVE Stage = "done"
  <2>1. l \notin alone
    BY <1>1
  <2>2. Exporting = {} /\ inFlight = {}
    BY <1>1, <1>3, <2>1
  <2>3. hostname # None => export[hostname] \notin Busy
    BY <2>2 DEF TypeOK, Exporting
  <2> QED
    BY <2>2, <2>3 DEF Stage, Busy
<1> QED
  BY <1>1, <1>2, <1>3 DEF Board!Begin

LEMMA BoardEnd == ASSUME IInv, Exit PROVE Board!End
<1> USE LinkExportAssumption DEF IInv
<1>1. hostname' = None /\ UNCHANGED <<file, heard, alone>> /\ spoiled' = spoiled \cup Exporting \X Target
  BY DEF Exit
<1>2. Failed' = {}
  BY <1>1 DEF Failed, TypeOK, Exporting
<1>3. Stage' = "done" /\ Place' = Place
  BY <1>1 DEF Stage, Place
<1>4. hostname' \notin alone'
  BY <1>1 DEF TypeOK
<1> QED
  BY <1>1, <1>2, <1>3, <1>4 DEF Board!End

LEMMA BoardStep ==
    ASSUME IInv, PInv, [Next]_vars
    PROVE  [Board!Next]_(Board!vars)
<1> USE DEF IInv
<1>1. CASE UNCHANGED vars \/ ReadConfig \/ ReadMeta \/ handleSubscription
  BY <1>1, BoardSame DEF vars, ReadConfig, ReadMeta, handleSubscription
<1>2. CASE Exit
  BY <1>2, BoardEnd DEF Board!Next
<1>3. ASSUME NEW l \in Launch, Announce(l) PROVE Board!Next
  BY <1>3, BoardBegin DEF Board!Next
<1>4. ASSUME NEW l \in Launch, Banner(l) \/ EndOfLog(l)
      PROVE  UNCHANGED Board!vars
  <2>1. /\ export[l] \in {"reading", "banner"}
        /\ \A e \in Launch \ {l} : export'[e] = export[e]
        /\ UNCHANGED <<hostname, alone, file, heard, inFlight, spoiled>>
    BY <1>4 DEF Banner, EndOfLog, Move, TypeOK
  <2>2. hostname # None => hostname \in Launch \ {l}
    BY <2>1 DEF PInv, TypeOK
  <2> QED
    BY <2>1, <2>2, BoardSame
<1>5. ASSUME NEW l \in Launch, ExportStep(l) PROVE [Board!Next]_(Board!vars)
  <2>1. UNCHANGED <<hostname, alone>> /\ l \in Exporting
    BY <1>5, ExportBusy DEF Exporting
  <2>2. CASE hostname \in alone
    <3>1. l = hostname
      BY <2>1, <2>2 DEF Kept, Exporting
    <3> QED
      BY <1>5, <2>2, <3>1, BoardExport
  <2>3. CASE hostname \notin alone
    BY <2>1, <2>3, BoardDisorder DEF PInv
  <2> QED
    BY <2>2, <2>3
<1>6. ASSUME NEW l \in Launch, WebhookArrives(l) \/ WebhookLost(l) PROVE Board!Next
  <2>1. UNCHANGED <<hostname, alone, file>> /\ l \in inFlight
    BY <1>6 DEF WebhookArrives, WebhookLost
  <2>2. CASE hostname \in alone
    <3>1. l = hostname
      BY <2>1, <2>2 DEF Kept
    <3> QED
      BY <1>6, <2>2, <3>1, BoardWebhook
  <2>3. CASE hostname \notin alone
    BY <2>1, <2>3, BoardDisorder
  <2> QED
    BY <2>2, <2>3
<1> QED
  BY <1>1, <1>2, <1>3, <1>4, <1>5, <1>6 DEF Next

(* Lone exports are publications, for any number of launches, overlaps,    *)
(* failures, late webhooks and ends of the process around them.            *)
THEOREM PublicationImplemented == Spec => ImplementsPublication
<1>1. Init => PInv
  BY LinkExportAssumption DEF Init, PInv, Exporting, Busy
<1>2. Init => Board!Init
  BY LinkExportAssumption DEF Init, Board!Init, Place, Target, Stage, Failed
<1>3. IInv => TypeOK
  BY DEF IInv
<1> QED
  BY InitIInv, StepKeepsIInv, StepKeepsPInv, BoardStep, <1>1, <1>2, <1>3, PTL
     DEF Spec, ImplementsPublication, Board!Spec
=============================================================================
