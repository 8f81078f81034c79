---------------------------- MODULE LinkExport ----------------------------
(***************************************************************************)
(* How a tunnel hostname reaches the outside: the log reader of each       *)
(* cloudflared launch finds the hostname and runs exportLinks, which       *)
(* updates the dashboard, looks up the public IP, overwrites               *)
(* vless_info.config and vless_info.json and starts a webhook.  The        *)
(* dashboard's handlers read the two files back, one after the other.      *)
(*                                                                         *)
(* Every launch has a reader goroutine of its own, nobody waits for it,    *)
(* and exportLinks is given the context of the process, not of the launch: *)
(* the exports of two launches can overlap.  os.WriteFile truncates, then  *)
(* writes, so that a file can be seen, or left, in between.  A launch      *)
(* stands for the hostname it announces: quick tunnels get a new one each  *)
(* time.                                                                   *)
(***************************************************************************)
EXTENDS FiniteSets

CONSTANTS
    Launch,  \* the launches of cloudflared, each with its own hostname
    Legacy,  \* frp_info.*, which the handlers read while a file does not exist
    None     \* no hostname yet, a file not yet written

File == {"config", "json"}
Target == File \cup {"webhook"}
Truncated == "truncated"   \* a file emptied and not yet written
Mixed == "mixed"           \* the bytes of two exports

ASSUME LinkExportAssumption == None \notin Launch \cup {Truncated, Mixed}
                            /\ {Truncated, Mixed} \cap Launch = {}
                            /\ Truncated # Mixed
                            /\ Legacy \notin Launch \cup {Truncated, Mixed, None}

VARIABLES
    export,    \* where the reader of each launch is
    file,      \* what a reader of each path gets
    hostname,  \* the hostname on the dashboard
    inFlight,  \* the webhooks that may still arrive
    heard,     \* the hostname of the last webhook that arrived
    handler,   \* is handleVlessInfo between its two reads?
    answer,    \* what the last request was, or is being, answered
    spoiled,   \* history: what each launch failed to write or deliver
    alone      \* history: the exports that started with no other one going on

reader == <<handler, answer>>
vars == <<export, file, hostname, inFlight, heard, reader, spoiled, alone>>

Content == Launch \cup {None, Legacy, Truncated, Mixed}

\* The links, and for /api/vless-info the hostname beside them; steady as
\* long as no export was going on since the first read (history).
Answer == [of : {"none", "vless-info", "sub"}, links : Content, wshost : Content,
           steady : BOOLEAN]
NoAnswer == [of |-> "none", links |-> None, wshost |-> None, steady |-> FALSE]

Busy == {"lookup", "open config", "write config", "open json", "write json", "notify"}

TypeOK ==
    /\ export \in [Launch -> Busy \cup {"reading", "banner", "done"}]
    /\ file \in [File -> Content]
    /\ hostname \in Launch \cup {None}
    /\ inFlight \subseteq Launch
    /\ heard \in Launch \cup {None}
    /\ handler \in {"idle", "between"}
    /\ answer \in Answer
    /\ spoiled \subseteq Launch \X Target
    /\ alone \subseteq Launch

Init ==
    /\ export = [l \in Launch |-> "reading"]
    /\ file \in [File -> {None, Legacy}]
    /\ hostname = None
    /\ inFlight = {}
    /\ heard = None
    /\ handler = "idle" /\ answer = NoAnswer
    /\ spoiled = {}
    /\ alone = {}

Exporting == {l \in Launch : export[l] \in Busy}

Move(l, from, to) ==
    /\ export[l] = from
    /\ export' = [export EXCEPT ![l] = to]

-----------------------------------------------------------------------------
\* A URL counts only after the banner, and the banner's own line never.
Banner(l) ==
    /\ Move(l, "reading", "banner")
    /\ UNCHANGED <<file, hostname, inFlight, heard, reader, spoiled, alone>>

\* The reader finds the hostname; the dashboard learns it first.
Announce(l) ==
    /\ Move(l, "banner", "lookup")
    /\ hostname' = l
    /\ alone' = IF Exporting = {} /\ inFlight = {} THEN alone \cup {l} ELSE alone
    /\ answer' = [answer EXCEPT !.steady = FALSE]
    /\ UNCHANGED <<file, inFlight, heard, handler, spoiled>>

\* Mutant: the lookup has no deadline of its own and is tried again.
LookupWithoutTimeout(l) ==
    /\ Move(l, "lookup", "lookup")
    /\ UNCHANGED <<file, hostname, inFlight, heard, reader, spoiled, alone>>

\* The public IP arrives, or the lookup fails or times out: "0.0.0.0" then.
LookupPublicIP(l) ==
    /\ Move(l, "lookup", "open config")
    /\ UNCHANGED <<file, hostname, inFlight, heard, reader, spoiled, alone>>

\* The next step of Export once it is done with file f, whatever the outcome.
After(f) == IF f = "config" THEN "open json" ELSE "notify"
Opening(f) == IF f = "config" THEN "open config" ELSE "open json"
Writing(f) == IF f = "config" THEN "write config" ELSE "write json"

\* Mutant: the old bytes stay until they are overwritten.
OpenWithoutTruncate(l, f) ==
    /\ Move(l, Opening(f), Writing(f))
    /\ UNCHANGED <<file, hostname, inFlight, heard, reader, spoiled, alone>>

\* os.WriteFile opens the file and truncates it ...
OpenFile(l, f) ==
    /\ Move(l, Opening(f), Writing(f))
    /\ file' = [file EXCEPT ![f] = Truncated]
    /\ UNCHANGED <<hostname, inFlight, heard, reader, spoiled, alone>>

\* Mutant: the bytes are appended to those another export wrote.
WriteFileAppends(l, f) ==
    /\ Move(l, Writing(f), After(f))
    /\ file' = [file EXCEPT ![f] = IF file[f] = Truncated THEN l ELSE "both"]
    /\ UNCHANGED <<hostname, inFlight, heard, reader, spoiled, alone>>

\* ... and writes from offset 0: over what another export wrote since, the
\* longer of the two keeps its tail.
WriteFile(l, f) ==
    /\ Move(l, Writing(f), After(f))
    /\ \E content \in IF file[f] = Truncated THEN {l} ELSE {l, Mixed} :
          file' = [file EXCEPT ![f] = content]
    /\ UNCHANGED <<hostname, inFlight, heard, reader, spoiled, alone>>

\* Mutant: the first failure ends Export.
WriteErrorReturns(l, f) ==
    /\ export[l] \in {Opening(f), Writing(f)}
    /\ export' = [export EXCEPT ![l] = "notify"]
    /\ spoiled' = spoiled \cup {<<l, f>>}
    /\ UNCHANGED <<file, hostname, inFlight, heard, reader, alone>>

\* Opening or writing fails; Export goes on with the other file.
WriteError(l, f) ==
    /\ export[l] \in {Opening(f), Writing(f)}
    /\ export' = [export EXCEPT ![l] = After(f)]
    /\ spoiled' = spoiled \cup {<<l, f>>}
    /\ UNCHANGED <<file, hostname, inFlight, heard, reader, alone>>

\* The webhook gets a goroutine of its own; exportLinks returns.
SendWebhook(l) ==
    /\ Move(l, "notify", "done")
    /\ inFlight' = inFlight \cup {l}
    /\ UNCHANGED <<file, hostname, heard, reader, spoiled, alone>>

WebhookArrives(l) ==
    /\ l \in inFlight
    /\ inFlight' = inFlight \ {l}
    /\ heard' = l
    /\ UNCHANGED <<export, file, hostname, reader, spoiled, alone>>

\* It never arrives, or the endpoint refuses it; nothing is sent again.
WebhookLost(l) ==
    /\ l \in inFlight
    /\ inFlight' = inFlight \ {l}
    /\ spoiled' = spoiled \cup {<<l, "webhook">>}
    /\ UNCHANGED <<export, file, hostname, heard, reader, alone>>

\* The log ends without a hostname, or a line is too long for the scanner.
EndOfLog(l) ==
    /\ \E at \in {"reading", "banner"} : Move(l, at, "done")
    /\ UNCHANGED <<file, hostname, inFlight, heard, reader, spoiled, alone>>

\* Mutant: the exported files are removed at the end of the process.
ExitCleansUp ==
    /\ hostname # None
    /\ spoiled' = spoiled \cup Exporting \X Target
    /\ export' = [l \in Launch |-> IF l \in Exporting THEN "done" ELSE export[l]]
    /\ hostname' = None
    /\ file' = [f \in File |-> None]
    /\ handler' = "idle" /\ answer' = NoAnswer
    /\ UNCHANGED <<inFlight, heard, alone>>

\* The process ends; it does not wait for the readers.  Its successor starts
\* with an empty dashboard and the files as they are, and a webhook that was
\* sent may still arrive.
Exit ==
    /\ hostname # None
    /\ spoiled' = spoiled \cup Exporting \X Target
    /\ export' = [l \in Launch |-> IF l \in Exporting THEN "done" ELSE export[l]]
    /\ hostname' = None
    /\ handler' = "idle" /\ answer' = NoAnswer
    /\ UNCHANGED <<file, inFlight, heard, alone>>

-----------------------------------------------------------------------------
(* The handlers.  They answer also while the files are being written.      *)

Reply(of, links) == [of |-> of, links |-> links, wshost |-> None, steady |-> Exporting = {}]

\* Mutant: the links are read once and kept.
ReadConfigOnce ==
    /\ handler = "idle"
    /\ handler' = "between"
    /\ answer' = Reply("vless-info", IF answer.links = None THEN file["config"] ELSE answer.links)
    /\ UNCHANGED <<export, file, hostname, inFlight, heard, spoiled, alone>>

\* handleVlessInfo reads the links; without a file it answers "not ready" ...
ReadConfig ==
    /\ handler = "idle"
    /\ handler' = IF file["config"] = None THEN "idle" ELSE "between"
    /\ answer' = Reply("vless-info", file["config"])
    /\ UNCHANGED <<export, file, hostname, inFlight, heard, spoiled, alone>>

\* ... then the json file; one that does not parse adds nothing.
ReadMeta ==
    /\ handler = "between"
    /\ handler' = "idle"
    /\ answer' = [answer EXCEPT !.wshost = file["json"]]
    /\ UNCHANGED <<export, file, hostname, inFlight, heard, spoiled, alone>>

handleSubscription ==
    /\ handler = "idle"
    /\ answer' = Reply("sub", file["config"])
    /\ UNCHANGED <<export, file, hostname, inFlight, heard, handler, spoiled, alone>>

ExportStep(l) ==
    \/ LookupPublicIP(l)
    \/ \E f \in File : OpenFile(l, f) \/ WriteFile(l, f) \/ WriteError(l, f)
    \/ SendWebhook(l)

Next ==
    \/ \E l \in Launch :
          \/ Banner(l) \/ Announce(l) \/ EndOfLog(l) \/ ExportStep(l)
          \/ WebhookArrives(l) \/ WebhookLost(l)
    \/ Exit \/ ReadConfig \/ ReadMeta \/ handleSubscription

\* The reader goroutine runs; the webhook may be lost, so that nothing is
\* asked of the network, and launches need not announce anything.
Fairness == \A l \in Launch : WF_vars(ExportStep(l))

Spec == Init /\ [][Next]_vars
FairSpec == Spec /\ Fairness

-----------------------------------------------------------------------------
(* An export that started when no other export and no webhook was going on *)
(* and after which none started ends with both files, and the endpoint,    *)
(* showing its hostname, each unless its own write or delivery failed:     *)
(* overlap and failure are the only ways a stale or torn export can stay,  *)
(* and one failure does not keep the others from being attempted.          *)
LoneExportStands ==
    \A l \in alone :
       hostname = l /\ export[l] = "done" =>
          /\ \A f \in File : file[f] = l \/ <<l, f>> \in spoiled
          /\ heard = l \/ l \in inFlight \/ <<l, "webhook">> \in spoiled

(* A subscriber is not misled by the two reads: what is answered while no  *)
(* export is going on is, links and hostname alike, that of the last       *)
(* export, if that one started alone and could write.  An answer that      *)
(* mixes two exports is one that was read across an export.                *)
AnswersAgree ==
    handler = "idle" /\ answer.steady /\ hostname \in alone =>
       /\ answer.links = hostname \/ <<hostname, "config">> \in spoiled
       /\ answer.of = "vless-info" /\ answer.links # None =>
             answer.wshost = hostname \/ <<hostname, "json">> \in spoiled

\* What stands in the files and at the endpoint, where the export of the
\* hostname on the dashboard is, and where it failed.
Place == [t \in Target |-> IF t = "webhook" THEN heard ELSE file[t]]

Stage ==
    IF hostname = None THEN "done"
    ELSE CASE export[hostname] \in {"lookup", "open config", "write config"} -> "config"
           [] export[hostname] \in {"open json", "write json"} -> "json"
           [] export[hostname] = "notify" \/ hostname \in inFlight -> "webhook"
           [] OTHER -> "done"

Failed == {t \in Target : <<hostname, t>> \in spoiled}

Board == INSTANCE Publication WITH
    current <- hostname,
    place <- Place,
    stage <- Stage,
    failed <- Failed,
    lone <- hostname \in alone

(* The system calls of an export that runs alone amount to a publication:  *)
(* its hostname is brought to one place after the other, each touched once *)
(* and by nobody else, or recorded as failed there; and what stands in the *)
(* files stays when the process ends.                                      *)
ImplementsPublication == Board!Spec

(* Every hostname found is exported, however slow the IP lookup and the    *)
(* webhook endpoint are (or the process ends).                             *)
EveryHostnameExported ==
    \A l \in Launch : export[l] \in Busy ~> export[l] = "done"

=============================================================================
