------------------------------ MODULE LogView ------------------------------
(***************************************************************************)
(* What the dashboard promises whoever reads the log on it, without        *)
(* requests, sessions or intervals: a page shows stretches of the log, in  *)
(* the order in which it was written and each once, as long as its         *)
(* requests did not overlap; whatever they did, it has no gaps in the log  *)
(* of the run of the server it was opened in, and shows nothing else       *)
(* before it is opened again.  Only what the server has dropped, and what  *)
(* a new run of it writes under numbers the page has passed, is missed.    *)
(***************************************************************************)
EXTENDS Integers

CONSTANT Capacity  \* the lines the server keeps

VARIABLES
    epoch,      \* the run of the server
    seq,        \* the lines it has written
    shown,      \* the lines on the page, each a run and a number
    upTo,       \* the number the page asks from
    opened,     \* the run the page was opened in
    overlapped  \* have requests of the page overlapped?

log == <<epoch, seq>>
vars == <<log, shown, upTo, opened, overlapped>>

Init ==
    /\ epoch = 1 /\ seq = 0
    /\ shown = {} /\ upTo = 0
    /\ opened = 1 /\ overlapped = FALSE

\* What an answer of run e can hold: the lines after one number up to
\* another, those the server had dropped excepted.
Stretch(e, from, to) == {<<e, i>> : i \in {j \in (from + 1)..to : j > to - Capacity}}

Kept == {i \in 1..seq : i > seq - Capacity}

Write ==
    /\ seq' = seq + 1
    /\ UNCHANGED <<epoch, shown, upTo, opened, overlapped>>

Restart ==
    /\ epoch' = epoch + 1
    /\ seq' = 0
    /\ UNCHANGED <<shown, upTo, opened, overlapped>>

Draw ==
    /\ upTo' \in Nat
    /\ \E e \in opened..epoch, from \in 0..upTo' :
          /\ shown' = shown \cup Stretch(e, from, upTo')
          /\ e = epoch => upTo' <= seq
          /\ ~overlapped => from = upTo /\ \A line \in shown : line[1] <= e
    /\ opened = epoch => \A i \in Kept : i <= upTo' => <<epoch, i>> \in shown'
    /\ UNCHANGED <<log, opened, overlapped>>

Overlap ==
    /\ overlapped' = TRUE
    /\ UNCHANGED <<log, shown, upTo, opened>>

Open ==
    /\ shown' = {} /\ upTo' = 0
    /\ opened' = epoch
    /\ overlapped' = FALSE
    /\ UNCHANGED log

Next == Write \/ Restart \/ Draw \/ Overlap \/ Open

Spec == Init /\ [][Next]_vars

=============================================================================
