----------------------------- MODULE MCLineDelta -----------------------------
(* The derived layer in two parts: what deletes, summarises and flushes     *)
(* beside a run (DerivedData), and the lines a run keeps (LineDelta).       *)
(* The first ends a tick, and a frame, before the second.                   *)
(* There are four frames of two contexts: the editor shows a line, keeps    *)
(* it beside a second one within the idle threshold, and shows the second   *)
(* again after it; another context shows the same line as the editor.       *)
EXTENDS LineDelta

TickOf == <<0, 0, 1, 3>>
Mixed  == <<"editor", "mail", "editor", "editor">>
Screen == <<{"a"}, {"a"}, {"a", "b"}, {"b"}>>
Editor == {"editor"}

VARIABLE part

(* The first part computes no lines: all frames count as excused there.  In *)
(* both a request to delete comes before what fails: what a failed run has  *)
(* left then, it finds of a run under way too.                              *)
MCInit ==
  /\ part \in {"derived", "lines"} /\ Init
  /\ rows = [f \in Frames |-> {}] /\ seen = Nothing /\ work = Nothing /\ ops = <<>>
  /\ hydrated = FALSE /\ excluded = {}
  /\ erased = (IF part = "derived" THEN Frames ELSE {}) /\ irregular = erased
MCNext ==
  /\ \/ part = "derived" /\ Next /\ clock' < MaxClock /\ UNCHANGED text
     \/ part = "lines" /\ LineNext
  /\ deletes' > deletes => faults = 0
  /\ UNCHANGED part
MCSpec == MCInit /\ [][MCNext]_<<part, vars, text>>
=============================================================================
