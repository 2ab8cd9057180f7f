--------------------------- MODULE AppendOnlyTrace ---------------------------
(***************************************************************************)
(* What the oversight log promises its readers: a sequence of entries that *)
(* is only ever extended at its end, one entry at a time, and never ends   *)
(* up shorter or rewritten.                                                *)
(***************************************************************************)
EXTENDS Integers, Sequences

VARIABLE trace      \* what a reader of the file is given

Init == Len(trace) <= 1

Record ==
  /\ Len(trace') = Len(trace) + 1
  /\ SubSeq(trace', 1, Len(trace)) = trace

Spec == Init /\ [][Record]_trace
=============================================================================
