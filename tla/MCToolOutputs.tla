---------------------------- MODULE MCToolOutputs ----------------------------
(* A small instance of ToolOutputs for TLC. *)
EXTENDS ToolOutputs, TLC

CONSTANTS c1, c2, opening, process

OutputsSymmetry == Permutations({c1, c2}) \cup Permutations({opening, process})
=============================================================================
