--------------------------- MODULE MCOversightGate ---------------------------
(***************************************************************************)
(* Small instances of OversightGate.                                       *)
(***************************************************************************)
EXTENDS OversightGate, TLC

CallSymmetry == Permutations(Calls)
=============================================================================
