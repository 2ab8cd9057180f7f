---------------------------- MODULE MCPageCursors ----------------------------
(* A small instance of PageCursors for TLC. *)
EXTENDS PageCursors, TLC

CONSTANTS w1, w2, w3

PagesSymmetry == Permutations({w1, w2, w3})
=============================================================================
