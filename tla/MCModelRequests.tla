-------------------------- MODULE MCModelRequests --------------------------
(* Small instances of ModelRequests for TLC. *)
EXTENDS ModelRequests
===========================================================================
