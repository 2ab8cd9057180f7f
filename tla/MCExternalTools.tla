-------------------------- MODULE MCExternalTools --------------------------
(* A small instance of ExternalTools for TLC. *)
EXTENDS ExternalTools

CONSTANTS r1, r2, s1
=============================================================================
