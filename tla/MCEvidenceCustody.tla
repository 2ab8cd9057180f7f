------------------------- MODULE MCEvidenceCustody -------------------------
(* Small instances of EvidenceCustody for TLC. *)
EXTENDS EvidenceCustody

CONSTANTS c1, c2
=============================================================================
