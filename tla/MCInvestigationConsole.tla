----------------------- MODULE MCInvestigationConsole -----------------------
(* Small instances of InvestigationConsole for TLC. *)
EXTENDS InvestigationConsole

CONSTANTS o1, m1, m2
=============================================================================
