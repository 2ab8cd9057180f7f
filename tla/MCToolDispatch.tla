-------------------------- MODULE MCToolDispatch --------------------------
(* Small instances of ToolDispatch for TLC. *)
EXTENDS ToolDispatchProofs, TLC

CONSTANTS c1, c2, c3, read, invalid, page

MCCalls == {c1, c2, c3}
MCTwoCalls == {c1, c2}
MCSignatures == {read, invalid, page}
MCNavSignatures == {page}
MCInvalidSignatures == {invalid}

\* Nothing distinguishes two calls but what they ask.
CallSymmetry == Permutations(MCCalls)
===========================================================================
