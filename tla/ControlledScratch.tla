-------------------------- MODULE ControlledScratch --------------------------
(***************************************************************************)
(* The private scratch of one run (core/controlled_scratch.py): what tool  *)
(* calls allocate below it, what the session itself retains, and the close *)
(* that answers for all of it.                                             *)
(*                                                                         *)
(* Every section runs under the lock of the session, so an action is one   *)
(* section.  A directory below the session is an owner's or a leftover.    *)
(***************************************************************************)
EXTENDS Integers, FiniteSets

CONSTANTS
  Calls,    \* tool calls of the run, each of which may own one artifact
  Kinds,    \* the kinds of workspace the session retains
  Runtime   \* the owner of the tool-runtime workspace

ASSUME ScratchAssumption ==
  /\ IsFiniteSet(Calls) /\ IsFiniteSet(Kinds)
  /\ Runtime \notin Calls \cup Kinds
  /\ Calls \cap Kinds = {}

VARIABLES
  sessionDir,   \* the session's directory exists
  active,       \* _active: owners that must release before close
  retained,     \* _retained
  leftovers,    \* a directory lies below the session that nobody tracks
  allocations,
  cleanups,
  cleanupOk,
  closed,
  over          \* the run has called close, once

counters == <<allocations, cleanups, cleanupOk>>
scratch  == <<sessionDir, active, retained, leftovers, counters, closed, over>>

\* Every workspace handed out is in use, retained, or was cleaned up and counted.
ScratchTypeOK ==
  /\ {sessionDir, leftovers, cleanupOk, closed, over} \subseteq BOOLEAN
  /\ active \subseteq Calls \cup {Runtime}
  /\ retained \subseteq Kinds
  /\ {allocations, cleanups} \subseteq Nat
  /\ allocations = cleanups + Cardinality(active) + Cardinality(retained)

ScratchInit ==
  /\ sessionDir = TRUE
  /\ active = {} /\ retained = {}
  /\ leftovers = FALSE
  /\ allocations = 0 /\ cleanups = 0 /\ cleanupOk = TRUE
  /\ closed = FALSE /\ over = FALSE

\* artifact and tool_runtime_workspace.
Allocate(o) ==
  /\ ~closed
  /\ o \notin active
  /\ active' = active \cup {o}
  /\ allocations' = allocations + 1
  /\ UNCHANGED <<sessionDir, retained, leftovers, cleanups, cleanupOk, closed, over>>

\* The directory was made and is refused, or cannot be taken back after its payload
\* was refused: it stays, and nothing tracks it.
AllocationFails ==
  /\ leftovers' \in {leftovers, TRUE}
  /\ UNCHANGED <<sessionDir, active, retained, counters, closed, over>>

\* _cleanup.  An entry the tool was not expected to leave is reported; it goes
\* with the directory, or keeps it.
Release(o, ok) ==
  /\ o \in active
  /\ active' = active \ {o}
  /\ cleanups' = cleanups + 1
  /\ cleanupOk' = (cleanupOk /\ ok)
  /\ leftovers' \in IF ok THEN {leftovers} ELSE {leftovers, TRUE}
  /\ UNCHANGED <<sessionDir, retained, allocations, closed, over>>

\* A workspace is made, and counted, for the first call that needs it.
NewlyRetained(kind) == IF kind \in retained THEN 0 ELSE 1

\* retained_workspace.
Retain(kind) ==
  /\ ~closed
  /\ retained' = retained \cup {kind}
  /\ allocations' = allocations + NewlyRetained(kind)
  /\ UNCHANGED <<sessionDir, active, leftovers, cleanups, cleanupOk, closed, over>>

\* Mutant: a close that fails is raised and not recorded.
CleanWhateverCloseSays(errors) == cleanupOk /\ errors = {}

\* cleanupOk after a close that met these errors while it purged.
CleanAfter(errors) == cleanupOk /\ errors = {} /\ closed'

\* close.  Every retained workspace is attempted: "errors" are those whose removal
\* reported one, "stays" that one of them is still there, "foreign" that something
\* else lies beside the session's directory.  A root that is no longer the attested
\* one is refused before anything is removed, as is an owner that has not released.
Close(current, errors, stays, foreign) ==
  /\ ~over
  /\ over' = TRUE
  /\ IF active # {} \/ ~current
     THEN /\ cleanupOk' = FALSE
          /\ UNCHANGED <<sessionDir, retained, leftovers, cleanups, closed>>
     ELSE /\ retained' = {}
          /\ cleanups' = cleanups + Cardinality(retained)
          /\ leftovers' = (leftovers \/ (errors # {} /\ stays))
          /\ sessionDir' = (errors # {} \/ leftovers)
          /\ closed' = (~sessionDir' /\ ~foreign)
          /\ cleanupOk' = CleanAfter(errors)
  /\ UNCHANGED <<active, allocations>>

\* A run whose telemetry calls its cleanup good has left nothing below the root,
\* and everything handed out has come back; whatever close met is on record.
CloseIsAccountedFor ==
  (over /\ cleanupOk) => closed /\ ~sessionDir /\ active = {} /\ allocations = cleanups
=============================================================================
