------------------------ MODULE MCConversationStore ------------------------
(* Small instances of ConversationStore for TLC. *)
EXTENDS ConversationStore, TLC

CONSTANTS c1, c2, i1, mine

MCConsoles == {c1, c2}
ConsoleSymmetry == Permutations(MCConsoles)
SameModel  == [c \in MCConsoles |-> mine]

Turn(t) == [id |-> t, included |-> TRUE]
Full(schema) ==
  [schema |-> schema, identity |-> mine, created |-> 0, revision |-> OldRevision,
   turns |-> <<Turn(1), Turn(2)>>, noted |-> FALSE]

\* No file yet, or a full conversation that v3 or v4 wrote with its identity.
MCOlder == {[i \in {i1} |-> d] : d \in {None, Full(3), Full(4)}}
=============================================================================
