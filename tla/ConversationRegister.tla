------------------------ MODULE ConversationRegister ------------------------
(***************************************************************************)
(* What the conversation store promises its consoles: every saved          *)
(* conversation is a register that is only ever written by compare and     *)
(* swap.  A console that writes has seen the very document it replaces, so *)
(* no console's save can undo what another one saved.                      *)
(***************************************************************************)
EXTENDS Naturals

CONSTANTS Consoles, Ids, None

VARIABLES
  stored,   \* the document each conversation id holds, None when there is none
  seen      \* the document each console last read or wrote, with its id

Init ==
  /\ DOMAIN stored = Ids
  /\ seen = [c \in Consoles |-> None]

OnlyWrites(i) == \A j \in Ids \ {i} : stored'[j] = stored[j]

\* A conversation is begun under an id that holds none.
Create(c, i) ==
  /\ stored[i] = None
  /\ stored'[i] # None
  /\ OnlyWrites(i)
  /\ seen' = [seen EXCEPT ![c] = [id |-> i, doc |-> stored'[i]]]

\* A console takes up a saved conversation.
Read(c, i) ==
  /\ stored[i] # None
  /\ seen' = [seen EXCEPT ![c] = [id |-> i, doc |-> stored[i]]]
  /\ UNCHANGED stored

\* A console replaces the document it has seen by its successor.  A file the
\* operator removed in the meantime may come back.
Update(c) ==
  /\ seen[c] # None
  /\ LET i == seen[c].id
         d == seen[c].doc
     IN /\ stored[i] \in {d, None}
        /\ OnlyWrites(i)
        /\ stored'[i] # None
        /\ stored'[i].revision = d.revision + 1
        /\ stored'[i].created = d.created
        /\ stored'[i].identity = d.identity
        /\ seen' = [seen EXCEPT ![c] = [id |-> i, doc |-> stored'[i]]]

\* A console ends, or lets go of its conversation.
Forget(c) ==
  /\ seen' = [seen EXCEPT ![c] = None]
  /\ UNCHANGED stored

\* The operator removes a file.
Remove(i) ==
  /\ stored' = [stored EXCEPT ![i] = None]
  /\ UNCHANGED seen

Next ==
  \/ \E c \in Consoles, i \in Ids : Create(c, i) \/ Read(c, i)
  \/ \E c \in Consoles : Update(c) \/ Forget(c)
  \/ \E i \in Ids : Remove(i)

Spec == Init /\ [][Next]_<<stored, seen>>
=============================================================================
