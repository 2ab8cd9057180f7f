------------------------- MODULE ConversationStore -------------------------
(***************************************************************************)
(* Saved conversations: the sessions that consoles hold in memory and the  *)
(* store that keeps each of them as one sealed JSON file                   *)
(* (ConversationSession, ConversationStore).                               *)
(*                                                                         *)
(* Several console processes work on one directory.  A session changes     *)
(* itself first and saves the change afterwards; the save takes a lock     *)
(* between processes, compares the file with what the session last saw,    *)
(* writes a temporary file and moves it over the conversation.  Any of     *)
(* those steps can fail, a console can die at any of them, and the files   *)
(* can be removed or damaged from outside, without the lock.               *)
(***************************************************************************)
EXTENDS Integers, FiniteSets, Sequences, SequencesExt

CONSTANTS
  Consoles,     \* console processes over one store
  Ids,          \* conversation ids
  Identity,     \* the case, sources and model each console works on
  Older,        \* the files earlier versions may have left: a set of stores
  MaxTurns,     \* max_turns of every conversation
  OldRevision,  \* the revision of those files
  MaxSaves,     \* bound: saves of one conversation, beyond those of an older file
  None

\* forensic_agent.conversation.v2 to v5
Schemas == 2 .. 5
Schema  == 5

Kinds == {"create", "append", "undo", "note"}
Steps == {"sealed", "locked", "checked"}
Turns == Seq([id : Nat, included : BOOLEAN])

\* A document of more than max_turns turns is not read.
Documents ==
  {d \in [schema : Schemas, identity : {Identity[c] : c \in Consoles} \cup {None},
          created : Nat, revision : Nat, turns : Turns, noted : BOOLEAN] :
     Len(d.turns) <= MaxTurns}

\* A session in memory, and a change of one that is being saved.
Sessions == [id : Ids, doc : Documents]
Pending  == [kind : Kinds, step : Steps, id : Ids, doc : Documents,
             old : Documents \cup {None}, expected : Nat \cup {None}]

ASSUME StoreAssumption ==
  /\ IsFiniteSet(Consoles) /\ IsFiniteSet(Ids)
  /\ MaxTurns \in Nat \ {0}
  /\ {OldRevision, MaxSaves} \subseteq Nat
  /\ DOMAIN Identity = Consoles
  /\ Older \subseteq [Ids -> Documents \cup {None}]
  /\ None \notin Consoles \cup Documents \cup Sessions \cup Pending

VARIABLES
  file,     \* the document under each id, None when there is none
  damaged,  \* the ids whose document no longer verifies
  mem,      \* the session each console holds, None before it holds one
  op,       \* the save each console is in, None between saves
  lock      \* who holds the lock between processes

vars == <<file, damaged, mem, op, lock>>

TypeOK ==
  /\ file \in [Ids -> Documents \cup {None}]
  /\ damaged \subseteq {i \in Ids : file[i] # None}
  /\ mem \in [Consoles -> Sessions \cup {None}]
  /\ op \in [Consoles -> Pending \cup {None}]
  /\ \A c \in Consoles : op[c] # None => (op[c].step = "sealed" <=> lock # c)
  /\ lock \in Consoles \cup {None}
  /\ lock # None => op[lock] # None

Init ==
  /\ file \in Older
  /\ damaged = {}
  /\ mem = [c \in Consoles |-> None]
  /\ op = [c \in Consoles |-> None]
  /\ lock = None

-----------------------------------------------------------------------------
(* Documents. *)

\* _from_payload: the session a document is read as.  The next save writes it in
\* the present schema.
Loaded(d) ==
  [d EXCEPT !.schema   = Schema,
            !.identity = IF d.schema \in {3, Schema} THEN d.identity ELSE None]

\* Births and turns are named apart by the time and by the id of the run.  Which
\* name a new one has is indifferent as long as nothing that is left has it.
Present == {file[i] : i \in Ids} \cup {mem[c].doc : c \in {k \in Consoles : mem[k] # None}}
                                 \cup {op[c].doc : c \in {k \in Consoles : op[k] # None}}
                                 \cup {op[c].old : c \in {k \in Consoles : op[k] # None}}
Unused(names) == CHOOSE n \in 1 .. Cardinality(names) + 1 : n \notin names
NewBirth == Unused({d.created : d \in Present \ {None}})
NewTurn  == Unused({t.id : t \in UNION {ToSet(d.turns) : d \in Present \ {None}}})

NewDocument(c) ==
  [schema |-> Schema, identity |-> Identity[c], created |-> NewBirth, revision |-> 0,
   turns |-> <<>>, noted |-> FALSE]

\* Only the newest turns are retained.
Appended(turns, t) ==
  LET longer == Append(turns, [id |-> t, included |-> TRUE])
  IN IF Len(longer) > MaxTurns THEN Tail(longer) ELSE longer

IncludedAt(turns) == {k \in DOMAIN turns : turns[k].included}

\* The newest turn still in the context leaves it.
Undone(turns) ==
  LET last == CHOOSE k \in IncludedAt(turns) : \A j \in IncludedAt(turns) : j <= k
  IN [turns EXCEPT ![last].included = FALSE]

-----------------------------------------------------------------------------
(* A session changes itself and seals what it will save. *)

Idle(c) == op[c] = None

\* new_session: refused at once where the file exists.
NewSession(c, i) ==
  /\ Idle(c)
  /\ file[i] = None
  /\ op' = [op EXCEPT ![c] =
       [kind |-> "create", step |-> "sealed", id |-> i, doc |-> NewDocument(c),
        old |-> None, expected |-> None]]
  /\ UNCHANGED <<file, damaged, mem, lock>>

\* The shape of every change: the old state is kept for the way back, the
\* session's own fields change, and the document is sealed before the lock.
Change(c, kind, changed) ==
  LET old == mem[c].doc
      new == [changed EXCEPT !.revision = old.revision + 1]
  IN /\ old.revision < MaxSaves + (IF old.created = 0 THEN OldRevision ELSE 0)
     /\ mem' = [mem EXCEPT ![c].doc = new]
     /\ op' = [op EXCEPT ![c] =
          [kind |-> kind, step |-> "sealed", id |-> mem[c].id, doc |-> new,
           old |-> old, expected |-> old.revision]]

\* append: a turn is filed under the id of the run that answered it, so no two
\* turns share one.
AppendTurn(c) ==
  /\ Idle(c) /\ mem[c] # None
  /\ Change(c, "append", [mem[c].doc EXCEPT !.turns = Appended(@, NewTurn)])
  /\ UNCHANGED <<file, damaged, lock>>

UndoFromContext(c) ==
  /\ Idle(c) /\ mem[c] # None
  /\ IncludedAt(mem[c].doc.turns) # {}
  /\ Change(c, "undo", [mem[c].doc EXCEPT !.turns = Undone(@)])
  /\ UNCHANGED <<file, damaged, lock>>

\* set_case_context, clear_case_context and bind_evidence: a field of the document
\* is set or cleared.  Clearing what is clear saves nothing.
Note(c, value) ==
  /\ Idle(c) /\ mem[c] # None
  /\ value \/ mem[c].doc.noted
  /\ Change(c, "note", [mem[c].doc EXCEPT !.noted = value])
  /\ UNCHANGED <<file, damaged, lock>>

-----------------------------------------------------------------------------
(* _persist. *)

\* Mutant: the number goes back and the turns stay.
RolledBackRevisionOnly(c) ==
  [mem EXCEPT ![c].doc.revision = op[c].expected]

\* The except clause of every change.
RolledBack(c) == [mem EXCEPT ![c].doc = op[c].old]

\* A save that does not happen: the session is what it was before the change.
GiveUp(c) ==
  /\ mem' = IF op[c].kind = "create" THEN mem ELSE RolledBack(c)
  /\ op' = [op EXCEPT ![c] = None]
  /\ lock' = IF lock = c THEN None ELSE lock
  /\ UNCHANGED <<file, damaged>>

\* Mutant: the lock is one of the process and not of the machine.
LockFreeHere(c) == lock # c

\* _interprocess_lock: flock blocks until the holder lets go or dies.
LockFree(c) == lock = None

Lock(c) ==
  /\ op[c] # None /\ op[c].step = "sealed"
  /\ LockFree(c)
  /\ lock' = c
  /\ op' = [op EXCEPT ![c].step = "locked"]
  /\ UNCHANGED <<file, damaged, mem>>

\* Mutant: the file is taken to be the conversation the session began.
SameIdentity(c, d) ==
  /\ d.identity = op[c].doc.identity
  /\ d.created = op[c].doc.created

\* The compare of the compare-and-swap.
Unchanged(c, d) ==
  /\ d.identity = op[c].doc.identity
  /\ d.created = op[c].doc.created
  /\ d.revision = op[c].expected

MayBeWritten(c) ==
  LET i == op[c].id
  IN IF op[c].kind = "create" THEN file[i] = None
     ELSE file[i] # None /\ i \notin damaged /\ Unchanged(c, Loaded(file[i]))

Compare(c) ==
  /\ op[c] # None /\ op[c].step = "locked"
  /\ MayBeWritten(c)
  /\ op' = [op EXCEPT ![c].step = "checked"]
  /\ UNCHANGED <<file, damaged, mem, lock>>

\* ConversationConflictError, a file that cannot be read, or an id in use.
Conflict(c) ==
  /\ op[c] # None /\ op[c].step = "locked"
  /\ ~MayBeWritten(c)
  /\ GiveUp(c)

\* The temporary file is complete and flushed; a create looks once more, then the
\* file is moved over the conversation.
Replace(c) ==
  /\ op[c] # None /\ op[c].step = "checked"
  /\ op[c].kind = "create" => file[op[c].id] = None
  /\ file' = [file EXCEPT ![op[c].id] = op[c].doc]
  /\ damaged' = damaged \ {op[c].id}
  /\ mem' = IF op[c].kind = "create"
            THEN [mem EXCEPT ![c] = [id |-> op[c].id, doc |-> op[c].doc]]
            ELSE mem
  /\ op' = [op EXCEPT ![c] = None]
  /\ lock' = None

\* The document is too large, the lock cannot be opened, or the temporary file
\* cannot be made, written or moved.
Fail(c) ==
  /\ op[c] # None
  /\ GiveUp(c)

-----------------------------------------------------------------------------
(* Taking up a saved conversation, and what happens from outside. *)

\* resume: the identities must be those of the console, which a document that
\* was read without the identity of its model never has.
Resume(c, i) ==
  /\ Idle(c)
  /\ file[i] # None /\ i \notin damaged
  /\ LET d == Loaded(file[i])
     IN /\ d.identity = Identity[c]
        /\ mem' = [mem EXCEPT ![c] = [id |-> i, doc |-> d]]
  /\ UNCHANGED <<file, damaged, op, lock>>

\* Mutant: the lock is a file that a dead process leaves behind.
LockAfterDeath(c) == lock

\* The kernel releases the lock of a process that died.
LockAfter(c) == IF lock = c THEN None ELSE lock

\* The console dies, in or between saves; a temporary file it leaves has another
\* suffix and is never read.
Crash(c) ==
  /\ mem[c] # None \/ op[c] # None
  /\ mem' = [mem EXCEPT ![c] = None]
  /\ op' = [op EXCEPT ![c] = None]
  /\ lock' = LockAfter(c)
  /\ UNCHANGED <<file, damaged>>

RemoveFile(i) ==
  /\ file[i] # None
  /\ file' = [file EXCEPT ![i] = None]
  /\ damaged' = damaged \ {i}
  /\ UNCHANGED <<mem, op, lock>>

DamageFile(i) ==
  /\ file[i] # None
  /\ damaged' = damaged \cup {i}
  /\ UNCHANGED <<file, mem, op, lock>>

Begins(c) ==
  \/ \E i \in Ids : NewSession(c, i) \/ Resume(c, i)
  \/ \E value \in BOOLEAN : Note(c, value)
  \/ AppendTurn(c)
  \/ UndoFromContext(c)

Saves(c) == Compare(c) \/ Conflict(c) \/ Replace(c)

Next ==
  \/ \E c \in Consoles : Begins(c) \/ Lock(c) \/ Saves(c) \/ Fail(c) \/ Crash(c)
  \/ \E i \in Ids : RemoveFile(i) \/ DamageFile(i)

Spec == Init /\ [][Next]_vars

-----------------------------------------------------------------------------
(* What the store promises. *)

\* While a change is being saved the console still rests on what it saw before.
Seen(c) ==
  IF op[c] = None \/ op[c].kind = "create" THEN mem[c]
  ELSE [id |-> op[c].id, doc |-> op[c].old]

Stored(i) == IF file[i] = None \/ i \in damaged THEN None ELSE Loaded(file[i])

Register == INSTANCE ConversationRegister WITH
  stored <- [i \in Ids |-> Stored(i)],
  seen <- [c \in Consoles |-> Seen(c)]

\* Each conversation is a register written by compare and swap: a console that
\* saves has seen exactly the document it replaces, whatever was saved, removed,
\* damaged or begun again in the meantime (ConversationStore._persist).
StoreIsARegister == Register!Spec

\* A revision names one content: a session between two saves whose number and
\* birth are those of the file holds what the file holds, so a change that could
\* not be saved is not carried into the next save (the except clauses of the
\* changes; the comparison in _persist looks at the number alone).
RevisionNamesContent ==
  \A c \in Consoles :
    LET i == mem[c].id
        d == mem[c].doc
    IN (mem[c] # None /\ Idle(c) /\ Stored(i) # None
        /\ Stored(i).created = d.created /\ Stored(i).revision = d.revision)
       => Stored(i) = d

TurnIds(turns) == [k \in DOMAIN turns |-> turns[k].id]

\* A saved turn leaves the file only by being among the oldest of more than
\* max_turns, and a turn taken out of the context is never put back, whichever
\* console saves (append, undo_from_context and the conflict check together).
TurnsAreKept ==
  [][\A i \in Ids :
       (Stored(i) # None /\ Stored(i)' # None /\ Stored(i)'.created = Stored(i).created) =>
         LET before == Stored(i).turns
             after  == Stored(i)'.turns
             kept   == IF Len(after) > 0 /\ after[Len(after)].id \notin ToSet(TurnIds(before))
                       THEN Front(after) ELSE after
         IN /\ IsSuffix(TurnIds(kept), TurnIds(before))
            /\ Len(kept) < Len(before) => Len(after) = MaxTurns
            /\ \A k \in DOMAIN kept :
                 kept[k].included => before[Len(before) - Len(kept) + k].included
    ]_vars
=============================================================================
