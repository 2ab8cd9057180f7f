---------------------------- MODULE OversightLog ----------------------------
(***************************************************************************)
(* OversightLog: the recorder every component of a run appends to.  One    *)
(* object is shared by the threads of the run; its lock makes each append  *)
(* one step.  The digest of an entry covers the digest before it, so it    *)
(* identifies the entry; here the entries of one recorder are identified   *)
(* by their sequence numbers.                                              *)
(***************************************************************************)
EXTENDS Integers, Sequences, SequencesExt

CONSTANTS
  WriteFaults,      \* the ways an append to the file may fail
  MaxWriteFaults    \* the bound on the appends that do

\* "lost": nothing reached the file; "torn": part of the line did.  Both raise
\* OSError in the thread that was recording.
ASSUME WriteFaultsAssumption ==
  /\ WriteFaults \subseteq {"lost", "torn"}
  /\ MaxWriteFaults \in Nat

VARIABLES
  head,     \* _prev_hash
  seq,      \* _seq
  lines,    \* the file: what each write left
  legible   \* the lines of it that can be parsed, in order

logVars == <<head, seq, lines, legible>>

Genesis   == 0
Digest(e) == e.seq + 1

Torn   == {i \in DOMAIN lines : lines[i].write = "torn"}
Failed == (seq - Len(lines)) + Cardinality(Torn)

\* How one append ends.
Writes == {"whole"} \cup (IF Failed < MaxWriteFaults THEN WriteFaults ELSE {})

\* A fragment has no line end, so what is written next continues its line and
\* neither of the two can be parsed.
Continued == lines # <<>> /\ Last(lines).write = "torn"

Stamped(content) == [what |-> content, seq |-> seq, prev |-> head]

\* Mutant: security entries are written beside the chain.
EmitAside(content, write) ==
  LET entry == Stamped(content) IN
  /\ head' = IF content.event = "security" THEN head ELSE Digest(entry)
  /\ seq' = seq + 1
  /\ lines' = Append(lines, [entry |-> entry, write |-> write])
  /\ legible' = IF write = "whole" THEN Append(legible, Len(lines')) ELSE legible

\* Mutant: the file is opened for writing, not for appending.
EmitAfresh(content, write) ==
  LET entry == Stamped(content) IN
  /\ head' = Digest(entry)
  /\ seq' = seq + 1
  /\ lines' = <<[entry |-> entry, write |-> write]>>
  /\ legible' = IF write = "whole" THEN <<1>> ELSE <<>>

\* _emit_locked: the head and the sequence advance before the file is written,
\* whatever becomes of the write.
Emit(content, write) ==
  LET entry == Stamped(content) IN
  /\ head' = Digest(entry)
  /\ seq' = seq + 1
  /\ lines' = IF write = "lost" THEN lines
              ELSE Append(lines, [entry |-> entry, write |-> write])
  /\ legible' = IF write = "whole" /\ ~Continued THEN Append(legible, Len(lines')) ELSE legible

\* load: what cannot be parsed is skipped without a word.
Load == [k \in DOMAIN legible |-> lines[legible[k]].entry]

\* verify_chain
Verify(entries) ==
  \A i \in 1 .. Len(entries) :
    entries[i].prev = IF i = 1 THEN Genesis ELSE Digest(entries[i - 1])

\* A recorder starts with an empty file; open_case is its first entry.
LogInit ==
  /\ head = 1
  /\ seq = 1
  /\ lines = <<[entry |-> [what |-> [event |-> "case_open"], seq |-> 0, prev |-> Genesis],
                write |-> "whole"]>>
  /\ legible = <<1>>
=============================================================================
