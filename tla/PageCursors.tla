----------------------------- MODULE PageCursors -----------------------------
(***************************************************************************)
(* How a run lets its model read all of a result that is too large to be   *)
(* shown at once (agent/result_navigator.py, agent/result_lineage.py and   *)
(* the projection of agent/tool_bindings/output_guard.py).                 *)
(*                                                                         *)
(* A tool call returns some records of a set and the run retains them all. *)
(* The model is shown a document with as many as fit.  The document states *)
(* where to call the tool again, or carries a cursor: a cursor opens the   *)
(* rest of the retained result, once, and what is served is projected in   *)
(* its turn.  Calls of one batch run in threads of their own.              *)
(*                                                                         *)
(* The token of a cursor is the number of the document it was offered in.  *)
(* A call that was answered is served from the record of the dispatcher    *)
(* (ToolDispatch) and does not run again.                                  *)
(***************************************************************************)
EXTENDS Integers, Sequences, FiniteSets

CONSTANTS
  Workers,     \* threads that run the calls of a batch
  Size,        \* records of the set a query enumerates
  Reach,       \* most records one call of the tool returns
  MaxResults,  \* bounds of the instance: tool calls, and documents
  MaxViews,
  None

ASSUME PagesAssumption ==
  /\ {Size, Reach, MaxResults, MaxViews} \subseteq Nat \ {0}
  /\ None \notin Nat

VARIABLES
  results,    \* _complete: the records from .. to - 1 each call returned, and since:
              \* the record where the reading it goes on with began
  views,      \* the documents the model was given
  bindings,   \* _bindings: what an issued cursor opens
  served,     \* the cursors with a count in _served
  answered,   \* offsets of the calls the dispatcher has an answer to
  lost,       \* results a document could not be made of
  pointed,    \* offsets of the tool that a refused cursor named
  worker      \* what each thread is doing

vars == <<results, views, bindings, served, answered, lost, pointed, worker>>

Idle == [at |-> "idle", cursor |-> None, result |-> None, from |-> None]

Numbers == 1 .. MaxViews

TypeOK ==
  /\ \A r \in DOMAIN results :
       0 <= results[r].since /\ results[r].since <= results[r].from /\ results[r].from < results[r].to
  /\ \A t \in DOMAIN views :
       /\ views[t].result \in DOMAIN results
       /\ views[t].next # None => views[t].next > views[t].from
  /\ DOMAIN bindings \subseteq DOMAIN views
  /\ \A t \in DOMAIN bindings :
       /\ results[bindings[t].result].from < bindings[t].offset
       /\ bindings[t].offset < results[bindings[t].result].to
  /\ served \subseteq DOMAIN bindings
  /\ answered \subseteq 0 .. Size - 1
  /\ lost \subseteq DOMAIN results
  /\ pointed \subseteq 0 .. Size - 1
  /\ worker \in [Workers -> [at : {"idle", "found", "shaping"}, cursor : Numbers \cup {None},
                             result : 1 .. MaxResults \cup {None}, from : 0 .. Size \cup {None}]]
Init ==
  /\ results = <<>> /\ views = <<>>
  /\ bindings = <<>>
  /\ served = {} /\ answered = {} /\ lost = {} /\ pointed = {}
  /\ worker = [w \in Workers |-> Idle]

-----------------------------------------------------------------------------
(* The calls of the model. *)

\* Where the tool may be called: at the start, where a document says, which goes on
\* with the reading of that document, and where a refusal says, which begins another.
Origins(o) ==
  {i \in {0} \cup pointed : i = o}
    \cup {results[views[t].result].since : t \in {k \in DOMAIN views : views[k].next = o}}

\* The tool runs, and its complete result is retained before it is shown.
CallTool(w) ==
  /\ worker[w] = Idle
  /\ Len(results) < MaxResults
  /\ \E o \in 0 .. Size - 1 : \E since \in Origins(o), to \in (o + 1) .. Size :
       /\ o \notin answered
       /\ to <= o + Reach
       /\ results' = Append(results, [since |-> since, from |-> o, to |-> to])
       /\ worker' = [worker EXCEPT ![w] = [at |-> "shaping", cursor |-> None,
                                           result |-> Len(results'), from |-> o]]
  /\ UNCHANGED <<views, bindings, served, answered, lost, pointed>>

\* page, as far as the last check of the binding against the retained result.  A
\* cursor that was never bound is refused and leaves nothing behind.
FindPage(w, t) ==
  /\ worker[w] = Idle
  /\ t \in DOMAIN bindings
  /\ worker' = [worker EXCEPT ![w] = [at |-> "found", cursor |-> t,
                                      result |-> bindings[t].result,
                                      from |-> bindings[t].offset]]
  /\ UNCHANGED <<results, views, bindings, served, answered, lost, pointed>>

\* Mutant: a page counts as served once the model has it.
SpentOnceShown(t) == \E k \in DOMAIN views : views[k].opened = t

\* The count is read and raised in one section.
Spent(t) == t \in served

ServePage(w) ==
  /\ worker[w].at = "found"
  /\ ~Spent(worker[w].cursor)
  /\ served' = served \cup {worker[w].cursor}
  /\ worker' = [worker EXCEPT ![w].at = "shaping"]
  /\ UNCHANGED <<results, views, bindings, answered, lost, pointed>>

\* PageCursorExhausted.  Where the tool did not return the whole set it names the
\* offset at which the tool goes on, whatever became of the page that was served.
RefusePage(w) ==
  /\ worker[w].at = "found"
  /\ Spent(worker[w].cursor)
  /\ pointed' = pointed \cup ({results[worker[w].result].to} \ {Size})
  /\ worker' = [worker EXCEPT ![w] = Idle]
  /\ UNCHANGED <<results, views, bindings, served, answered, lost>>

-----------------------------------------------------------------------------
(* The document of a result, or of the rest of one, from record "from" on. *)

\* Mutant: the page of the tool is left as it is.
NextOfTheTool(r, from, kept) ==
  IF results[r].to < Size THEN results[r].to ELSE None

\* project_for_model and _windowed_wire: a view that ends short of the result goes
\* on where it ends, unless it has no record; one that is whole, where the tool does.
NextOf(r, from, kept) ==
  CASE from + kept = results[r].to -> IF results[r].to < Size THEN results[r].to ELSE None
    [] kept = 0 -> None
    [] OTHER -> from + kept

\* Mutant: a single record does not count as a remainder.
HoldsMoreThanOne(r, offset) == offset > results[r].from /\ offset + 1 < results[r].to

\* _binding_for.
HoldsMore(r, offset) == offset > results[r].from /\ offset < results[r].to

\* What is issued with the next document, if that withholds records and says where
\* they begin.
BindingOf(r, from, kept) ==
  LET next == NextOf(r, from, kept) IN
  IF from + kept < results[r].to /\ next # None /\ HoldsMore(r, next)
  THEN [t \in {Len(views) + 1} |-> [result |-> r, offset |-> next]]
  ELSE <<>>

\* The dispatcher remembers the answer of a call of the tool, not that of a page.
Answer(w) ==
  /\ answered' = IF worker[w].cursor = None THEN answered \cup {worker[w].from} ELSE answered
  /\ worker' = [worker EXCEPT ![w] = Idle]
  /\ UNCHANGED <<results, served, pointed>>

\* As many records as fit the budget are kept, and a withheld one is offered for the
\* token of the document.
Deliver(w) ==
  LET r == worker[w].result
      from == worker[w].from
  IN  /\ worker[w].at = "shaping"
      /\ Len(views) < MaxViews
      /\ \E kept \in 0 .. results[r].to - from :
           LET issued == BindingOf(r, from, kept) IN
           /\ views' = Append(views, [result |-> r, from |-> from, kept |-> kept,
                                      next |-> NextOf(r, from, kept), opened |-> worker[w].cursor])
           /\ bindings' = [t \in DOMAIN bindings \cup DOMAIN issued |->
                             IF t \in DOMAIN issued THEN issued[t] ELSE bindings[t]]
      /\ Answer(w)
      /\ UNCHANGED lost

\* No document of the budget can be made, or the making fails.
StandIn(w) ==
  /\ worker[w].at = "shaping"
  /\ lost' = lost \cup {worker[w].result}
  /\ Answer(w)
  /\ UNCHANGED <<views, bindings>>

Next ==
  \E w \in Workers :
    \/ CallTool(w) \/ ServePage(w) \/ RefusePage(w) \/ Deliver(w) \/ StandIn(w)
    \/ \E t \in Numbers : FindPage(w, t)

Spec == Init /\ [][Next]_vars

-----------------------------------------------------------------------------
Shown == UNION {views[t].from .. views[t].from + views[t].kept - 1 : t \in DOMAIN views}

\* A model that goes on where documents and cursors say has read every record since
\* its reading began, at 0 or where a refusal sent it: no continuation of a document,
\* of a page of one, or of a page served beside another steps over a record.  A
\* refusal does: the offset it names may lie behind records nobody was shown.
DocumentsSkipNothing ==
  /\ \A t \in DOMAIN views : views[t].next # None =>
       results[views[t].result].since .. views[t].next - 1 \subseteq Shown
  /\ \A t \in DOMAIN bindings :
       results[bindings[t].result].since .. bindings[t].offset - 1 \subseteq Shown

\* A page is served once, also to calls of one batch that carry the same cursor.
PagesAreServedOnce ==
  \A t \in DOMAIN bindings :
    Cardinality({k \in DOMAIN views : views[k].opened = t})
      + Cardinality({w \in Workers : worker[w].at = "shaping" /\ worker[w].cursor = t}) <= 1

\* What the run retains and has not shown is being shown or is behind a cursor that
\* was not spent, unless a document of that result failed or had room for no record.
WithheldIsReachable ==
  \A r \in DOMAIN results : \A i \in results[r].from .. results[r].to - 1 :
    \/ i \in Shown
    \/ \E w \in Workers : worker[w].at = "shaping" /\ worker[w].result = r /\ worker[w].from <= i
    \/ \E t \in DOMAIN bindings \ served : bindings[t].result = r /\ bindings[t].offset <= i
    \/ r \in lost
    \/ \E t \in DOMAIN views : views[t].result = r /\ views[t].kept = 0
=============================================================================
