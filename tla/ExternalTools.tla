---------------------------- MODULE ExternalTools ----------------------------
(***************************************************************************)
(* The external programs the tools of one run start (core/toolkit.py), and *)
(* the Ctrl+C that stops them (action_interrupt of tui/app.py).            *)
(*                                                                         *)
(* Each call has a thread that starts a child, enters it in a register and *)
(* waits.  The cancelling thread forbids further calls, copies the         *)
(* register, and polls, marks and kills the children of the copy while     *)
(* their own threads go on: a child may end, time out or be reported       *)
(* between any two of these steps.                                         *)
(***************************************************************************)
CONSTANTS
  Calls,
  Streamed,  \* those of stream_external; the others are of run_external
  None

\* How a call may end, as its thread reports it.
Reports == {"refused", "done", "failed", "timed out", "stopped"}

ASSUME ToolsAssumption == Streamed \subseteq Calls /\ None \notin Calls \cup Reports

VARIABLES
  at,         \* where the thread of each call is
  child,      \* the child process of each call
  register,   \* _LIVE_CHILDREN
  marked,     \* the children with _dfa_cancelled
  expired,    \* the streamed calls whose watchdog fired
  report,     \* what each call reported
  cancelled,  \* cancel_active_cells
  sweep       \* terminate_live_children: the copy still to go through, and the child in hand

threads == <<at, child, register, expired, report>>
stop    == <<marked, cancelled, sweep>>
vars    == <<at, child, register, marked, expired, report, cancelled, sweep>>

\* "killed" by its own timeout, "stopped" by the cancel.
Dead == {"zero", "nonzero", "killed", "stopped"}

TypeOK ==
  /\ at \in [Calls -> {"none", "granted", "started", "waiting", "reaped", "ended"}]
  /\ child \in [Calls -> Dead \cup {"none", "running"}]
  /\ register = {c \in Calls : at[c] = "waiting"}
  /\ marked \subseteq Calls /\ expired \subseteq Streamed
  /\ report \in [Calls -> Reports \cup {None}]
  /\ \A c \in Calls : (report[c] # None) <=> (at[c] = "ended")
  \* No child outlives the call that started it.
  /\ \A c \in Calls : child[c] = "running" => at[c] \in {"started", "waiting"}

Init ==
  /\ at = [c \in Calls |-> "none"]
  /\ child = [c \in Calls |-> "none"]
  /\ register = {} /\ marked = {} /\ expired = {}
  /\ report = [c \in Calls |-> None]
  /\ cancelled = FALSE
  /\ sweep = None

-----------------------------------------------------------------------------
(* The thread of a call. *)

At(c, place)   == at' = [at EXCEPT ![c] = place]
Tell(c, what)  == At(c, "ended") /\ report' = [report EXCEPT ![c] = what]
ChildIs(c, how) == child' = [child EXCEPT ![c] = how]

\* The cell allows a call unless it was cancelled.
Grant(c) ==
  /\ at[c] = "none"
  /\ ~cancelled
  /\ At(c, "granted")
  /\ UNCHANGED <<child, register, expired, report, stop>>

\* _admit_external: nothing is started without a second left of the cell.
Refuse(c) ==
  /\ at[c] = "granted"
  /\ Tell(c, "refused")
  /\ UNCHANGED <<child, register, expired, stop>>

\* Popen raises.
CannotStart(c) ==
  /\ at[c] = "granted"
  /\ Tell(c, "failed")
  /\ UNCHANGED <<child, register, expired, stop>>

Popen(c) ==
  /\ at[c] = "granted"
  /\ At(c, "started")
  /\ ChildIs(c, "running")
  /\ UNCHANGED <<register, expired, report, stop>>

\* _tracked_child
Register(c) ==
  /\ at[c] = "started"
  /\ At(c, "waiting")
  /\ register' = register \cup {c}
  /\ UNCHANGED <<child, expired, report, stop>>

\* communicate() raises TimeoutExpired: kill, drain, leave the register, report.
TimeOut(c) ==
  /\ c \notin Streamed
  /\ at[c] = "waiting"
  /\ child' = [child EXCEPT ![c] = IF @ = "running" THEN "killed" ELSE @]
  /\ register' = register \ {c}
  /\ Tell(c, "timed out")
  /\ UNCHANGED <<expired, stop>>

\* The watchdog of a streamed call runs from before the registration until the
\* stream has ended.
Expire(c) ==
  /\ c \in Streamed
  /\ at[c] \in {"started", "waiting"}
  /\ c \notin expired
  /\ expired' = expired \cup {c}
  /\ child' = [child EXCEPT ![c] = IF @ = "running" THEN "killed" ELSE @]
  /\ UNCHANGED <<at, register, report, stop>>

\* The pipes reach their end.
Reap(c) ==
  /\ at[c] = "waiting" /\ child[c] \in Dead
  /\ At(c, "reaped")
  /\ register' = register \ {c}
  /\ UNCHANGED <<child, expired, report, stop>>

\* With check=False a nonzero exit is a result.
Report(c) ==
  /\ at[c] = "reaped"
  /\ IF c \in marked THEN Tell(c, "stopped")
     ELSE IF c \in expired THEN Tell(c, "timed out")
     ELSE IF child[c] = "zero" THEN Tell(c, "done")
     ELSE \E what \in {"failed", "done"} : Tell(c, what)
  /\ UNCHANGED <<child, register, expired, stop>>

\* The program ends by itself.
Exits(c) ==
  /\ child[c] = "running"
  /\ \E how \in {"zero", "nonzero"} : ChildIs(c, how)
  /\ UNCHANGED <<at, register, expired, report, stop>>

-----------------------------------------------------------------------------
(* Ctrl+C. *)

\* First the cells are told, so that a killed tool is not answered by another.
Cancel ==
  /\ ~cancelled
  /\ cancelled' = TRUE
  /\ UNCHANGED <<threads, marked, sweep>>

\* Mutant: the tools are killed before the cells are told.
AtAnyTime == TRUE

CellsAreTold == cancelled

Copy ==
  /\ CellsAreTold
  /\ sweep = None
  /\ sweep' = [todo |-> register, child |-> None, step |-> "next"]
  /\ UNCHANGED <<threads, marked, cancelled>>

\* A child of the copy that is dead by now is passed over.
Poll(c) ==
  /\ sweep # None /\ sweep.step = "next" /\ c \in sweep.todo
  /\ sweep' = IF child[c] \in Dead
              THEN [sweep EXCEPT !.todo = @ \ {c}]
              ELSE [todo |-> sweep.todo \ {c}, child |-> c, step |-> "mark"]
  /\ UNCHANGED <<threads, marked, cancelled>>

Mark ==
  /\ sweep # None /\ sweep.step = "mark"
  /\ marked' = marked \cup {sweep.child}
  /\ sweep' = [sweep EXCEPT !.step = "kill"]
  /\ UNCHANGED <<threads, cancelled>>

Kill ==
  /\ sweep # None /\ sweep.step = "kill"
  /\ child' = [child EXCEPT ![sweep.child] = IF @ = "running" THEN "stopped" ELSE @]
  /\ sweep' = [sweep EXCEPT !.child = None, !.step = "next"]
  /\ UNCHANGED <<at, register, expired, report, marked, cancelled>>

Thread(c) ==
  \/ Refuse(c) \/ CannotStart(c) \/ Popen(c) \/ Register(c)
  \/ TimeOut(c) \/ Expire(c) \/ Reap(c) \/ Report(c)

Next ==
  \/ \E c \in Calls : Grant(c) \/ Thread(c) \/ Exits(c) \/ Poll(c)
  \/ Cancel \/ Copy \/ Mark \/ Kill

\* Every wait has its timeout, so a thread goes on; no program has to end, and
\* nobody has to cancel.
Fairness == \A c \in Calls : WF_vars(Thread(c))

Spec == Init /\ [][Next]_vars /\ Fairness

-----------------------------------------------------------------------------
(* What the run and its operator see. *)

ToolOf(c) ==
  IF at[c] \in {"none", "granted"} THEN at[c]
  ELSE IF at[c] = "ended" /\ child[c] # "running" THEN report[c]
  ELSE IF c \in marked \/ child[c] = "stopped" THEN "stopping"
  ELSE "runs"

Promise == INSTANCE StoppableTools WITH tool <- [c \in Calls |-> ToolOf(c)]

\* Whatever the order in which children end, time out, are marked, killed and
\* reported: every call that was granted ends and leaves no child behind, one the
\* cancel killed is reported as stopped and not as failed, and none is granted
\* after one was stopped.
ToolsKeepThePromise == Promise!Spec
=============================================================================
