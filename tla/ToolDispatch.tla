--------------------------- MODULE ToolDispatch ---------------------------
(***************************************************************************)
(* The tool half of one investigation cell: the budget object              *)
(* (_CellExecutionBudget) and the wrapper every tool is dispatched through *)
(* (_bound_tool_dispatches).                                               *)
(*                                                                         *)
(* The actors are the threads that serve the calls of one model response,  *)
(* which run concurrently, the one-thread worker each of them starts for   *)
(* the tool body, the clock, and the console thread that cancels the cell. *)
(* Every action is one section under the budget's lock, or one step of a   *)
(* thread between two such sections.                                       *)
(***************************************************************************)
EXTENDS Integers, FiniteSets

CONSTANTS
  Calls,              \* the tool calls a model may issue during the cell
  Signatures,         \* (function, canonical arguments) identities of a call
  NavSignatures,      \* those that read a page of an already stored result
  InvalidSignatures,  \* those whose arguments the tool's contract refuses
  MaxToolCalls,       \* max_tool_calls
  MaxNavigationCalls, \* max_navigation_calls
  Deadline,           \* deadline_monotonic, in ticks after the cell's start
  None                \* no signature, no call

ASSUME SignaturesAssumption ==
  /\ NavSignatures \subseteq Signatures
  /\ InvalidSignatures \subseteq Signatures \ NavSignatures
  /\ None \notin Signatures
  /\ None \notin Calls

\* __init__ refuses a ceiling below one and a deadline not after the start.
ASSUME CeilingsAssumption ==
  /\ MaxToolCalls \in Nat \ {0}
  /\ MaxNavigationCalls \in Nat \ {0}
  /\ Deadline \in Nat \ {0}

ASSUME CallsAssumption == IsFiniteSet(Calls)

Kinds    == {"tool", "navigation"}
Statuses == {"success", "error", "deadline_exceeded"}

\* How the tool body ends.  "refused": the argument contract or the repeat rule
\* of the oversight layer declined the call and nothing was opened.  "crashed":
\* the operation raised while it was reading the evidence.  "failed": a failure
\* the tool declares.  "raised": an exception that leaves the wrapped function.
Outcomes == {"ok", "failed", "refused", "crashed", "raised"}

\* A call is decided once its thread has left the wrapper.
Decided == {"returned", "raised", "denied"}
Stages  == {"idle", "recall_refusal", "recall_success", "reserve", "submitting",
            "waiting", "timed_out", "quiescing", "passed", "recording"} \cup Decided

Answers == {"none", "result", "refusal", "repeated_refusal", "cached"}

VARIABLES
  now,            \* ticks since the cell started
  cancelled,      \* _cancelled
  cell,           \* who has the turn: "model", "tools" or nobody ("closed")
  dispatches,     \* _tool_dispatches and _navigation_dispatches
  attempts,       \* _tool_attempts and _navigation_attempts, by ordinal
  refusedCalls,   \* _refused_tool_calls
  refusedSigs,    \* the keys of _refused_call_signatures
  successes,      \* _successful_call_results: the call whose result is kept
  exhaustion,     \* _exhaustion_reasons
  sig,            \* what each call asks
  stage,          \* where the thread of each call is
  worker,         \* the state of each call's worker thread
  ordinal,        \* the ordinal of each call's permit, 0 before it has one
  answer,         \* what kind of answer each call received
  servedFrom      \* the call whose result a cached answer repeats

callVars   == <<sig, stage, worker, ordinal, answer, servedFrom>>
budgetVars == <<dispatches, attempts, refusedCalls, refusedSigs, successes, exhaustion>>
vars       == <<now, cancelled, cell, budgetVars, callVars>>

Navigates(s) == s \in NavSignatures
Kind(c)      == IF Navigates(sig[c]) THEN "navigation" ELSE "tool"

TypeOK ==
  /\ now \in 0 .. Deadline
  /\ cancelled \in BOOLEAN
  /\ cell \in {"model", "tools", "closed"}
  /\ dispatches \in [Kinds -> Nat]
  /\ DOMAIN attempts = Kinds
  /\ \A k \in Kinds : DOMAIN attempts[k] \subseteq Nat
  /\ refusedCalls \in Nat
  /\ refusedSigs \subseteq Signatures
  /\ successes \in [Signatures -> Calls \cup {None}]
  /\ exhaustion \subseteq {"max_tool_calls", "max_navigation_calls", "max_wall_time_s"}
  /\ sig \in [Calls -> Signatures \cup {None}]
  /\ stage \in [Calls -> Stages]
  /\ worker \in [Calls -> Outcomes \cup {"none", "running"}]
  /\ ordinal \in [Calls -> Nat]
  /\ answer \in [Calls -> Answers]
  /\ servedFrom \in [Calls -> Calls \cup {None}]
  /\ \A c \in Calls : stage[c] = "idle" <=> sig[c] = None

Init ==
  /\ now = 0
  /\ cancelled = FALSE
  /\ cell = "model"
  /\ dispatches = [k \in Kinds |-> 0]
  /\ attempts = [k \in Kinds |-> [o \in {} |-> "error"]]
  /\ refusedCalls = 0
  /\ refusedSigs = {}
  /\ successes = [s \in Signatures |-> None]
  /\ exhaustion = {}
  /\ sig = [c \in Calls |-> None]
  /\ stage = [c \in Calls |-> "idle"]
  /\ worker = [c \in Calls |-> "none"]
  /\ ordinal = [c \in Calls |-> 0]
  /\ answer = [c \in Calls |-> "none"]
  /\ servedFrom = [c \in Calls |-> None]

-----------------------------------------------------------------------------
(* What the budget tests and records under its lock. *)

\* _remaining_locked: the cancellation is tested before the clock.
Stopped == cancelled \/ now >= Deadline

\* A stop noticed here is filed as exhausted wall time only if nobody cancelled.
StopReasons == IF ~cancelled /\ now >= Deadline THEN {"max_wall_time_s"} ELSE {}

\* What the ceiling on readings meters: a refusal handed its reservation back.
EvidenceReadings == dispatches["tool"] - refusedCalls

\* Mutant: off by one at the ceiling.
CeilingPassed(k) ==
  IF k = "tool" THEN EvidenceReadings > MaxToolCalls
                ELSE dispatches[k] > MaxNavigationCalls

CeilingReached(k) ==
  IF k = "tool" THEN EvidenceReadings >= MaxToolCalls
                ELSE dispatches[k] >= MaxNavigationCalls

CeilingReason(k) == IF k = "tool" THEN "max_tool_calls" ELSE "max_navigation_calls"

\* _record_tool_attempt_locked and complete_navigation: a second completion of
\* one ordinal raises; a deadline status adds the wall time to the reasons.
AlreadyRecorded(c) == ordinal[c] \in DOMAIN attempts[Kind(c)]

RecordAttempt(c, status) ==
  attempts' = [attempts EXCEPT ![Kind(c)] =
                 [o \in DOMAIN attempts[Kind(c)] \cup {ordinal[c]} |->
                    IF o = ordinal[c] THEN status ELSE attempts[Kind(c)][o]]]

Complete(c, status, next) ==
  IF AlreadyRecorded(c)
  THEN /\ stage' = [stage EXCEPT ![c] = "raised"]
       /\ UNCHANGED <<attempts, exhaustion>>
  ELSE /\ stage' = [stage EXCEPT ![c] = next]
       /\ RecordAttempt(c, status)
       /\ exhaustion' = exhaustion \cup
            (IF status = "deadline_exceeded" THEN {"max_wall_time_s"} ELSE {})

-----------------------------------------------------------------------------
(* The model's turn, the clock and the operator. *)

Idle == {c \in Calls : stage[c] = "idle"}

\* A model response asks for calls; the graph's tool node serves all of them
\* concurrently.
Respond ==
  /\ cell = "model"
  /\ \E batch \in SUBSET Idle : \E asked \in [batch -> Signatures] :
       /\ batch # {}
       /\ sig' = [c \in Calls |-> IF c \in batch THEN asked[c] ELSE sig[c]]
       /\ stage' = [c \in Calls |-> IF c \notin batch THEN stage[c]
                                    ELSE IF Navigates(asked[c]) THEN "reserve"
                                    ELSE "recall_refusal"]
  /\ cell' = "tools"
  /\ UNCHANGED <<now, cancelled, budgetVars, worker, ordinal, answer, servedFrom>>

Over == Decided \cup {"idle"}

\* The tool node returns, or re-raises, only after every thread of the batch
\* has left the wrapper.
EndBatch ==
  /\ cell = "tools"
  /\ \A c \in Calls : stage[c] \in Over
  /\ cell' = "model"
  /\ UNCHANGED <<now, cancelled, budgetVars, callVars>>

\* The run is over and publishes metrics().
CloseCell ==
  /\ cell = "model"
  /\ cell' = "closed"
  /\ exhaustion' = exhaustion \cup (IF now >= Deadline THEN {"max_wall_time_s"} ELSE {})
  /\ UNCHANGED <<now, cancelled, dispatches, attempts, refusedCalls, refusedSigs,
                 successes, callVars>>

Tick ==
  /\ now < Deadline
  /\ cell # "closed"
  /\ now' = now + 1
  /\ UNCHANGED <<cancelled, cell, budgetVars, callVars>>

\* cancel(): the flag is written from another thread, without the lock.
Cancel ==
  /\ ~cancelled
  /\ cell # "closed"
  /\ cancelled' = TRUE
  /\ UNCHANGED <<now, cell, budgetVars, callVars>>

-----------------------------------------------------------------------------
(* One call's thread, in the order of wrapped(). *)

RecallRefusal(c) ==
  /\ stage[c] = "recall_refusal"
  /\ IF sig[c] \in refusedSigs
     THEN /\ stage' = [stage EXCEPT ![c] = "returned"]
          /\ answer' = [answer EXCEPT ![c] = "repeated_refusal"]
     ELSE /\ stage' = [stage EXCEPT ![c] = "recall_success"]
          /\ UNCHANGED answer
  /\ UNCHANGED <<now, cancelled, cell, budgetVars, sig, worker, ordinal, servedFrom>>

\* Mutant: a result kept under any signature answers the call.
AnySuccess(c) ==
  LET kept == {s \in Signatures : successes[s] # None}
  IN IF kept = {} THEN None ELSE successes[CHOOSE s \in kept : TRUE]

KnownSuccess(c) == successes[sig[c]]

RecallSuccess(c) ==
  /\ stage[c] = "recall_success"
  /\ IF KnownSuccess(c) # None
     THEN /\ stage' = [stage EXCEPT ![c] = "returned"]
          /\ answer' = [answer EXCEPT ![c] = "cached"]
          /\ servedFrom' = [servedFrom EXCEPT ![c] = KnownSuccess(c)]
     ELSE /\ stage' = [stage EXCEPT ![c] = "reserve"]
          /\ UNCHANGED <<answer, servedFrom>>
  /\ UNCHANGED <<now, cancelled, cell, budgetVars, sig, worker, ordinal>>

NextOrdinal(k) == dispatches[k] + 1

\* reserve_tool or reserve_navigation: the permit.
Reserve(c) ==
  /\ stage[c] = "reserve"
  /\ IF Stopped
     THEN /\ stage' = [stage EXCEPT ![c] = "denied"]
          /\ exhaustion' = exhaustion \cup StopReasons
          /\ UNCHANGED <<dispatches, ordinal>>
     ELSE IF CeilingReached(Kind(c))
     THEN /\ stage' = [stage EXCEPT ![c] = "denied"]
          /\ exhaustion' = exhaustion \cup {CeilingReason(Kind(c))}
          /\ UNCHANGED <<dispatches, ordinal>>
     ELSE /\ dispatches' = [dispatches EXCEPT ![Kind(c)] = @ + 1]
          /\ ordinal' = [ordinal EXCEPT ![c] = NextOrdinal(Kind(c))]
          /\ stage' = [stage EXCEPT ![c] = "submitting"]
          /\ UNCHANGED exhaustion
  /\ UNCHANGED <<now, cancelled, cell, attempts, refusedCalls, refusedSigs, successes,
                 sig, worker, answer, servedFrom>>

\* executor.submit, after the lock was released: neither the flag nor the clock is
\* asked again before the body starts.
Submit(c) ==
  /\ stage[c] = "submitting"
  /\ worker' = [worker EXCEPT ![c] = "running"]
  /\ stage' = [stage EXCEPT ![c] = "waiting"]
  /\ UNCHANGED <<now, cancelled, cell, budgetVars, sig, ordinal, answer, servedFrom>>

\* The supervised tool body ends in its worker thread.  Arguments the contract
\* refuses are always refused; the repeat rule also refuses a call identical to
\* one that has just crashed, because the crash came back marked deterministic.
RunBody(c) ==
  /\ worker[c] = "running"
  /\ \E o \in Outcomes :
       /\ (o = "refused") =>
            \/ sig[c] \in InvalidSignatures
            \/ \E d \in Calls : sig[d] = sig[c] /\ worker[d] = "crashed"
       /\ sig[c] \in InvalidSignatures => o = "refused"
       /\ Navigates(sig[c]) => o \in {"ok", "failed", "raised"}
       /\ worker' = [worker EXCEPT ![c] = o]
  /\ UNCHANGED <<now, cancelled, cell, budgetVars, sig, stage, ordinal, answer, servedFrom>>

\* future.result(timeout) gave up while the body was still running.
WaitExpires(c) ==
  /\ stage[c] = "waiting"
  /\ worker[c] = "running"
  /\ now >= Deadline
  /\ stage' = [stage EXCEPT ![c] = "timed_out"]
  /\ UNCHANGED <<now, cancelled, cell, budgetVars, sig, worker, ordinal, answer, servedFrom>>

\* future.done() is asked after the wait expired, and the body may have ended in
\* between: then the call is filed as an error and the timeout itself is raised.
AfterTimeout(c) ==
  /\ stage[c] = "timed_out"
  /\ IF worker[c] # "running"
     THEN Complete(c, "error", "raised")
     ELSE /\ stage' = [stage EXCEPT ![c] = "quiescing"]
          /\ UNCHANGED <<attempts, exhaustion>>
  /\ UNCHANGED <<now, cancelled, cell, dispatches, refusedCalls, refusedSigs, successes,
                 sig, worker, ordinal, answer, servedFrom>>

\* Mutant: the deadline is raised without waiting for the worker.
LeftBehind(c) == TRUE

\* Mutant: only a body that succeeds ends the second wait.
QuiescentWhenDone(c) == worker[c] = "ok"

Quiescent(c) == worker[c] # "running"

\* The second, unbounded wait: only then is the deadline recorded and raised.
Quiesce(c) ==
  /\ stage[c] = "quiescing"
  /\ Quiescent(c)
  /\ Complete(c, "deadline_exceeded", "denied")
  /\ UNCHANGED <<now, cancelled, cell, dispatches, refusedCalls, refusedSigs, successes,
                 sig, worker, ordinal, answer, servedFrom>>

BodyRaised(c) ==
  /\ stage[c] = "waiting"
  /\ worker[c] = "raised"
  /\ Complete(c, "error", "raised")
  /\ UNCHANGED <<now, cancelled, cell, dispatches, refusedCalls, refusedSigs, successes,
                 sig, worker, ordinal, answer, servedFrom>>

\* A result arrived; budget.remaining() decides whether it still counts.
CheckRemaining(c) ==
  /\ stage[c] = "waiting"
  /\ worker[c] \notin {"running", "raised"}
  /\ IF Stopped
     THEN Complete(c, "deadline_exceeded", "denied")
     ELSE /\ stage' = [stage EXCEPT ![c] = "passed"]
          /\ UNCHANGED <<attempts, exhaustion>>
  /\ UNCHANGED <<now, cancelled, cell, dispatches, refusedCalls, refusedSigs, successes,
                 sig, worker, ordinal, answer, servedFrom>>

\* _declared_refusal over what the domain facade returns: the facade turns every
\* exception of a dispatched operation into a refusal marked deterministic.
DeclaredRefusal(c) == ~Navigates(sig[c]) /\ worker[c] \in {"refused", "crashed"}

\* refuse_tool: the attempt is recorded as an error, the reservation returned.
RefuseCall(c) ==
  /\ stage[c] = "passed"
  /\ DeclaredRefusal(c)
  /\ Complete(c, "error", "returned")
  /\ IF AlreadyRecorded(c)
     THEN UNCHANGED <<refusedCalls, refusedSigs, answer>>
     ELSE /\ refusedCalls' = refusedCalls + 1
          /\ refusedSigs' = refusedSigs \cup {sig[c]}
          /\ answer' = [answer EXCEPT ![c] = "refusal"]
  /\ UNCHANGED <<now, cancelled, cell, dispatches, successes, sig, worker, ordinal, servedFrom>>

\* _declared_success: only a completed read may answer an identical repeat.
DeclaredSuccess(c) == ~Navigates(sig[c]) /\ worker[c] = "ok"

CompleteCall(c) ==
  /\ stage[c] = "passed"
  /\ ~DeclaredRefusal(c)
  /\ Complete(c, "success", IF DeclaredSuccess(c) THEN "recording" ELSE "returned")
  /\ answer' = IF AlreadyRecorded(c) THEN answer ELSE [answer EXCEPT ![c] = "result"]
  /\ UNCHANGED <<now, cancelled, cell, dispatches, refusedCalls, refusedSigs, successes,
                 sig, worker, ordinal, servedFrom>>

\* Mutant: the last result published replaces the first.
KeepLast(c) == c

KeepFirst(c) == IF successes[sig[c]] = None THEN c ELSE successes[sig[c]]

\* record_success: setdefault, so that the first result observed is the one kept.
RecordSuccess(c) ==
  /\ stage[c] = "recording"
  /\ successes' = [successes EXCEPT ![sig[c]] = KeepFirst(c)]
  /\ stage' = [stage EXCEPT ![c] = "returned"]
  /\ UNCHANGED <<now, cancelled, cell, dispatches, attempts, refusedCalls, refusedSigs,
                 exhaustion, sig, worker, ordinal, answer, servedFrom>>

-----------------------------------------------------------------------------
Thread(c) ==
  \/ RecallRefusal(c)
  \/ RecallSuccess(c)
  \/ Reserve(c)
  \/ Submit(c)
  \/ WaitExpires(c)
  \/ AfterTimeout(c)
  \/ Quiesce(c)
  \/ BodyRaised(c)
  \/ CheckRemaining(c)
  \/ RefuseCall(c)
  \/ CompleteCall(c)
  \/ RecordSuccess(c)

\* A closed cell dispatches nothing more.
Done == cell = "closed" /\ UNCHANGED vars

Next ==
  \/ Respond
  \/ EndBatch
  \/ CloseCell
  \/ Tick
  \/ Cancel
  \/ \E c \in Calls : Thread(c)
  \/ \E c \in Calls : RunBody(c)
  \/ Done

\* A started thread is scheduled, a tool body ends (subprocess-backed tools keep
\* killable timeouts of their own), and the graph and the run go on once nothing
\* is pending.  Nothing obliges the model to call, the clock or the operator.
Fairness ==
  /\ \A c \in Calls : WF_vars(Thread(c))
  /\ \A c \in Calls : WF_vars(RunBody(c))
  /\ WF_vars(EndBatch)

Spec == Init /\ [][Next]_vars /\ Fairness

-----------------------------------------------------------------------------
(* Safety *)

Reservations(k) == {c \in Calls : ordinal[c] # 0 /\ Kind(c) = k}

\* The reservations that count as readings of the evidence.
Readings == {c \in Reservations("tool") : answer[c] # "refusal"}

\* However the threads of a batch interleave, the two counters the ceiling is
\* computed from agree with the calls that really hold a reservation, and never
\* do more of them hold one than max_tool_calls: reserving, refusing and giving
\* the reservation back are separate lock sections (reserve_tool, refuse_tool).
ReadingsMetered ==
  /\ EvidenceReadings = Cardinality(Readings)
  /\ EvidenceReadings <= MaxToolCalls

\* Between batches nothing of the cell is still running, and every reservation
\* has exactly one entry in the published list, without a gap in the ordinals:
\* metrics() raises otherwise, and a worker left behind would touch the disk or
\* the traces of the next cell.
QuietBetweenBatches ==
  cell # "tools" =>
    /\ \A c \in Calls : worker[c] # "running"
    /\ \A k \in Kinds : DOMAIN attempts[k] = 1 .. dispatches[k]
    /\ \A c \in Calls : AlreadyRecorded(c) <=> ordinal[c] # 0

\* Two identical calls answered from the record repeat one and the same
\* invocation, one that really ended well, even when two executions of the call
\* raced each other to record_success.
CachedAnswersAgree ==
  \A c \in Calls : answer[c] = "cached" =>
    /\ servedFrom[c] = successes[sig[c]]
    /\ worker[servedFrom[c]] = "ok"
    /\ sig[servedFrom[c]] = sig[c]
    /\ ordinal[c] = 0

\* What became of a call, as the cell sees it.
CallState(c) ==
  IF stage[c] = "idle" THEN "unasked"
  ELSE IF stage[c] \in {"recall_refusal", "recall_success", "reserve"} THEN "pending"
  ELSE IF stage[c] \in {"submitting", "waiting", "timed_out", "quiescing", "passed"} THEN "permitted"
  ELSE IF answer[c] = "result" THEN "answered"
  ELSE IF answer[c] = "refusal" THEN "refused"
  ELSE IF answer[c] \in {"repeated_refusal", "cached"} THEN "repeated"
  ELSE IF ordinal[c] = 0 THEN "denied"
  ELSE "lost"

\* What the operator and the clock did, whatever the budget makes of it.
RunIsOver == cancelled \/ now >= Deadline

\* Once the operator cancelled or the deadline passed, no call gets a permit any
\* more, whatever had already passed its recall: a body that still starts belongs to
\* a permit given before, whose thread had only left the lock.
NoPermitAfterStop ==
  [][RunIsOver => \A c \in Calls : ordinal[c] = 0 => ordinal'[c] = 0 /\ worker'[c] = "none"]_vars

Cell == INSTANCE MeteredCell WITH
          asked <- sig, call <- [c \in Calls |-> CallState(c)], stopped <- RunIsOver

\* Threads, workers, the clock and the cancel together do what MeteredCell says: a
\* batch is settled before the next is asked, a permit is given under the ceiling
\* and before the stop, a call is denied only for one of the two, and one that is
\* answered from the record repeats an identical call that was settled before.
CellIsMetered == Cell!Spec

-----------------------------------------------------------------------------
(* Liveness *)

\* A batch always comes back to the graph: no interleaving of timeouts,
\* quiescence, refusals and cancellation leaves a thread waiting for ever.
BatchReturns == cell = "tools" ~> cell = "model"
=============================================================================
