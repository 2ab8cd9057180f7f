------------------------ MODULE InvestigationConsole ------------------------
(***************************************************************************)
(* The console around one InteractiveSession: what the operator may do     *)
(* while a question is in flight (tui/app.py), what a question reads from  *)
(* and leaves in the session (session.ask, controller.run), and the case   *)
(* and model operations that change the session underneath.                *)
(*                                                                         *)
(* Threads: the application's loop, which runs every key, command and      *)
(* callback to its end; one worker per question; one worker per case or    *)
(* model operation.  The loop learns what a worker did only through flags  *)
(* and callbacks.                                                          *)
(***************************************************************************)
EXTENDS Naturals, Sequences

CONSTANTS
  Questions,    \* 1 .. n, in the order they are asked
  Operations,   \* case operations the operator may start
  Selectable,   \* models that can be selected
  Configured,   \* the one the console starts with
  MaxDeferred,  \* bound: commands taken while a message is in flight
  Absent

ASSUME ConsoleAssumption ==
  /\ Questions \subseteq Nat \ {0}
  /\ Absent \notin Selectable \cup {Configured} \cup Questions
  /\ MaxDeferred \in Nat

VARIABLES
  token,      \* the question _run_token was issued to, Absent once it is cancelled
  running,    \* a message is in flight, as the prompt sees it
  alive,      \* _ask_thread_alive
  caseAlive,  \* _case_op_alive
  gate,       \* who holds _ask_gate
  deferred,   \* _deferred_commands: the models asked for, in order
  armed,      \* _deferred_drain_queued
  stage,      \* where the worker of each question is
  result,     \* the question whose run the worker of each question is to show
  evidence,   \* has_evidence()
  model,      \* session.model
  runner,     \* the model of the cached runner
  active,     \* the model the active conversation is bound to
  lastRun,    \* last_run: the question it answered
  outcome,    \* last_ask_outcome
  ground,     \* the model that examines the question inside session.ask()
  operation,         \* what each case operation's worker is doing
  change      \* the change of the model under way, from the dialog it is chosen in:
              \* its step, and the model; or Absent

Models == Selectable \cup {Configured}

flags     == <<token, running, alive, caseAlive, gate>>
queue     == <<deferred, armed>>
questions == <<stage, result>>
about     == <<evidence, model, runner, active>>
latest    == <<lastRun, outcome, ground>>
session   == <<about, latest>>
workers   == <<operation, change>>
consoleVars      == <<flags, queue, questions, session, workers>>

\* Where a question is inside session.ask(), and where it holds the gate.
Inside == {"inside", "examining", "recording", "leaving", "raised", "told", "faulted"}
Holds  == Inside \cup {"admitted", "out", "faulted out"}
Stages == Holds \cup {"unasked", "waiting", "left", "posted", "done"}

OpSteps == {"not begun", "starting", "opening", "staged", "choosing", "committing",
            "exchanged", "indexing", "closing", "done"}

ChangeSteps == {"choosing", "checking", "prepared", "activated"}

Outcomes == {"not attempted", "answered", "unpublished", "failed"}

ConsoleTypeOK ==
  /\ {running, alive, caseAlive, armed, evidence} \subseteq BOOLEAN
  /\ {token, gate, lastRun} \subseteq Questions \cup {Absent}
  /\ deferred \in Seq(Models) /\ Len(deferred) <= MaxDeferred
  /\ stage \in [Questions -> Stages]
  /\ result \in [Questions -> Questions \cup {Absent}]
  /\ model \in Models
  /\ {runner, active, ground} \subseteq Models \cup {Absent}
  /\ outcome \in Outcomes
  /\ operation \in [Operations -> OpSteps]
  /\ change \in [step : ChangeSteps, to : Models] \cup {Absent}
  \* One question inside session.ask() at a time, and the flag says so.
  /\ \A k \in Questions : stage[k] \in Holds <=> gate = k
  /\ alive <=> \E k \in Questions : stage[k] \in Inside

ConsoleInit ==
  /\ token = Absent
  /\ running = FALSE /\ alive = FALSE /\ caseAlive = FALSE /\ armed = FALSE
  /\ gate = Absent
  /\ deferred = <<>>
  /\ stage = [k \in Questions |-> "unasked"]
  /\ result = [k \in Questions |-> Absent]
  /\ evidence = TRUE
  /\ model = Configured
  /\ runner = Absent
  /\ active = model
  /\ lastRun = Absent /\ outcome = "not attempted" /\ ground = Absent
  /\ operation = [o \in Operations |-> "not begun"]
  /\ change = Absent

-----------------------------------------------------------------------------
(* The application's loop: the operator. *)

\* Mutant: the window after a cancel is not covered.
FreeAfterCancel == ~running /\ ~caseAlive

\* Neither a message nor its orphaned thread nor a case operation.
Free == ~running /\ ~alive /\ ~caseAlive

\* A screen that asks for a choice is modal: only Ctrl+C passes it.
AtPrompt == \A o \in Operations : operation[o] # "choosing"

Choosing == change # Absent /\ change.step = "choosing"

\* running is reactive: whenever it is cleared, commands that wait are armed.
StopRunning ==
  /\ running' = FALSE
  /\ armed' = (armed \/ (running /\ deferred # <<>>))

\* _ask.  A cancelled thread that is still inside does not refuse the question.
Ask(k) ==
  /\ AtPrompt
  /\ stage[k] = "unasked"
  /\ \A j \in Questions : j < k => stage[j] # "unasked"
  /\ ~running /\ ~caseAlive
  /\ evidence
  /\ token' = k
  /\ running' = TRUE
  /\ stage' = [stage EXCEPT ![k] = "waiting"]
  /\ UNCHANGED <<alive, caseAlive, gate, queue, result, session, workers>>

\* Ctrl+C: the token moves on and the prompt is free at once.  The cells are
\* cancelled and the tools killed; the thread of the question goes on to its end.
Interrupt ==
  /\ running
  /\ token' = Absent
  /\ StopRunning
  /\ UNCHANGED <<alive, caseAlive, gate, deferred, questions, session, workers>>

\* /new, and /resume of a conversation about what is open.
NewInvestigation ==
  /\ AtPrompt /\ Free
  /\ active' = model
  /\ UNCHANGED <<flags, queue, questions, evidence, model, runner, latest, workers>>

Advance(o, step) == operation' = [operation EXCEPT ![o] = step]

\* /case, /attach, /complete and /continue start a worker.
StartCaseOperation(o) ==
  /\ operation[o] = "not begun"
  /\ AtPrompt /\ Free
  /\ Advance(o, "starting")
  /\ UNCHANGED <<flags, queue, questions, session, change>>

\* _change_model_worker.  Its workers are one exclusive group.  Bound: a second
\* change begins after the first has ended.
BeginChange(m) ==
  /\ change = Absent
  /\ change' = [step |-> "checking", to |-> m]

\* /model with a name, while the console is free.  Bound: none is typed while one
\* waits.
StartModelChange(m) ==
  /\ AtPrompt /\ Free
  /\ m # model
  /\ deferred = <<>>
  /\ BeginChange(m)
  /\ UNCHANGED <<flags, queue, questions, session, operation>>

\* _defer_command: the same command while it is not.
DeferModelChange(m) ==
  /\ AtPrompt /\ ~Free /\ ~Choosing
  /\ Len(deferred) < MaxDeferred
  /\ deferred' = Append(deferred, m)
  /\ armed' = TRUE
  /\ UNCHANGED <<flags, questions, session, workers>>

\* /model list and /setup begin while the console is free.  Between their screens
\* they read from the provider, and the prompt is there meanwhile.  Bound: a dialog and
\* a command that waits exclude each other, and the choice is another model.
OpenDialog(m) ==
  /\ AtPrompt /\ Free
  /\ change = Absent /\ deferred = <<>> /\ m # model
  /\ change' = [step |-> "choosing", to |-> m]
  /\ UNCHANGED <<flags, queue, questions, session, operation>>

\* _model_catalog_flow hands the row to _change_model_worker; _setup_flow has the
\* provider checked and reconfigures.  Neither looks at the flags again.
TakeChoice ==
  /\ Choosing
  /\ \E step \in {"checking", "prepared"} : change' = [change EXCEPT !.step = step]
  /\ UNCHANGED <<flags, queue, questions, session, operation>>

\* The operator leaves it, there is nothing to choose, or it fails.
CloseDialog ==
  /\ Choosing
  /\ change' = Absent
  /\ UNCHANGED <<flags, queue, questions, session, operation>>

\* Mutant: a timer that finds the console busy is the last one.
ForgottenWhileBusy == FALSE

RearmedWhileBusy == TRUE

\* _drain_deferred.  What it dispatches in one go is one exclusive group, so of
\* several changes of the model only the last one's worker ever starts.
Drain ==
  /\ armed
  /\ IF Free /\ deferred # <<>>
     THEN /\ BeginChange(deferred[Len(deferred)])
          /\ deferred' = <<>>
          /\ armed' = FALSE
     ELSE /\ armed' = (RearmedWhileBusy /\ deferred # <<>>)
          /\ UNCHANGED <<deferred, change>>
  /\ UNCHANGED <<flags, questions, session, operation>>

\* _render_result and _render_error: no callback looks at the
\* token again.
Render(k) ==
  /\ stage[k] = "posted"
  /\ stage' = [stage EXCEPT ![k] = "done"]
  /\ result' = [result EXCEPT ![k] = Absent]
  /\ StopRunning
  /\ UNCHANGED <<token, alive, caseAlive, gate, deferred, session, workers>>

-----------------------------------------------------------------------------
(* The worker of a question. *)

Current(k) == token = k

\* A worker whose question was cancelled before its thread began never begins.
NeverBegins(k) ==
  /\ stage[k] = "waiting"
  /\ ~Current(k)
  /\ stage' = [stage EXCEPT ![k] = "done"]
  /\ UNCHANGED <<flags, queue, result, session, workers>>

GateFree == gate = Absent

\* The gate is free: the question takes it, cancelled or not.
TakeGate(k) ==
  /\ stage[k] = "waiting"
  /\ GateFree
  /\ gate' = k
  /\ stage' = [stage EXCEPT ![k] = "admitted"]
  /\ UNCHANGED <<token, running, alive, caseAlive, queue, result, session, workers>>

\* Mutant: a question that was not let in is dropped.
LeftOut(k) == "done"

\* A question that is still current is reported.
Reported(k) == IF Current(k) THEN "posted" ELSE "done"

\* _ASK_GATE_WAIT_S have passed and another question still has the gate.
GateTimeout(k) ==
  /\ stage[k] = "waiting"
  /\ ~GateFree
  /\ stage' = [stage EXCEPT ![k] = Reported(k)]
  /\ UNCHANGED <<flags, queue, result, session, workers>>

\* ask forgets the outcome of the question before.
Enter(k) ==
  /\ stage[k] = "admitted"
  /\ alive' = TRUE
  /\ outcome' = "not attempted"
  /\ stage' = [stage EXCEPT ![k] = "inside"]
  /\ UNCHANGED <<token, running, caseAlive, gate, queue, result, about, lastRun, ground, workers>>

\* ask: no evidence, or the scope check declines the input.
Decline(k) ==
  /\ stage[k] = "inside"
  /\ stage' = [stage EXCEPT ![k] = "leaving"]
  /\ UNCHANGED <<flags, queue, result, session, workers>>

\* ask: the runner is built once, and the run takes evidence and context as they
\* are now.
Examine(k) ==
  /\ stage[k] = "inside"
  /\ evidence
  /\ runner' = IF runner = Absent THEN model ELSE runner
  /\ ground' = runner'
  /\ stage' = [stage EXCEPT ![k] = "examining"]
  /\ UNCHANGED <<flags, queue, result, evidence, model, active, lastRun, outcome, workers>>

\* runner.ask returns or raises.  An answered and an unpublished run become the
\* session's last run; the outcome of an answered one waits for the record.
RunEnds(k, how) ==
  /\ stage[k] = "examining"
  /\ outcome' = IF how = "answered" THEN outcome ELSE how
  /\ lastRun' = IF how = "failed" THEN lastRun ELSE k
  /\ stage' = [stage EXCEPT ![k] = IF how = "answered" THEN "recording" ELSE "leaving"]
  /\ UNCHANGED <<flags, queue, result, about, ground, workers>>

\* record_answer: the answer goes to the conversation that is active now; one is
\* begun when there is none.
RecordAnswer(k) ==
  /\ stage[k] = "recording"
  /\ active' = IF active = Absent THEN model ELSE active
  /\ outcome' = "answered"
  /\ stage' = [stage EXCEPT ![k] = "leaving"]
  /\ UNCHANGED <<flags, queue, result, evidence, model, runner, lastRun, ground, workers>>

\* The append is refused, which is narrated; a conversation that cannot even be
\* begun leaves ask with an exception.
AnswerNotRecorded(k) ==
  /\ stage[k] = "recording"
  /\ IF active = Absent
     THEN stage' = [stage EXCEPT ![k] = "raised"] /\ UNCHANGED outcome
     ELSE stage' = [stage EXCEPT ![k] = "leaving"] /\ outcome' = "answered"
  /\ UNCHANGED <<flags, queue, result, about, lastRun, ground, workers>>

\* The exception of a current question is told before the gate is released.
CatchFault(k) ==
  /\ stage[k] = "raised"
  /\ stage' = [stage EXCEPT ![k] = IF Current(k) THEN "told" ELSE "faulted"]
  /\ UNCHANGED <<flags, queue, result, session, workers>>

RenderFault(k) ==
  /\ stage[k] = "told"
  /\ stage' = [stage EXCEPT ![k] = "faulted"]
  /\ StopRunning
  /\ UNCHANGED <<token, alive, caseAlive, gate, deferred, result, session, workers>>

\* Mutant: whatever run the session has is shown.
ResultOfLastRun == lastRun

\* controller.run: the last run is this question's only if the question produced
\* one; otherwise it returns an empty result.
ResultOf == IF outcome \in {"answered", "unpublished"} THEN lastRun ELSE Absent

Leave(k) ==
  /\ \/ /\ stage[k] = "leaving"
        /\ result' = [result EXCEPT ![k] = ResultOf]
        /\ stage' = [stage EXCEPT ![k] = "out"]
     \/ /\ stage[k] = "faulted"
        /\ stage' = [stage EXCEPT ![k] = "faulted out"]
        /\ UNCHANGED result
  /\ ground' = Absent
  /\ alive' = FALSE
  /\ UNCHANGED <<token, running, caseAlive, gate, queue, about, lastRun, outcome, workers>>

ReleaseGate(k) ==
  /\ stage[k] \in {"out", "faulted out"}
  /\ gate' = Absent
  /\ stage' = [stage EXCEPT ![k] = IF stage[k] = "out" THEN "left" ELSE "done"]
  /\ UNCHANGED <<token, running, alive, caseAlive, queue, result, session, workers>>

\* The token is compared here, and the callback runs later.
Report(k) ==
  /\ stage[k] = "left"
  /\ stage' = [stage EXCEPT ![k] = Reported(k)]
  /\ result' = IF Current(k) THEN result ELSE [result EXCEPT ![k] = Absent]
  /\ UNCHANGED <<flags, queue, session, workers>>

-----------------------------------------------------------------------------
(* The workers of operations. *)

\* The flag goes up after the worker has begun: _case_worker first waits for the
\* loop to print a note.
RaiseFlag(o) ==
  /\ operation[o] = "starting"
  /\ caseAlive' = TRUE
  /\ Advance(o, "opening")
  /\ UNCHANGED <<token, running, alive, gate, queue, questions, session, change>>

\* The case has several sources: its worker lowers the flag, ends and posts the
\* choice between them to the loop (_resolve_selection).
StageSelection(o) ==
  /\ operation[o] = "opening"
  /\ caseAlive' = FALSE
  /\ Advance(o, "staged")
  /\ UNCHANGED <<token, running, alive, gate, queue, questions, session, change>>

ShowSelection(o) ==
  /\ operation[o] = "staged"
  /\ Advance(o, "choosing")
  /\ UNCHANGED <<flags, queue, questions, session, change>>

\* The operator has chosen.  The flag goes up again; whether a question was asked
\* meanwhile is not looked at.
CommitSelection(o) ==
  /\ operation[o] = "choosing"
  /\ caseAlive' = TRUE
  /\ Advance(o, "committing")
  /\ UNCHANGED <<token, running, alive, gate, queue, questions, session, change>>

CancelSelection(o) ==
  /\ operation[o] = "choosing"
  /\ Advance(o, "done")
  /\ UNCHANGED <<flags, queue, questions, session, change>>

Opens(o) == operation[o] \in {"opening", "committing"}

\* The inputs cannot be opened, or there is nothing to complete.
OperationRefused(o) ==
  /\ Opens(o)
  /\ Advance(o, "closing")
  /\ UNCHANGED <<flags, queue, questions, session, change>>

\* _commit_discovered_case, open_image, attach_*: the evidence is exchanged first.
ExchangeEvidence(o) ==
  /\ Opens(o)
  /\ evidence' = TRUE
  /\ Advance(o, "exchanged")
  /\ UNCHANGED <<flags, queue, questions, model, runner, active, latest, change>>

\* The old disk is closed and the conversation about it let go.
LetGo(o) ==
  /\ operation[o] = "exchanged"
  /\ active' = Absent
  /\ runner' = Absent
  /\ Advance(o, "indexing")
  /\ UNCHANGED <<flags, queue, questions, evidence, model, latest, change>>

\* Closing the old disk raised: what follows it is not done.
CloseRaises(o) ==
  /\ operation[o] = "exchanged"
  /\ Advance(o, "closing")
  /\ UNCHANGED <<flags, queue, questions, session, change>>

\* The case is indexed, the last investigation cleared and a conversation begun,
\* unless the store refuses one.
BeginConversation(o) ==
  /\ operation[o] = "indexing"
  /\ lastRun' = Absent
  /\ active' \in {model, Absent}
  /\ Advance(o, "closing")
  /\ UNCHANGED <<flags, queue, questions, evidence, model, runner, outcome, ground, change>>

\* _complete_worker detaches the evidence; the conversation stays active.
CompleteCase(o) ==
  /\ operation[o] = "opening"
  /\ evidence' = FALSE
  /\ Advance(o, "closing")
  /\ UNCHANGED <<flags, queue, questions, model, runner, active, latest, change>>

LowerFlag(o) ==
  /\ operation[o] = "closing"
  /\ caseAlive' = FALSE
  /\ Advance(o, "done")
  /\ UNCHANGED <<token, running, alive, gate, queue, questions, session, change>>

\* change_model raises no flag.  The model cannot be used, is the one in use
\* already, or the store refuses.
ModelRefused ==
  /\ change # Absent /\ change.step = "checking"
  /\ change' = Absent
  /\ UNCHANGED <<flags, queue, questions, session, operation>>

\* The provider has answered and a replacement conversation is prepared.
PrepareConversation ==
  /\ change # Absent /\ change.step = "checking"
  /\ change.to # model
  /\ change' = [change EXCEPT !.step = "prepared"]
  /\ UNCHANGED <<flags, queue, questions, session, operation>>

\* _activate_model_context.
ActivateConversation ==
  /\ change # Absent /\ change.step = "prepared"
  /\ active' = change.to
  /\ runner' = Absent
  /\ lastRun' = Absent
  /\ change' = [change EXCEPT !.step = "activated"]
  /\ UNCHANGED <<flags, queue, questions, evidence, model, outcome, ground, operation>>

SetModel ==
  /\ change # Absent /\ change.step = "activated"
  /\ model' = change.to
  /\ change' = Absent
  /\ UNCHANGED <<flags, queue, questions, evidence, runner, active, latest, operation>>

-----------------------------------------------------------------------------
Operator ==
  \/ \E k \in Questions : Ask(k)
  \/ Interrupt
  \/ NewInvestigation
  \/ \E o \in Operations : StartCaseOperation(o) \/ CommitSelection(o) \/ CancelSelection(o)
  \/ \E m \in Selectable : StartModelChange(m) \/ DeferModelChange(m) \/ OpenDialog(m)
  \/ TakeChoice \/ CloseDialog

QuestionStep(k) ==
  \/ NeverBegins(k) \/ TakeGate(k) \/ GateTimeout(k) \/ Enter(k)
  \/ Decline(k) \/ Examine(k)
  \/ \E how \in {"answered", "unpublished", "failed"} : RunEnds(k, how)
  \/ RecordAnswer(k) \/ AnswerNotRecorded(k) \/ CatchFault(k)
  \/ Leave(k) \/ ReleaseGate(k) \/ Report(k)

OperationStep(o) ==
  \/ RaiseFlag(o) \/ StageSelection(o) \/ ShowSelection(o) \/ OperationRefused(o)
  \/ ExchangeEvidence(o)
  \/ LetGo(o) \/ CloseRaises(o) \/ BeginConversation(o)
  \/ CompleteCase(o) \/ LowerFlag(o)

ChangeStep ==
  \/ ModelRefused \/ PrepareConversation \/ ActivateConversation \/ SetModel

ConsoleNext ==
  \/ Operator
  \/ Drain
  \/ \E k \in Questions : QuestionStep(k) \/ Render(k) \/ RenderFault(k)
  \/ \E o \in Operations : OperationStep(o)
  \/ ChangeStep

\* Threads run, the loop runs what is posted to it and fires its timers, and every
\* run and operation is bounded in time.  The operator owes nothing.
ConsoleFairness ==
  /\ \A k \in Questions :
       WF_consoleVars(QuestionStep(k)) /\ WF_consoleVars(Render(k) \/ RenderFault(k))
  /\ \A o \in Operations : WF_consoleVars(OperationStep(o))
  /\ WF_consoleVars(ChangeStep)
  /\ WF_consoleVars(Drain)

ConsoleSpec == ConsoleInit /\ [][ConsoleNext]_consoleVars /\ ConsoleFairness

-----------------------------------------------------------------------------
(* What the operator can rely on. *)

\* A question never shows the run of another one: what controller.run reads from
\* the session after ask() is this question's or nothing, although a cancelled
\* question may have finished in between and case and model changes clear it.
NoAnswerIsReplayed ==
  \A k \in Questions : result[k] \in {Absent, k}

\* While a question is inside session.ask(), the orphan of a cancelled one included,
\* no command enters (dispatch_command, _drain_deferred): no case operation, no change
\* of the model and no dialog begins.  It says nothing of what a dialog that is open
\* already, or a selection that was staged, does to the session under the question.
NoCommandEntersOverAQuestion ==
  [][(\E k \in Questions : stage[k] \in Inside)
       => /\ \A o \in Operations : operation[o] = "not begun" => operation'[o] = "not begun"
          /\ change = Absent => change' = Absent]_consoleVars

\* The stages in which a question that is still current has something to show yet.
Awaited == Stages \ {"unasked", "faulted", "faulted out", "done"}

\* Nobody waits for what nobody will do.  While the prompt says that a message is
\* being investigated, the current question has not shown its end, although its
\* gate may time out, its worker may raise or an older question may render
\* meanwhile; and a command that waits has a timer (_render_result, _drain_deferred).
NothingIsForgotten ==
  /\ running => token \in Questions /\ stage[token] \in Awaited
  /\ deferred # <<>> => armed

\* A prompt that says a message is being investigated stops saying so.
PromptComesBack == running ~> ~running

\* A command taken while a message was in flight is applied, once the operator
\* gives the console a moment (_defer_command, _drain_deferred).
DeferredAreApplied == (deferred # <<>>) ~> (deferred = <<>>)

\* "A new investigation history was started to keep model provenance separate":
\* an answer is recorded in a conversation of the model that gave it.
TurnsKeepTheirModel ==
  [][\A k \in Questions : RecordAnswer(k) => active' = ground]_consoleVars
=============================================================================
