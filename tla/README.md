# TLA+ models of dfir-agent

dfir-agent investigates a disk image, a memory image or a network capture with a
language model.  The model asks for tool calls; a budget meters them, an
oversight gate decides and records them, their results are bound to a
hash-chained log, a fixed ladder of recovery stages repairs what the model left
undone, a verifier checks the draft, and one answer, or none, is published.

This directory models that path, from the permit of a tool call and of a model
request to the entry that closes the case, and what stands around it: the console
and its threads, the external programs a run starts, the evidence a digest stands
for, what tool calls keep on disk, the pages of a large result, and the saved
conversations.  The modules are written from the code under
`src/src/forensic_agent/`; paths below are relative to it unless they start with
`src/`.

| module | what it is |
| --- | --- |
| `ToolDispatch` | the cell budget and the wrapper every tool is dispatched through |
| `MeteredCell` | the abstract promise of that budget: permits, repeats and denials |
| `ToolDispatchProofs` | its inductive invariant and nine theorems, that it is a metered cell among them |
| `OversightLog` | the recorder: chain head, sequence, file, failing writes |
| `AppendOnlyTrace` | the abstract promise of that file |
| `OversightGate` | a call between its permit and its bound result; composes `OversightLog` |
| `OversightGateProofs` | its inductive invariant and seven theorems, the refinement of the trace among them |
| `ModelRequests` | permits, bodies, re-sends and receipts of the model's requests |
| `ModelRequestsProofs` | its inductive invariant and four theorems, for every configuration of the terminal stages |
| `DraftRecovery` | the recovery stages and the draft |
| `Publication` | final check, gates and close of the case; extends `DraftRecovery` |
| `PublicationProofs` | its inductive invariant and eleven theorems |
| `InvestigationConsole` | questions, Ctrl+C, case and model operations around one session |
| `ExternalTools` | the child processes of a run, their timeouts and the cancel that kills them |
| `StoppableTools` | the abstract promise of those programs |
| `EvidenceCustody` | what stands behind a digest: passes over the medium, records, guarded runs |
| `EvidenceCustodyProofs` | its inductive invariant and five theorems |
| `ControlledScratch` | the private scratch of one run and the close that answers for it |
| `ToolOutputs` | hives, scans and artifacts that calls keep and share; extends `ControlledScratch` |
| `ToolOutputsProofs` | the inductive invariant of caches, publications and scratch, and three theorems; the promise of the external programs, and that their threads come to an end |
| `PageCursors` | the documents, cursors and pages of a result too large to show |
| `PageCursorsProofs` | its inductive invariant and three theorems |
| `ConversationStore` | saved conversations and the consoles that hold them |
| `ConversationRegister` | the abstract promise of that store |
| `ConversationStoreProofs` | the inductive invariant of the store and four theorems, that it is a register among them; four of the console |
| `MC*` | the instances TLC checks |

`PROJECT.json` lists the runs, the theorems, the findings and the hazards, and
maps every definition to its lines of code.

## Inventory

What each part keeps, does and talks to, what is hard about it, and what makes it
correct.  *Modelled* names the module; the rest is planned or left out, with the
reason, below.

**Cell budget and tool dispatch** (`agent/execution_budget.py`,
`agent/execution_dispatch.py`; *ToolDispatch*).  State: two dispatch counters,
the attempts by ordinal, the refused calls, the record of refusals and of
successes, the exhaustion reasons, a deadline, a cancellation flag.  Operations:
recall a refusal, recall a success, reserve, complete, refuse, record a success,
cancel, publish metrics.  All calls of one response run in threads of their own;
each starts a one-thread worker it waits for with a timeout and then without one.
Hard: identical calls racing each other, the answer racing the timeout, the
operator cancelling without the lock, counters moved in separate lock sections.
Correct when the ceiling on readings holds, no worker outlives its batch, every
reservation has one record, a repeat is served from one real execution, and
no permit is given after a stop.

**Oversight gate, log, lineage** (`oversight/enforcement.py`,
`oversight/audit.py`, `agent/tool_contract.py`, `agent/lineage_resolution.py`,
`agent/upstream_attestation.py`, `agent/derived_artifacts.py`,
`core/result_contract.py`; *OversightGate*, *OversightLog*).  State: the
guard's sticky violation, the memory of deterministic failures, the catalogue of
reconstructed artifacts, chain head and file.  Operations: check, judge, run,
check again, record, standardize, bind, disclose, close.  Hard: the evidence may
change between any two moments, other threads append between any two entries of a
call, a write may fail half-way.  Correct when every returned call has one true
entry, a guarded run answers from evidence without the trace of a change, a reading is
served from a recorded artifact, and an admitted result rests on the log.

**Model requests** (`agent/model_transport.py`, `agent/model_telemetry.py`,
`core/request_attestation.py`, `reserve_model` of the budget; *ModelRequests*).
State: permits by role, denials, the armed tool choice, the position of the first
turn, what the provider refused, receipts and log entries.  Hard: one request may
be several bodies (a refused control, a refused schema, a changed route), each
drawing on a shared ceiling; what building a body consumes must be put back.
Correct when ceilings and reserve hold, each body has one permit, one receipt and
one entry, and a compelled tool stays compelled.

**Investigation and recovery** (`agent/orchestration/investigation.py`,
`recovery.py`, `agent/recovery/*`; *DraftRecovery*).  State: the conversation's
end, the draft, the blocked gates, what the records say is unread.  Operations:
some fifteen stages in a fixed order.  Hard: each stage may rewrite draft,
conversation and gates, may be denied, or may raise, and later stages read what
earlier ones left.  Correct when the draft stays bound to the surviving text, when
advice costs an answer in one case only, and when no stage loops.

**Finalization and publication** (`agent/orchestration/finalization.py`,
`coordinator.py`; *Publication*).  State: draft kept aside, verification rows,
verdict, accepted source, appended statements, the close of the case.  Hard: a
retry, a denial, an exception and a late integrity violation each end the run
differently, and three records must agree.  Correct when nothing passes a gate and
the record of the case is the answer.

**Run preparation** (`agent/orchestration/preparation.py`): chooses ceilings and
switches.  Its result is an assumption and a few constants; not modelled itself.

**Evidence guard and attestations** (`core/evidence_source.py`,
`core/evidence_attestation_store.py`, `tools/tsk_tool.py`, `tools/integrity_tool.py`;
*EvidenceCustody*, and *OversightGate* for the looks around each call).  State:
the record of an earlier pass, the source an open disk image carries, the verdict
of a verification.  Operations: stream the medium, reuse or store a record, open
an image, verify it, guard a run at both ends.  Hard: nothing is locked, so a
file may be written, replaced or removed between any two looks; on some mounts
the times of a file stand still.  Correct when an identity that is found again
means the attested content, and an accepted answer rests on it.

**Console** (`tui/app.py`, `tui/controller.py`, `cli/session.py`;
*InvestigationConsole*).  State: the token of the question in flight, four flags,
a gate around the session, the commands that wait; in the session the evidence,
the model, the cached runner, the active conversation and the last run.
Operations: ask, interrupt, `/new`, case operations and the selection they may stage,
a change of the model by command or by dialog, the drain of what was deferred.
Hard: a cancelled question goes on to its end in its thread while the prompt is free
again, and callbacks run later than what they were posted for.  Correct when no question shows the run of another, no command
enters over a question, and the prompt comes back.

**External programs** (`core/toolkit.py`, `cancel_active_cells`,
`action_interrupt`; *ExternalTools*).  State: a register of children, a mark per
child, a timer per streamed child.  Operations: admit, start, register, wait,
time out, report, and the sweep of a cancel.  Hard: a child may end, time out or be
reported between any two steps of the sweep.  Correct when every call ends, leaves
no child behind, and tells a stopped tool from a failed one.

**Controlled scratch** (`core/controlled_scratch.py`; *ControlledScratch*).  State:
owners, retained workspaces, three counters, a close.  Hard: every removal and the
close itself may fail half-way.  Correct when a clean close has left nothing.

**Shared tool caches** (`tools/registry_tool.py`, `tools/bulk_extractor_tool.py`;
*ToolOutputs*).  State: a lock and a cache entry per key, the staged hive, the scan
in the scratch, staging directories and the published one.  Hard: calls that need
the same file at once, an extraction that fails half-way, and publishers in
several processes.  Correct when nobody reads a half-written output and what is
published is complete.

**Result navigator and retained results** (`agent/result_navigator.py`,
`agent/result_lineage.py`, `agent/tool_bindings/output_guard.py`; *PageCursors*).
State: retained results, bindings, the pages served.  Operations: retain, project,
bind, open a page.  Hard: several calls of one batch with the same cursor, and a
projection that may keep none.  Correct when a page is served once, no document or cursor
goes on behind an unseen record, and what was withheld stays within reach.

**Conversation store** (`cli/conversation.py`, `cli/session.py`;
*ConversationStore*).  State: one sealed file per conversation, the session each
console holds, a lock between processes.  Operations: begin, append, undo, set and
clear context, save, resume.  Hard: the session changes before the save, which can
fail or die at any step, and files change from outside.  Correct when each file is
a register written by compare and swap and memory follows it.

**Complete-output store** (`core/output_capture.py`): one bit of a call here.
**Oversight policy**, **verifier and its projection**, **answer assembly and
grounding**: pure functions; their verdicts are choices of the models.
**Tool bindings and operations**, **forensic tools**, **prompts and model
surface**, **console views**, **reports**, **host facts**, **deployment**: catalogues,
parsers over external programs, rendering and scripts, without protocol state.

Interactions: a model response (ModelRequests) asks for a batch of calls; each is
admitted by the budget (ToolDispatch), then passes the gate and leaves entries on
the log (OversightGate).  When the graph stops, the stages (DraftRecovery) issue
further requests and calls, seeing only whether they were answered, denied or
failed; finalization (Publication) draws on the same request budget.  The models
meet at those interfaces: the denial of a request and the result of a call are
choices in DraftRecovery and Publication, and what bounds them is checked in
ModelRequests and ToolDispatch.

A question of the console (InvestigationConsole) is one such run; its Ctrl+C is
`Cancel` of ToolDispatch and of ExternalTools, whose grants are ToolDispatch's
permits.  ToolOutputs composes the scratch with the caches that live in it.  The
guard of a run (EvidenceCustody) begins before its first call and ends after its
last; between them OversightGate looks at the evidence around each call.  A result
that the gate let through is what PageCursors retains, and the calls that are
served from a record there are those of ToolDispatch.  An answer ends in
`record_answer` of the console, which is `AppendTurn` of ConversationStore.

## The models

### ToolDispatch

An action is one section under the budget's lock or one step of a thread between
two.  `stage[c]` is where the thread of call `c` is inside `wrapped()`
(`agent/execution_dispatch.py:226-337`): `RecallRefusal`, `RecallSuccess`, `Reserve`,
`Submit`, then `worker[c]` runs (`RunBody`) while the thread waits, and `WaitExpires`,
`AfterTimeout`, `Quiesce`, `BodyRaised`, `CheckRemaining`, `RefuseCall`,
`CompleteCall` and `RecordSuccess` are the ways on.  `Respond` and `EndBatch` are
the graph (langgraph's ToolNode, external): it dispatches the calls of a response
concurrently and goes on when all have returned.  `Tick` is the clock, `Cancel` the
console.  How a body ends is chosen among what the domain facade lets through:
success, a declared failure, a refusal, a crash turned into a refusal, a raise.

`Reserve` is the permit, a section under the lock; `Submit` is `executor.submit`, after it
(`agent/execution_dispatch.py:264`).  A cancel or the deadline between the two does not keep
the body from starting, so what ends with the stop are the permits (`NoPermitAfterStop`).
That the interpreter cannot start a thread in `submit` is left out.

Abstracted: a call is its signature, a result its identity (the call that produced
it), time a few ticks.  `Deadline` is when the cell's clock has run out.

### OversightLog, AppendOnlyTrace, OversightGate

`Emit` is `_emit_locked`: head and sequence advance, then the line is written, may
be lost, or may be torn.  An entry is what it says, its number and its predecessor; a
digest identifies its entry, so it is that number plus one.  `legible` are the lines that
can be parsed: a torn one has no line end and takes the next with it.  `Load` reads those
and `Verify` compares predecessors.  An append that fails has moved the head already, so what `ChainVerifies`
promises ends there.  `AppendOnlyTrace` says what a reader may rely on; `TraceOnlyGrows`
is that specification with `Load` for the trace.

In `OversightGate` a call goes from the standardizer's prologue (`Resolve`,
`RefuseUnproduced`) through `enforce()` (`PreCheck`, `Alarm`, `Judge`,
`CheckArguments`, `RunBody`, `PostCheck`, `Settle`, `Record`) to the standardized,
bound and projected result (`Standardize`, `Bind`, `BindVisible`, `Sidecar`).
`Admissible` is `result_is_admissible`, a definition over the state, since the final
check reads what the log and the resolver hold.  `SourceChanges` is the host.

A run has a guard or not (`guarded`): the console passes none (`cli/controlled.py:1390-1440`),
and then `_evidence_integrity_failure` checks nothing (`oversight/enforcement.py:167-169`).  The
checkpoints around a tool compare metadata only (`core/evidence_source.py:783-788`), so `source`
says whether the metadata show the trace of a change (`Traces`): a write that keeps size and
times, or puts the times back before the guard looks, leaves none and passes (`:2044-2046`
reads the content for that reason; `EvidenceCustody` has that check).  What is promised of
answers (`GuardedAnswersShowNoTrace`) and of admitted results is therefore "no trace, if
there is a guard", and not that the evidence is intact.

`Registers` is the catalogue of reconstructed artifacts: a reading is served an artifact only
when a call that executed and was retained has registered it, which `ServedFromARecordedCall`
relates to the log.  That this chain ends at the evidence is not claimed, since a
derived reading is never admissible (see the findings).

### ModelRequests

`Investigate`, `ConcludeAfresh` and `ConcludeOn` open a request, `Dispatch` takes a
permit and attests a body, and the provider answers, refuses a control
(`RefuseChoice`), a schema (`RefuseFormat`), rejects a re-routed body (`SwapRoute`)
or fails.  `rows` keeps every body of every request as the receipts ledger does, and
`chain` counts the log's entries.  A body is its tool choice, its palette and
whether it carries a schema.  Which terminal stages a run has (`Recover`, `Verifies`) fixes
the share that is kept for them: `Reserve` is two for each, as
`agent/orchestration/preparation.py:201` computes it, and the budget refuses a share
that leaves the investigation nothing.

### DraftRecovery, Publication

`stage` is the stage about to run; `Order` is the order of
`_run_deterministic_recovery` and `_execute_runtime`.  Every stage is one or more
actions: not applicable, answered, denied, failed.  A text is an identity with the
kind the code reads off it.  What the records say of the evidence is four pieces of
state any exchange may move (`Reads`): an unread region, an open enumeration, the
number of sources without a result, and whether the tool budget closed a call.

`arm` is the configuration: the set of switches that are on, within what
`agent/orchestration/preparation.py` admits.  `Publication` adds the three ways to publish
(`Assemble`, `PublishRaw`, the checked path), the retry ladder of the verifier, the
exceptions that leave a stage (`Raise`) and `CloseCase`, which runs in the `finally`.

### InvestigationConsole

The application's loop runs one key, command or callback to its end, so each is an
action (`Ask`, `Interrupt`, `NewInvestigation`, `StartCaseOperation`,
`StartModelChange`, `DeferModelChange`, `OpenDialog`, `Drain`, `Render`).  The worker of a question
goes through `_investigate`, `controller.run` and `session.ask`: `TakeGate` or
`GateTimeout`, `Enter`, `Decline` or `Examine`, `RunEnds`, `RecordAnswer` or
`AnswerNotRecorded`, `Leave`, `ReleaseGate`, `Report`.  A case operation raises its flag,
exchanges the evidence, lets go of the old disk and begins a conversation; a change of
the model asks the provider, activates a conversation and only then sets the model.
The session is what those steps share: `evidence`, `model`, `runner`, `active`,
`lastRun`, `outcome`.  A question is its number, a conversation the model it is bound to.

`/model list` and `/setup` begin while the console is free, but read from the provider
before and between their screens, with the prompt there; what is chosen in them takes
effect without another look at the flags (`OpenDialog`, then `TakeChoice` or `CloseDialog`).  A case
with several sources ends its worker and leaves a selection to the loop
(`StageSelection`, `ShowSelection`), which commits it without such a look as well
(`CommitSelection`, `CancelSelection`).  So a change of the model or a commit may reach the
session under a question that is inside `session.ask()`, and in the model it does; what
holds is that no *command* enters over one (`NoCommandEntersOverAQuestion`).  A screen of
choices is modal (`AtPrompt`).  Bounds: one change at a time, a dialog and a command that
waits exclude each other, and the choice is another model.  Left out: a selection that is
staged when the console starts (`tui/app.py:2585`).

### StoppableTools, ExternalTools

`StoppableTools` is the promise: a granted tool is started or refused and comes to an
end, a stopped one is told as stopped (or as timed out), and after the first stop
nothing is granted.  In `ExternalTools` the thread of a call takes the steps of
`run_external` or `stream_external` (`Popen`, `Register`, `TimeOut`, `Expire`, `Reap`,
`Report`), the program ends when it likes (`Exits`), and Ctrl+C is `Cancel`, `Copy` and
then `Poll`, `Mark` and `Kill` per child.  `ToolOf` is the refinement mapping: a child is
"stopping" from the moment it is marked.  Left out: a consumer of a stream that stops
reading early and kills the child itself.

### EvidenceCustody

The medium is files under the names of its segments; an identity is a file and its
two times.  A pass is `Begin`, `OpenSegment` and `ReadBlock` as often as needed, and
`Finish` with the looks its format and purpose prescribe.  Opening an image is `Reuse` of
a record or `StreamForOpen`, `FinishOpen`, `Store`; then `Scan` by the parser and
`Recheck`.  `Verify` streams again and compares.  A guarded run is `StartRun`, `ToolReads`,
`EndRun` and `FinishGuarded`; `Violated` and `Fails` take back what it read.  `Change` is
the host: overwriting a block, putting a file in the place of another, removing one,
setting a time back, or a quiet write that leaves the times alone.

Two assumptions about the host: nobody can set the status time of a file, and a quiet
write is there to stay.  One console is enough in the instance, because
consoles meet only in the stored record: `Leave` followed by another opening is a second
process that finds the record of the first.

### ControlledScratch, ToolOutputs

Every section of the scratch session runs under its lock and is one action:
`Allocate`, `AllocationFails`, `Release`, `Retain`, `Close`.  `ToolOutputs` extends it with
what calls do in those workspaces.  `call[c]` is the tool and the step of the call:
an artifact, a hive (`ReuseHive`, `BeginExtraction`, `ExtractionEnds` or
`ExtractionFails`, `ParseEnds`) or a scan (`ReuseScan`, `BeginScan`, `ScanEnds`,
`Published`, `ReadEnds`).  A publisher, which is the run, a case opening or another process,
fills a staging directory, the manifest last, and renames it (`BeginPublication`,
`Stage`, `Rename`, `RemoveEntry`, `Removed`).  A file is missing, empty, partial or whole.

### PageCursors

`CallTool` retains the complete result; `Deliver` shows a document that keeps as many
records as fit and may bind a cursor to where it ended; `FindPage` and `ServePage` or
`RefusePage` are the two halves of `page`, before and inside the lock; `StandIn` is the
error that is shown when no document can be made.  A result is the records it covers, a
cursor the number of the document it was offered in.

A refusal of a spent cursor names the offset at which the tool itself goes on, whatever
became of the page that was served (`RefusePage`, `pointed`).  The tool may be called there
(`Origins`), which begins a new reading: `since` is the record where the reading a result
goes on with began.  `DocumentsSkipNothing` says that documents and cursors step over nothing
since then.  The refusal does step over records; six steps of the model show it, and it is
listed as a finding.

### ConversationRegister, ConversationStore

`ConversationRegister` is a register per conversation, written by compare and swap.  In
`ConversationStore` a change (`AppendTurn`, `UndoFromContext`, `Note`, `NewSession`) alters
the session and seals the document; `Lock`, `Compare`, `Conflict`, `Replace` and `Fail` are
`_persist`; `Crash`, `RemoveFile` and `DamageFile` come from outside.  While a save is
under way, what a console has seen is the document before the change (`Seen`), and a
damaged file holds nothing (`Stored`): this is the refinement mapping.  A document of more
than `max_turns` turns is not read at all (`cli/conversation.py:1253`), so `Documents` has
none.  `Loaded` is the
upgrade of documents that earlier versions wrote.

## Runs

| run | instance | shows |
| --- | --- | --- |
| `dispatch` | 3 interchangeable calls; a readable, a refused and a navigation signature; 2 readings, 1 page; deadline after 1 tick | `ReadingsMetered`, `QuietBetweenBatches`, `CachedAnswersAgree`, `CellIsMetered` |
| `dispatch_live` | 2 calls, no symmetry, with fairness | `BatchReturns` |
| `gate` | 2 calls; an extracting, a rereading and a reference signature (which the contract refuses); with and without a guard; one torn or lost write | `OneTrueEntry`, `GuardedAnswersShowNoTrace`, `AdmittedRestsOnTheLog`, `ServedFromARecordedCall`, `ChainVerifies`, `TraceOnlyGrows`, `StableFailuresAreNotRetried` |
| `requests` | 4 steps, ceiling 7, both terminal stages (a reserve of 4), 1 resend, 2 turns, 2 requests | `ReserveSuffices`, `EveryDispatchIsOnRecord`, `CompulsionSurvives` |
| `publication` | 4 configurations, 6 kinds of text, 2 attempts, 1 restatement, 2 sources | `DraftIsTheSurvivingText`, `NothingPastAGate`, `UnconfirmedTextNamesItsGap`, `AbsenceStatesItsBound`, `RecordAgreesWithAnswer`, `EveryStepAdvances` |
| `console` | 2 questions, 1 case operation, 2 models, 1 deferred command | `NoAnswerIsReplayed`, `NoCommandEntersOverAQuestion`, `PromptComesBack`, `DeferredAreApplied` |
| `console_model` | the same console | finding: a turn is filed under a model that did not give it |
| `tools` | 2 blocking and 1 streamed program, with fairness | `ToolsKeepThePromise` |
| `custody` | 1 console, sets of up to 2 segments of 2 blocks, 2 changes, both formats, with and without quiet writes | `IdentityNamesContent`, `OpenedAsAttested`, `AcceptedAsAttested`, `MatchesMeanUnchanged` |
| `outputs` | 2 calls, 1 hive, 1 image, 3 publishers | `ReadersSeeWholeOutputs`, `PublishedIsComplete`, `CloseIsAccountedFor` |
| `pages` | 3 threads, 5 records, 4 at a time, 2 tool calls, 5 documents | `DocumentsSkipNothing`, `PagesAreServedOnce`, `WithheldIsReachable` |
| `store` | 2 consoles, 1 id, 2 turns, 2 saves, files of two earlier formats | `TypeOK`, `RevisionNamesContent`, `StoreIsARegister`, `TurnsAreKept` |

### Bounds, and why they are enough

*Dispatch.*  Three calls are what the sharpest race needs: two identical calls that
both miss the record and a third that is served from it, under a ceiling of two
readings so that a refusal must give one back for the third to run.  One tick
separates before and after the deadline; more ticks only repeat it, as no guard
compares two times other than with the deadline.  Symmetry over calls is sound for
the safety run (no call is named) and not used for liveness.

*Gate.*  Two calls interleave at every lock; the third role, the parent of a
reading, is the other call.  The signatures are one per way a result gets its
class; extracting and rereading may yield derived results (`DerivingSigs`).  A change of the
evidence may leave a trace at any moment, or none.  One faulty write exercises every append,
since it may hit any of them.

*Requests.*  One resend is the code's own value (`PROVIDER_SWAP_MAX_RESENDS`); two
turns exercise what is put back and what is charged again; the ceiling is reached in every role.

*Publication.*  The code's restatement cap is 2 and its attempts 3: with 1 and 2 the
first, a repeated and the last pass are all distinct.  Two sources make "one missing"
differ from "all missing".  The theorems below hold for every value of these bounds.
The four configurations are the console's, a check of single sources, the assembled
answer and the raw one; the theorems hold for every admissible set of switches.

*Console.*  Two questions are the cancelled one that goes on and the one that is asked
meanwhile; a third would wait at the same gate.  One operation and one selectable model
meet a question at each of its steps; one deferred command is what `Drain` takes, since of
several only the last is applied.

*Tools.*  Three calls are one in the sweep's hand, one still in its copy and one that was
started after it, with both kinds of runner between them.

*Custody.*  Two segments have a boundary where the next is opened, two blocks a place
behind and before the reader.  Two changes are one that is hidden by another, the case in
which a look could be fooled.

*Outputs.*  Two calls meet at one lock; a third would wait behind them.  The three
publishers are those the code has: the run, a case opening in the same process, and
another process.

*Pages.*  Five records at four a call are a result that continues and one that ends;
three threads are a call, and two openings of one page at once.

*Store.*  Two consoles are what a compare and swap needs; two saves beyond those of an
older file let each of them win once; two turns make the third push out the first.

No run needs a state constraint: requests, statements and calls are bounded by the
code's own ceilings or by the named constants (`MaxRequests`, `MaxWriteFaults`,
`MaxDeferred`, `MaxChanges`, `MaxResults`, `MaxViews`, `MaxSaves`, `Calls`).
`ToolDispatch`, `OversightGate`, `ModelRequests` and `Publication` have a `Done` step for
their terminal state and are checked for deadlock.  The runs `store`, `console`,
`outputs`, `pages`, `custody` and `tools` are not: there the system really stops, when the
bound on what operator or host may do is used up.  Where stopping early would be wrong it
is a liveness property (`PromptComesBack`, `DeferredAreApplied`, `ToolsKeepThePromise`).

`TypeOK` of each module documents its state; the proofs build on those of `ToolDispatch`,
`Publication`, `ModelRequests`, `ToolOutputs`, `ControlledScratch` and `ConversationStore`,
and the run `store` checks its own.

### Fairness

*`dispatch_live`.*  `WF(Thread(c))`: a started thread is scheduled, and no
step of `wrapped()` waits for anything but its own worker.  `WF(RunBody(c))`: a tool
body ends, because external tools run under a timeout clamped to the cell's deadline
and are killed (`core/toolkit.py:120-133`, `:258-268`); a body that never returned
would hold the second, unbounded wait for ever, which is the code's own stated
choice.  `WF(EndBatch)`: the graph goes on when all calls returned.  Nothing obliges
the model to ask, the clock to run out or the operator to cancel.

*`console`.*  `WF` of the steps of a question, of an operation and of a change of the
model: each has a thread, and what it waits for is bounded (the gate by
`_ASK_GATE_WAIT_S`, the run by the deadline of its cell, the provider by its timeout).
`WF` of a posted callback and of the drain's timer: the loop runs them.  The operator owes nothing.

*`tools`.*  `WF(Thread(c))`, because every wait of a thread has a timeout.  A program need
not end by itself, nobody has to cancel, and the cancelling thread need not finish its sweep.

`Publication` needs no fairness: its step-counting property
(`EveryStepAdvances`) is a safety property that bounds the length of every run.

### Refinements

Four abstract specifications are properties of a run: `ToolDispatch` implements
`MeteredCell` (`CellIsMetered`), `OversightLog` implements `AppendOnlyTrace`
(`TraceOnlyGrows`), `ConversationStore` implements `ConversationRegister`
(`StoreIsARegister`), and `ExternalTools` implements `StoppableTools` with its liveness
(`ToolsKeepThePromise`).  All are also proved, the last without its liveness.

`MeteredCell` has no thread, no ordinal and no record: a call asks, and is permitted,
denied, or answered as a repetition of one that was settled.  `CallState` reads that off
the stage of its thread and its answer, `RunIsOver` off the flag and the clock.  Since a
permit is given before the stop only, `NoPermitAfterStop` needs no run of its own.

## Proofs

**ToolDispatch** (`ToolDispatchProofs`), for any finite set of calls, any signatures,
ceilings and deadline (`SignaturesAssumption`, `CeilingsAssumption`,
`CallsAssumption`: what `__init__` refuses, plus finiteness).  `TypeCorrect`,
`ReadingsCeiling`, `QuietCell`, `ServedOnce`, `StopIsFinal` and `Invariance`.
None of the properties is inductive: that the ceiling holds depends on the counters
agreeing with the calls that hold a permit, which depends on refusals being counted
once, which depends on where each thread is.  So the invariant joins the type, what
each stage implies (`StageInv`), that ordinals are distinct and below the counter
(`PermitInv`), that exactly the finished permits are recorded (`RecordInv`), that the
counters are the cardinalities of those sets (`CountInv`), and what holds between
batches (`TurnInv`).  The run `dispatch` checks it; the proof has one step per action.

`CellRefinesMetering` maps each of those actions to a step of `MeteredCell` or to a
stutter (`ThreadMetered`, `RespondAsks`, `StepMetered`).  Two things make it work.  The
code compares a difference of two counters with the ceiling, `MeteredCell` counts the calls
that hold a permit: `CountInv` equates them (`ReadingsCounted`, `CellCounts`,
`RoomIsCounted`).  And an answer from the record must repeat a call that was *settled*, so
`SeenInv` says that whatever is recorded was asked by a call that has answered or refused.

`EveryCallRunsOut` is what `BatchReturns` rests on beside fairness, and
`RecordedIsNotReadAgain` says that a repeat reserves nothing: a call that was asked has a
number of steps left, at most nine, which its own thread and its body use up and nobody gives back; until
it is decided, one of the two has a step to do that waits for no other call
(`NoCallIsStuck`); and what a recall finds in the record is not reserved.

**Publication** (`PublicationProofs`), for every set of configurations the assumption
admits, every cap, number of attempts and sources (`RecoveryAssumption`,
`NoneAssumption`).  All properties of the run `publication` are theorems.
The argument has two halves.  While the recovery runs (`DraftInv`): before `Conclude`
there is no draft; from there on, a usable draft is the conversation's last text,
except in the middle of a repeated statement, where it is known that something was
said.  This is needed because `DraftIsTheSurvivingText` says nothing between two
statements, and the step out of the loop takes the draft from the conversation.  When
the run is decided (`Undecided`, `Held`, `Decided`): the draft under verification has
passed the gates of before, every decision either releases a text past all gates or
leaves nothing, and closing the case hands out that or takes it back.  One lemma
(`DecisionStep`) carries the eleven ways to decide.  `StagesAdvance` rests on the
positions of the stages (`Positions`, `RecoveryAdvances`), `TypeCorrect` on a separate
type invariant.  That no run of stages is infinite follows from `StagesAdvance` with
`TypeCorrect`: positions, passes and rows are bounded; this last conclusion is a
liveness statement and is not itself proved.

`GapsAreNamed` is what the checked path promises of a text the verifier did not confirm: the
draft it was given, with the gap stated.  The architecture documents promise less of such a
text, namely that there is none; see the findings.

**OversightGate** (`OversightGateProofs`), for any set of calls and signatures, any bound
on failing writes and any ways they fail (`GateAssumption`, `WriteFaultsAssumption`).  The
log comes first (`LogInv`): while nothing was lost the lines are the entries in order
(`LinesInv`), and all lines are legible while all are whole (`LegibleInv`).  From it
`ChainVerifies` follows, and the trace only grows because a line that was legible stays so.
For a call, `BodyInv` says what its stage implies of the body and of the evidence it read
from, `EntryInv` that before its turn it has no action entry, that one with a number has
exactly one, and that what was bound came later.  `OneTrueEntry` speaks of calls that came
back; it is inductive only with what is known of a call that has not.
`StableFailuresAreNotRetried` rests on the memory of failed calls being written before the
entry is.  For `ServedFromARecordedCall` the invariant says that the producer in the catalogue
executed, was retained and is on the log, and that a parent was the producer when it was
looked up, before its reading was recorded.

**ModelRequests** (`ModelRequestsProofs`), for any ceiling, bounds, policy and either terminal
stage on or off (`RequestsAssumption`, `NoBodyAssumption`).  `FlightInv`: the request in
flight is the last row, and has a receipt once it is sent.  `ArmedInv`: what the transport
will take when it builds the next body agrees with what that row asked, also after a
refusal has put it back; without it `CompulsionSurvives` (`FaithfulInv`) says nothing of
the body to come.  `PermitInv` equates the permits of a role with the pairs of row and
place that stand for its bodies, and keeps the investigation within its share; `ChainInv`
does so for the log.  `ReserveSuffices` is then counting: rows of the conclusion with one
body each have as many permits as there are rows (`OnePermitEach`), so with at most two of
them the ceiling is not met (`ShareLeft`).

**ConversationStore** (`ConversationStoreProofs`), for finite sets of consoles and ids, any
older files, any failures and crashes (`StoreAssumption`).  `SessionInv`: a pending change
is the session's document, one revision after the one it was made from, grown by one turn
or less.  `UnsharedInv`: the birth of a conversation about to be created is nobody else's.
`FilesInv`: what any console has seen of a conversation is behind its file, and equal to
it where the revisions are equal.  `ComparedInv`: once the comparison was made, nobody has
seen anything newer than what it compared with, which is what the lock buys and why
`Replace` may write without looking again.  The refinement of `ConversationRegister` maps
`Replace` to a write, `Resume` and the failures to reads or stutters.

**InvestigationConsole** (at the end of `ConversationStoreProofs`, which extends both modules,
so that they share no name), for any questions, operations, models and bound on the queue
(`ConsoleAssumption`).  `ConsoleTypeOK` says who holds the gate: a question does exactly while
its worker is between taking and releasing it, and `alive` says whether one is inside
`session.ask()`.  That is all `NoCommandEntersOverAQuestion` needs, for
`dispatch_command`, dialogs included, and the drain ask whether the console is `Free`.  For
`NoAnswerIsReplayed`, `QuestionInv` says that from the entry of a question to its end the
outcome is its own, and `last_run` its run or nothing as soon as it has one.  A step is of
the question at the gate (`Inner`) or beside it (`Beside`: the operator, the drain, the
workers of operations, the questions outside), and those at most clear `last_run`.

`SomebodyIsAtIt` (`NothingIsForgotten`) and `EveryQuestionRunsOut` are what `PromptComesBack` and
`DeferredAreApplied` rest on beside fairness.  While the prompt is busy, the question whose
token it carries has a stage that still leads to `Render`, `RenderFault` or a report
(`AwaitedStays`), whoever else renders or faults meanwhile; the timer of the drain stops
only when nothing waits (`TimerStays`).  And a question that was asked has at most ten
steps of its own left (`QuestionStepsLeft`), which nobody else gives back.

**EvidenceCustody** (`EvidenceCustodyProofs`), for any consoles, numbers of segments and
blocks, and changes (`CustodyAssumption`, `NoneAssumption`).  The key is `Witness`: while the
file has the identity that was noted, it has the content that was read.  An attestation
holds it for all its blocks (`SourceInv`), a pass for what it has read so far from the file
it began with (`PassInv`), an opening for what the parser resolved (`ScannedInv`).  During a
guarded run no times are relied on: versions of a block only go up, so that the attested,
the read and the present one are in order (`RunningInv`), and the closing pass, which
finds the attested one again, squeezes the read one between the two.  That no status
time can be set back enters as one lemma about how files change.

**ToolOutputs and ControlledScratch** (`ToolOutputsProofs`), for any finite set of calls and any
publishers (`ScratchAssumption`, `OutputsAssumption`).  Who works on a hive or a scan holds its lock (`LockInv`), an
entry of the cache never names what is being made (`HiveInv`, `ScanInv`), a staging
directory has its manifest last (`PublicationInv`).  For the close, what was allocated is the
sum of what is out, what came back and what was retained (in the type invariant of the
scratch), and a session ends after its last call (`RunInv`).

**ExternalTools** (`ToolOutputsProofs`, as the instance `Ext`), for any finite set of calls,
any of them streamed (`ToolsAssumption`, here a hypothesis).  The refinement of
`StoppableTools` needs two things of the cancel: what the sweep kills it has marked before,
and everything it copied was registered (`SweptInv`); nothing is marked, killed or told as
stopped before the cells know, and nothing without its mark (`ToldInv`).  Then a step of a
thread is a step of the tool of its call or not seen, `Mark` is `Stop` or not seen, and of
the rest of the cancel, and of a program that ends, nothing is seen.  Proving it showed
that the first form of `ToolOf` was a `CASE` whose arms overlapped for a marked call that
has ended; it is now decided in order.

The liveness of `StoppableTools` has a safety core as well.  `NoThreadWaitsInVain`: a child
that is waited for was started, and one whose watchdog has fired is dead, also where it
fired before the child was registered (`WaitInv`).  `EveryToolRunsOut`: the thread of a
granted call has at most five steps left, and each of its steps uses up one.

**PageCursors** (`PageCursorsProofs`), for any threads, sizes and bounds (`PagesAssumption`).  Each place at which
something may go on (a result, a document, a binding, a thread at work) has behind it only
records that were shown since its reading began (`ResultInv`, `ViewInv`, `BindingInv`, `WorkerInv`); `DocumentsSkipNothing` speaks of
two of them, but the steps pass a place from one to the next.  `OnceInv` says where a spent
cursor is: with one thread or in one document.  `WithheldIsReachable` is inductive with these.

**Proved, and in no run**: the type invariants and inductive invariants, `ReportsAreJudged`,
`OnlyAStandingAbsenceIsWithheld`, `CheckLosesNoDraft`, `NoPermitAfterStop`, `NothingIsForgotten`,
`RecordedIsNotReadAgain`, `NoThreadWaitsInVain`, and the bounds on steps
(`EveryCallRunsOut`, `EveryQuestionRunsOut`, `EveryToolRunsOut`).  TLC agreed with each before
it was proved.

**Model-checked only**: liveness (`BatchReturns`, `PromptComesBack`, `DeferredAreApplied`, and in `ToolsKeepThePromise` that every tool comes to an end), and the
finding `TurnsKeepTheirModel`, which is false.  Fairness and ENABLED are beyond the prover.
What is proved of them is named above: nobody who is waited for is missing, and the
steps of a call, a question or a tool run out.  That the step which is left is *enabled*, and
is taken, is what TLC checks.

## Findings

One run ends in a counterexample.  `console_model`: `_change_model_worker`
(`tui/app.py:5639`) raises no flag, so `_ask` takes a question while `change_model` still
waits for the provider.  The question is examined by the runner of the old model, and
`record_answer` files it in the replacement conversation, which
`cli/session.py:1843-1844` announces as one that keeps "model provenance separate".

Four more are in the models as the code has them, without a run that ends in one:

- The facade marks every exception of an operation deterministic, so a transient error is
  answered as a repeated refusal within its cell (`agent/tool_bindings/tool_interface.py:1213`
  against `agent/execution_dispatch.py:84-89`: "a repeated failed call must actually run").
- A draft of before the verifier is published, with the gap named, whenever the check is
  denied, fails, is inconclusive or doubts (`_publish_draft_with_verification_gap`,
  `agent/orchestration/finalization.py:201`).  `src/docs/ARCHITECTURE_OVERVIEW.md:43` says that it "is
  never accepted as a fallback", `src/docs/ARCHITECTURE_DETAIL.md:610-612` that it is "restored
  only on full success".  `CheckLosesNoDraft` states what the code does, and is proved but not
  claimed as a promise of the program; the run checks `UnconfirmedTextNamesItsGap`.  The
  docstring of that function says a contradicted claim never reaches it; the contradicted
  branch calls it.
- The model is changed, and a staged case committed, under a question inside
  `session.ask()`, by the dialogs that do not look at the flags again
  (`tui/app.py:5740`, `:5889-5897`, `:6470-6475`, against the comment at `:3537-3540`); see
  `TakeChoice` and `CommitSelection`.
- The refusal of a spent cursor may name a place behind records that were not shown
  (`agent/result_navigator.py:289-297` against `:24-26`); see `pointed`.

Disagreements with a sentence of the repository that the models represent as the code
has them; the properties are stated so that they hold with them:

- The head of the log advances before the write; one failed append makes every later entry
  name a predecessor that is not in the file (`oversight/audit.py:184`,
  `src/README.md:9`).
- The refusal after the body loses the capture its entry was bound to, and the
  standardizer raises instead of answering (`oversight/enforcement.py:463` against `:267`,
  `agent/tool_contract.py:1058-1063`).
- A derived reading names as its source something that is never an attested case source,
  so it is never admissible (`agent/upstream_attestation.py:237` against
  `src/tests/test_derived_artifact_provenance.py:3-8`).
- The reserve of model requests counts requests, the budget counts bodies: re-sent bodies eat
  the verifier's share under a ceiling one lower
  (`agent/orchestration/preparation.py:195-201`).
- An empty terminal reply revives a text a stage had discarded
  (`agent/orchestration/recovery.py:1039` against `:458-460`, `:691`).
- An exception after `Conclude` leaves the draft in place, and the case is closed with it
  under the status `ok` (`agent/orchestration/finalization.py:1521` against
  `src/docs/ARCHITECTURE_DETAIL.md:611`).
- Documents of format v4 are loaded without the identity of their inference, and `resume`
  refuses what has none (`cli/conversation.py:1201`, `:1066`).
- A child that a granted call starts after the sweep, or that is not registered yet when the
  register is copied (`core/toolkit.py:255`/`:274`, `:356`/`:384`), runs until its timeout, against
  "A cancelled run must not leave one running" (`:145`).  `StoppableTools` lets a granted tool
  still start.

Observations without a run of their own, met while modelling:

- Where the tool budget closes only the forensic ones of several parallel calls, an
  unanswered navigation call stays behind in the conversation (`agent/orchestration/recovery.py:318-349`;
  `calls = "deferred"`).
- Assembled and raw answers carry no absence bound, although `agent/orchestration/finalization.py:95` says
  one rule is applied to whoever wrote the report; `AbsenceStatesItsBound` is therefore
  stated for the checked path.
- The raw arm files internal reasoning as `draft_not_bound_to_a_model_response`.
- A first terminal reply that is no answer, followed by an empty re-issue, is withheld
  because it is no longer the surviving text.
- *Console.*  `record_answer` calls `ensure_started()` outside its `try`, so a conversation that
  cannot be begun leaves `ask` with an exception.  An answer may still render after its
  question was cancelled, as the token is compared before the callback is posted; a question
  cancelled while it waits for the gate still runs.  The flag of a case operation goes up
  after its worker has begun (`tui/app.py:6282`).  `_complete_worker` detaches the evidence
  and leaves the conversation active; `_commit_discovered_case` closes the old disk between
  exchange and discard, and an exception there skips the rest.  A runner may be rebuilt for the
  old model, and an answered question comes back empty when a change of the model clears the
  last run.
- *Custody.*  The console passes no attestation to its runs (`cli/controlled.py:1390-1440`), so they
  have no runtime guard, although `src/docs/ARCHITECTURE.md:189` shows one; the guarded run of
  the model is that of a caller that does pass one.  The passes over one file and over an EWF
  set do not discover membership again, which later looks do; `hash_image` of an EWF set looks
  at no times.
- *Scratch and caches.*  `_cached_scan` (`tools/bulk_extractor_tool.py:169-182`) rejects any
  directory outside the controlled root, so the entry of a published scan is dropped at each
  call.  Names of staging directories carry only the process (`:1174`, `:1317`), as does a temporary
  attestation (`core/evidence_attestation_store.py:107`).  `_source_digest` is cached per
  path.  An exception between the creation of a scratch session and its `try`
  (`cli/controlled.py:1273`, `:1302`) leaves it unclosed.
- *Pages.*  A projection that keeps nothing offers a
  cursor that was never bound (`agent/tool_bindings/output_guard.py:546-569`, `:166-172`), the last disjunct of
  `WithheldIsReachable`.
- *Store.*  A change of the case context that fails leaves the conversation that was begun for it.

## Not modelled, and why

Text: parsing, wording, prompts, projections, the verifier's claims, the regular
expressions that recognise an absence or a document.  They decide which kind a text
has; the models take every kind.  Numbers: metrics, elapsed times, token counts.
The policy's path rules, the parsers of the forensic tools and what they find.
The loops over pages and carved files inside one recovery stage are one step, as they
only read.  `EvidenceStudyLease` has no caller.

*Run preparation* (`agent/orchestration/preparation.py`) chooses ceilings and switches;
its result is an assumption and a few constants.  The *complete-output store*
(`core/output_capture.py`) is one bit of a call in `OversightGate`.  The *entity index*
(`tools/entity_index.py`), scans of images of unknown digest, byte pages and citations of the
navigator, leases on Windows and views of the console are left out of the modules next to
them.  The forensic wrappers, the largest part of the code by lines, are parsers over
external programs: what they share is in `ToolOutputs`, what starts their programs in
`ExternalTools`, and the rest is a function of bytes.

## Plan

1. Citations and byte pages of the navigator, beside `PageCursors`.
2. The stores of `core/output_capture.py` and `tools/entity_index.py`, beside `ToolOutputs`.
3. The preparation of a run, as what it hands to `ModelRequests` and `DraftRecovery`.

A run answers one question; a violation run makes room where a wider property arrives.
