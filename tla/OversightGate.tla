---------------------------- MODULE OversightGate ----------------------------
(***************************************************************************)
(* The path of a tool call between its permit and its answer: the prologue *)
(* of the standardizer, enforce() with the evidence guard, the policy, the *)
(* memory of failed calls and the argument contract, the entry on the      *)
(* oversight log, and the binding of the standardized result and of its    *)
(* projection to that log (RunLineageResolver).                            *)
(*                                                                         *)
(* Every call of a batch runs in a thread of its own.  The threads share   *)
(* the guard, the memory of failed calls, the catalogue of reconstructed   *)
(* artifacts and the log, each behind its own lock: an action is one       *)
(* section under one of those locks.                                       *)
(***************************************************************************)
EXTENDS OversightLog, FiniteSets

CONSTANTS
  Calls,          \* the tool calls of the run
  Signatures,     \* (function, arguments) identities of a call
  DeniedSigs,     \* those the policy denies
  InvalidSigs,    \* those the argument contract refuses
  ProducingSigs,  \* those that write an artifact out of the evidence
  ReadingSigs,    \* those that read that artifact back
  DerivingSigs,   \* those whose result is computed, not read verbatim
  ReferenceSigs,  \* those that read a bundled reference table
  None

ASSUME GateAssumption ==
  /\ \A s \in {DeniedSigs, InvalidSigs, ProducingSigs, ReadingSigs, DerivingSigs,
               ReferenceSigs} :
       s \subseteq Signatures
  /\ ProducingSigs \cap (ReadingSigs \cup ReferenceSigs) = {}
  /\ ReadingSigs \cap ReferenceSigs = {}
  /\ None \notin Signatures \cup Calls

\* What enforce decides of a call: the four outcomes of the record, and
\* "withheld", recorded as failed with the guard's violation as its detail.
Outcomes == {"executed", "failed", "withheld", "refused_by_oversight", "refused_by_tool"}

\* How the tool body ends; "refused" is a failure it declares deterministic.
Endings == {"ok", "failed", "refused", "raised"}

Classes == {"observed", "derived", "reference", "diagnostic"}

Over   == {"idle", "returned", "raised"}
Stages == Over \cup {"resolve", "unproduced", "pre_check", "pre_alarm", "policy", "contract",
                     "run", "post_check", "post_alarm", "settle", "record",
                     "standardize", "bind", "bind_visible", "sidecar"}

VARIABLES
  guarded,      \* whether the run was given an evidence guard at all
  source,       \* whether the metadata of the evidence show that it was changed
  violated,     \* EvidenceSourceRuntimeGuard._violation_detected
  failedCalls,  \* _deterministic_failed_calls
  producer,     \* the catalogue: the call that wrote the artifact first
  closed,       \* close_case was recorded
  asked,        \* what each call asks
  stage,        \* where the thread of each call is
  body,         \* how the tool body of each call ended
  readFrom,     \* what the source was when the body had finished reading
  captured,     \* whether the complete output was retained
  outcome,      \* the outcome enforce decided on
  action,       \* the digest of the entry that recorded the call, 0 for none
  parent,       \* the call whose artifact a reading call was served
  class,        \* the evidence class of the standardized result
  bound         \* the digest of the entry that binds each traced result, 0 for none

sharedVars == <<guarded, source, violated, failedCalls, producer, closed>>
callVars   == <<asked, body, readFrom, captured, outcome, action, parent, class, bound>>
vars       == <<logVars, sharedVars, stage, callVars>>

Artifacts == {"complete", "visible"}

\* A change leaves a trace in the metadata of the files unless it keeps their size and their
\* times, or puts the times back before the guard looks; the evidence without a trace may be
\* intact or not.
Traces == {"untraced", "traced"}

TypeOK ==
  /\ head \in Nat /\ seq \in Nat
  /\ \A i \in 1 .. Len(lines) : lines[i].write \in {"whole"} \cup WriteFaults
  /\ legible \in Seq(1 .. Len(lines))
  /\ source \in Traces
  /\ {guarded, violated, closed} \subseteq BOOLEAN
  /\ failedCalls \subseteq Signatures
  /\ producer \in Calls \cup {None}
  /\ asked \in [Calls -> Signatures \cup {None}]
  /\ stage \in [Calls -> Stages]
  /\ body \in [Calls -> Endings \cup {"none"}]
  /\ readFrom \in [Calls -> Traces \cup {"none"}]
  /\ captured \in [Calls -> BOOLEAN]
  /\ outcome \in [Calls -> Outcomes \cup {"none"}]
  /\ action \in [Calls -> Nat]
  /\ parent \in [Calls -> Calls \cup {None}]
  /\ class \in [Calls -> Classes \cup {"none"}]
  /\ bound \in [Calls -> [Artifacts -> Nat]]

Init ==
  /\ LogInit
  /\ guarded \in BOOLEAN
  /\ source = "untraced"
  /\ violated = FALSE
  /\ failedCalls = {}
  /\ producer = None
  /\ closed = FALSE
  /\ asked = [c \in Calls |-> None]
  /\ stage = [c \in Calls |-> "idle"]
  /\ body = [c \in Calls |-> "none"]
  /\ readFrom = [c \in Calls |-> "none"]
  /\ captured = [c \in Calls |-> TRUE]
  /\ outcome = [c \in Calls |-> "none"]
  /\ action = [c \in Calls |-> 0]
  /\ parent = [c \in Calls |-> None]
  /\ class = [c \in Calls |-> "none"]
  /\ bound = [c \in Calls |-> [a \in Artifacts |-> 0]]

Goto(c, s) == stage' = [stage EXCEPT ![c] = s]

-----------------------------------------------------------------------------
(* The surroundings. *)

\* Something rewrites the evidence on the host and leaves a trace, which stays.
SourceChanges ==
  /\ source = "untraced"
  /\ source' = "traced"
  /\ UNCHANGED <<logVars, guarded, violated, failedCalls, producer, closed, stage, callVars>>

\* A permitted call enters the wrapper chain.
Start(c) ==
  /\ stage[c] = "idle"
  /\ ~closed
  /\ \E s \in Signatures :
       /\ asked' = [asked EXCEPT ![c] = s]
       /\ Goto(c, IF s \in ReadingSigs THEN "resolve" ELSE "pre_check")
  /\ UNCHANGED <<logVars, sharedVars, body, readFrom, captured, outcome, action, parent,
                 class, bound>>

\* The standardizer serves a reading from the call that wrote the artifact.
Resolve(c) ==
  /\ stage[c] = "resolve"
  /\ parent' = [parent EXCEPT ![c] = producer]
  /\ Goto(c, IF producer = None THEN "unproduced" ELSE "pre_check")
  /\ UNCHANGED <<logVars, sharedVars, asked, body, readFrom, captured, outcome, action,
                 class, bound>>

\* No call of this run wrote it: the refusal never reaches enforce, and the log
\* only learns that there was a result it could not bind.
RefuseUnproduced(c) ==
  /\ stage[c] = "unproduced"
  /\ \E w \in Writes : Emit([event |-> "result_unbound", call |-> c], w)
  /\ class' = [class EXCEPT ![c] = "diagnostic"]
  /\ Goto(c, "bind_visible")
  /\ UNCHANGED <<sharedVars, asked, body, readFrom, captured, outcome, action, parent, bound>>

-----------------------------------------------------------------------------
(* enforce() *)

\* _evidence_integrity_failure: a run without a guard checks nothing.  guard.check compares
\* the metadata only, so that a change without a trace passes.  A violation is permanent.
Violated == violated \/ (guarded /\ source = "traced")

\* The policy is evaluated after a violation too, which changes nothing.
PreCheck(c) ==
  /\ stage[c] = "pre_check"
  /\ violated' = Violated
  /\ IF Violated
     THEN /\ outcome' = [outcome EXCEPT ![c] = "refused_by_oversight"]
          /\ Goto(c, "pre_alarm")
     ELSE /\ UNCHANGED outcome
          /\ Goto(c, "policy")
  /\ UNCHANGED <<logVars, guarded, source, failedCalls, producer, closed, asked, body, readFrom,
                 captured, action, parent, class, bound>>

\* record_security.  An entry that cannot be written ends the call with the
\* exception of the write.
Alarm(c) ==
  /\ stage[c] \in {"pre_alarm", "post_alarm"}
  /\ \E w \in Writes :
       /\ Emit([event |-> "security", call |-> c], w)
       /\ Goto(c, IF w = "whole" THEN "record" ELSE "raised")
  /\ UNCHANGED <<sharedVars, callVars>>

\* evaluate() and _failed_call_seen.
Repeated(c) == asked[c] \in failedCalls

Judge(c) ==
  /\ stage[c] = "policy"
  /\ IF asked[c] \in DeniedSigs \/ Repeated(c)
     THEN /\ outcome' = [outcome EXCEPT ![c] = "refused_by_oversight"]
          /\ Goto(c, "record")
     ELSE /\ UNCHANGED outcome
          /\ Goto(c, "contract")
  /\ UNCHANGED <<logVars, sharedVars, asked, body, readFrom, captured, action, parent,
                 class, bound>>

\* argument_contract.refusal, remembered like any other stable failure.
CheckArguments(c) ==
  /\ stage[c] = "contract"
  /\ IF asked[c] \in InvalidSigs
     THEN /\ outcome' = [outcome EXCEPT ![c] = "refused_by_oversight"]
          /\ failedCalls' = failedCalls \cup {asked[c]}
          /\ Goto(c, "record")
     ELSE /\ UNCHANGED <<outcome, failedCalls>>
          /\ Goto(c, "run")
  /\ UNCHANGED <<logVars, guarded, source, violated, producer, closed, asked, body, readFrom,
                 captured, action, parent, class, bound>>

\* The tool body; its complete output is captured innermost, and retaining it
\* may fail without failing the tool.
RunBody(c) ==
  /\ stage[c] = "run"
  /\ \E e \in Endings, whole \in BOOLEAN :
       /\ e = "raised" => whole
       /\ body' = [body EXCEPT ![c] = e]
       /\ captured' = [captured EXCEPT ![c] = whole]
  /\ readFrom' = [readFrom EXCEPT ![c] = source]
  /\ Goto(c, "post_check")
  /\ UNCHANGED <<logVars, sharedVars, asked, outcome, action, parent, class, bound>>

\* Mutant: the second checkpoint trusts the first.
PostViolated == violated

\* The checkpoint after the body is the one before it.
StillViolated == Violated

PostCheck(c) ==
  /\ stage[c] = "post_check"
  /\ violated' = StillViolated
  /\ IF StillViolated
     THEN /\ outcome' = [outcome EXCEPT ![c] = "withheld"]
          /\ Goto(c, "post_alarm")
     ELSE /\ UNCHANGED outcome
          /\ Goto(c, "settle")
  /\ UNCHANGED <<logVars, guarded, source, failedCalls, producer, closed, asked, body, readFrom,
                 captured, action, parent, class, bound>>

\* Mutant: a refusal is a refusal, whoever refused.
AnyRefusalIsOurs(ending) ==
  CASE ending = "ok"      -> "executed"
    [] ending = "refused" -> "refused_by_oversight"
    [] OTHER              -> "failed"

\* _completed_call_outcome, and the handler of a body that raised.
OutcomeOf(ending) ==
  CASE ending = "ok"      -> "executed"
    [] ending = "refused" -> "refused_by_tool"
    [] OTHER              -> "failed"

\* Mutant: the call is remembered by nobody.
ForgetFailure(c) == failedCalls

\* _remember_failed_call, before the entry of the call is on the log.
RememberFailure(c) ==
  IF body[c] = "refused" THEN failedCalls \cup {asked[c]} ELSE failedCalls

Settle(c) ==
  /\ stage[c] = "settle"
  /\ outcome' = [outcome EXCEPT ![c] = OutcomeOf(body[c])]
  /\ failedCalls' = RememberFailure(c)
  /\ Goto(c, "record")
  /\ UNCHANGED <<logVars, guarded, source, violated, producer, closed, asked, body, readFrom,
                 captured, action, parent, class, bound>>

\* record_action: the one entry of the call.  If it cannot be written the
\* exception leaves enforce, whatever the tool did.
Record(c) ==
  /\ stage[c] = "record"
  /\ \E w \in Writes :
       /\ Emit([event |-> "action", call |-> c, outcome |-> outcome[c]], w)
       /\ IF w = "whole"
          THEN /\ action' = [action EXCEPT ![c] = head']
               /\ Goto(c, "standardize")
          ELSE /\ UNCHANGED action
               /\ Goto(c, "raised")
  /\ UNCHANGED <<sharedVars, asked, body, readFrom, captured, outcome, parent, class, bound>>

-----------------------------------------------------------------------------
(* The standardizer's epilogue and the lineage resolver. *)

\* The guard's refusal after the body travels without the capture its entry was
\* bound to: the two digests differ and the standardizer raises.
CaptureMismatch(c) == outcome[c] = "withheld" /\ body[c] # "raised"

\* attest_call: the class is the one declared for the call, unless the producing component is
\* not established or the output was not retained.  What is computed over the case source
\* itself cites that source and no parent.
ClassesOf(c) ==
  IF ~captured[c] THEN {"diagnostic"}
  ELSE IF asked[c] \in ReferenceSigs THEN {"reference"}
  ELSE IF asked[c] \in DerivingSigs THEN {"derived", "diagnostic"}
  ELSE {"observed", "diagnostic"}

\* Mutant: whatever returned is the producer of its artifact.
RegistersAnyReturn(c) == producer = None /\ captured[c] /\ asked[c] \in ProducingSigs

\* _register_reconstructed_artifact; DerivedArtifactRegistry.record keeps the first producer.
Registers(c) ==
  /\ producer = None
  /\ captured[c] /\ outcome[c] = "executed" /\ asked[c] \in ProducingSigs

\* The artifact is registered, its first producer winning, and the complete
\* result retained.
Standardize(c) ==
  /\ stage[c] = "standardize"
  /\ IF CaptureMismatch(c)
     THEN /\ Goto(c, "raised")
          /\ UNCHANGED <<producer, class>>
     ELSE /\ \E k \in ClassesOf(c) : class' = [class EXCEPT ![c] = k]
          /\ producer' = IF Registers(c) THEN c ELSE producer
          /\ Goto(c, "bind")
  /\ UNCHANGED <<logVars, guarded, source, violated, failedCalls, closed, asked, body, readFrom,
                 captured, outcome, action, parent, bound>>

\* _binding_refusal
Bindable(c) == class[c] # "diagnostic"

\* The body of a binding is built under the lock that appends it.
HeadToName(c) == head

\* record_result for one traced artifact: bound, or disclosed as unbound.  A
\* failing write leaves it unbound and is not raised.
BindArtifact(c, artifact) ==
  \E w \in Writes :
    IF Bindable(c)
    THEN /\ Emit([event |-> "result_binding", call |-> c, names |-> HeadToName(c)], w)
         /\ bound' = IF w = "whole" THEN [bound EXCEPT ![c][artifact] = head'] ELSE bound
    ELSE /\ Emit([event |-> "result_unbound", call |-> c], w)
         /\ UNCHANGED bound

Bind(c) ==
  /\ stage[c] = "bind"
  /\ BindArtifact(c, "complete")
  /\ Goto(c, "bind_visible")
  /\ UNCHANGED <<sharedVars, asked, body, readFrom, captured, outcome, action, parent, class>>

\* What the model is handed is a traced artifact with a digest of its own.
BindVisible(c) ==
  /\ stage[c] = "bind_visible"
  /\ BindArtifact(c, "visible")
  /\ Goto(c, "sidecar")
  /\ UNCHANGED <<sharedVars, asked, body, readFrom, captured, outcome, action, parent, class>>

\* The projection leaves one sidecar entry; failing to write it is swallowed.
Sidecar(c) ==
  /\ stage[c] = "sidecar"
  /\ \E w \in Writes : Emit([event |-> "security", call |-> c], w)
  /\ Goto(c, "returned")
  /\ UNCHANGED <<sharedVars, callVars>>

\* finalization records the end of the case when nothing is running any more.
CloseCase ==
  /\ ~closed
  /\ \A c \in Calls : stage[c] \in Over
  /\ \E w \in Writes : Emit([event |-> "case_close"], w)
  /\ closed' = TRUE
  /\ UNCHANGED <<guarded, source, violated, failedCalls, producer, stage, callVars>>

Thread(c) ==
  \/ Start(c) \/ Resolve(c) \/ RefuseUnproduced(c)
  \/ PreCheck(c) \/ Alarm(c) \/ Judge(c) \/ CheckArguments(c)
  \/ RunBody(c) \/ PostCheck(c) \/ Settle(c) \/ Record(c)
  \/ Standardize(c) \/ Bind(c) \/ BindVisible(c) \/ Sidecar(c)

Done == closed /\ UNCHANGED vars

Next ==
  \/ SourceChanges
  \/ CloseCase
  \/ \E c \in Calls : Thread(c)
  \/ Done

Spec == Init /\ [][Next]_vars

-----------------------------------------------------------------------------
(* What the final check makes of a result: result_is_admissible. *)

\* Only what was attested before any tool ran is a case source.  A reading names
\* as its source the call that wrote the artifact.
SourceAttested(c) == asked[c] \notin ReadingSigs

\* validate_result_input
ParentResolves(c) ==
  parent[c] # None =>
    /\ parent[c] # c
    /\ bound[parent[c]]["complete"] # 0
    /\ action[parent[c]] < action[c]

\* Mutant: a failed call may back a claim.
AdmissibleWhateverItsStatus(c) ==
  /\ class[c] \in {"observed", "derived"}
  /\ action[c] # 0
  /\ bound[c]["complete"] # 0
  /\ SourceAttested(c)
  /\ class[c] = "derived" => ParentResolves(c)

Admissible(c) ==
  /\ outcome[c] = "executed"
  /\ class[c] \in {"observed", "derived"}
  /\ action[c] # 0
  /\ bound[c]["complete"] # 0
  /\ SourceAttested(c)
  /\ class[c] = "derived" => ParentResolves(c)

-----------------------------------------------------------------------------
(* Safety *)

Events(c, event) ==
  {i \in 1 .. Len(lines) : lines[i].entry.what.event = event /\ lines[i].entry.what.call = c}

\* Every call that came back through enforce has exactly one action entry, and
\* the entry says whether the tool was reached: no interleaving of the guard,
\* the policy and the memory of failed calls records as refused a call that ran,
\* as run a call that did not, or a call twice.
OneTrueEntry ==
  \A c \in Calls : action[c] # 0 =>
    \E i \in 1 .. Len(lines) :
      /\ Events(c, "action") = {i}
      /\ (lines[i].entry.what.outcome = "refused_by_oversight") <=> (body[c] = "none")

\* In a run with a guard no output of a tool reaches the model or the final check if the
\* evidence carried the trace of a change when the tool finished reading, although the two
\* checkpoints of the guard and the read are three separate moments and other threads ask the
\* guard in between.  A change without a trace passes, and so does any change of a run without
\* a guard.
Unseen(c) == guarded => readFrom[c] # "traced"

GuardedAnswersShowNoTrace ==
  \A c \in Calls :
    (class[c] # "none" /\ outcome[c] \in {"executed", "refused_by_tool"}) => Unseen(c)

\* A result that may back a claim descends from one executed, fully retained reading of
\* evidence without the trace of a change (if there is a guard), recorded on the log before it
\* was bound there.
AdmittedRestsOnTheLog ==
  \A c \in Calls : Admissible(c) =>
    /\ captured[c] /\ body[c] = "ok" /\ Unseen(c)
    /\ action[c] < bound[c]["complete"]

\* A reading is served only from an artifact whose producing call is another one, which ran
\* to its end, was retained completely and is on the log before the reading is, however the
\* threads interleave the registration of the artifact with its lookup; and a parent that
\* validate_result_input accepts was recorded before it was bound.
ServedFromARecordedCall ==
  \A c \in Calls : parent[c] # None =>
    LET p == parent[c] IN
    /\ p # c /\ outcome[p] = "executed" /\ captured[p] /\ Unseen(p)
    /\ action[p] # 0 /\ (action[c] # 0 => action[p] < action[c])
    /\ ParentResolves(c) => action[p] < bound[p]["complete"]

\* Once an entry of the log says that a call was refused deterministically, an
\* identical call that is judged later is never let through to the tool.
StableFailuresAreNotRetried ==
  [][\A c, d \in Calls :
       (/\ asked[c] = asked[d] /\ action[d] # 0 /\ outcome[d] = "refused_by_tool"
        /\ stage[c] = "policy")
         => stage'[c] # "contract"]_vars

\* Whatever the threads interleave, the file verifies, with no modification of
\* any kind, as long as every append succeeded.
ChainVerifies == Failed = 0 => Verify(Load)

\* The log implements the append-only trace, even when writes fail.
Trace == INSTANCE AppendOnlyTrace WITH trace <- Load
TraceOnlyGrows == Trace!Spec
=============================================================================
