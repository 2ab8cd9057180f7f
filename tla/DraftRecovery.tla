---------------------------- MODULE DraftRecovery ----------------------------
(***************************************************************************)
(* From the first pass of the investigation to the draft handed over for   *)
(* publication: the deterministic recovery stages, in their order, and     *)
(* what each does with the conversation, the draft and the gates.          *)
(*                                                                         *)
(* A text of the model is an identity and what the code reads off it:      *)
(*   finding   an answer                                                   *)
(*   absence   a claim of absence over what was not examined in full       *)
(*   scoped    a claim of absence about a record examined in full          *)
(*   aside     nothing that stands by itself: a question to the operator,  *)
(*             reading notes, prose where a document is asked for          *)
(*   guess     an answer that names an identifier no result contains       *)
(*   leak      internal reasoning only                                     *)
(***************************************************************************)
EXTENDS Integers, Sequences

CONSTANTS
  Arms,       \* the configurations to run
  Kinds,      \* the texts the model may write
  Attempts,   \* _MAX_INVESTIGATION_ATTEMPTS
  Cap,        \* _RESTATEMENT_CAP
  Sources,    \* how many evidence sources the case has
  None

Switches == {"verify", "standardize", "recover", "tools", "autonomous", "failClosed",
             "envelope", "advisory", "crossSource", "multisource"}

\* An arm is the set of switches it turns on; preparation refuses the others.
ASSUME RecoveryAssumption ==
  /\ \A a \in Arms :
       /\ a \subseteq Switches
       /\ "autonomous" \in a => "multisource" \notin a
       /\ "multisource" \in a => {"verify", "standardize"} \subseteq a
  /\ Kinds \subseteq {"finding", "absence", "scoped", "aside", "guess", "leak"}
  /\ Attempts \in Nat \ {0} /\ {Cap, Sources} \subseteq Nat

Order == <<"analysis", "closing", "pending", "resume", "conclude", "repetition", "regions",
           "absence", "frontiers", "reference", "pages", "sources", "match", "terminal",
           "reissue", "calls", "publish", "verify", "close", "over">>
Stages == {Order[i] : i \in DOMAIN Order}
Position(s) == CHOOSE i \in DOMAIN Order : Order[i] = s
Gates  == {"pending_tool", "multisource", "match", "reference", "memory_injection", "memory_pagination",
           "evidence_region", "unfinished_examination", "identifier_grounding"}
Texts  == [id : 0 .. 2, kind : Kinds]

ASSUME NoneAssumption == None \notin Texts

VARIABLES
  arm,         \* config
  stage,       \* the stage about to run
  told,        \* passes of the current stage: attempts, or statements delivered
  said,        \* _final_ai_text(messages): the last text of the conversation
  calls,       \* tool calls at its end: "none", "one", "several", "malformed",
               \* or "deferred": unanswered, but no longer in the last message
  asked,       \* terminal_input: the conversation both terminal requests are made from
  final,       \* state.final
  discarded,   \* history: a stage cleared the draft, and nothing was said since
  blocked,     \* the gates that block finalization
  exhausted,   \* dispatch_exhaustion_reason is set
  unread,      \* a reachable region of the evidence was never read
  unfinished,  \* an enumeration the run could finish is open
  missing,     \* how many sources have no receipt-valid result
  cutOff       \* tool_budget_closed_a_call

evidence     == <<unread, unfinished, missing>>
conversation == <<said, calls, asked>>
recoveryVars == <<arm, stage, told, conversation, final, discarded, blocked, exhausted, evidence, cutOff>>

RecoveryTypeOK ==
  /\ arm \in Arms
  /\ stage \in Stages
  /\ told \in 0 .. (IF Cap + 1 > Attempts THEN Cap + 1 ELSE Attempts)
  /\ {said, final} \subseteq Texts \cup {None}
  /\ asked = None \/ stage = "reissue"
  /\ calls \in {"none", "one", "several", "malformed", "deferred"}
  /\ blocked \subseteq Gates
  /\ missing \in 0 .. Sources
  /\ {discarded, exhausted, unread, unfinished, cutOff} \subseteq BOOLEAN

RecoveryInit ==
  /\ arm \in Arms
  /\ stage = "analysis" /\ told = 0
  /\ said = None /\ calls = "none" /\ asked = None
  /\ final = None /\ discarded = FALSE
  /\ blocked = {} /\ exhausted = FALSE
  /\ unread = TRUE /\ unfinished = FALSE /\ missing = Sources
  /\ cutOff = FALSE

On(switches) == switches \subseteq arm

Absence(t)  == t # None /\ t.kind \in {"absence", "scoped"}
Unusable(t) == t \in {None} \cup [id : 0 .. 2, kind : {"aside"}]

Goto(s) == stage' = s /\ told' = 0

-----------------------------------------------------------------------------
(* One invocation of the graph, as a stage finds the conversation after it *)

\* What the run's own calls may have read, whether or not the reply was kept.
Reads ==
  /\ unread' \in {unread, FALSE}
  /\ unfinished' \in BOOLEAN
  /\ missing' \in 0 .. missing

Now == [said |-> said, calls |-> calls, discarded |-> discarded]

Text(k) ==
  [id |-> CHOOSE i \in 0 .. 2 : \A t \in {said, final} \ {None} : t.id # i, kind |-> k]

\* The last text becomes k, or is still the one of before when the model ends
\* without one; what was discarded is then still what the conversation ends with.
Say(k, before) ==
  /\ said' = IF k = None THEN before.said ELSE Text(k)
  /\ discarded' = (before.discarded /\ k = None)

\* An exchange that has a deferred call stays open behind whatever is said.
EndsOn(c, before) ==
  calls' = IF c = "none" /\ before.calls = "deferred" THEN "deferred" ELSE c

Answers(before) ==
  \E k \in Kinds \cup {None}, c \in {"none", "malformed"} : Say(k, before) /\ EndsOn(c, before)
Replies == Answers(Now) /\ UNCHANGED asked

\* The first denial of a run names its exhaustion, the others leave it.
SomeDenial  == exhausted' = TRUE
MaybeDenied == exhausted' \in {exhausted, TRUE}

Denied == SomeDenial /\ UNCHANGED <<conversation, discarded>>
Failed == UNCHANGED <<conversation, discarded, exhausted>>

\* Whether a human turn may follow the conversation.
FollowUp == calls \notin {"one", "several", "deferred"}
UnresolvedFinalCall == calls \notin {"none", "deferred"}

Blocks(g)     == blocked' = blocked \cup {g}
Uninterrupted == "pending_tool" \notin blocked

\* The draft is cleared; what the model said stands only if it says it again.
Discard == final' = None /\ discarded' = (said # None)

\* A stage that clears the draft before it asks for the next one.
RepliesAfresh == Answers([Now EXCEPT !.discarded = (said # None)]) /\ UNCHANGED asked

-----------------------------------------------------------------------------
(* run_analysis_phase *)

AnalysisPass(c) ==
  /\ stage = "analysis"
  /\ \E k \in Kinds \cup {None} : Say(k, Now)
  /\ calls' = c
  /\ UNCHANGED asked
  /\ Reads

Investigate ==
  /\ \E c \in {"none", "malformed"} : AnalysisPass(c)
  /\ Goto("closing")
  /\ UNCHANGED <<arm, final, blocked, exhausted, cutOff>>

\* A pass with neither a text nor a call is repeated.
Restart ==
  /\ stage = "analysis" /\ told + 1 < Attempts
  /\ told' = told + 1
  /\ UNCHANGED <<arm, stage, conversation, final, discarded, blocked, exhausted, evidence, cutOff>>

\* A denial, the recursion limit, or an error of a run that may go on.
AnalysisCutShort ==
  /\ \E c \in {"none", "one", "several"} : AnalysisPass(c)
  /\ MaybeDenied
  /\ Goto("closing")
  /\ UNCHANGED <<arm, final, blocked, cutOff>>

-----------------------------------------------------------------------------
(* Unresolved calls *)

\* The tool budget is spent: the calls it reaches are closed with a refusal,
\* calls of the navigation tools are not.
CloseRefusedCalls ==
  /\ stage = "closing" /\ calls \in {"one", "several"}
  /\ calls' \in (IF calls = "one" THEN {"none"} ELSE {"none", "deferred"})
  /\ SomeDenial
  /\ cutOff' = TRUE
  /\ Goto("pending")
  /\ UNCHANGED <<arm, said, asked, final, discarded, blocked, evidence>>

NothingToClose ==
  /\ stage = "closing"
  /\ Goto("pending")
  /\ UNCHANGED <<arm, conversation, final, discarded, blocked, exhausted, evidence, cutOff>>

PendingEnabled == On({"recover", "tools"})

NoPendingCall ==
  /\ stage = "pending" /\ (~PendingEnabled \/ ~UnresolvedFinalCall)
  /\ Goto("conclude")
  /\ UNCHANGED <<arm, conversation, final, discarded, blocked, exhausted, evidence, cutOff>>

\* The one call the model left open is executed, or an equal earlier result reused.
ResolvePendingCall ==
  /\ stage = "pending" /\ PendingEnabled /\ calls = "one"
  /\ calls' = "none"
  /\ Reads
  /\ Goto("resume")
  /\ UNCHANGED <<arm, said, asked, final, discarded, blocked, exhausted, cutOff>>

LeavePendingCall ==
  /\ stage = "pending" /\ PendingEnabled /\ calls \in {"one", "several"}
  /\ Blocks("pending_tool")
  /\ IF calls = "one" THEN MaybeDenied ELSE exhausted' = exhausted
  /\ Goto("conclude")
  /\ UNCHANGED <<arm, conversation, final, discarded, evidence, cutOff>>

CorrectMalformedCall ==
  /\ stage = "pending" /\ PendingEnabled /\ calls = "malformed"
  /\ \/ Replies /\ exhausted' = exhausted
     \/ Denied
     \/ Failed
  /\ Reads
  /\ IF calls' = "malformed" THEN Blocks("pending_tool") ELSE blocked' = blocked
  /\ Goto("conclude")
  /\ UNCHANGED <<arm, final, cutOff>>

\* The graph is streamed, so a resume that is cut short leaves what it had.
Resume ==
  /\ stage = "resume"
  /\ \E k \in Kinds \cup {None} : Say(k, Now)
  /\ \/ calls' \in {"none", "malformed"} /\ exhausted' = exhausted
     \/ calls' \in {"none", "one", "several"} /\ MaybeDenied
  /\ IF calls' # "none" THEN Blocks("pending_tool") ELSE blocked' = blocked
  /\ Reads
  /\ Goto("conclude")
  /\ UNCHANGED <<arm, asked, final, cutOff>>

\* The last text is the draft, unless the run was cut off in mid-plan: then
\* it is a working note.
Conclude ==
  /\ stage = "conclude"
  /\ IF ~Uninterrupted \/ (cutOff /\ On({"recover"}))
       THEN Discard
       ELSE final' = said /\ discarded' = discarded
  /\ Goto("repetition")
  /\ UNCHANGED <<arm, conversation, blocked, exhausted, evidence, cutOff>>

-----------------------------------------------------------------------------
(* The advisories: each states a fact to the model and takes its answer *)

\* Mutant: the draft of before the statement stays.
OldDraftStays == final' = final

\* A restatement replaces the draft, silence does not.
Restated == final' = IF said' # None THEN said' ELSE final

Skips(s, next) ==
  /\ stage = s /\ told = 0
  /\ Goto(next)
  /\ UNCHANGED <<arm, conversation, final, discarded, blocked, exhausted, evidence, cutOff>>

StateRepetition ==
  /\ stage = "repetition" /\ On({"recover", "tools"}) /\ Uninterrupted /\ FollowUp
  /\ \/ Replies /\ Restated /\ exhausted' = exhausted
     \/ Denied /\ final' = final
     \/ Failed /\ final' = final
  /\ Reads
  /\ Goto("regions")
  /\ UNCHANGED <<arm, blocked, cutOff>>

RecheckAbsence ==
  /\ stage = "absence" /\ On({"recover", "tools"}) /\ Uninterrupted /\ FollowUp
  /\ Absence(final)
  /\ \/ Replies /\ Restated /\ exhausted' = exhausted
     \/ Denied /\ final' = final
     \/ Failed /\ final' = final
  /\ Reads
  /\ Goto("frontiers")
  /\ UNCHANGED <<arm, blocked, cutOff>>

\* _keep_finding_or_withhold_over_coverage_gap
KeepOrWithhold(gate) ==
  IF said'.kind = "absence" THEN final' = None /\ Blocks(gate)
                            ELSE final' = said' /\ blocked' = blocked

\* Mutant: a statement that is delivered is not counted.
NotCounted == told' = told

CountStatement == told' = told + 1

RegionOwed   == unread /\ Absence(said)
FrontierOwed == unfinished

\* A statement that is repeated, up to the cap, while the report still owes
\* the examination.  A model that is out of requests is not held to it.
StateAndHold(s, gate, Owed, next) ==
  /\ Reads
  /\ \/ /\ Replies /\ exhausted' = exhausted
        /\ IF ~Owed'
             THEN Goto(next) /\ Restated /\ blocked' = blocked
           ELSE IF told >= Cap
             THEN Goto(next) /\ KeepOrWithhold(gate)
           ELSE IF FollowUp'
             THEN stage' = s /\ CountStatement /\ UNCHANGED <<final, blocked>>
             ELSE Goto(next) /\ Restated /\ blocked' = blocked
     \/ /\ Denied \/ Failed
        /\ IF told > 0 THEN Restated ELSE final' = final
        /\ blocked' = blocked
        /\ Goto(next)
  /\ UNCHANGED <<arm, cutOff>>

RegionsApply ==
  /\ stage = "regions" /\ On({"recover", "standardize", "tools", "advisory"}) /\ Uninterrupted
  /\ told > 0 \/ (FollowUp /\ unread /\ Absence(final))

StateUnreadRegions ==
  RegionsApply /\ StateAndHold("regions", "evidence_region", RegionOwed, "absence")

FrontiersApply ==
  /\ stage = "frontiers" /\ On({"recover", "standardize", "tools"}) /\ Uninterrupted
  /\ told > 0 \/ (FollowUp /\ unfinished /\ final # None)

StateUnfinished ==
  FrontiersApply /\ StateAndHold("frontiers", "unfinished_examination", FrontierOwed, "reference")

\* The statements on regions and enumerations follow from the records; that
\* the run repeats itself, or that a view was partial, is for the records to say.
NoStatement ==
  \/ Skips("repetition", "regions")
  \/ ~RegionsApply /\ Skips("regions", "absence")
  \/ Skips("absence", "frontiers")
  \/ ~FrontiersApply /\ Skips("frontiers", "reference")

-----------------------------------------------------------------------------
(* The stages that gather evidence the draft lacks *)

\* A stage that forces one more exchange takes the new text, if there is one.
NewText == final' = IF said' = said THEN None ELSE said'

ReferenceApplies ==
  /\ stage = "reference" /\ On({"verify", "standardize", "failClosed"}) /\ ~On({"autonomous"})
  /\ Uninterrupted /\ missing = Sources

ReferenceWithoutParser ==
  /\ ReferenceApplies
  /\ Discard
  /\ blocked' \in {blocked, blocked \cup {"reference"}}
  /\ Goto("pages")
  /\ UNCHANGED <<arm, conversation, exhausted, evidence, cutOff>>

ForceReferenceParser ==
  /\ ReferenceApplies
  /\ Reads
  /\ \/ /\ RepliesAfresh /\ exhausted' = exhausted
        /\ IF missing' = Sources THEN final' = None /\ Blocks("reference")
                                 ELSE NewText /\ blocked' = blocked
     \/ /\ SomeDenial
        /\ UNCHANGED conversation /\ Discard
        /\ IF missing' = Sources THEN Blocks("reference") ELSE blocked' = blocked
  /\ Goto("pages")
  /\ UNCHANGED <<arm, cutOff>>

PagesApply ==
  stage = "pages" /\ On({"verify", "standardize"}) /\ ~On({"autonomous"}) /\ Uninterrupted

\* Pages the records state are read; the draft did not have them.
FollowPages ==
  /\ PagesApply
  /\ Discard
  /\ blocked' \in {blocked, blocked \cup {"memory_pagination"}}
  /\ MaybeDenied
  /\ Reads
  /\ Goto("sources")
  /\ UNCHANGED <<arm, conversation, cutOff>>

\* Nothing to page; the unique content continuation may still read, or be denied.
NoPages ==
  /\ PagesApply
  /\ MaybeDenied
  /\ Reads
  /\ Goto("sources")
  /\ UNCHANGED <<arm, conversation, final, discarded, blocked, cutOff>>

SourcesApply ==
  /\ stage = "sources" /\ On({"multisource", "crossSource"})
  /\ blocked \cap {"pending_tool", "memory_pagination"} = {} /\ missing > 0

SourceWithoutTool ==
  /\ SourcesApply
  /\ Discard /\ Blocks("multisource")
  /\ Goto("match")
  /\ UNCHANGED <<arm, conversation, exhausted, evidence, cutOff>>

ForceMissingSource ==
  /\ SourcesApply /\ missing = 1
  /\ Reads
  /\ \/ /\ RepliesAfresh /\ exhausted' = exhausted
        /\ IF missing' > 0 THEN final' = None /\ Blocks("multisource")
                            ELSE NewText /\ blocked' = blocked
     \/ /\ SomeDenial
        /\ UNCHANGED conversation /\ Discard
        /\ IF missing' > 0 THEN Blocks("multisource") ELSE blocked' = blocked
  /\ Goto("match")
  /\ UNCHANGED <<arm, cutOff>>

MatchApplies ==
  /\ stage = "match" /\ On({"verify", "standardize", "crossSource"}) /\ ~On({"autonomous"})
  /\ blocked \cap {"pending_tool", "memory_pagination", "multisource", "reference"} = {}

\* The one trusted match is compared with its target; the draft is left alone.
FollowMatch ==
  /\ MatchApplies
  /\ Reads
  /\ Goto("terminal")
  /\ UNCHANGED <<arm, conversation, final, discarded, blocked, exhausted, cutOff>>

MatchDenied ==
  /\ MatchApplies
  /\ Discard /\ Blocks("match")
  /\ SomeDenial
  /\ Reads
  /\ Goto("terminal")
  /\ UNCHANGED <<arm, conversation, cutOff>>

NothingToGather ==
  \/ ~ReferenceApplies /\ Skips("reference", "pages")
  \/ ~PagesApply /\ Skips("pages", "sources")
  \/ ~SourcesApply /\ Skips("sources", "match")
  \/ Skips("match", "terminal")

-----------------------------------------------------------------------------
(* The reserved terminal request *)

TerminalApplies ==
  /\ stage = "terminal" /\ Unusable(final) /\ On({"recover"})
  /\ blocked \ {"identifier_grounding"} = {}

ConcludeFromReply == final' = IF said' # None THEN said' ELSE final

\* What was said since does not go into the request.
ForceFinal(from, next) ==
  /\ \/ Answers(from) /\ ConcludeFromReply /\ exhausted' = exhausted
     \/ SomeDenial /\ UNCHANGED <<said, calls, discarded, final>>
     \/ ~On({"standardize"}) /\ UNCHANGED <<said, calls, discarded, exhausted, final>>
  /\ asked' = IF next = "reissue" THEN from ELSE None
  /\ Goto(next)
  /\ UNCHANGED <<arm, blocked, evidence, cutOff>>

\* A draft that is only too verbose is rewritten once; one that is missing
\* or no answer may be asked for a second time.
TerminalRequest ==
  /\ TerminalApplies
  /\ \/ final # None /\ On({"verify"}) /\ ~On({"envelope"}) /\ ForceFinal(Now, "calls")
     \/ ForceFinal(Now, "reissue")

Reissue == stage = "reissue" /\ Unusable(final) /\ ForceFinal(asked, "calls")

KeepFirstReply ==
  /\ stage = "reissue"
  /\ asked' = None
  /\ Goto("calls")
  /\ UNCHANGED <<arm, said, calls, final, discarded, blocked, exhausted, evidence, cutOff>>

NoTerminalRequest ==
  \/ ~TerminalApplies /\ Skips("terminal", "calls")
  \/ ~Unusable(final) /\ KeepFirstReply

\* _enforce_terminal_tool_call_state
EnforceTerminalCallState ==
  /\ stage = "calls"
  /\ IF UnresolvedFinalCall THEN final' = None /\ Blocks("pending_tool")
                            ELSE UNCHANGED <<final, blocked>>
  /\ Goto("publish")
  /\ UNCHANGED <<arm, conversation, discarded, exhausted, evidence, cutOff>>

-----------------------------------------------------------------------------
Recover ==
  \/ Investigate \/ Restart \/ AnalysisCutShort
  \/ CloseRefusedCalls \/ NothingToClose
  \/ NoPendingCall \/ ResolvePendingCall \/ LeavePendingCall \/ CorrectMalformedCall
  \/ Resume \/ Conclude
  \/ StateRepetition \/ RecheckAbsence \/ StateUnreadRegions \/ StateUnfinished \/ NoStatement
  \/ ReferenceWithoutParser \/ ForceReferenceParser
  \/ FollowPages \/ NoPages
  \/ SourceWithoutTool \/ ForceMissingSource
  \/ FollowMatch \/ MatchDenied \/ NothingToGather
  \/ TerminalRequest \/ Reissue \/ NoTerminalRequest \/ EnforceTerminalCallState

\* The stages whose calls may end the run with an exception: a tool that
\* raises, or a provider that fails a run that may not go on without it.
MayRaise ==
  \/ stage \in {"analysis", "pending", "resume"}
  \/ ReferenceApplies \/ PagesApply \/ MatchApplies
  \/ SourcesApply /\ missing = 1
  \/ (TerminalApplies \/ (stage = "reissue" /\ Unusable(final))) /\ On({"standardize"})
=============================================================================
