----------------------------- MODULE Publication -----------------------------
(***************************************************************************)
(* What becomes of the draft: the three ways to publish it, the final      *)
(* check with its one retry, the advisory verdict, the gates a published   *)
(* text passes, and the close of the case, which may revoke it.            *)
(*                                                                         *)
(* Every text is a recorded response of the model, as DraftRecovery has no *)
(* other.                                                                  *)
(***************************************************************************)
EXTENDS DraftRecovery

VARIABLES
  draft,      \* the draft handed to _finalize_report
  shortened,  \* the bundle of the final check lost evidence content
  rows,       \* verification rows of the request ledger
  verdict,    \* verification_outcome, as far as the paths differ
  accepted,   \* accepted_source
  stated,     \* what the runtime appended: "bound", "gap"
  intact,     \* the evidence source is what it was, as far as was checked
  raised,     \* an exception left the run
  closed,     \* case_close: the text and the status recorded
  returned    \* what _execute_runtime returned

publicationVars == <<draft, shortened, rows, verdict, accepted, stated, raised, closed, returned>>
vars == <<recoveryVars, publicationVars, intact>>

Verdicts == {"not_evaluated", "not_requested", "blocked", "no_draft", "no_claims", "projection",
             "no_evidence", "requested", "failed", "inconclusive", "advisory", "verified"}

\* The type invariant: the check makes at most two requests of the model.
TypeOK ==
  /\ RecoveryTypeOK
  /\ {draft, returned} \subseteq Texts \cup {None}
  /\ rows \in {<<>>, <<"success">>, <<"error">>, <<"error", "error">>, <<"error", "success">>}
  /\ verdict \in Verdicts
  /\ accepted \in {"none", "draft", "verifier", "assembly"}
  /\ stated \subseteq {"bound", "gap"}
  /\ closed \in [text : Texts \cup {None}, status : {"ok", "aborted", "integrity_violation"}] \cup {None}
  /\ {shortened, intact, raised} \subseteq BOOLEAN

Init ==
  /\ RecoveryInit
  /\ draft = None /\ returned = None /\ closed = None
  /\ shortened = FALSE /\ rows = <<>>
  /\ verdict = "not_evaluated" /\ accepted = "none" /\ stated = {}
  /\ intact = TRUE /\ raised = FALSE

\* Finalization leaves the conversation and the evidence as they are.
settled == <<arm, conversation, discarded, evidence, cutOff>>

-----------------------------------------------------------------------------
(* The gates of a text *)

Clean(t)       == t.kind # "leak"      \* reject_internal_model_output
Grounded(t)    == t.kind # "guess"     \* check_identifier_grounding
IsDocument(t)  == t.kind # "aside"     \* is_segment_document

\* _absence_is_unestablished, beside the claim of absence itself
Unestablished == shortened \/ unread

\* Mutant: the draft is handed over as it is.
BoundForgotten(t) == {}

Bound(t) == IF Absence(t) /\ Unestablished THEN {"bound"} ELSE {}

Withhold(v) ==
  /\ final' = None /\ accepted' = "none" /\ stated' = {}
  /\ verdict' = v
  /\ UNCHANGED blocked

\* A text that passed every check before this is held to its identifiers.
Release(t, source, v, appended) ==
  /\ verdict' = v
  /\ IF Grounded(t)
       THEN /\ final' = t /\ accepted' = source /\ stated' = appended
            /\ UNCHANGED blocked
       ELSE /\ final' = None /\ accepted' = "none" /\ stated' = {}
            /\ Blocks("identifier_grounding")

\* _publish_draft_with_verification_gap
ReleaseWithGap(t, v) ==
  IF t = said THEN Release(t, "draft", v, Bound(t) \cup {"gap"})
              ELSE Withhold(v)

-----------------------------------------------------------------------------
(* _finalize_report *)

\* Mutant: one of the gates is not among the publication blockers.
UnblockedButForRegions == blocked \ {"evidence_region"} = {}

FinalizationIsUnblocked == blocked = {}

FinalizeBlocked ==
  /\ stage = "publish" /\ ~FinalizationIsUnblocked
  /\ draft' = final /\ Withhold("blocked")
  /\ Goto("close")
  /\ UNCHANGED <<settled, exhausted, shortened, rows, raised, closed, returned, intact>>

\* _publish_assembled_answer; a name the draft cites may resolve to nothing.
Assemble ==
  /\ stage = "publish" /\ FinalizationIsUnblocked /\ On({"envelope"})
  /\ draft' = final
  /\ \/ /\ final # None /\ final = said
        /\ IsDocument(final) /\ Clean(final)
        /\ Release(final, "assembly", "not_requested", {})
     \/ Withhold("not_requested")
  /\ Goto("close")
  /\ UNCHANGED <<settled, exhausted, shortened, rows, raised, closed, returned, intact>>

PublishRaw ==
  /\ stage = "publish" /\ FinalizationIsUnblocked /\ ~On({"envelope"}) /\ ~On({"verify"})
  /\ draft' = final
  /\ IF final # None /\ final = said /\ rows = <<>> /\ Clean(final)
       THEN /\ final' = final /\ accepted' = "draft" /\ stated' = {}
            /\ verdict' = "not_requested" /\ UNCHANGED blocked
       ELSE Withhold("not_requested")
  /\ Goto("close")
  /\ UNCHANGED <<settled, exhausted, shortened, rows, raised, closed, returned, intact>>

-----------------------------------------------------------------------------
(* _run_enabled_verification *)

ToBeVerified ==
  stage = "publish" /\ FinalizationIsUnblocked /\ ~On({"envelope"}) /\ On({"verify"})

\* Nothing to check, or the bundle of evidence cannot be built.
VerificationImpossible ==
  /\ ToBeVerified
  /\ draft' = final
  /\ \/ final = None /\ Withhold("no_draft")
     \/ final # None /\ ~Clean(final) /\ Withhold("no_draft")
     \/ final # None /\ final.kind = "aside" /\ Withhold("no_claims")
     \/ final # None /\ Withhold("projection")
  /\ Goto("close")
  /\ UNCHANGED <<settled, exhausted, shortened, rows, raised, closed, returned, intact>>

\* The draft is cleared before the request, and kept aside.
BuildBundle ==
  /\ ToBeVerified /\ final # None /\ Clean(final)
  /\ draft' = final /\ final' = None
  /\ shortened' \in BOOLEAN
  /\ verdict' = "requested"
  /\ Goto("verify")
  /\ UNCHANGED <<settled, blocked, exhausted, rows, accepted, stated, raised, closed, returned, intact>>

Verifying == stage = "verify"

NoEvidenceToCheck ==
  /\ Verifying /\ rows = <<>> /\ missing = Sources
  /\ Withhold("no_evidence")
  /\ Goto("close")
  /\ UNCHANGED <<settled, draft, exhausted, shortened, rows, raised, closed, returned, intact>>

\* The bundle cannot carry every value the draft cites.
CitedValuesDropped ==
  /\ Verifying /\ rows = <<>>
  /\ ReleaseWithGap(draft, "inconclusive")
  /\ Goto("close")
  /\ UNCHANGED <<settled, draft, exhausted, shortened, rows, raised, closed, returned, intact>>

\* Mutant: a check that was never made counts as one that confirmed.
DeniedConfirms ==
  /\ Verifying /\ missing # Sources
  /\ SomeDenial
  /\ Release(draft, "verifier", "verified", Bound(draft))
  /\ Goto("close")
  /\ UNCHANGED <<settled, draft, shortened, rows, raised, closed, returned, intact>>

VerifierDenied ==
  /\ Verifying /\ missing # Sources
  /\ SomeDenial
  /\ ReleaseWithGap(draft, "failed")
  /\ Goto("close")
  /\ UNCHANGED <<settled, draft, shortened, rows, raised, closed, returned, intact>>

\* An input the verifier refuses leaves no row; every request leaves one.
VerifierFails ==
  /\ Verifying /\ missing # Sources
  /\ rows' \in {rows, Append(rows, "error")}
  /\ ReleaseWithGap(draft, "failed")
  /\ Goto("close")
  /\ UNCHANGED <<settled, draft, exhausted, shortened, raised, closed, returned, intact>>

\* A malformed report is asked for once more.
VerifierRetries ==
  /\ Verifying /\ missing # Sources /\ rows = <<>>
  /\ rows' = Append(rows, "error")
  /\ UNCHANGED <<recoveryVars, draft, shortened, verdict, accepted, stated, raised, closed, returned, intact>>

\* One request that succeeded, or one that failed and the retry of it.
LedgerBound == rows \in {<<"success">>, <<"error", "success">>}

VerifierJudges ==
  /\ Verifying /\ missing # Sources
  /\ rows' = Append(rows, "success")
  /\ IF ~LedgerBound'
       THEN ReleaseWithGap(draft, "failed")
       ELSE \/ ReleaseWithGap(draft, "advisory")
            \/ Release(draft, "verifier", "verified", Bound(draft))
  /\ Goto("close")
  /\ UNCHANGED <<settled, draft, exhausted, shortened, raised, closed, returned, intact>>

-----------------------------------------------------------------------------
(* The end of the run *)

Raise ==
  /\ MayRaise
  /\ raised' = TRUE
  /\ final' = IF stage \in {"reference", "sources"} THEN None ELSE final
  /\ asked' = None
  /\ Goto("close")
  /\ UNCHANGED <<arm, said, calls, discarded, blocked, exhausted, evidence, cutOff,
                 draft, shortened, rows, verdict, accepted, stated, closed, returned, intact>>

\* Mutant: the answer is taken back, the record of it is not.
RevokeTextOnly == final' = None /\ UNCHANGED <<accepted, stated>>

Revoke == final' = None /\ accepted' = "none" /\ stated' = {}

\* _finalize_runtime, and what is left of _execute_runtime: the full content
\* check may find the evidence source changed under the run.
CloseCase ==
  /\ stage = "close"
  /\ intact' \in BOOLEAN
  /\ IF intact' THEN UNCHANGED <<final, accepted, stated>> ELSE Revoke
  /\ closed' = [text |-> final',
                status |-> IF ~intact' THEN "integrity_violation"
                           ELSE IF final' # None THEN "ok" ELSE "aborted"]
  /\ returned' = IF raised THEN None ELSE final'
  /\ Goto("over")
  /\ UNCHANGED <<settled, blocked, exhausted, draft, shortened, rows, verdict, raised>>

Done == stage = "over" /\ UNCHANGED vars

-----------------------------------------------------------------------------
Finalize ==
  \/ FinalizeBlocked \/ Assemble \/ PublishRaw
  \/ VerificationImpossible \/ BuildBundle \/ NoEvidenceToCheck \/ CitedValuesDropped
  \/ VerifierDenied \/ VerifierFails \/ VerifierRetries \/ VerifierJudges

Step ==
  \/ Recover /\ UNCHANGED <<publicationVars, intact>>
  \/ Raise \/ Finalize \/ CloseCase

Next == Step \/ Done

Spec == Init /\ [][Next]_vars

-----------------------------------------------------------------------------
(* Properties *)

\* Whatever the stages did, a draft that can be published is the text the
\* conversation ends with, so that the binding costs no run its answer.
DraftIsTheSurvivingText == (~Unusable(final) /\ told = 0) => final = said

\* An answer is returned past no gate, over no changed evidence, and carries
\* neither internal reasoning nor, where results are kept, an unread identifier.
NothingPastAGate ==
  returned # None =>
    /\ blocked = {} /\ intact /\ ~raised
    /\ Clean(returned)
    /\ On({"verify"}) \/ On({"envelope"}) => Grounded(returned)

\* Advice ends an answer in one case: an absence that still stands when the
\* statement was repeated as often as allowed, with requests left.
OnlyAStandingAbsenceIsWithheld ==
  [][(stage \in {"repetition", "regions", "absence", "frontiers"} /\ final # None /\ final' = None)
       => told = Cap /\ said'.kind = "absence" /\ exhausted' = exhausted]_vars

Confirmed == verdict = "verified" /\ rows # <<>> /\ rows[Len(rows)] = "success"

\* Keep-or-mark, over every way a check may end: what a checking run hands out as
\* confirmed rests on a successful last row of its verification, and whatever else
\* it hands out is the draft that was kept aside, with the gap stated in it.
UnconfirmedTextNamesItsGap ==
  (returned # None /\ verdict # "not_requested") =>
    /\ returned = draft
    /\ "gap" \in stated <=> accepted # "verifier"
    /\ accepted = "verifier" => Confirmed

\* A check that fails, is denied or doubts withholds no usable draft it was
\* given: the deterministic gates alone do.  The code is written so; the
\* architecture documents say the opposite (see the README).
CheckLosesNoDraft ==
  (stage = "over" /\ ~raised /\ intact /\ blocked = {} /\ ~Unusable(draft)
     /\ verdict \in {"failed", "inconclusive", "advisory", "verified"})
    => returned = draft

\* A report that came back is judged, be it on the retry.
ReportsAreJudged ==
  (rows # <<>> /\ rows[Len(rows)] = "success") => verdict \in {"advisory", "verified"}

\* A checked answer that claims an absence over unread or shortened evidence
\* says so, on every path, and no other answer does.
AbsenceStatesItsBound ==
  (returned # None /\ verdict \in Verdicts \ {"not_requested"})
    => ("bound" \in stated <=> Absence(returned) /\ (unread \/ shortened))

\* The record of the case names a source for exactly the text handed out.
RecordAgreesWithAnswer ==
  (stage = "over" /\ ~raised) =>
    /\ closed.text = returned
    /\ closed.status = "ok" <=> returned # None
    /\ accepted # "none" <=> returned # None

\* No stage asks the model without end: every step leaves its stage behind, or
\* is one more of a bounded number of passes, statements or verification rows.
EveryStepAdvances ==
  [][\/ Position(stage') > Position(stage)
     \/ stage' = stage /\ told' > told
     \/ stage' = stage /\ Len(rows') > Len(rows)]_vars
=============================================================================
