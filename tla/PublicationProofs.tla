-------------------------- MODULE PublicationProofs --------------------------
(***************************************************************************)
(* Proofs about Publication: whatever the stages of the recovery do with   *)
(* the draft, the answer that is returned has passed every gate, what the  *)
(* final check did not confirm says so, and the record of the case agrees  *)
(* with the answer.                                                        *)
(***************************************************************************)
EXTENDS Publication, SequenceTheorems, TLAPS

-----------------------------------------------------------------------------
(* The inductive invariant *)

Early     == {"analysis", "closing", "pending", "resume", "conclude"}
Advising  == {"repetition", "regions", "absence", "frontiers"}
Finishing == {"verify", "close", "over"}

\* There is no draft before the run concludes; from then on it is the text the
\* conversation ends with, except in the middle of a repeated statement, where
\* it is only known that something was said.
DraftInv ==
  /\ told \in Nat
  /\ told > 0 => stage \in {"analysis", "regions", "frontiers"}
  /\ stage \in {"regions", "frontiers"} => told <= Cap
  /\ stage \in Early => final = None
  /\ stage \in Advising /\ final # None => said # None
  /\ DraftIsTheSurvivingText

\* Nothing is decided before the draft is handed over.
Undecided ==
  /\ stage \notin {"close", "over"} => ~raised /\ accepted = "none"
  /\ stage # "over" => returned = None /\ intact
  /\ stage \notin Finishing \/ raised => rows = <<>>

\* The draft under verification is kept aside, past every gate of before.
Held ==
  stage = "verify" =>
    /\ blocked = {}
    /\ draft # None /\ Clean(draft)
    /\ ~Unusable(draft) => draft = said
    /\ rows \in {<<>>, <<"error">>}
    /\ verdict = "requested"

\* What was decided, when the case is about to be closed.
Decided ==
  stage = "close" /\ ~raised =>
    /\ final # None =>
         /\ blocked = {} /\ Clean(final)
         /\ On({"verify"}) \/ On({"envelope"}) => Grounded(final)
         /\ verdict # "not_requested" =>
              /\ "bound" \in stated <=> Absence(final) /\ Unestablished
              /\ final = draft
              /\ "gap" \in stated <=> accepted # "verifier"
              /\ accepted = "verifier" => Confirmed
    /\ accepted # "none" <=> final # None
    /\ (blocked = {} /\ ~Unusable(draft)
          /\ verdict \in {"failed", "inconclusive", "advisory", "verified"}) => final = draft

IInv ==
  /\ DraftInv /\ Undecided /\ Held /\ Decided
  /\ ReportsAreJudged
  /\ stage = "over" =>
       /\ NothingPastAGate /\ RecordAgreesWithAnswer /\ AbsenceStatesItsBound
       /\ UnconfirmedTextNamesItsGap /\ CheckLosesNoDraft

-----------------------------------------------------------------------------
(* Lemmas *)

\* There are three identities and at most two of them are taken.
LEMMA TextIsAText ==
  ASSUME NEW k \in Kinds
  PROVE  Text(k) \in Texts
<1>1. \E i \in 0 .. 2 : \A t \in {said, final} \ {None} : t.id # i
  <2>1. \E i \in 0 .. 2 : said.id # i /\ final.id # i
    <3>1. PICK i \in {0, 1} : i # said.id
      OBVIOUS
    <3>2. PICK j \in {0, 1, 2} : j # said.id /\ j # i
      BY <3>1
    <3>3. i # final.id \/ j # final.id
      BY <3>2
    <3> QED BY <3>1, <3>2, <3>3
  <2> QED BY <2>1
<1> QED BY <1>1 DEF Text, Texts

\* A text the model writes is no stand-in for silence.
LEMMA TextIsNotNone ==
  ASSUME NEW k \in Kinds
  PROVE  Text(k) # None
BY TextIsAText, NoneAssumption

\* What is once said is not unsaid by a reply to the conversation as it is.
LEMMA SaidStays ==
  ASSUME NEW k \in Kinds \cup {None}, Say(k, Now), said # None
  PROVE  said' # None
<1>1. CASE k = None
  BY <1>1 DEF Say, Now
<1>2. CASE k \in Kinds /\ k # None
  BY <1>2, TextIsNotNone DEF Say, Now
<1> QED BY <1>1, <1>2

\* The recovery neither finishes the run nor starts after it was finished.
LEMMA RecoveryStages ==
  ASSUME Recover
  PROVE  stage \notin Finishing /\ stage' \notin Finishing
<1>1. CASE Investigate \/ Restart \/ AnalysisCutShort
  BY <1>1 DEF Investigate, Restart, AnalysisCutShort, AnalysisPass, Goto, Finishing
<1>2. CASE CloseRefusedCalls \/ NothingToClose
  BY <1>2 DEF CloseRefusedCalls, NothingToClose, Goto, Finishing
<1>3. CASE NoPendingCall \/ ResolvePendingCall \/ LeavePendingCall \/ CorrectMalformedCall
  BY <1>3 DEF NoPendingCall, ResolvePendingCall, LeavePendingCall, CorrectMalformedCall,
              Goto, Finishing
<1>4. CASE Resume \/ Conclude
  BY <1>4 DEF Resume, Conclude, Goto, Finishing
<1>5. CASE StateRepetition \/ RecheckAbsence
  BY <1>5 DEF StateRepetition, RecheckAbsence, Goto, Finishing
<1>6. CASE StateUnreadRegions \/ StateUnfinished
  BY <1>6 DEF StateUnreadRegions, StateUnfinished, RegionsApply, FrontiersApply,
              StateAndHold, Goto, Finishing
<1>7. CASE NoStatement
  BY <1>7 DEF NoStatement, Skips, Goto, Finishing
<1>8. CASE ReferenceWithoutParser \/ ForceReferenceParser
  BY <1>8 DEF ReferenceWithoutParser, ForceReferenceParser, ReferenceApplies, Goto, Finishing
<1>9. CASE FollowPages \/ NoPages
  BY <1>9 DEF FollowPages, NoPages, PagesApply, Goto, Finishing
<1>10. CASE SourceWithoutTool \/ ForceMissingSource
  BY <1>10 DEF SourceWithoutTool, ForceMissingSource, SourcesApply, Goto, Finishing
<1>11. CASE FollowMatch \/ MatchDenied
  BY <1>11 DEF FollowMatch, MatchDenied, MatchApplies, Goto, Finishing
<1>12. CASE NothingToGather
  BY <1>12 DEF NothingToGather, Skips, Goto, Finishing
<1>13. CASE TerminalRequest \/ Reissue
  BY <1>13 DEF TerminalRequest, Reissue, TerminalApplies, ForceFinal, Goto, Finishing
<1>14. CASE NoTerminalRequest
  BY <1>14 DEF NoTerminalRequest, KeepFirstReply, Skips, Goto, Finishing
<1>15. CASE EnforceTerminalCallState
  BY <1>15 DEF EnforceTerminalCallState, Goto, Finishing
<1> QED
  BY <1>1, <1>2, <1>3, <1>4, <1>5, <1>6, <1>7, <1>8, <1>9, <1>10, <1>11, <1>12, <1>13,
     <1>14, <1>15 DEF Recover

-----------------------------------------------------------------------------
(* The draft, step by step *)

\* What a repeated statement does with the draft: it is taken again from the
\* conversation or withheld, or one more statement is delivered, or nothing.
Holds(s, next) ==
  /\ stage = s
  /\ told > 0 \/ final # None
  /\ said # None => said' # None
  /\ \/ Goto(next) /\ (Restated \/ final' \in {None, said'})
     \/ stage' = s /\ told < Cap /\ told' = told + 1 /\ final' = final
     \/ Goto(next) /\ told = 0 /\ said' = said /\ final' = final

LEMMA StatementStep ==
  ASSUME NEW s \in {"regions", "frontiers"}, NEW next \in {"absence", "reference"},
         DraftInv, Holds(s, next)
  PROVE  DraftInv'
<1> USE RecoveryAssumption DEF DraftInv, DraftIsTheSurvivingText, Early, Advising, Holds
<1>1. final # None => said # None
  OBVIOUS
<1>2. CASE Goto(next) /\ (Restated \/ final' \in {None, said'})
  BY <1>1, <1>2 DEF Goto, Restated, Unusable
<1>3. CASE stage' = s /\ told < Cap /\ told' = told + 1 /\ final' = final
  BY <1>1, <1>3
<1>4. CASE Goto(next) /\ told = 0 /\ said' = said /\ final' = final
  BY <1>1, <1>4 DEF Goto, Unusable
<1> QED BY <1>2, <1>3, <1>4

LEMMA RepliesSay ==
  ASSUME Replies, said # None
  PROVE  said' # None
BY SaidStays DEF Replies, Answers

LEMMA RegionsHold == ASSUME DraftInv, StateUnreadRegions PROVE Holds("regions", "absence")
<1>1. /\ stage = "regions" /\ told \in Nat
      /\ told > 0 \/ final # None
  BY DEF StateUnreadRegions, RegionsApply, Absence, DraftInv
<1>2. CASE ~UNCHANGED said
  <2>1. Replies
    BY <1>2 DEF StateUnreadRegions, StateAndHold, Denied, Failed, conversation
  <2>2. \/ Goto("absence") /\ (Restated \/ final' \in {None, said'})
        \/ stage' = "regions" /\ ~(told >= Cap) /\ told' = told + 1 /\ final' = final
    BY <1>2 DEF StateUnreadRegions, StateAndHold, Denied, Failed, conversation, KeepOrWithhold, CountStatement
  <2>3. ~(told >= Cap) => told < Cap
    BY <1>1, RecoveryAssumption
  <2> QED BY <1>1, <2>1, <2>2, <2>3, RepliesSay DEF Holds
<1>3. CASE UNCHANGED said
  <2>1. \/ Goto("absence") /\ (Restated \/ final' \in {None, said'})
        \/ stage' = "regions" /\ ~(told >= Cap) /\ told' = told + 1 /\ final' = final
        \/ Goto("absence") /\ ~(told > 0) /\ final' = final
    BY DEF StateUnreadRegions, StateAndHold, KeepOrWithhold, CountStatement
  <2>2. /\ ~(told >= Cap) => told < Cap
        /\ ~(told > 0) => told = 0
    BY <1>1, RecoveryAssumption
  <2> QED BY <1>1, <1>3, <2>1, <2>2 DEF Holds
<1> QED BY <1>2, <1>3

LEMMA FrontiersHold == ASSUME DraftInv, StateUnfinished PROVE Holds("frontiers", "reference")
<1>1. /\ stage = "frontiers" /\ told \in Nat
      /\ told > 0 \/ final # None
  BY DEF StateUnfinished, FrontiersApply, DraftInv
<1>2. CASE ~UNCHANGED said
  <2>1. Replies
    BY <1>2 DEF StateUnfinished, StateAndHold, Denied, Failed, conversation
  <2>2. \/ Goto("reference") /\ (Restated \/ final' \in {None, said'})
        \/ stage' = "frontiers" /\ ~(told >= Cap) /\ told' = told + 1 /\ final' = final
    BY <1>2 DEF StateUnfinished, StateAndHold, Denied, Failed, conversation, KeepOrWithhold, CountStatement
  <2>3. ~(told >= Cap) => told < Cap
    BY <1>1, RecoveryAssumption
  <2> QED BY <1>1, <2>1, <2>2, <2>3, RepliesSay DEF Holds
<1>3. CASE UNCHANGED said
  <2>1. \/ Goto("reference") /\ (Restated \/ final' \in {None, said'})
        \/ stage' = "frontiers" /\ ~(told >= Cap) /\ told' = told + 1 /\ final' = final
        \/ Goto("reference") /\ ~(told > 0) /\ final' = final
    BY DEF StateUnfinished, StateAndHold, KeepOrWithhold, CountStatement
  <2>2. /\ ~(told >= Cap) => told < Cap
        /\ ~(told > 0) => told = 0
    BY <1>1, RecoveryAssumption
  <2> QED BY <1>1, <1>3, <2>1, <2>2 DEF Holds
<1> QED BY <1>2, <1>3

LEMMA DraftStep ==
  ASSUME DraftInv, Recover
  PROVE  DraftInv'
<1> USE DEF DraftInv, DraftIsTheSurvivingText, Early, Advising
<1>1. CASE Investigate
  BY <1>1 DEF Investigate, AnalysisPass, Goto, Unusable
<1>2. CASE Restart
  BY <1>2 DEF Restart, conversation, Unusable
<1>3. CASE AnalysisCutShort
  BY <1>3 DEF AnalysisCutShort, AnalysisPass, Goto, Unusable
<1>4. CASE CloseRefusedCalls
  BY <1>4 DEF CloseRefusedCalls, Goto, Unusable
<1>5. CASE NothingToClose
  BY <1>5 DEF NothingToClose, conversation, Goto, Unusable
<1>6. CASE NoPendingCall
  BY <1>6 DEF NoPendingCall, conversation, Goto, Unusable
<1>7. CASE ResolvePendingCall
  BY <1>7 DEF ResolvePendingCall, Goto, Unusable
<1>8. CASE LeavePendingCall
  BY <1>8 DEF LeavePendingCall, conversation, Goto, Unusable
<1>9. CASE CorrectMalformedCall
  BY <1>9 DEF CorrectMalformedCall, Goto, Unusable
<1>10. CASE Resume
  BY <1>10 DEF Resume, Goto, Unusable
<1>11. CASE Conclude
  BY <1>11 DEF Conclude, Discard, conversation, Goto, Unusable
<1>12. CASE StateRepetition
  <2>1. /\ stage = "repetition" /\ stage' = "regions" /\ told' = 0
        /\ told = 0
    BY <1>12 DEF StateRepetition, Goto
  <2>2. CASE Replies /\ Restated
    <3>1. PICK k \in Kinds \cup {None} : Say(k, Now)
      BY <2>2 DEF Replies, Answers
    <3>2. said # None => said' # None
      BY <3>1, SaidStays
    <3> QED BY <2>1, <2>2, <3>2, RecoveryAssumption DEF Restated, Unusable
  <2>3. CASE UNCHANGED said /\ final' = final
    BY <2>1, <2>3, RecoveryAssumption DEF Unusable
  <2> QED BY <1>12, <2>2, <2>3 DEF StateRepetition, Denied, Failed, conversation
<1>13. CASE RecheckAbsence
  <2>1. /\ stage = "absence" /\ stage' = "frontiers" /\ told' = 0
        /\ told = 0
    BY <1>13 DEF RecheckAbsence, Goto
  <2>2. CASE Replies /\ Restated
    <3>1. PICK k \in Kinds \cup {None} : Say(k, Now)
      BY <2>2 DEF Replies, Answers
    <3>2. said # None => said' # None
      BY <3>1, SaidStays
    <3> QED BY <2>1, <2>2, <3>2, RecoveryAssumption DEF Restated, Unusable
  <2>3. CASE UNCHANGED said /\ final' = final
    BY <2>1, <2>3, RecoveryAssumption DEF Unusable
  <2> QED BY <1>13, <2>2, <2>3 DEF RecheckAbsence, Denied, Failed, conversation
<1>14. CASE StateUnreadRegions
  BY <1>14, StatementStep, RegionsHold
<1>15. CASE StateUnfinished
  BY <1>15, StatementStep, FrontiersHold
<1>16. CASE NoStatement
  BY <1>16, RecoveryAssumption DEF NoStatement, Skips, conversation, Goto, Unusable
<1>17. CASE ReferenceWithoutParser
  BY <1>17 DEF ReferenceWithoutParser, ReferenceApplies, Discard, Goto, Unusable
<1>18. CASE ForceReferenceParser
  BY <1>18 DEF ForceReferenceParser, ReferenceApplies, NewText, Discard, Goto, Unusable
<1>19. CASE FollowPages
  BY <1>19 DEF FollowPages, PagesApply, Discard, Goto, Unusable
<1>20. CASE NoPages
  BY <1>20 DEF NoPages, PagesApply, conversation, Goto, Unusable
<1>21. CASE SourceWithoutTool
  BY <1>21 DEF SourceWithoutTool, SourcesApply, Discard, Goto, Unusable
<1>22. CASE ForceMissingSource
  BY <1>22 DEF ForceMissingSource, SourcesApply, NewText, Discard, Goto, Unusable
<1>23. CASE FollowMatch
  BY <1>23 DEF FollowMatch, MatchApplies, conversation, Goto, Unusable
<1>24. CASE MatchDenied
  BY <1>24 DEF MatchDenied, MatchApplies, Discard, Goto, Unusable
<1>25. CASE NothingToGather
  BY <1>25 DEF NothingToGather, Skips, conversation, Goto, Unusable
<1>26. CASE TerminalRequest
  BY <1>26 DEF TerminalRequest, TerminalApplies, ForceFinal, ConcludeFromReply, Goto, Unusable
<1>27. CASE Reissue
  BY <1>27 DEF Reissue, ForceFinal, ConcludeFromReply, Goto, Unusable
<1>28. CASE NoTerminalRequest
  BY <1>28 DEF NoTerminalRequest, KeepFirstReply, Skips, conversation, Goto, Unusable
<1>29. CASE EnforceTerminalCallState
  BY <1>29 DEF EnforceTerminalCallState, conversation, Goto, Unusable
<1> QED
  BY <1>1, <1>2, <1>3, <1>4, <1>5, <1>6, <1>7, <1>8, <1>9, <1>10, <1>11, <1>12, <1>13,
     <1>14, <1>15, <1>16, <1>17, <1>18, <1>19, <1>20, <1>21, <1>22, <1>23, <1>24, <1>25,
     <1>26, <1>27, <1>28, <1>29 DEF Recover

-----------------------------------------------------------------------------
(* The decision, step by step *)

\* A recovery stage decides nothing.
LEMMA RecoveryDecidesNothing ==
  ASSUME IInv, Recover, UNCHANGED <<publicationVars, intact>>
  PROVE  IInv'
<1>1. stage \notin Finishing /\ stage' \notin Finishing
  BY RecoveryStages
<1>2. DraftInv'
  BY DraftStep DEF IInv
<1>3. Undecided' /\ Held' /\ Decided'
  BY <1>1 DEF IInv, Undecided, Held, Decided, Finishing, publicationVars
<1>4. ReportsAreJudged'
  BY DEF IInv, ReportsAreJudged, publicationVars
<1>5. stage' # "over"
  BY <1>1 DEF Finishing
<1> QED BY <1>2, <1>3, <1>4, <1>5 DEF IInv

\* An exception that leaves a stage leaves nothing accepted.
LEMMA RaiseStep ==
  ASSUME IInv, Raise
  PROVE  IInv'
<1>1. stage \notin Finishing
  BY DEF Raise, MayRaise, ReferenceApplies, PagesApply, MatchApplies, SourcesApply,
         TerminalApplies, Finishing
<1>2. stage' = "close" /\ told' = 0 /\ raised'
  BY DEF Raise, Goto
<1>3. UNCHANGED <<said, blocked, draft, rows, verdict, accepted, stated, returned, intact>>
  BY DEF Raise
<1>4. final' = final \/ final' = None
  BY DEF Raise
<1>5. told > 0 => Unusable(final)
  <2>1. stage \notin {"regions", "frontiers"}
    BY DEF Raise, MayRaise, ReferenceApplies, PagesApply, MatchApplies, SourcesApply,
           TerminalApplies
  <2> QED BY <2>1 DEF IInv, DraftInv, Early, Unusable
<1>6. DraftInv'
  BY <1>2, <1>3, <1>4, <1>5
  DEF IInv, DraftInv, Early, Advising, DraftIsTheSurvivingText, Unusable
<1>7. Undecided' /\ Held' /\ Decided'
  BY <1>1, <1>2, <1>3 DEF IInv, Undecided, Held, Decided, Finishing
<1>8. ReportsAreJudged'
  BY <1>3 DEF IInv, ReportsAreJudged
<1> QED BY <1>2, <1>6, <1>7, <1>8 DEF IInv

\* The two ways a decision may go.
Checking == verdict \in {"failed", "inconclusive", "advisory", "verified"}

NoAnswer ==
  /\ final = None /\ accepted = "none"
  /\ ~(blocked = {} /\ ~Unusable(draft) /\ Checking)

AnAnswer ==
  /\ final # None /\ accepted # "none"
  /\ final = draft
  /\ ~Unusable(final) => final = said
  /\ blocked = {} /\ Clean(final)
  /\ On({"verify"}) \/ On({"envelope"}) => Grounded(final)
  /\ verdict # "not_requested" =>
       /\ "bound" \in stated <=> Absence(final) /\ Unestablished
       /\ "gap" \in stated <=> accepted # "verifier"
       /\ accepted = "verifier" => Confirmed

LEMMA DecisionStep ==
  ASSUME IInv, stage \notin {"close", "over"}, Goto("close"),
         UNCHANGED <<raised, intact, returned>>,
         ReportsAreJudged', NoAnswer' \/ AnAnswer'
  PROVE  IInv'
<1>1. stage' = "close" /\ told' = 0
  BY DEF Goto
<1>2. DraftInv'
  BY <1>1 DEF NoAnswer, AnAnswer, DraftInv, Early, Advising, DraftIsTheSurvivingText, Unusable
<1>3. Undecided'
  BY <1>1 DEF IInv, Undecided, Finishing
<1>4. Held'
  BY <1>1 DEF Held
<1>5. Decided'
  <2>1. CASE NoAnswer'
    BY <2>1 DEF Decided, NoAnswer, Checking
  <2>2. CASE AnAnswer'
    BY <2>2 DEF Decided, AnAnswer
  <2> QED BY <2>1, <2>2
<1> QED BY <1>1, <1>2, <1>3, <1>4, <1>5 DEF IInv

\* Releasing a text that passed the gates before it decides for it or withholds
\* it behind the gate of its identifiers.
LEMMA ReleaseDecides ==
  ASSUME NEW t, NEW source \in {"draft", "verifier", "assembly"}, NEW v, NEW appended,
         Release(t, source, v, appended),
         t # None, draft' = t, ~Unusable(t) => t = said, blocked = {}, Clean(t),
         UNCHANGED <<said, arm, shortened, unread>>,
         v # "not_requested" =>
           /\ "bound" \in appended <=> Absence(t) /\ Unestablished
           /\ "gap" \in appended <=> source # "verifier",
         source = "verifier" => v = "verified" /\ rows' # <<>> /\ rows'[Len(rows')] = "success"
  PROVE  NoAnswer' \/ AnAnswer'
<1>1. CASE Grounded(t)
  BY <1>1 DEF Release, AnAnswer, Unusable, Clean, Grounded, On, Absence, Unestablished, Confirmed
<1>2. CASE ~Grounded(t)
  <2>1. blocked' # {}
    BY <1>2 DEF Release, Blocks
  <2> QED BY <1>2, <2>1 DEF Release, NoAnswer
<1> QED BY <1>1, <1>2

LEMMA WithholdDecides ==
  ASSUME NEW v, Withhold(v),
         v \notin {"failed", "inconclusive", "advisory", "verified"} \/ Unusable(draft')
  PROVE  NoAnswer'
BY DEF Withhold, NoAnswer, Checking, Unusable

\* A draft under verification that is released with its gap named.
LEMMA GapDecides ==
  ASSUME Held, stage = "verify", NEW v \in {"failed", "inconclusive", "advisory"},
         ReleaseWithGap(draft, v), UNCHANGED <<draft, said, arm, shortened, unread>>
  PROVE  /\ NoAnswer' \/ AnAnswer'
         /\ verdict' = v
<1>1. CASE draft = said
  <2>1. Release(draft, "draft", v, Bound(draft) \cup {"gap"})
    BY <1>1 DEF ReleaseWithGap
  <2>2. /\ "bound" \in Bound(draft) \cup {"gap"} <=> Absence(draft) /\ Unestablished
        /\ "gap" \in Bound(draft) \cup {"gap"}
    BY DEF Bound
  <2>3. NoAnswer' \/ AnAnswer'
    BY <1>1, <2>1, <2>2, ReleaseDecides DEF Held
  <2> QED BY <2>1, <2>3 DEF Release
<1>2. CASE draft # said
  BY <1>2, WithholdDecides DEF ReleaseWithGap, Held, Unusable, Withhold
<1> QED BY <1>1, <1>2

\* The rows a check of at most two requests can leave.
LEMMA OneMoreRow ==
  ASSUME rows \in {<<>>, <<"error">>}, NEW status \in {"error", "success"}
  PROVE  Append(rows, status) \in {<<status>>, <<"error", status>>}
<1>1. CASE rows = <<>>
  BY <1>1
<1>2. CASE rows = <<"error">>
  <2> DEFINE S == {"error", "success"}
             more == Append(rows, status)
             pair == <<"error", status>>
  <2>1. more \in Seq(S) /\ pair \in Seq(S)
    BY <1>2
  <2>2. Len(more) = 2 /\ more[1] = "error" /\ more[2] = status
    BY <1>2
  <2>3. Len(pair) = 2 /\ pair[1] = "error" /\ pair[2] = status
    OBVIOUS
  <2>4. \A i \in 1 .. Len(more) : more[i] = pair[i]
    BY <2>2, <2>3
  <2>5. more = pair
    <3> HIDE DEF more, pair, S
    <3> QED BY <2>1, <2>2, <2>3, <2>4, SeqEqual
  <2> QED BY <2>5
<1> QED BY <1>1, <1>2

LEMMA FinalizeStep ==
  ASSUME IInv, Finalize
  PROVE  IInv'
<1>0. /\ DraftInv /\ Undecided /\ Held /\ ReportsAreJudged
      /\ stage \in {"publish", "verify"} => rows \in {<<>>, <<"error">>}
      /\ stage = "publish" => rows = <<>> /\ told = 0 /\ (~Unusable(final) => final = said)
  BY DEF IInv, Undecided, Held, Finishing, DraftInv, DraftIsTheSurvivingText
<1> USE DEF ReportsAreJudged, settled, evidence, conversation
<1>1. CASE FinalizeBlocked
  <2>1. NoAnswer'
    BY <1>1, WithholdDecides DEF FinalizeBlocked
  <2> QED BY <1>0, <1>1, <2>1, DecisionStep DEF FinalizeBlocked
<1>2. CASE Assemble
  <2>1. CASE Withhold("not_requested")
    <3>1. NoAnswer'
      BY <2>1, WithholdDecides
    <3> QED BY <1>0, <1>2, <3>1, DecisionStep DEF Assemble
  <2>2. CASE /\ final # None /\ final = said /\ Clean(final)
             /\ Release(final, "assembly", "not_requested", {})
    <3>1. NoAnswer' \/ AnAnswer'
      BY <1>2, <2>2, ReleaseDecides DEF Assemble, FinalizationIsUnblocked
    <3> QED BY <1>0, <1>2, <3>1, DecisionStep DEF Assemble
  <2> QED BY <1>2, <2>1, <2>2 DEF Assemble
<1>3. CASE PublishRaw
  <2>1. CASE Withhold("not_requested")
    <3>1. NoAnswer'
      BY <2>1, WithholdDecides
    <3> QED BY <1>0, <1>3, <3>1, DecisionStep DEF PublishRaw
  <2>2. CASE ~Withhold("not_requested")
    <3>1. AnAnswer'
      BY <1>3, <2>2 DEF PublishRaw, FinalizationIsUnblocked, AnAnswer, Clean, On, Unusable
    <3> QED BY <1>0, <1>3, <3>1, DecisionStep DEF PublishRaw
  <2> QED BY <2>1, <2>2
<1>4. CASE VerificationImpossible
  <2>1. NoAnswer'
    BY <1>4, WithholdDecides DEF VerificationImpossible
  <2> QED BY <1>0, <1>4, <2>1, DecisionStep DEF VerificationImpossible, ToBeVerified
<1>5. CASE BuildBundle
  <2>1. /\ stage = "publish" /\ stage' = "verify" /\ told' = 0
        /\ draft' = final /\ final' = None /\ blocked = {} /\ verdict' = "requested"
        /\ final # None /\ Clean(final)
        /\ UNCHANGED <<said, blocked, rows, accepted, raised, returned, intact>>
    BY <1>5 DEF BuildBundle, ToBeVerified, FinalizationIsUnblocked, Goto
  <2>2. DraftInv'
    BY <1>0, <2>1 DEF DraftInv, Early, Advising, DraftIsTheSurvivingText, Unusable
  <2>3. Undecided' /\ Held' /\ Decided'
    BY <1>0, <2>1 DEF Undecided, Held, Decided, Finishing, Clean, Unusable
  <2> QED BY <1>0, <2>1, <2>2, <2>3 DEF IInv
<1>6. CASE NoEvidenceToCheck
  <2>1. NoAnswer'
    BY <1>6, WithholdDecides DEF NoEvidenceToCheck
  <2> QED BY <1>0, <1>6, <2>1, DecisionStep DEF NoEvidenceToCheck, Verifying
<1>7. CASE CitedValuesDropped
  <2>1. NoAnswer' \/ AnAnswer'
    BY <1>0, <1>7, GapDecides DEF CitedValuesDropped, Verifying
  <2> QED BY <1>0, <1>7, <2>1, DecisionStep DEF CitedValuesDropped, Verifying
<1>8. CASE VerifierDenied
  <2>1. NoAnswer' \/ AnAnswer'
    BY <1>0, <1>8, GapDecides DEF VerifierDenied, Verifying
  <2> QED BY <1>0, <1>8, <2>1, DecisionStep DEF VerifierDenied, Verifying
<1>9. CASE VerifierFails
  <2>1. NoAnswer' \/ AnAnswer'
    BY <1>0, <1>9, GapDecides DEF VerifierFails, Verifying
  <2>2. rows' \in {<<>>, <<"error">>, <<"error", "error">>}
    BY <1>0, <1>9, OneMoreRow DEF VerifierFails, Verifying
  <2> QED BY <1>0, <1>9, <2>1, <2>2, DecisionStep DEF VerifierFails, Verifying
<1>10. CASE VerifierRetries
  <2>1. /\ stage = "verify" /\ rows = <<>> /\ rows' = <<"error">>
        /\ UNCHANGED <<stage, told, final, said, blocked, draft, verdict, accepted, stated,
                       shortened, unread, arm, raised, returned, closed, intact>>
    BY <1>10 DEF VerifierRetries, Verifying, recoveryVars
  <2>2. DraftInv'
    BY <1>0, <2>1 DEF DraftInv, Early, Advising, DraftIsTheSurvivingText, Unusable
  <2>3. Undecided' /\ Held' /\ Decided'
    BY <1>0, <2>1 DEF Undecided, Held, Decided, Finishing, Clean, Unusable
  <2> QED BY <1>0, <2>1, <2>2, <2>3 DEF IInv
<1>11. CASE VerifierJudges
  <2>1. /\ stage = "verify" /\ Goto("close")
        /\ rows' \in {<<"success">>, <<"error", "success">>}
        /\ UNCHANGED <<settled, draft, shortened, raised, returned, intact>>
    BY <1>0, <1>11, OneMoreRow DEF VerifierJudges, Verifying
  <2>2. CASE ReleaseWithGap(draft, "advisory")
    <3>1. (NoAnswer' \/ AnAnswer') /\ verdict' = "advisory"
      BY <1>0, <2>1, <2>2, GapDecides
    <3> QED BY <1>0, <2>1, <3>1, DecisionStep
  <2>3. CASE Release(draft, "verifier", "verified", Bound(draft))
    <3>1. /\ "bound" \in Bound(draft) <=> Absence(draft) /\ Unestablished
          /\ "gap" \notin Bound(draft)
      BY DEF Bound
    <3>2. NoAnswer' \/ AnAnswer'
      BY <1>0, <2>1, <2>3, <3>1, ReleaseDecides DEF Held
    <3>3. verdict' = "verified"
      BY <2>3 DEF Release
    <3> QED BY <1>0, <2>1, <3>2, <3>3, DecisionStep
  <2> QED BY <1>11, <2>1, <2>2, <2>3 DEF VerifierJudges, LedgerBound
<1> QED
  BY <1>1, <1>2, <1>3, <1>4, <1>5, <1>6, <1>7, <1>8, <1>9, <1>10, <1>11 DEF Finalize

\* Closing the case hands out what was decided, or takes it back.
LEMMA CloseStep ==
  ASSUME IInv, CloseCase
  PROVE  IInv'
<1>1. /\ stage = "close" /\ stage' = "over" /\ told' = 0
      /\ UNCHANGED <<arm, said, unread, blocked, draft, shortened, rows, verdict, raised>>
  BY DEF CloseCase, Goto, settled, evidence, conversation
<1>2. \/ intact' /\ UNCHANGED <<final, accepted, stated>>
      \/ ~intact' /\ final' = None /\ accepted' = "none" /\ stated' = {}
  BY DEF CloseCase, Revoke
<1>3. /\ closed'.text = final'
      /\ closed'.status = "ok" <=> intact' /\ final' # None
      /\ returned' = IF raised THEN None ELSE final'
  BY DEF CloseCase
<1>4. DraftInv'
  BY <1>1, <1>2
  DEF IInv, DraftInv, Early, Advising, DraftIsTheSurvivingText, Unusable
<1>5. Undecided' /\ Held' /\ Decided'
  BY <1>1 DEF IInv, Undecided, Held, Decided, Finishing
<1>6. ReportsAreJudged'
  BY <1>1 DEF IInv, ReportsAreJudged
<1>7. NothingPastAGate'
  BY <1>1, <1>2, <1>3 DEF IInv, Decided, NothingPastAGate, Clean, Grounded, On
<1>8. RecordAgreesWithAnswer'
  BY <1>1, <1>2, <1>3 DEF IInv, Decided, RecordAgreesWithAnswer
<1>9. CheckLosesNoDraft'
  BY <1>1, <1>2, <1>3 DEF IInv, Decided, CheckLosesNoDraft, Unusable
<1>10. AbsenceStatesItsBound'
  BY <1>1, <1>2, <1>3 DEF IInv, Decided, AbsenceStatesItsBound, Absence, Unestablished
<1>11. UnconfirmedTextNamesItsGap'
  BY <1>1, <1>2, <1>3 DEF IInv, Decided, UnconfirmedTextNamesItsGap, Confirmed
<1> QED BY <1>1, <1>4, <1>5, <1>6, <1>7, <1>8, <1>9, <1>10, <1>11 DEF IInv

LEMMA InitIInv == Init => IInv
BY DEF Init, RecoveryInit, IInv, DraftInv, Undecided, Held, Decided, ReportsAreJudged, Early,
       Advising, Finishing, DraftIsTheSurvivingText, Unusable

LEMMA NextIInv ==
  ASSUME IInv, [Next]_vars
  PROVE  IInv'
<1>1. CASE Recover /\ UNCHANGED <<publicationVars, intact>>
  BY <1>1, RecoveryDecidesNothing
<1>2. CASE Raise
  BY <1>2, RaiseStep
<1>3. CASE Finalize
  BY <1>3, FinalizeStep
<1>4. CASE CloseCase
  BY <1>4, CloseStep
<1>5. CASE UNCHANGED vars
  BY <1>5
  DEF vars, recoveryVars, conversation, evidence, publicationVars, IInv, DraftInv, Undecided, Held,
      Decided, ReportsAreJudged, NothingPastAGate, RecordAgreesWithAnswer, CheckLosesNoDraft,
      UnconfirmedTextNamesItsGap, Confirmed, AbsenceStatesItsBound, Early, Advising, Finishing, DraftIsTheSurvivingText, Unusable,
      Clean, Grounded, On, Absence, Unestablished
<1> QED BY <1>1, <1>2, <1>3, <1>4, <1>5 DEF Next, Step, Done

-----------------------------------------------------------------------------
(* What a stage may not do *)

LEMMA HeldAbsence ==
  ASSUME IInv, NEW s \in {"regions", "frontiers"}, stage = s, final # None, final' = None,
         told > 0 \/ final # None,
         \/ Replies /\ Restated
         \/ told > 0 /\ Restated /\ UNCHANGED said
         \/ Replies /\ told >= Cap /\ said'.kind = "absence" /\ exhausted' = exhausted
  PROVE  told = Cap /\ said'.kind = "absence" /\ exhausted' = exhausted
<1>1. said # None
  BY DEF IInv, DraftInv, Advising
<1>2. told \in Nat /\ told <= Cap /\ Cap \in Nat
  BY RecoveryAssumption DEF IInv, DraftInv
<1>3. Replies => said' # None
  BY <1>1, RepliesSay
<1>4. ~(Replies /\ Restated) /\ ~(Restated /\ UNCHANGED said)
  BY <1>1, <1>3 DEF Restated
<1> QED BY <1>2, <1>4

LEMMA WithholdingStep ==
  ASSUME IInv, Next,
         stage \in {"repetition", "regions", "absence", "frontiers"}, final # None, final' = None
  PROVE  told = Cap /\ said'.kind = "absence" /\ exhausted' = exhausted
<1>1. CASE StateRepetition \/ RecheckAbsence
  <2>1. Replies /\ Restated
    BY <1>1 DEF StateRepetition, RecheckAbsence
  <2>2. said # None
    BY DEF IInv, DraftInv, Advising
  <2> QED BY <2>1, <2>2, RepliesSay DEF Restated
<1>2. CASE StateUnreadRegions
  <2>1. stage = "regions"
    BY <1>2 DEF StateUnreadRegions, RegionsApply
  <2>2. \/ Replies /\ Restated
        \/ told > 0 /\ Restated /\ UNCHANGED said
        \/ Replies /\ told >= Cap /\ said'.kind = "absence" /\ exhausted' = exhausted
        \/ Replies /\ told >= Cap /\ final' = said'
    BY <1>2 DEF StateUnreadRegions, StateAndHold, KeepOrWithhold, Denied, Failed, conversation
  <2>3. said # None
    BY DEF IInv, DraftInv, Advising
  <2> QED BY <2>1, <2>2, <2>3, HeldAbsence, RepliesSay
<1>3. CASE StateUnfinished
  <2>1. stage = "frontiers"
    BY <1>3 DEF StateUnfinished, FrontiersApply
  <2>2. \/ Replies /\ Restated
        \/ told > 0 /\ Restated /\ UNCHANGED said
        \/ Replies /\ told >= Cap /\ said'.kind = "absence" /\ exhausted' = exhausted
        \/ Replies /\ told >= Cap /\ final' = said'
    BY <1>3 DEF StateUnfinished, StateAndHold, KeepOrWithhold, Denied, Failed, conversation
  <2>3. said # None
    BY DEF IInv, DraftInv, Advising
  <2> QED BY <2>1, <2>2, <2>3, HeldAbsence, RepliesSay
<1>4. CASE NoStatement
  BY <1>4 DEF NoStatement, Skips
<1>5. CASE Raise \/ Finalize \/ CloseCase \/ Done
  BY <1>5
  DEF Raise, MayRaise, ReferenceApplies, PagesApply, MatchApplies, SourcesApply, TerminalApplies,
      Finalize, FinalizeBlocked, Assemble, PublishRaw, ToBeVerified, VerificationImpossible,
      BuildBundle, Verifying, NoEvidenceToCheck, CitedValuesDropped, VerifierDenied, VerifierFails,
      VerifierRetries, VerifierJudges, CloseCase, Done
<1>6. CASE \/ Investigate \/ Restart \/ AnalysisCutShort \/ CloseRefusedCalls \/ NothingToClose
           \/ NoPendingCall \/ ResolvePendingCall \/ LeavePendingCall \/ CorrectMalformedCall
           \/ Resume \/ Conclude
  BY <1>6 DEF Investigate, Restart, AnalysisCutShort, AnalysisPass, CloseRefusedCalls, NothingToClose,
      NoPendingCall, ResolvePendingCall, LeavePendingCall, CorrectMalformedCall, Resume, Conclude
<1>7. CASE \/ ReferenceWithoutParser \/ ForceReferenceParser \/ FollowPages \/ NoPages
           \/ SourceWithoutTool \/ ForceMissingSource \/ FollowMatch \/ MatchDenied
           \/ NothingToGather
  BY <1>7 DEF ReferenceWithoutParser, ForceReferenceParser, ReferenceApplies, FollowPages, NoPages,
      PagesApply, SourceWithoutTool, ForceMissingSource, SourcesApply, FollowMatch, MatchDenied,
      MatchApplies, NothingToGather, Skips
<1>8. CASE TerminalRequest \/ Reissue \/ NoTerminalRequest \/ EnforceTerminalCallState
  BY <1>8 DEF TerminalRequest, TerminalApplies, Reissue, NoTerminalRequest, KeepFirstReply, Skips,
      EnforceTerminalCallState
<1> QED
  BY <1>1, <1>2, <1>3, <1>4, <1>5, <1>6, <1>7, <1>8 DEF Next, Step, Recover

-----------------------------------------------------------------------------
(* The order of the stages *)

LEMMA Positions ==
  /\ Position("analysis") = 1 /\ "analysis" \in Stages
  /\ Position("closing") = 2 /\ "closing" \in Stages
  /\ Position("pending") = 3 /\ "pending" \in Stages
  /\ Position("resume") = 4 /\ "resume" \in Stages
  /\ Position("conclude") = 5 /\ "conclude" \in Stages
  /\ Position("repetition") = 6 /\ "repetition" \in Stages
  /\ Position("regions") = 7 /\ "regions" \in Stages
  /\ Position("absence") = 8 /\ "absence" \in Stages
  /\ Position("frontiers") = 9 /\ "frontiers" \in Stages
  /\ Position("reference") = 10 /\ "reference" \in Stages
  /\ Position("pages") = 11 /\ "pages" \in Stages
  /\ Position("sources") = 12 /\ "sources" \in Stages
  /\ Position("match") = 13 /\ "match" \in Stages
  /\ Position("terminal") = 14 /\ "terminal" \in Stages
  /\ Position("reissue") = 15 /\ "reissue" \in Stages
  /\ Position("calls") = 16 /\ "calls" \in Stages
  /\ Position("publish") = 17 /\ "publish" \in Stages
  /\ Position("verify") = 18 /\ "verify" \in Stages
  /\ Position("close") = 19 /\ "close" \in Stages
  /\ Position("over") = 20 /\ "over" \in Stages
<1>1. Position("analysis") = 1 /\ "analysis" \in Stages
  BY DEF Position, Stages, Order
<1>2. Position("closing") = 2 /\ "closing" \in Stages
  BY DEF Position, Stages, Order
<1>3. Position("pending") = 3 /\ "pending" \in Stages
  BY DEF Position, Stages, Order
<1>4. Position("resume") = 4 /\ "resume" \in Stages
  BY DEF Position, Stages, Order
<1>5. Position("conclude") = 5 /\ "conclude" \in Stages
  BY DEF Position, Stages, Order
<1>6. Position("repetition") = 6 /\ "repetition" \in Stages
  BY DEF Position, Stages, Order
<1>7. Position("regions") = 7 /\ "regions" \in Stages
  BY DEF Position, Stages, Order
<1>8. Position("absence") = 8 /\ "absence" \in Stages
  BY DEF Position, Stages, Order
<1>9. Position("frontiers") = 9 /\ "frontiers" \in Stages
  BY DEF Position, Stages, Order
<1>10. Position("reference") = 10 /\ "reference" \in Stages
  BY DEF Position, Stages, Order
<1>11. Position("pages") = 11 /\ "pages" \in Stages
  BY DEF Position, Stages, Order
<1>12. Position("sources") = 12 /\ "sources" \in Stages
  BY DEF Position, Stages, Order
<1>13. Position("match") = 13 /\ "match" \in Stages
  BY DEF Position, Stages, Order
<1>14. Position("terminal") = 14 /\ "terminal" \in Stages
  BY DEF Position, Stages, Order
<1>15. Position("reissue") = 15 /\ "reissue" \in Stages
  BY DEF Position, Stages, Order
<1>16. Position("calls") = 16 /\ "calls" \in Stages
  BY DEF Position, Stages, Order
<1>17. Position("publish") = 17 /\ "publish" \in Stages
  BY DEF Position, Stages, Order
<1>18. Position("verify") = 18 /\ "verify" \in Stages
  BY DEF Position, Stages, Order
<1>19. Position("close") = 19 /\ "close" \in Stages
  BY DEF Position, Stages, Order
<1>20. Position("over") = 20 /\ "over" \in Stages
  BY DEF Position, Stages, Order
<1> QED
  BY <1>1, <1>2, <1>3, <1>4, <1>5, <1>6, <1>7, <1>8, <1>9, <1>10, <1>11, <1>12, <1>13, <1>14, <1>15, <1>16, <1>17, <1>18, <1>19, <1>20

\* A stage is left for a later one, or is passed once more below its bound.
Advances ==
  \/ stage' \in Stages /\ Position(stage') > Position(stage) /\ told' = 0
  \/ stage' = stage /\ told' = told + 1 /\ (told + 1 < Attempts \/ ~(told >= Cap))

LEMMA RecoveryAdvances ==
  ASSUME Recover
  PROVE  Advances
<1> USE Positions DEF Advances, Goto
<1>1. CASE Investigate
  BY <1>1 DEF Investigate, AnalysisPass
<1>2. CASE Restart
  BY <1>2 DEF Restart
<1>3. CASE AnalysisCutShort
  BY <1>3 DEF AnalysisCutShort, AnalysisPass
<1>4. CASE CloseRefusedCalls
  BY <1>4 DEF CloseRefusedCalls
<1>5. CASE NothingToClose
  BY <1>5 DEF NothingToClose
<1>6. CASE NoPendingCall
  BY <1>6 DEF NoPendingCall
<1>7. CASE ResolvePendingCall
  BY <1>7 DEF ResolvePendingCall
<1>8. CASE LeavePendingCall
  BY <1>8 DEF LeavePendingCall
<1>9. CASE CorrectMalformedCall
  BY <1>9 DEF CorrectMalformedCall
<1>10. CASE Resume
  BY <1>10 DEF Resume
<1>11. CASE Conclude
  BY <1>11 DEF Conclude
<1>12. CASE StateRepetition
  BY <1>12 DEF StateRepetition
<1>13. CASE RecheckAbsence
  BY <1>13 DEF RecheckAbsence
<1>14. CASE StateUnreadRegions
  BY <1>14 DEF StateUnreadRegions, RegionsApply, StateAndHold, CountStatement
<1>15. CASE StateUnfinished
  BY <1>15 DEF StateUnfinished, FrontiersApply, StateAndHold, CountStatement
<1>16. CASE NoStatement
  BY <1>16 DEF NoStatement, Skips
<1>17. CASE ReferenceWithoutParser
  BY <1>17 DEF ReferenceWithoutParser, ReferenceApplies
<1>18. CASE ForceReferenceParser
  BY <1>18 DEF ForceReferenceParser, ReferenceApplies
<1>19. CASE FollowPages
  BY <1>19 DEF FollowPages, PagesApply
<1>20. CASE NoPages
  BY <1>20 DEF NoPages, PagesApply
<1>21. CASE SourceWithoutTool
  BY <1>21 DEF SourceWithoutTool, SourcesApply
<1>22. CASE ForceMissingSource
  BY <1>22 DEF ForceMissingSource, SourcesApply
<1>23. CASE FollowMatch
  BY <1>23 DEF FollowMatch, MatchApplies
<1>24. CASE MatchDenied
  BY <1>24 DEF MatchDenied, MatchApplies
<1>25. CASE NothingToGather
  BY <1>25 DEF NothingToGather, Skips
<1>26. CASE TerminalRequest
  BY <1>26 DEF TerminalRequest, TerminalApplies, ForceFinal
<1>27. CASE Reissue
  BY <1>27 DEF Reissue, ForceFinal
<1>28. CASE NoTerminalRequest
  BY <1>28 DEF NoTerminalRequest, KeepFirstReply, Skips
<1>29. CASE EnforceTerminalCallState
  BY <1>29 DEF EnforceTerminalCallState
<1> QED
  BY <1>1, <1>2, <1>3, <1>4, <1>5, <1>6, <1>7, <1>8, <1>9, <1>10, <1>11, <1>12, <1>13, <1>14, <1>15, <1>16, <1>17, <1>18, <1>19, <1>20, <1>21, <1>22, <1>23, <1>24, <1>25, <1>26, <1>27, <1>28, <1>29 DEF Recover

-----------------------------------------------------------------------------
(* The types *)

CallsLeft == {"none", "one", "several", "malformed", "deferred"}

\* The conversation, the draft and what is known of the evidence, with what the
\* terminal request is made from.
DataInv ==
  /\ arm \in Arms
  /\ {said, final} \subseteq Texts \cup {None}
  /\ asked = None \/ stage = "reissue"
  /\ stage = "reissue" =>
       /\ asked.said \in Texts \cup {None} /\ asked.calls \in CallsLeft
       /\ asked.discarded \in BOOLEAN
  /\ calls \in CallsLeft
  /\ blocked \subseteq Gates
  /\ missing \in 0 .. Sources
  /\ {discarded, exhausted, unread, unfinished, cutOff} \subseteq BOOLEAN

LEMMA SayTyped ==
  ASSUME NEW k \in Kinds \cup {None}, NEW before, Say(k, before),
         before.said \in Texts \cup {None}, before.discarded \in BOOLEAN
  PROVE  said' \in Texts \cup {None} /\ discarded' \in BOOLEAN
<1>1. discarded' \in BOOLEAN
  BY DEF Say
<1>2. CASE k = None
  BY <1>1, <1>2 DEF Say
<1>3. CASE k \in Kinds /\ k # None
  BY <1>1, <1>3, TextIsAText DEF Say
<1> QED BY <1>2, <1>3

LEMMA AnswersTyped ==
  ASSUME NEW before, Answers(before),
         before.said \in Texts \cup {None}, before.discarded \in BOOLEAN
  PROVE  said' \in Texts \cup {None} /\ discarded' \in BOOLEAN /\ calls' \in CallsLeft
<1>1. PICK k \in Kinds \cup {None}, c \in {"none", "malformed"} :
        Say(k, before) /\ EndsOn(c, before)
  BY DEF Answers
<1>2. calls' \in CallsLeft
  BY <1>1 DEF EndsOn, CallsLeft
<1> QED BY <1>1, <1>2, SayTyped

LEMMA DataStep ==
  ASSUME DataInv, Recover
  PROVE  DataInv'
<1> USE DEF DataInv, conversation, evidence, CallsLeft, Goto, Gates
<1>a. /\ Now.said \in Texts \cup {None} /\ Now.discarded \in BOOLEAN /\ Now.calls = calls
      /\ [Now EXCEPT !.discarded = (said # None)].said \in Texts \cup {None}
      /\ [Now EXCEPT !.discarded = (said # None)].discarded \in BOOLEAN
  BY DEF Now
<1>b. Reads => {unread', unfinished'} \subseteq BOOLEAN /\ missing' \in 0 .. Sources
  <2>1. missing \in Int /\ Sources \in Int /\ 0 <= missing /\ missing <= Sources
    BY RecoveryAssumption
  <2>2. Reads => missing' \in 0 .. Sources
    BY <2>1 DEF Reads
  <2>3. Reads => {unread', unfinished'} \subseteq BOOLEAN
    BY DEF Reads
  <2> QED BY <2>2, <2>3
<1>c. Replies \/ RepliesAfresh =>
        /\ said' \in Texts \cup {None} /\ discarded' \in BOOLEAN /\ calls' \in CallsLeft
        /\ asked' = asked
  BY <1>a, AnswersTyped DEF Replies, RepliesAfresh
<1>d. \A k \in Kinds \cup {None} :
        Say(k, Now) => said' \in Texts \cup {None} /\ discarded' \in BOOLEAN
  BY <1>a, SayTyped
<1>e. /\ Answers(Now) =>
           said' \in Texts \cup {None} /\ discarded' \in BOOLEAN /\ calls' \in CallsLeft
      /\ stage = "reissue" /\ Answers(asked) =>
           said' \in Texts \cup {None} /\ discarded' \in BOOLEAN /\ calls' \in CallsLeft
  BY <1>a, AnswersTyped
<1>1. CASE Investigate
  BY <1>b, <1>c, <1>d, <1>1 DEF Investigate, AnalysisPass
<1>2. CASE Restart
  BY <1>b, <1>c, <1>d, <1>2 DEF Restart
<1>3. CASE AnalysisCutShort
  BY <1>b, <1>c, <1>d, <1>3 DEF AnalysisCutShort, AnalysisPass, MaybeDenied
<1>4. CASE CloseRefusedCalls
  BY <1>b, <1>c, <1>d, <1>4 DEF CloseRefusedCalls, SomeDenial
<1>5. CASE NothingToClose
  BY <1>b, <1>c, <1>d, <1>5 DEF NothingToClose
<1>6. CASE NoPendingCall
  BY <1>b, <1>c, <1>d, <1>6 DEF NoPendingCall
<1>7. CASE ResolvePendingCall
  BY <1>b, <1>c, <1>d, <1>7 DEF ResolvePendingCall
<1>8. CASE LeavePendingCall
  BY <1>b, <1>c, <1>d, <1>8 DEF LeavePendingCall, Blocks, MaybeDenied
<1>9. CASE CorrectMalformedCall
  BY <1>b, <1>c, <1>d, <1>9 DEF CorrectMalformedCall, Denied, Failed, SomeDenial, Blocks
<1>10. CASE Resume
  BY <1>b, <1>c, <1>d, <1>10 DEF Resume, Blocks, MaybeDenied
<1>11. CASE Conclude
  BY <1>b, <1>c, <1>d, <1>11 DEF Conclude, Discard
<1>12. CASE StateRepetition
  BY <1>b, <1>c, <1>d, <1>12 DEF StateRepetition, Denied, Failed, SomeDenial, Restated
<1>13. CASE RecheckAbsence
  BY <1>b, <1>c, <1>d, <1>13 DEF RecheckAbsence, Denied, Failed, SomeDenial, Restated
<1>14. CASE StateUnreadRegions
  BY <1>b, <1>c, <1>d, <1>14 DEF StateUnreadRegions, RegionsApply, StateAndHold, KeepOrWithhold, Denied, Failed, SomeDenial, Restated, Blocks
<1>15. CASE StateUnfinished
  BY <1>b, <1>c, <1>d, <1>15 DEF StateUnfinished, FrontiersApply, StateAndHold, KeepOrWithhold, Denied, Failed, SomeDenial, Restated, Blocks
<1>16. CASE NoStatement
  BY <1>b, <1>c, <1>d, <1>16 DEF NoStatement, Skips
<1>17. CASE ReferenceWithoutParser
  BY <1>b, <1>c, <1>d, <1>17 DEF ReferenceWithoutParser, ReferenceApplies, Discard
<1>18. CASE ForceReferenceParser
  BY <1>b, <1>c, <1>d, <1>18 DEF ForceReferenceParser, ReferenceApplies, SomeDenial, NewText, Discard, Blocks
<1>19. CASE FollowPages
  BY <1>b, <1>c, <1>d, <1>19 DEF FollowPages, PagesApply, Discard, MaybeDenied
<1>20. CASE NoPages
  BY <1>b, <1>c, <1>d, <1>20 DEF NoPages, PagesApply, MaybeDenied
<1>21. CASE SourceWithoutTool
  BY <1>b, <1>c, <1>d, <1>21 DEF SourceWithoutTool, SourcesApply, Discard, Blocks
<1>22. CASE ForceMissingSource
  BY <1>b, <1>c, <1>d, <1>22 DEF ForceMissingSource, SourcesApply, SomeDenial, NewText, Discard, Blocks
<1>23. CASE FollowMatch
  BY <1>b, <1>c, <1>d, <1>23 DEF FollowMatch, MatchApplies
<1>24. CASE MatchDenied
  BY <1>b, <1>c, <1>d, <1>24 DEF MatchDenied, MatchApplies, Discard, Blocks, SomeDenial
<1>25. CASE NothingToGather
  BY <1>b, <1>c, <1>d, <1>25 DEF NothingToGather, Skips
<1>26. CASE TerminalRequest
  BY <1>a, <1>e, <1>26 DEF TerminalRequest, TerminalApplies, ForceFinal, ConcludeFromReply, SomeDenial
<1>27. CASE Reissue
  BY <1>a, <1>e, <1>27 DEF Reissue, ForceFinal, ConcludeFromReply, SomeDenial
<1>28. CASE NoTerminalRequest
  BY <1>b, <1>c, <1>d, <1>28 DEF NoTerminalRequest, KeepFirstReply, Skips
<1>29. CASE EnforceTerminalCallState
  BY <1>b, <1>c, <1>d, <1>29 DEF EnforceTerminalCallState, Blocks
<1> QED
  BY <1>1, <1>2, <1>3, <1>4, <1>5, <1>6, <1>7, <1>8, <1>9, <1>10, <1>11, <1>12, <1>13, <1>14, <1>15, <1>16, <1>17, <1>18, <1>19, <1>20, <1>21, <1>22, <1>23, <1>24, <1>25, <1>26, <1>27, <1>28, <1>29 DEF Recover

\* What is published, and the record of it.
OutInv ==
  /\ {draft, returned} \subseteq Texts \cup {None}
  /\ rows \in {<<>>, <<"success">>, <<"error">>, <<"error", "error">>, <<"error", "success">>}
  /\ verdict \in Verdicts
  /\ accepted \in {"none", "draft", "verifier", "assembly"}
  /\ stated \subseteq {"bound", "gap"}
  /\ closed \in [text : Texts \cup {None}, status : {"ok", "aborted", "integrity_violation"}] \cup {None}
  /\ {shortened, intact, raised} \subseteq BOOLEAN

PlaceInv ==
  /\ stage \in Stages
  /\ told \in 0 .. (IF Cap + 1 > Attempts THEN Cap + 1 ELSE Attempts)

\* A recovery step stays within the bounds of its stage.
LEMMA PlaceStep ==
  ASSUME PlaceInv, Advances
  PROVE  PlaceInv'
<1>1. told \in Nat /\ Cap \in Nat /\ Attempts \in Nat \ {0}
  BY RecoveryAssumption DEF PlaceInv
<1>2. CASE stage' \in Stages /\ told' = 0
  BY <1>1, <1>2 DEF PlaceInv
<1>3. CASE stage' = stage /\ told' = told + 1 /\ (told + 1 < Attempts \/ ~(told >= Cap))
  BY <1>1, <1>3 DEF PlaceInv
<1> QED BY <1>2, <1>3 DEF Advances

\* What becomes of a text is one of the few outcomes of the record.
LEMMA ReleaseTyped ==
  ASSUME DataInv, NEW t \in Texts \cup {None}, NEW source \in {"draft", "verifier", "assembly"},
         NEW v \in Verdicts, NEW appended \in SUBSET {"bound", "gap"},
         Release(t, source, v, appended) \/ Withhold(v)
  PROVE  /\ final' \in Texts \cup {None} /\ blocked' \subseteq Gates
         /\ verdict' \in Verdicts /\ accepted' \in {"none", "draft", "verifier", "assembly"}
         /\ stated' \subseteq {"bound", "gap"}
<1>1. CASE Withhold(v)
  BY <1>1 DEF Withhold, DataInv
<1>2. CASE Release(t, source, v, appended)
  BY <1>2 DEF Release, DataInv, Blocks, Gates
<1> QED BY <1>1, <1>2

LEMMA GapTyped ==
  ASSUME DataInv, NEW t \in Texts \cup {None}, NEW v \in Verdicts, ReleaseWithGap(t, v)
  PROVE  /\ final' \in Texts \cup {None} /\ blocked' \subseteq Gates
         /\ verdict' \in Verdicts /\ accepted' \in {"none", "draft", "verifier", "assembly"}
         /\ stated' \subseteq {"bound", "gap"}
<1>1. Bound(t) \cup {"gap"} \in SUBSET {"bound", "gap"}
  BY DEF Bound
<1> QED BY <1>1, ReleaseTyped DEF ReleaseWithGap

\* A step of the finalization leads on, or adds the one row of a retry.
LEMMA FinalizeAdvances ==
  ASSUME IInv, Finalize \/ Raise \/ CloseCase
  PROVE  \/ Advances
         \/ stage' = stage /\ told' = told /\ Len(rows') > Len(rows)
<1> USE Positions DEF Advances, Goto
<1>1. CASE VerifierRetries
  BY <1>1 DEF VerifierRetries, recoveryVars
<1>2. CASE Finalize /\ ~VerifierRetries
  BY <1>2 DEF Finalize, FinalizeBlocked, Assemble, PublishRaw, ToBeVerified, VerificationImpossible,
      BuildBundle, Verifying, NoEvidenceToCheck, CitedValuesDropped, VerifierDenied, VerifierFails,
      VerifierJudges
<1>3. CASE Raise
  BY <1>3 DEF Raise, MayRaise, ReferenceApplies, PagesApply, MatchApplies, SourcesApply, TerminalApplies
<1>4. CASE CloseCase
  BY <1>4 DEF CloseCase
<1> QED BY <1>1, <1>2, <1>3, <1>4

LEMMA FinalizeTyped ==
  ASSUME DataInv, OutInv, IInv, Finalize
  PROVE  DataInv' /\ OutInv'
<1> USE DEF settled, evidence, conversation
<1>0. {"blocked", "not_requested", "no_draft", "no_claims", "projection", "no_evidence",
       "requested", "failed", "inconclusive", "advisory", "verified"} \subseteq Verdicts
  BY DEF Verdicts
<1>1. stage \in {"publish", "verify"} /\ stage' \in {"verify", "close"}
  BY DEF Finalize, FinalizeBlocked, Assemble, PublishRaw, ToBeVerified, VerificationImpossible,
      BuildBundle, Verifying, NoEvidenceToCheck, CitedValuesDropped, VerifierDenied, VerifierFails,
      VerifierRetries, VerifierJudges, recoveryVars, Goto
<1>2. /\ final' \in Texts \cup {None} /\ blocked' \subseteq Gates
      /\ verdict' \in Verdicts /\ accepted' \in {"none", "draft", "verifier", "assembly"}
      /\ stated' \subseteq {"bound", "gap"}
  <2>1. CASE FinalizeBlocked \/ VerificationImpossible \/ NoEvidenceToCheck
    <3>1. PICK v \in Verdicts : Withhold(v)
      BY <1>0, <2>1 DEF FinalizeBlocked, VerificationImpossible, NoEvidenceToCheck
    <3> QED BY <3>1 DEF Withhold, DataInv
  <2>2. CASE Assemble
    <3>1. \/ Release(final, "assembly", "not_requested", {})
          \/ Withhold("not_requested")
      BY <2>2 DEF Assemble
    <3>2. final \in Texts \cup {None}
      BY DEF DataInv
    <3> QED BY <1>0, <3>1, <3>2, ReleaseTyped
  <2>3. CASE PublishRaw
    BY <1>0, <2>3 DEF PublishRaw, Withhold, DataInv
  <2>4. CASE BuildBundle
    BY <1>0, <2>4 DEF BuildBundle, DataInv, OutInv
  <2>5. CASE CitedValuesDropped \/ VerifierDenied \/ VerifierFails
    <3>1. PICK v \in Verdicts : ReleaseWithGap(draft, v)
      BY <1>0, <2>5 DEF CitedValuesDropped, VerifierDenied, VerifierFails
    <3> QED BY <3>1, GapTyped DEF OutInv
  <2>6. CASE VerifierRetries
    BY <2>6 DEF VerifierRetries, recoveryVars, DataInv, OutInv
  <2>7. CASE VerifierJudges
    <3>1. \/ \E v \in Verdicts : ReleaseWithGap(draft, v)
          \/ Release(draft, "verifier", "verified", Bound(draft))
      BY <1>0, <2>7 DEF VerifierJudges
    <3>2. Bound(draft) \in SUBSET {"bound", "gap"} /\ draft \in Texts \cup {None}
      BY DEF Bound, OutInv
    <3> QED BY <1>0, <3>1, <3>2, GapTyped, ReleaseTyped
  <2> QED BY <2>1, <2>2, <2>3, <2>4, <2>5, <2>6, <2>7 DEF Finalize
<1>3. draft' \in {draft, final} /\ shortened' \in {shortened, TRUE, FALSE}
  BY DEF Finalize, FinalizeBlocked, Assemble, PublishRaw, VerificationImpossible, BuildBundle,
      NoEvidenceToCheck, CitedValuesDropped, VerifierDenied, VerifierFails, VerifierRetries,
      VerifierJudges
<1>4. rows' \in {<<>>, <<"success">>, <<"error">>, <<"error", "error">>, <<"error", "success">>}
  <2>1. CASE UNCHANGED rows
    BY <2>1 DEF OutInv
  <2>2. CASE VerifierFails \/ VerifierRetries \/ VerifierJudges
    <3>1. rows \in {<<>>, <<"error">>}
      BY <2>2 DEF IInv, Held, VerifierFails, VerifierRetries, VerifierJudges, Verifying
    <3>2. \/ UNCHANGED rows
          \/ \E status \in {"error", "success"} : rows' = Append(rows, status)
      BY <2>2 DEF VerifierFails, VerifierRetries, VerifierJudges
    <3> QED BY <2>1, <3>1, <3>2, OneMoreRow
  <2> QED BY <2>1, <2>2
    DEF Finalize, FinalizeBlocked, Assemble, PublishRaw, VerificationImpossible, BuildBundle,
        NoEvidenceToCheck, CitedValuesDropped, VerifierDenied
<1>5. /\ UNCHANGED <<arm, said, calls, asked, discarded, missing, unread, unfinished, cutOff,
                     raised, closed, returned, intact>>
      /\ exhausted' \in {exhausted, TRUE}
  BY DEF Finalize, FinalizeBlocked, Assemble, PublishRaw, VerificationImpossible, BuildBundle,
      NoEvidenceToCheck, CitedValuesDropped, VerifierDenied, VerifierFails, VerifierRetries,
      VerifierJudges, recoveryVars, SomeDenial
<1> QED BY <1>1, <1>2, <1>3, <1>4, <1>5 DEF DataInv, OutInv

LEMMA RaiseTyped ==
  ASSUME DataInv, OutInv, Raise
  PROVE  DataInv' /\ OutInv'
BY DEF Raise, Goto, DataInv, OutInv, evidence

LEMMA CloseTyped ==
  ASSUME DataInv, OutInv, CloseCase
  PROVE  DataInv' /\ OutInv'
<1>1. /\ final' \in {final, None} /\ accepted' \in {accepted, "none"} /\ stated' \in {stated, {}}
      /\ intact' \in BOOLEAN
  BY DEF CloseCase, Revoke
<1>2. /\ stage = "close" /\ stage' = "over"
      /\ UNCHANGED <<arm, said, calls, asked, discarded, missing, unread, unfinished, cutOff,
                     blocked, exhausted, draft, shortened, rows, verdict, raised>>
  BY DEF CloseCase, settled, conversation, evidence, Goto
<1>3. returned' \in {final', None}
      /\ closed' \in [text : {final'}, status : {"ok", "aborted", "integrity_violation"}]
  BY DEF CloseCase
<1>4. DataInv'
  BY <1>1, <1>2 DEF DataInv
<1>5. final' \in Texts \cup {None}
  BY <1>4 DEF DataInv
<1>6. closed' \in [text : Texts \cup {None}, status : {"ok", "aborted", "integrity_violation"}]
  BY <1>3, <1>5
<1> QED BY <1>1, <1>2, <1>3, <1>4, <1>5, <1>6 DEF OutInv

TInv == IInv /\ DataInv /\ OutInv /\ PlaceInv

LEMMA InitTInv == Init => TInv
<1> SUFFICES ASSUME Init PROVE TInv
  OBVIOUS
<1>1. IInv
  BY InitIInv
<1>2. DataInv
  <2>1. Sources \in 0 .. Sources
    BY RecoveryAssumption
  <2> QED BY <2>1 DEF Init, RecoveryInit, DataInv, CallsLeft
<1>3. OutInv
  BY DEF Init, OutInv, Verdicts
<1>4. PlaceInv
  BY Positions, RecoveryAssumption, SMTT(60) DEF Init, RecoveryInit, PlaceInv
<1> QED BY <1>1, <1>2, <1>3, <1>4 DEF TInv

LEMMA NextTInv ==
  ASSUME TInv, [Next]_vars
  PROVE  TInv'
<1>0. IInv'
  BY NextIInv DEF TInv
<1>1. CASE Recover /\ UNCHANGED <<publicationVars, intact>>
  <2>1. DataInv' /\ PlaceInv'
    BY <1>1, DataStep, RecoveryAdvances, PlaceStep DEF TInv
  <2>2. OutInv'
    BY <1>1 DEF TInv, OutInv, publicationVars
  <2> QED BY <1>0, <2>1, <2>2 DEF TInv
<1>2. CASE Finalize \/ Raise \/ CloseCase
  <2>1. DataInv' /\ OutInv'
    BY <1>2, FinalizeTyped, RaiseTyped, CloseTyped DEF TInv
  <2>2. PlaceInv'
    BY <1>2, FinalizeAdvances, PlaceStep DEF TInv, PlaceInv
  <2> QED BY <1>0, <2>1, <2>2 DEF TInv
<1>3. CASE UNCHANGED vars
  BY <1>0, <1>3 DEF vars, recoveryVars, conversation, evidence, publicationVars, TInv, DataInv,
                    OutInv, PlaceInv
<1> QED BY <1>1, <1>2, <1>3 DEF Next, Step, Done

-----------------------------------------------------------------------------
(* Theorems *)

\* The strengthened invariant holds of the specification.
THEOREM Invariance == Spec => []IInv
<1>1. Init => IInv
  BY InitIInv
<1>2. IInv /\ [Next]_vars => IInv'
  BY NextIInv
<1> QED BY <1>1, <1>2, PTL DEF Spec

\* Whatever the recovery stages did to the conversation and the draft, a draft
\* that can be published is the last text of the conversation
\* (_final_ai_text), so its binding to a response of the model holds.
THEOREM DraftSurvives == Spec => []DraftIsTheSurvivingText
<1>1. IInv => DraftIsTheSurvivingText
  BY DEF IInv, DraftInv
<1> QED BY <1>1, Invariance, PTL

\* No answer leaves _execute_runtime past a gate, over changed evidence, or
\* after an exception.
THEOREM GatesHold == Spec => []NothingPastAGate
<1>1. IInv => NothingPastAGate
  BY DEF IInv, Undecided, NothingPastAGate
<1> QED BY <1>1, Invariance, PTL

\* However the final check of a run ended, what is handed out as confirmed rests on
\* a successful last verification row, and every other text states its gap
\* (_publish_draft_with_verification_gap).
THEOREM GapsAreNamed == Spec => []UnconfirmedTextNamesItsGap
<1>1. IInv => UnconfirmedTextNamesItsGap
  BY DEF IInv, Undecided, UnconfirmedTextNamesItsGap
<1> QED BY <1>1, Invariance, PTL

\* A final check that fails, is denied or doubts costs no run the draft it was
\* given, against what the architecture documents say.
THEOREM ChecksKeepDrafts == Spec => []CheckLosesNoDraft
<1>1. IInv => CheckLosesNoDraft
  BY DEF IInv, CheckLosesNoDraft
<1> QED BY <1>1, Invariance, PTL

\* A verifier report that came back, be it on the retry, is judged.
THEOREM ReportsJudged == Spec => []ReportsAreJudged
<1>1. IInv => ReportsAreJudged
  BY DEF IInv
<1> QED BY <1>1, Invariance, PTL

\* A checked answer that claims an absence over unread or shortened evidence
\* says so, and no other answer does.
THEOREM AbsencesAreBounded == Spec => []AbsenceStatesItsBound
<1>1. IInv => AbsenceStatesItsBound
  BY DEF IInv, Undecided, AbsenceStatesItsBound
<1> QED BY <1>1, Invariance, PTL

\* The entry that closes the case names a source for exactly the text that the
\* run hands out.
THEOREM RecordAgrees == Spec => []RecordAgreesWithAnswer
<1>1. IInv => RecordAgreesWithAnswer
  BY DEF IInv, RecordAgreesWithAnswer
<1> QED BY <1>1, Invariance, PTL

\* Advice costs a run its answer in one case only: an absence that stands after
\* the last statement, with requests left.
THEOREM AdviceWithholdsOnlyAbsences == Spec => OnlyAStandingAbsenceIsWithheld
<1>1. IInv /\ [Next]_vars =>
        [(stage \in {"repetition", "regions", "absence", "frontiers"} /\ final # None /\ final' = None)
           => told = Cap /\ said'.kind = "absence" /\ exhausted' = exhausted]_vars
  BY WithholdingStep
<1> QED BY <1>1, Invariance, PTL DEF Spec, OnlyAStandingAbsenceIsWithheld

\* Every text, record and verdict is one of those the code knows, and the check
\* makes at most two requests of the model (_run_enabled_verification).
THEOREM TypeCorrect == Spec => []TypeOK
<1>1. Init => TInv
  BY InitTInv
<1>2. TInv /\ [Next]_vars => TInv'
  BY NextTInv
<1>3. TInv => TypeOK
  BY DEF TInv, DataInv, OutInv, PlaceInv, TypeOK, RecoveryTypeOK, CallsLeft
<1> QED BY <1>1, <1>2, <1>3, PTL DEF Spec

\* No stage asks the model without end, whatever it answers: every step leaves
\* its stage behind, or is one more of a bounded number of passes, statements or
\* verification rows.
THEOREM StagesAdvance == Spec => EveryStepAdvances
<1>1. IInv /\ [Next]_vars =>
        [\/ Position(stage') > Position(stage)
         \/ stage' = stage /\ told' > told
         \/ stage' = stage /\ Len(rows') > Len(rows)]_vars
  <2> SUFFICES ASSUME IInv, Step
               PROVE  \/ Position(stage') > Position(stage)
                      \/ stage' = stage /\ told' > told
                      \/ stage' = stage /\ Len(rows') > Len(rows)
    BY DEF Next, Done
  <2>1. told \in Nat
    BY DEF IInv, DraftInv
  <2>2. \/ Advances
        \/ stage' = stage /\ Len(rows') > Len(rows)
    BY RecoveryAdvances, FinalizeAdvances DEF Step
  <2> QED BY <2>1, <2>2 DEF Advances
<1> QED BY <1>1, Invariance, PTL DEF Spec, EveryStepAdvances

=============================================================================
