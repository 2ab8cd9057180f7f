------------------------ MODULE ToolDispatchProofs ------------------------
(***************************************************************************)
(* Proofs about ToolDispatch for every finite set of calls, every set of   *)
(* signatures and all ceilings.                                            *)
(***************************************************************************)
EXTENDS ToolDispatch, FiniteSetTheorems, TLAPS

-----------------------------------------------------------------------------
(* The inductive invariant. *)

Early   == {"idle", "recall_refusal", "recall_success", "reserve"}
Holding == {"submitting", "waiting", "timed_out", "quiescing", "passed"}

\* What the stage of a call says about its worker, its permit, its attempt and
\* its answer.
StageInv ==
  \A c \in Calls :
    /\ worker[c] = "none" <=> ordinal[c] = 0 \/ stage[c] = "submitting"
    /\ stage[c] \in Early => ordinal[c] = 0 /\ answer[c] = "none"
    /\ stage[c] \in Holding => ordinal[c] # 0 /\ answer[c] = "none"
    /\ stage[c] = "recording" => ordinal[c] # 0 /\ answer[c] = "result" /\ DeclaredSuccess(c)
    /\ worker[c] = "running" => stage[c] \in Holding \ {"submitting", "passed"}
    /\ answer[c] = "refusal" => ordinal[c] # 0 /\ Kind(c) = "tool"
    /\ answer[c] = "cached" => ordinal[c] = 0 /\ stage[c] = "returned"

\* The permits: ordinals are handed out from 1 without a gap, each to one call,
\* and the attempt of an ordinal is recorded exactly when its call is done.
PermitInv ==
  /\ \A c \in Calls : ordinal[c] <= dispatches[Kind(c)]
  /\ \A c, d \in Calls : ordinal[c] # 0 /\ ordinal[c] = ordinal[d] /\ Kind(c) = Kind(d) => c = d
  /\ \A k \in Kinds : \A o \in 1 .. dispatches[k] :
       \E c \in Calls : Kind(c) = k /\ ordinal[c] = o
  /\ \A k \in Kinds : \A o \in DOMAIN attempts[k] :
       \E c \in Calls : Kind(c) = k /\ ordinal[c] = o /\ o # 0
  /\ \A c \in Calls : AlreadyRecorded(c) <=> ordinal[c] # 0 /\ stage[c] \notin Holding

\* The record of successes names a call that really ended well.
RecordInv ==
  /\ \A s \in Signatures : successes[s] # None =>
       worker[successes[s]] = "ok" /\ sig[successes[s]] = s
  /\ \A c \in Calls : answer[c] = "cached" => successes[sig[c]] = servedFrom[c] /\ servedFrom[c] # None

\* The counters behind the ceiling.
CountInv ==
  /\ dispatches["tool"] = Cardinality(Reservations("tool"))
  /\ refusedCalls = Cardinality({c \in Calls : answer[c] = "refusal"})
  /\ EvidenceReadings <= MaxToolCalls

\* The model has the turn only when no call is under way.
TurnInv == cell # "tools" => \A c \in Calls : stage[c] \in Decided \cup {"idle"}

IInv == TypeOK /\ StageInv /\ PermitInv /\ RecordInv /\ CountInv /\ TurnInv

-----------------------------------------------------------------------------
(* Typing *)

\* Recording an attempt, or finding it already recorded, keeps the types of the
\* variables Complete changes.
LEMMA CompleteType ==
  ASSUME TypeOK, NEW c \in Calls, NEW status \in Statuses, NEW next \in Stages,
         Complete(c, status, next)
  PROVE  /\ DOMAIN attempts' = Kinds
         /\ \A k \in Kinds : DOMAIN attempts'[k] \subseteq Nat
         /\ exhaustion' \subseteq {"max_tool_calls", "max_navigation_calls", "max_wall_time_s"}
         /\ stage' \in [Calls -> Stages]
         /\ \A d \in Calls : d # c => stage'[d] = stage[d]
         /\ stage'[c] \in {next, "raised"}
<1>1. "raised" \in Stages
  BY DEF Stages, Decided
<1>2. CASE AlreadyRecorded(c)
  <2>1. stage' = [stage EXCEPT ![c] = "raised"] /\ UNCHANGED <<attempts, exhaustion>>
    BY <1>2 DEF Complete
  <2>2. stage \in [Calls -> Stages]
    BY DEF TypeOK
  <2>3. /\ stage' \in [Calls -> Stages]
        /\ \A d \in Calls : d # c => stage'[d] = stage[d]
        /\ stage'[c] \in {next, "raised"}
    BY <1>1, <2>1, <2>2
  <2>4. QED
    BY <2>1, <2>3 DEF TypeOK
<1>3. CASE ~AlreadyRecorded(c)
  <2>1. attempts' = [attempts EXCEPT ![Kind(c)] =
                 [o \in DOMAIN attempts[Kind(c)] \cup {ordinal[c]} |->
                    IF o = ordinal[c] THEN status ELSE attempts[Kind(c)][o]]]
    BY <1>3 DEF Complete, RecordAttempt
  <2>2. Kind(c) \in Kinds /\ ordinal[c] \in Nat
    BY DEF Kind, Kinds, TypeOK
  <2>3. DOMAIN attempts' = Kinds /\ \A k \in Kinds : DOMAIN attempts'[k] \subseteq Nat
    BY <2>1, <2>2 DEF TypeOK
  <2>4. QED
    BY <1>3, <2>3, ZenonT(60) DEF Complete, TypeOK
<1>4. QED
  BY <1>2, <1>3

LEMMA InitType == Init => TypeOK
<1> SUFFICES ASSUME Init PROVE TypeOK
  OBVIOUS
<1>1. DOMAIN attempts = Kinds /\ \A k \in Kinds : DOMAIN attempts[k] \subseteq Nat
  <2>1. attempts = [k \in Kinds |-> [o \in {} |-> "error"]]
    BY DEF Init
  <2>2. \A k \in Kinds : attempts[k] = [o \in {} |-> "error"]
    BY <2>1
  <2>3. QED
    BY <2>1, <2>2
<1>2. now \in 0 .. Deadline
  BY CeilingsAssumption DEF Init
<1>3. /\ sig \in [Calls -> Signatures \cup {None}]
      /\ stage \in [Calls -> Stages]
      /\ worker \in [Calls -> Outcomes \cup {"none", "running"}]
      /\ \A c \in Calls : stage[c] = "idle" <=> sig[c] = None
  BY DEF Init, Stages
<1>4. /\ ordinal \in [Calls -> Nat]
      /\ answer \in [Calls -> Answers]
      /\ servedFrom \in [Calls -> Calls \cup {None}]
      /\ successes \in [Signatures -> Calls \cup {None}]
      /\ dispatches \in [Kinds -> Nat]
  BY DEF Init, Answers
<1>5. QED
  BY <1>1, <1>2, <1>3, <1>4 DEF Init, TypeOK

\* Every step keeps the types.
LEMMA TypeStep ==
  ASSUME TypeOK, [Next]_vars
  PROVE  TypeOK'
<1> USE SignaturesAssumption, CeilingsAssumption
<1> USE DEF budgetVars, callVars
<1>1. CASE Respond
  <2>1. PICK batch \in SUBSET Idle : \E asked \in [batch -> Signatures] :
          /\ sig' = [c \in Calls |-> IF c \in batch THEN asked[c] ELSE sig[c]]
          /\ stage' = [c \in Calls |-> IF c \notin batch THEN stage[c]
                                       ELSE IF Navigates(asked[c]) THEN "reserve"
                                       ELSE "recall_refusal"]
    BY <1>1 DEF Respond
  <2>2. sig' \in [Calls -> Signatures \cup {None}] /\ stage' \in [Calls -> Stages]
    BY <2>1 DEF TypeOK, Stages
  <2>3. QED
    BY <1>1, <2>2 DEF Respond, TypeOK
<1>2. CASE EndBatch
  BY <1>2 DEF EndBatch, TypeOK
<1>3. CASE CloseCell
  BY <1>3 DEF CloseCell, TypeOK
<1>4. CASE Tick
  BY <1>4 DEF Tick, TypeOK
<1>5. CASE Cancel
  BY <1>5 DEF Cancel, TypeOK
<1>6. ASSUME NEW c \in Calls, Thread(c) PROVE TypeOK'
  <2>1. CASE RecallRefusal(c)
    BY <2>1 DEF RecallRefusal, TypeOK, Stages, Decided, Answers
  <2>2. CASE RecallSuccess(c)
    <3>1. successes[sig[c]] \in Calls \cup {None}
      BY <2>2 DEF RecallSuccess, KnownSuccess, TypeOK
    <3>2. CASE successes[sig[c]] # None
      BY <2>2, <3>1, <3>2 DEF RecallSuccess, KnownSuccess, TypeOK, Stages, Decided, Answers
    <3>3. CASE successes[sig[c]] = None
      BY <2>2, <3>3 DEF RecallSuccess, KnownSuccess, TypeOK, Stages, Decided, Answers
    <3>4. QED
      BY <3>2, <3>3
  <2>3. CASE Reserve(c)
    <3>1. Kind(c) \in Kinds
      BY DEF Kind, Kinds
    <3>2. /\ stage' \in [Calls -> Stages]
          /\ \A d \in Calls : stage'[d] = "idle" <=> stage[d] = "idle"
      BY <2>3 DEF Reserve, TypeOK, Stages, Decided
    <3>3. /\ dispatches' \in [Kinds -> Nat]
          /\ ordinal' \in [Calls -> Nat]
          /\ UNCHANGED worker
      BY <2>3, <3>1 DEF Reserve, NextOrdinal, TypeOK
    <3>4. exhaustion' \subseteq {"max_tool_calls", "max_navigation_calls", "max_wall_time_s"}
      <4>1. /\ StopReasons \subseteq {"max_wall_time_s"}
            /\ {CeilingReason(Kind(c))} \subseteq {"max_tool_calls", "max_navigation_calls"}
        BY DEF StopReasons, CeilingReason
      <4>2. exhaustion' \in {exhaustion, exhaustion \cup StopReasons,
                             exhaustion \cup {CeilingReason(Kind(c))}}
        BY <2>3, Zenon DEF Reserve
      <4>3. exhaustion \subseteq {"max_tool_calls", "max_navigation_calls", "max_wall_time_s"}
        BY DEF TypeOK
      <4>4. QED
        BY <4>1, <4>2, <4>3
    <3>5. QED
      BY <2>3, <3>2, <3>3, <3>4 DEF Reserve, TypeOK
  <2>4. CASE WaitExpires(c)
    BY <2>4 DEF WaitExpires, TypeOK, Stages
  <2>5. CASE AfterTimeout(c)
    <3>1. CASE worker[c] # "running"
      <4>1. Complete(c, "error", "raised")
        BY <2>5, <3>1 DEF AfterTimeout
      <4>2. QED
        BY <2>5, <4>1, CompleteType DEF AfterTimeout, TypeOK, Statuses, Stages, Decided
    <3>2. CASE worker[c] = "running"
      BY <2>5, <3>2 DEF AfterTimeout, TypeOK, Stages
    <3>3. QED
      BY <3>1, <3>2
  <2>6. CASE Quiesce(c)
    BY <2>6, CompleteType DEF Quiesce, TypeOK, Statuses, Stages, Decided
  <2>7. CASE BodyRaised(c)
    BY <2>7, CompleteType DEF BodyRaised, TypeOK, Statuses, Stages, Decided
  <2>8. CASE CheckRemaining(c)
    <3>1. CASE Stopped
      <4>1. Complete(c, "deadline_exceeded", "denied")
        BY <2>8, <3>1 DEF CheckRemaining
      <4>2. QED
        BY <2>8, <4>1, CompleteType DEF CheckRemaining, TypeOK, Statuses, Stages, Decided
    <3>2. CASE ~Stopped
      BY <2>8, <3>2 DEF CheckRemaining, TypeOK, Stages
    <3>3. QED
      BY <3>1, <3>2
  <2>9. CASE RefuseCall(c)
    <3>1. Complete(c, "error", "returned") /\ sig[c] \in Signatures
      BY <2>9 DEF RefuseCall, TypeOK
    <3>2. QED
      BY <2>9, <3>1, CompleteType DEF RefuseCall, TypeOK, Statuses, Stages, Decided, Answers
  <2>10. CASE CompleteCall(c)
    <3>1. Complete(c, "success", IF DeclaredSuccess(c) THEN "recording" ELSE "returned")
      BY <2>10 DEF CompleteCall
    <3>2. QED
      BY <2>10, <3>1, CompleteType DEF CompleteCall, TypeOK, Statuses, Stages, Decided, Answers
  <2>11. CASE RecordSuccess(c)
    BY <2>11 DEF RecordSuccess, KeepFirst, TypeOK, Stages, Decided
  <2>13. CASE Submit(c)
    BY <2>13 DEF Submit, TypeOK, Stages, Decided
  <2>12. QED
    BY <1>6, <2>1, <2>2, <2>3, <2>4, <2>5, <2>6, <2>7, <2>8, <2>9, <2>10, <2>11, <2>13 DEF Thread
<1>7. ASSUME NEW c \in Calls, RunBody(c) PROVE TypeOK'
  BY <1>7 DEF RunBody, TypeOK
<1>8. CASE UNCHANGED vars
  BY <1>8 DEF vars, TypeOK
<1>9. QED
  BY <1>1, <1>2, <1>3, <1>4, <1>5, <1>6, <1>7, <1>8 DEF Next, Done

\* Every reachable state of the cell is well typed, whatever the calls, the
\* signatures and the ceilings.
THEOREM TypeCorrect == Spec => []TypeOK
<1>1. TypeOK /\ [Next]_vars => TypeOK'
  BY TypeStep
<1>2. QED
  BY InitType, <1>1, PTL DEF Spec

-----------------------------------------------------------------------------
(* What one step does, restated in the form the invariance proofs use. *)

\* A call that still holds its permit has no attempt yet, so completing it
\* records exactly one, under its own ordinal.
LEMMA CompleteFresh ==
  ASSUME IInv, NEW c \in Calls, NEW status \in Statuses, NEW next \in Stages,
         stage[c] \in Holding, Complete(c, status, next)
  PROVE  /\ stage' = [stage EXCEPT ![c] = next]
         /\ ~AlreadyRecorded(c)
         /\ DOMAIN attempts'[Kind(c)] = DOMAIN attempts[Kind(c)] \cup {ordinal[c]}
         /\ \A k \in Kinds \ {Kind(c)} : attempts'[k] = attempts[k]
<1>1. ~AlreadyRecorded(c)
  BY DEF IInv, PermitInv
<1>2. /\ stage' = [stage EXCEPT ![c] = next]
      /\ attempts' = [attempts EXCEPT ![Kind(c)] =
                 [o \in DOMAIN attempts[Kind(c)] \cup {ordinal[c]} |->
                    IF o = ordinal[c] THEN status ELSE attempts[Kind(c)][o]]]
  BY <1>1 DEF Complete, RecordAttempt
<1>3. Kind(c) \in Kinds /\ DOMAIN attempts = Kinds
  BY DEF Kind, Kinds, IInv, TypeOK
<1>4. QED
  BY <1>1, <1>2, <1>3

\* A step that completes the permit of one call keeps the permits in order.
LEMMA CompletePermits ==
  ASSUME IInv, NEW c \in Calls, NEW status \in Statuses, NEW next \in Stages \ Holding,
         stage[c] \in Holding, Complete(c, status, next),
         UNCHANGED <<dispatches, sig, ordinal>>
  PROVE  PermitInv'
<1>1. /\ stage' = [stage EXCEPT ![c] = next]
      /\ DOMAIN attempts'[Kind(c)] = DOMAIN attempts[Kind(c)] \cup {ordinal[c]}
      /\ \A k \in Kinds \ {Kind(c)} : attempts'[k] = attempts[k]
  BY CompleteFresh
<1>2. stage \in [Calls -> Stages] /\ ordinal[c] # 0
  BY DEF IInv, TypeOK, StageInv
<1>3. \A d \in Calls : Kind(d)' = Kind(d) /\ Kind(d) \in Kinds
  BY DEF Kind, Kinds
<1>4. /\ \A d \in Calls : ordinal'[d] <= dispatches'[Kind(d)']
      /\ \A d, e \in Calls : ordinal'[d] # 0 /\ ordinal'[d] = ordinal'[e] /\ Kind(d)' = Kind(e)' => d = e
      /\ \A k \in Kinds : \A o \in 1 .. dispatches'[k] :
           \E d \in Calls : Kind(d)' = k /\ ordinal'[d] = o
  BY <1>3 DEF IInv, PermitInv
<1>5. \A k \in Kinds : \A o \in DOMAIN attempts'[k] :
        \E d \in Calls : Kind(d)' = k /\ ordinal'[d] = o /\ o # 0
  BY <1>1, <1>2, <1>3 DEF IInv, PermitInv
<1>6. \A d \in Calls : AlreadyRecorded(d)' <=> ordinal'[d] # 0 /\ stage'[d] \notin Holding
  <2> SUFFICES ASSUME NEW d \in Calls
               PROVE  AlreadyRecorded(d)' <=> ordinal'[d] # 0 /\ stage'[d] \notin Holding
    OBVIOUS
  <2>1. AlreadyRecorded(d)' <=> AlreadyRecorded(d) \/ (Kind(d) = Kind(c) /\ ordinal[d] = ordinal[c])
    BY <1>1, <1>3 DEF AlreadyRecorded
  <2>2. AlreadyRecorded(d) <=> ordinal[d] # 0 /\ stage[d] \notin Holding
    BY DEF IInv, PermitInv
  <2>3. CASE d = c
    BY <1>1, <1>2, <2>1, <2>3
  <2>4. CASE d # c
    <3>1. ~(Kind(d) = Kind(c) /\ ordinal[d] = ordinal[c])
      BY <1>2, <2>4 DEF IInv, PermitInv
    <3>2. stage'[d] = stage[d]
      BY <1>1, <1>2, <2>4
    <3>3. QED
      BY <2>1, <2>2, <3>1, <3>2
  <2>5. QED
    BY <2>3, <2>4
<1>7. QED
  BY <1>4, <1>5, <1>6 DEF PermitInv

\* A step that neither reserves nor completes leaves the permits as they are.
LEMMA IdlePermits ==
  ASSUME IInv, UNCHANGED <<dispatches, attempts, ordinal>>,
         \A c \in Calls : ordinal[c] # 0 => sig'[c] = sig[c] /\ (stage'[c] \in Holding <=> stage[c] \in Holding)
  PROVE  PermitInv'
<1>1. \A c \in Calls : ordinal[c] # 0 => Kind(c)' = Kind(c)
  BY DEF Kind
<1>2. \A c \in Calls : ordinal[c] = 0 => ~AlreadyRecorded(c)' /\ ordinal'[c] <= dispatches'[Kind(c)']
  <2> SUFFICES ASSUME NEW c \in Calls, ordinal[c] = 0
               PROVE  ~AlreadyRecorded(c)' /\ ordinal'[c] <= dispatches'[Kind(c)']
    OBVIOUS
  <2>1. Kind(c)' \in Kinds
    BY DEF Kind, Kinds
  <2>2. 0 \notin DOMAIN attempts[Kind(c)'] /\ dispatches[Kind(c)'] \in Nat
    BY <2>1 DEF IInv, PermitInv, TypeOK
  <2>3. QED
    BY <2>2 DEF AlreadyRecorded
<1>3. \A c \in Calls : ordinal[c] # 0 =>
        /\ ordinal'[c] <= dispatches'[Kind(c)']
        /\ AlreadyRecorded(c)' <=> ordinal'[c] # 0 /\ stage'[c] \notin Holding
  BY <1>1 DEF IInv, PermitInv, AlreadyRecorded
<1>4. \A c, d \in Calls : ordinal'[c] # 0 /\ ordinal'[c] = ordinal'[d] /\ Kind(c)' = Kind(d)' => c = d
  BY <1>1 DEF IInv, PermitInv
<1>5. \A k \in Kinds : \A o \in 1 .. dispatches'[k] :
        \E c \in Calls : Kind(c)' = k /\ ordinal'[c] = o
  <2> SUFFICES ASSUME NEW k \in Kinds, NEW o \in 1 .. dispatches[k]
               PROVE  \E c \in Calls : Kind(c)' = k /\ ordinal[c] = o
    OBVIOUS
  <2>1. PICK c \in Calls : Kind(c) = k /\ ordinal[c] = o
    BY DEF IInv, PermitInv
  <2>2. ordinal[c] # 0
    BY <2>1 DEF IInv, TypeOK
  <2>3. QED
    BY <1>1, <2>1, <2>2
<1>6. \A k \in Kinds : \A o \in DOMAIN attempts'[k] :
        \E c \in Calls : Kind(c)' = k /\ ordinal'[c] = o /\ o # 0
  BY <1>1 DEF IInv, PermitInv
<1>7. QED
  BY <1>2, <1>3, <1>4, <1>5, <1>6 DEF PermitInv

-----------------------------------------------------------------------------
(* Every step keeps the inductive invariant. *)

\* The turn: a batch ends only when every call of it is decided.
LEMMA TurnStep ==
  ASSUME IInv, [Next]_vars
  PROVE  TurnInv'
<1> USE SignaturesAssumption, CeilingsAssumption DEF budgetVars, callVars
<1>1. CASE Respond
  BY <1>1 DEF Respond, IInv, TypeOK, TurnInv, Decided, Over, Stages, StageInv, Early, Holding
<1>2. CASE EndBatch \/ CloseCell \/ Tick \/ Cancel \/ UNCHANGED vars
  BY <1>2 DEF EndBatch, CloseCell, Tick, Cancel, vars, IInv, TypeOK, TurnInv, Decided, Over, Stages, StageInv, Early, Holding
<1>3. ASSUME NEW c \in Calls, Thread(c) PROVE TurnInv'
  <2>1. CASE RecallRefusal(c)
    BY <2>1 DEF RecallRefusal, IInv, TypeOK, TurnInv, Decided, Over, Stages, StageInv, Early, Holding
  <2>2. CASE RecallSuccess(c)
    BY <2>2 DEF RecallSuccess, KnownSuccess, IInv, TypeOK, TurnInv, Decided, Over, Stages, StageInv, Early, Holding
  <2>3. CASE Reserve(c)
    BY <2>3 DEF Reserve, NextOrdinal, IInv, TypeOK, TurnInv, Decided, Over, Stages, StageInv, Early, Holding
  <2>4. CASE WaitExpires(c)
    BY <2>4 DEF WaitExpires, IInv, TypeOK, TurnInv, Decided, Over, Stages, StageInv, Early, Holding
  <2>5. CASE AfterTimeout(c)
    BY <2>5 DEF AfterTimeout, Complete, IInv, TypeOK, TurnInv, Decided, Over, Stages, StageInv, Early, Holding
  <2>6. CASE Quiesce(c)
    BY <2>6 DEF Quiesce, Quiescent, Complete, IInv, TypeOK, TurnInv, Decided, Over, Stages, StageInv, Early, Holding
  <2>7. CASE BodyRaised(c)
    BY <2>7 DEF BodyRaised, Complete, IInv, TypeOK, TurnInv, Decided, Over, Stages, StageInv, Early, Holding
  <2>8. CASE CheckRemaining(c)
    BY <2>8 DEF CheckRemaining, Complete, IInv, TypeOK, TurnInv, Decided, Over, Stages, StageInv, Early, Holding
  <2>9. CASE RefuseCall(c)
    BY <2>9 DEF RefuseCall, Complete, IInv, TypeOK, TurnInv, Decided, Over, Stages, StageInv, Early, Holding
  <2>10. CASE CompleteCall(c)
    BY <2>10 DEF CompleteCall, Complete, IInv, TypeOK, TurnInv, Decided, Over, Stages, StageInv, Early, Holding
  <2>11. CASE RecordSuccess(c)
    BY <2>11 DEF RecordSuccess, KeepFirst, IInv, TypeOK, TurnInv, Decided, Over, Stages, StageInv, Early, Holding
  <2>13. CASE Submit(c)
    BY <2>13 DEF Submit, IInv, TypeOK, TurnInv, Decided, Over, Stages, StageInv, Early, Holding
  <2>12. QED
    BY <1>3, <2>1, <2>2, <2>3, <2>4, <2>5, <2>6, <2>7, <2>8, <2>9, <2>10, <2>11, <2>13 DEF Thread
<1>4. ASSUME NEW c \in Calls, RunBody(c) PROVE TurnInv'
  BY <1>4 DEF RunBody, IInv, TypeOK, TurnInv, Decided, Over, Stages, StageInv, Early, Holding
<1>5. QED
  BY <1>1, <1>2, <1>3, <1>4 DEF Next, Done

\* The stages: each step of a thread leaves its call in a consistent stage.
LEMMA StageStep ==
  ASSUME IInv, [Next]_vars
  PROVE  StageInv'
<1> USE SignaturesAssumption, CeilingsAssumption DEF budgetVars, callVars
<1>1. CASE Respond
  <2>1. PICK batch \in SUBSET Idle : \E asked \in [batch -> Signatures] :
          /\ sig' = [c \in Calls |-> IF c \in batch THEN asked[c] ELSE sig[c]]
          /\ stage' = [c \in Calls |-> IF c \notin batch THEN stage[c]
                                       ELSE IF Navigates(asked[c]) THEN "reserve"
                                       ELSE "recall_refusal"]
    BY <1>1 DEF Respond
  <2>2. ASSUME NEW c \in Calls
        PROVE  \/ sig'[c] = sig[c] /\ stage'[c] = stage[c]
               \/ stage[c] = "idle" /\ stage'[c] \in {"reserve", "recall_refusal"}
    BY <2>1 DEF Idle
  <2>3. UNCHANGED <<worker, ordinal, answer>>
    BY <1>1 DEF Respond
  <2>4. QED
    BY <2>2, <2>3 DEF IInv, StageInv, Early, Holding, Kind, DeclaredSuccess, Navigates
<1>2. CASE EndBatch \/ CloseCell \/ Tick \/ Cancel \/ UNCHANGED vars
  BY <1>2 DEF EndBatch, CloseCell, Tick, Cancel, vars, IInv, TypeOK, StageInv, Decided, Stages, Early, Holding, DeclaredSuccess, DeclaredRefusal, Kind, Navigates
<1>3. ASSUME NEW c \in Calls, Thread(c) PROVE StageInv'
  <2>1. CASE RecallRefusal(c)
    BY <2>1 DEF RecallRefusal, IInv, TypeOK, StageInv, Decided, Stages, Early, Holding, DeclaredSuccess, DeclaredRefusal, Kind, Navigates
  <2>2. CASE RecallSuccess(c)
    BY <2>2 DEF RecallSuccess, KnownSuccess, IInv, TypeOK, StageInv, Decided, Stages, Early, Holding, DeclaredSuccess, DeclaredRefusal, Kind, Navigates
  <2>3. CASE Reserve(c)
    <3>1. CASE Stopped \/ CeilingReached(Kind(c))
      BY <2>3, <3>1 DEF Reserve, IInv, TypeOK, StageInv, Decided, Stages, Early, Holding, DeclaredSuccess, DeclaredRefusal, Kind, Navigates
    <3>2. CASE ~Stopped /\ ~CeilingReached(Kind(c))
      <4>1. /\ stage' = [stage EXCEPT ![c] = "submitting"]
            /\ ordinal' = [ordinal EXCEPT ![c] = dispatches[Kind(c)] + 1]
            /\ UNCHANGED <<sig, worker, answer>>
        BY <2>3, <3>2 DEF Reserve, NextOrdinal
      <4>2. dispatches[Kind(c)] + 1 # 0
        BY DEF IInv, TypeOK, Kind, Kinds
      <4>3. stage[c] = "reserve"
        BY <2>3 DEF Reserve
      <4>4. ASSUME NEW d \in Calls, d # c
            PROVE  stage'[d] = stage[d] /\ worker'[d] = worker[d] /\ ordinal'[d] = ordinal[d]
        BY <4>1, <4>4 DEF IInv, TypeOK
      <4>5. stage'[c] = "submitting" /\ worker'[c] = "none" /\ ordinal'[c] # 0 /\ answer'[c] = "none"
        BY <4>1, <4>2, <4>3 DEF IInv, TypeOK, StageInv, Early
      <4>6. QED
        BY <4>1, <4>4, <4>5 DEF IInv, StageInv, Early, Holding, Kind, DeclaredSuccess, Navigates
    <3>3. QED
      BY <3>1, <3>2
  <2>4. CASE WaitExpires(c)
    BY <2>4 DEF WaitExpires, IInv, TypeOK, StageInv, Decided, Stages, Early, Holding, DeclaredSuccess, DeclaredRefusal, Kind, Navigates
  <2>5. CASE AfterTimeout(c)
    BY <2>5 DEF AfterTimeout, Complete, IInv, TypeOK, StageInv, Decided, Stages, Early, Holding, DeclaredSuccess, DeclaredRefusal, Kind, Navigates
  <2>6. CASE Quiesce(c)
    BY <2>6 DEF Quiesce, Quiescent, Complete, IInv, TypeOK, StageInv, Decided, Stages, Early, Holding, DeclaredSuccess, DeclaredRefusal, Kind, Navigates
  <2>7. CASE BodyRaised(c)
    BY <2>7 DEF BodyRaised, Complete, IInv, TypeOK, StageInv, Decided, Stages, Early, Holding, DeclaredSuccess, DeclaredRefusal, Kind, Navigates
  <2>8. CASE CheckRemaining(c)
    BY <2>8 DEF CheckRemaining, Complete, IInv, TypeOK, StageInv, Decided, Stages, Early, Holding, DeclaredSuccess, DeclaredRefusal, Kind, Navigates
  <2>9. CASE RefuseCall(c)
    BY <2>9 DEF RefuseCall, Complete, IInv, TypeOK, StageInv, Decided, Stages, Early, Holding, DeclaredSuccess, DeclaredRefusal, Kind, Navigates
  <2>10. CASE CompleteCall(c)
    BY <2>10 DEF CompleteCall, Complete, IInv, TypeOK, StageInv, Decided, Stages, Early, Holding, DeclaredSuccess, DeclaredRefusal, Kind, Navigates
  <2>11. CASE RecordSuccess(c)
    BY <2>11 DEF RecordSuccess, KeepFirst, IInv, TypeOK, StageInv, Decided, Stages, Early, Holding, DeclaredSuccess, DeclaredRefusal, Kind, Navigates
  <2>13. CASE Submit(c)
    BY <2>13 DEF Submit, IInv, TypeOK, StageInv, Decided, Stages, Early, Holding, DeclaredSuccess, DeclaredRefusal, Kind, Navigates
  <2>12. QED
    BY <1>3, <2>1, <2>2, <2>3, <2>4, <2>5, <2>6, <2>7, <2>8, <2>9, <2>10, <2>11, <2>13 DEF Thread
<1>4. ASSUME NEW c \in Calls, RunBody(c) PROVE StageInv'
  <2>1. PICK o \in Outcomes : worker' = [worker EXCEPT ![c] = o]
    BY <1>4 DEF RunBody
  <2>2. UNCHANGED <<sig, stage, ordinal, answer>> /\ worker[c] = "running"
    BY <1>4 DEF RunBody
  <2>3. worker'[c] \notin {"none", "running"} /\ \A d \in Calls : d # c => worker'[d] = worker[d]
    BY <2>1 DEF IInv, TypeOK, Outcomes
  <2>4. stage[c] # "recording"
    BY <2>2 DEF IInv, StageInv, Holding
  <2>5. QED
    BY <2>2, <2>3, <2>4 DEF IInv, StageInv, Early, Holding, Kind, DeclaredSuccess, Navigates
<1>5. QED
  BY <1>1, <1>2, <1>3, <1>4 DEF Next, Done

\* The permits: only Reserve hands one out, and only a completion retires one.
LEMMA PermitStep ==
  ASSUME IInv, [Next]_vars
  PROVE  PermitInv'
<1> USE SignaturesAssumption, CeilingsAssumption DEF budgetVars, callVars
<1>1. CASE Respond
  <2>1. PICK batch \in SUBSET Idle : \E asked \in [batch -> Signatures] :
          /\ sig' = [c \in Calls |-> IF c \in batch THEN asked[c] ELSE sig[c]]
          /\ stage' = [c \in Calls |-> IF c \notin batch THEN stage[c]
                                       ELSE IF Navigates(asked[c]) THEN "reserve"
                                       ELSE "recall_refusal"]
    BY <1>1 DEF Respond
  <2>2. \A c \in Calls : ordinal[c] # 0 => c \notin batch
    BY <2>1 DEF Idle, IInv, StageInv, Early
  <2>3. QED
    BY <1>1, <2>1, <2>2, IdlePermits DEF Respond
<1>2. CASE EndBatch \/ CloseCell \/ Tick \/ Cancel \/ UNCHANGED vars
  <2>1. UNCHANGED <<dispatches, attempts, ordinal, sig, stage>>
    BY <1>2 DEF EndBatch, CloseCell, Tick, Cancel, vars
  <2>2. QED
    BY <2>1, IdlePermits
<1>3. ASSUME NEW c \in Calls, Thread(c) PROVE PermitInv'
  <2>1. CASE RecallRefusal(c)
    <3>1. \A d \in Calls : stage'[d] \in Holding <=> stage[d] \in Holding
      BY <2>1 DEF RecallRefusal, IInv, TypeOK, StageInv, Stages, Early, Holding, Decided
    <3>2. QED
      BY <2>1, <3>1, IdlePermits DEF RecallRefusal
  <2>2. CASE RecallSuccess(c)
    <3>1. \A d \in Calls : stage'[d] \in Holding <=> stage[d] \in Holding
      BY <2>2 DEF RecallSuccess, IInv, TypeOK, StageInv, Stages, Early, Holding, Decided
    <3>2. QED
      BY <2>2, <3>1, IdlePermits DEF RecallSuccess
  <2>3. CASE Reserve(c)
    <3>1. CASE Stopped \/ CeilingReached(Kind(c))
      <4>1. \A d \in Calls : stage'[d] \in Holding <=> stage[d] \in Holding
        BY <2>3, <3>1 DEF Reserve, IInv, TypeOK, StageInv, Stages, Early, Holding, Decided
      <4>2. QED
        BY <2>3, <3>1, <4>1, IdlePermits DEF Reserve
    <3>2. CASE ~Stopped /\ ~CeilingReached(Kind(c))
      <4> DEFINE k0 == Kind(c)
                 n  == dispatches[k0] + 1
      <4>1. /\ stage' = [stage EXCEPT ![c] = "submitting"]
            /\ ordinal' = [ordinal EXCEPT ![c] = n]
            /\ dispatches' = [dispatches EXCEPT ![k0] = n]
            /\ UNCHANGED <<sig, attempts>>
        BY <2>3, <3>2 DEF Reserve, NextOrdinal
      <4>2. k0 \in Kinds /\ n \in Nat /\ n # 0 /\ \A d \in Calls : Kind(d) \in Kinds
        BY DEF IInv, TypeOK, Kind, Kinds
      <4>3. ordinal[c] = 0 /\ stage[c] = "reserve"
        BY <2>3 DEF Reserve, IInv, StageInv, Early
      <4>4. /\ \A d \in Calls : Kind(d)' = Kind(d) /\ (d # c => stage'[d] = stage[d] /\ ordinal'[d] = ordinal[d])
            /\ stage'[c] = "submitting" /\ ordinal'[c] = n
            /\ dispatches'[k0] = n /\ \A k \in Kinds : k # k0 => dispatches'[k] = dispatches[k]
        BY <4>1, <4>2 DEF IInv, TypeOK, Kind
      <4>5. \A d \in Calls : ordinal[d] \in Nat /\ ordinal[d] <= dispatches[Kind(d)]
        BY DEF IInv, TypeOK, PermitInv
      <4>6. \A k \in Kinds : dispatches[k] \in Nat
        BY DEF IInv, TypeOK
      <4>7. \A d \in Calls : ordinal'[d] <= dispatches'[Kind(d)']
        BY <4>2, <4>4, <4>5, <4>6
      <4>8. \A d, e \in Calls : ordinal'[d] # 0 /\ ordinal'[d] = ordinal'[e] /\ Kind(d)' = Kind(e)' => d = e
        BY <4>2, <4>4, <4>5, <4>6 DEF IInv, PermitInv
      <4>9. \A k \in Kinds : \A o \in 1 .. dispatches'[k] :
              \E d \in Calls : Kind(d)' = k /\ ordinal'[d] = o
        <5> SUFFICES ASSUME NEW k \in Kinds, NEW o \in 1 .. dispatches'[k]
                     PROVE  \E d \in Calls : Kind(d)' = k /\ ordinal'[d] = o
          OBVIOUS
        <5>1. CASE o \in 1 .. dispatches[k]
          <6>1. PICK d \in Calls : Kind(d) = k /\ ordinal[d] = o
            BY <5>1 DEF IInv, PermitInv
          <6>2. d # c
            BY <4>3, <6>1, <5>1
          <6>3. QED
            BY <4>4, <6>1, <6>2
        <5>2. CASE o \notin 1 .. dispatches[k]
          <6>1. k = k0 /\ o = n
            BY <4>2, <4>4, <4>6, <5>2
          <6>2. QED
            BY <4>4, <6>1
        <5>3. QED
          BY <5>1, <5>2
      <4>10. \A k \in Kinds : \A o \in DOMAIN attempts'[k] :
              \E d \in Calls : Kind(d)' = k /\ ordinal'[d] = o /\ o # 0
        BY <4>1, <4>3, <4>4 DEF IInv, PermitInv
      <4>11. \A d \in Calls : AlreadyRecorded(d)' <=> ordinal'[d] # 0 /\ stage'[d] \notin Holding
        <5> SUFFICES ASSUME NEW d \in Calls
                     PROVE  AlreadyRecorded(d)' <=> ordinal'[d] # 0 /\ stage'[d] \notin Holding
          OBVIOUS
        <5>1. CASE d # c
          BY <4>1, <4>4, <5>1 DEF IInv, PermitInv, AlreadyRecorded
        <5>2. CASE d = c
          <6>1. n \notin DOMAIN attempts[k0]
            BY <4>2, <4>5, <4>6 DEF IInv, PermitInv
          <6>2. QED
            BY <4>1, <4>4, <5>2, <6>1 DEF AlreadyRecorded, Holding
        <5>3. QED
          BY <5>1, <5>2
      <4>12. QED
        BY <4>7, <4>8, <4>9, <4>10, <4>11 DEF PermitInv
    <3>3. QED
      BY <3>1, <3>2
  <2>4. CASE WaitExpires(c)
    <3>1. \A d \in Calls : stage'[d] \in Holding <=> stage[d] \in Holding
      BY <2>4 DEF WaitExpires, IInv, TypeOK, StageInv, Stages, Early, Holding, Decided
    <3>2. QED
      BY <2>4, <3>1, IdlePermits DEF WaitExpires
  <2>5. CASE AfterTimeout(c)
    <3>1. CASE worker[c] # "running"
      <4>1. Complete(c, "error", "raised") /\ stage[c] \in Holding
        BY <2>5, <3>1 DEF AfterTimeout, Holding
      <4>2. QED
        BY <2>5, <4>1, CompletePermits DEF AfterTimeout, Statuses, Stages, Holding, Decided
    <3>2. CASE ~(worker[c] # "running")
      <4>1. \A d \in Calls : stage'[d] \in Holding <=> stage[d] \in Holding
        BY <2>5, <3>2 DEF AfterTimeout, IInv, TypeOK, StageInv, Stages, Early, Holding, Decided
      <4>2. QED
        BY <2>5, <3>2, <4>1, IdlePermits DEF AfterTimeout
    <3>3. QED
      BY <3>1, <3>2
  <2>6. CASE Quiesce(c)
    BY <2>6, CompletePermits DEF Quiesce, Statuses, IInv, TypeOK, StageInv, Stages, Early, Holding, Decided
  <2>7. CASE BodyRaised(c)
    BY <2>7, CompletePermits DEF BodyRaised, Statuses, IInv, TypeOK, StageInv, Stages, Early, Holding, Decided
  <2>8. CASE CheckRemaining(c)
    <3>1. CASE Stopped
      <4>1. Complete(c, "deadline_exceeded", "denied") /\ stage[c] \in Holding
        BY <2>8, <3>1 DEF CheckRemaining, Holding
      <4>2. QED
        BY <2>8, <4>1, CompletePermits DEF CheckRemaining, Statuses, Stages, Holding, Decided
    <3>2. CASE ~(Stopped)
      <4>1. \A d \in Calls : stage'[d] \in Holding <=> stage[d] \in Holding
        BY <2>8, <3>2 DEF CheckRemaining, IInv, TypeOK, StageInv, Stages, Early, Holding, Decided
      <4>2. QED
        BY <2>8, <3>2, <4>1, IdlePermits DEF CheckRemaining
    <3>3. QED
      BY <3>1, <3>2
  <2>9. CASE RefuseCall(c)
    BY <2>9, CompletePermits DEF RefuseCall, Statuses, IInv, TypeOK, StageInv, Stages, Early, Holding, Decided
  <2>10. CASE CompleteCall(c)
    <3>1. (IF DeclaredSuccess(c) THEN "recording" ELSE "returned") \in Stages \ Holding
      BY DEF Stages, Holding, Decided
    <3>2. QED
      BY <2>10, <3>1, CompletePermits DEF CompleteCall, Statuses, Holding
  <2>11. CASE RecordSuccess(c)
    <3>1. \A d \in Calls : stage'[d] \in Holding <=> stage[d] \in Holding
      BY <2>11 DEF RecordSuccess, IInv, TypeOK, StageInv, Stages, Early, Holding, Decided
    <3>2. QED
      BY <2>11, <3>1, IdlePermits DEF RecordSuccess
  <2>13. CASE Submit(c)
    <3>1. \A d \in Calls : stage'[d] \in Holding <=> stage[d] \in Holding
      BY <2>13 DEF Submit, IInv, TypeOK, Holding
    <3>2. QED
      BY <2>13, <3>1, IdlePermits DEF Submit
  <2>12. QED
    BY <1>3, <2>1, <2>2, <2>3, <2>4, <2>5, <2>6, <2>7, <2>8, <2>9, <2>10, <2>11, <2>13 DEF Thread
<1>4. ASSUME NEW c \in Calls, RunBody(c) PROVE PermitInv'
  <2>1. UNCHANGED <<dispatches, attempts, ordinal, sig, stage>>
    BY <1>4 DEF RunBody
  <2>2. QED
    BY <2>1, IdlePermits
<1>5. QED
  BY <1>1, <1>2, <1>3, <1>4 DEF Next, Done

\* The record: a kept success is never replaced, and its call ended well.
LEMMA RecordStep ==
  ASSUME IInv, [Next]_vars
  PROVE  RecordInv'
<1> USE SignaturesAssumption, CeilingsAssumption DEF budgetVars, callVars
<1>1. CASE Respond
  <2>1. PICK batch \in SUBSET Idle : \E asked \in [batch -> Signatures] :
          sig' = [c \in Calls |-> IF c \in batch THEN asked[c] ELSE sig[c]]
    BY <1>1 DEF Respond
  <2>2. \A c \in Calls : worker[c] = "ok" \/ answer[c] = "cached" => sig'[c] = sig[c]
    BY <2>1 DEF Idle, IInv, StageInv, Early
  <2>3. UNCHANGED <<successes, worker, answer, servedFrom>>
    BY <1>1 DEF Respond
  <2>4. QED
    BY <2>2, <2>3 DEF IInv, TypeOK, RecordInv
<1>2. CASE EndBatch \/ CloseCell \/ Tick \/ Cancel \/ UNCHANGED vars
  <2>1. UNCHANGED <<successes, sig, answer, servedFrom>> /\ \A d \in Calls : worker[d] = "ok" => worker'[d] = "ok"
    BY <1>2 DEF EndBatch, CloseCell, Tick, Cancel, vars
  <2>2. QED
    BY <2>1 DEF IInv, TypeOK, RecordInv
<1>3. ASSUME NEW c \in Calls, Thread(c) PROVE RecordInv'
  <2>1. CASE RecallRefusal(c)
    <3>1. UNCHANGED <<successes, sig, worker, servedFrom>>
      BY <2>1 DEF RecallRefusal
    <3>2. \A d \in Calls : answer'[d] = "cached" => answer[d] = "cached"
      BY <2>1 DEF RecallRefusal, IInv, TypeOK
    <3>3. QED
      BY <3>1, <3>2 DEF IInv, TypeOK, RecordInv
  <2>2. CASE RecallSuccess(c)
    <3>1. UNCHANGED <<successes, sig, worker>>
      BY <2>2 DEF RecallSuccess
    <3>2. \A d \in Calls : answer'[d] = "cached" =>
            \/ d = c /\ servedFrom'[d] = successes[sig[c]] /\ successes[sig[c]] # None
            \/ answer[d] = "cached" /\ servedFrom'[d] = servedFrom[d]
      BY <2>2 DEF RecallSuccess, KnownSuccess, IInv, TypeOK, StageInv, Early
    <3>3. QED
      BY <3>1, <3>2 DEF IInv, TypeOK, RecordInv
  <2>3. CASE Reserve(c)
    <3>1. UNCHANGED <<successes, sig, worker, answer, servedFrom>>
      BY <2>3 DEF Reserve
    <3>2. QED
      BY <3>1 DEF IInv, TypeOK, RecordInv
  <2>4. CASE WaitExpires(c)
    <3>1. UNCHANGED <<successes, sig, answer, servedFrom>> /\ \A d \in Calls : worker[d] = "ok" => worker'[d] = "ok"
      BY <2>4 DEF WaitExpires
    <3>2. QED
      BY <3>1 DEF IInv, TypeOK, RecordInv
  <2>5. CASE AfterTimeout(c)
    <3>1. UNCHANGED <<successes, sig, answer, servedFrom>> /\ \A d \in Calls : worker[d] = "ok" => worker'[d] = "ok"
      BY <2>5 DEF AfterTimeout
    <3>2. QED
      BY <3>1 DEF IInv, TypeOK, RecordInv
  <2>6. CASE Quiesce(c)
    <3>1. UNCHANGED <<successes, sig, answer, servedFrom>> /\ \A d \in Calls : worker[d] = "ok" => worker'[d] = "ok"
      BY <2>6 DEF Quiesce
    <3>2. QED
      BY <3>1 DEF IInv, TypeOK, RecordInv
  <2>7. CASE BodyRaised(c)
    <3>1. UNCHANGED <<successes, sig, answer, servedFrom>> /\ \A d \in Calls : worker[d] = "ok" => worker'[d] = "ok"
      BY <2>7 DEF BodyRaised
    <3>2. QED
      BY <3>1 DEF IInv, TypeOK, RecordInv
  <2>8. CASE CheckRemaining(c)
    <3>1. UNCHANGED <<successes, sig, answer, servedFrom>> /\ \A d \in Calls : worker[d] = "ok" => worker'[d] = "ok"
      BY <2>8 DEF CheckRemaining
    <3>2. QED
      BY <3>1 DEF IInv, TypeOK, RecordInv
  <2>9. CASE RefuseCall(c)
    <3>1. UNCHANGED <<successes, sig, worker, servedFrom>>
      BY <2>9 DEF RefuseCall
    <3>2. \A d \in Calls : answer'[d] = "cached" => answer[d] = "cached"
      BY <2>9 DEF RefuseCall, IInv, TypeOK
    <3>3. QED
      BY <3>1, <3>2 DEF IInv, TypeOK, RecordInv
  <2>10. CASE CompleteCall(c)
    <3>1. UNCHANGED <<successes, sig, worker, servedFrom>>
      BY <2>10 DEF CompleteCall
    <3>2. \A d \in Calls : answer'[d] = "cached" => answer[d] = "cached"
      BY <2>10 DEF CompleteCall, IInv, TypeOK
    <3>3. QED
      BY <3>1, <3>2 DEF IInv, TypeOK, RecordInv
  <2>11. CASE RecordSuccess(c)
    <3>1. UNCHANGED <<sig, worker, answer, servedFrom>> /\ stage[c] = "recording"
      BY <2>11 DEF RecordSuccess
    <3>2. worker[c] = "ok" /\ sig[c] \in Signatures
      BY <3>1 DEF IInv, TypeOK, StageInv, DeclaredSuccess
    <3>3. successes' = [successes EXCEPT ![sig[c]] = IF successes[sig[c]] = None THEN c ELSE successes[sig[c]]]
      BY <2>11 DEF RecordSuccess, KeepFirst
    <3>4. \A s \in Signatures : successes'[s] = successes[s] \/ (s = sig[c] /\ successes[s] = None /\ successes'[s] = c)
      BY <3>2, <3>3 DEF IInv, TypeOK
    <3>5. \A d \in Calls : answer[d] = "cached" => sig[d] \in Signatures
      BY DEF IInv, TypeOK, StageInv
    <3>6. QED
      BY <3>1, <3>2, <3>4, <3>5 DEF IInv, RecordInv
  <2>13. CASE Submit(c)
    <3>1. UNCHANGED <<successes, sig, answer, servedFrom>> /\ stage[c] = "submitting"
      BY <2>13 DEF Submit
    <3>2. worker[c] = "none"
      BY <3>1 DEF IInv, StageInv
    <3>3. \A d \in Calls : worker[d] = "ok" => worker'[d] = "ok"
      BY <2>13, <3>2 DEF Submit, IInv, TypeOK
    <3>4. QED
      BY <3>1, <3>3 DEF IInv, TypeOK, RecordInv
  <2>12. QED
    BY <1>3, <2>1, <2>2, <2>3, <2>4, <2>5, <2>6, <2>7, <2>8, <2>9, <2>10, <2>11, <2>13 DEF Thread
<1>4. ASSUME NEW c \in Calls, RunBody(c) PROVE RecordInv'
  <2>1. UNCHANGED <<successes, sig, answer, servedFrom>> /\ worker[c] = "running"
    BY <1>4 DEF RunBody
  <2>2. \A d \in Calls : worker[d] = "ok" => worker'[d] = "ok"
    BY <1>4, <2>1 DEF RunBody, IInv, TypeOK
  <2>3. QED
    BY <2>1, <2>2 DEF IInv, TypeOK, RecordInv
<1>5. QED
  BY <1>1, <1>2, <1>3, <1>4 DEF Next, Done

\* The counters: a reservation and a refusal each move exactly one of them.
LEMMA CountStep ==
  ASSUME IInv, [Next]_vars
  PROVE  CountInv'
<1> USE SignaturesAssumption, CeilingsAssumption DEF budgetVars, callVars
<1>1. CASE Respond
  <2>1. PICK batch \in SUBSET Idle : \E asked \in [batch -> Signatures] :
          sig' = [c \in Calls |-> IF c \in batch THEN asked[c] ELSE sig[c]]
    BY <1>1 DEF Respond
  <2>2. \A c \in Calls : ordinal[c] # 0 => sig'[c] = sig[c]
    BY <2>1 DEF Idle, IInv, StageInv, Early
  <2>3. UNCHANGED <<dispatches, refusedCalls, answer, ordinal>>
    BY <1>1 DEF Respond
  <2>4. Reservations("tool")' = Reservations("tool")
    BY <2>2, <2>3 DEF Reservations, Kind
  <2>5. QED
    BY <2>3, <2>4 DEF IInv, CountInv, EvidenceReadings
<1>2. CASE EndBatch \/ CloseCell \/ Tick \/ Cancel \/ UNCHANGED vars
  <2>1. UNCHANGED <<dispatches, refusedCalls, answer, sig, ordinal>>
    BY <1>2 DEF EndBatch, CloseCell, Tick, Cancel, vars
  <2>2. QED
    BY <2>1 DEF IInv, CountInv, Reservations, EvidenceReadings, Kind
<1>3. ASSUME NEW c \in Calls, Thread(c) PROVE CountInv'
  <2>1. CASE RecallRefusal(c)
    <3>1. UNCHANGED <<dispatches, refusedCalls, sig, ordinal>>
      BY <2>1 DEF RecallRefusal
    <3>2. \A d \in Calls : answer'[d] = "refusal" <=> answer[d] = "refusal"
      BY <2>1 DEF RecallRefusal, IInv, TypeOK, StageInv, Early, Holding
    <3>3. {d \in Calls : answer'[d] = "refusal"} = {d \in Calls : answer[d] = "refusal"}
      BY <3>2
    <3>4. QED
      BY <3>1, <3>3 DEF IInv, CountInv, Reservations, EvidenceReadings, Kind
  <2>2. CASE RecallSuccess(c)
    <3>1. UNCHANGED <<dispatches, refusedCalls, sig, ordinal>>
      BY <2>2 DEF RecallSuccess
    <3>2. \A d \in Calls : answer'[d] = "refusal" <=> answer[d] = "refusal"
      BY <2>2 DEF RecallSuccess, IInv, TypeOK, StageInv, Early, Holding
    <3>3. {d \in Calls : answer'[d] = "refusal"} = {d \in Calls : answer[d] = "refusal"}
      BY <3>2
    <3>4. QED
      BY <3>1, <3>3 DEF IInv, CountInv, Reservations, EvidenceReadings, Kind
  <2>3. CASE Reserve(c)
    <3>1. CASE Stopped \/ CeilingReached(Kind(c)) \/ Kind(c) # "tool"
      <4>1. dispatches'["tool"] = dispatches["tool"] /\ UNCHANGED <<refusedCalls, answer, sig>>
        BY <2>3, <3>1 DEF Reserve, IInv, TypeOK, Kinds
      <4>2. \A d \in Calls : Kind(d)' = Kind(d)
        BY <4>1 DEF Kind
      <4>3. \A d \in Calls : Kind(d) = "tool" => ordinal'[d] = ordinal[d]
        BY <2>3, <3>1 DEF Reserve, IInv, TypeOK
      <4>4. Reservations("tool")' = Reservations("tool")
        BY <4>2, <4>3 DEF Reservations
      <4>5. QED
        BY <4>1, <4>4 DEF IInv, CountInv, EvidenceReadings
    <3>2. CASE ~Stopped /\ ~CeilingReached(Kind(c)) /\ Kind(c) = "tool"
      <4>1. /\ ordinal' = [ordinal EXCEPT ![c] = dispatches["tool"] + 1]
            /\ dispatches' = [dispatches EXCEPT !["tool"] = dispatches["tool"] + 1]
            /\ UNCHANGED <<refusedCalls, answer, sig>>
        BY <2>3, <3>2 DEF Reserve, NextOrdinal
      <4>2. dispatches["tool"] \in Nat /\ refusedCalls \in Nat
            /\ dispatches'["tool"] = dispatches["tool"] + 1
        BY <4>1 DEF IInv, TypeOK, Kinds
      <4>3. ordinal[c] = 0
        BY <2>3 DEF Reserve, IInv, StageInv, Early
      <4>4. Reservations("tool")' = Reservations("tool") \cup {c} /\ c \notin Reservations("tool")
        BY <3>2, <4>1, <4>2, <4>3 DEF Reservations, Kind, IInv, TypeOK
      <4>5. IsFiniteSet(Reservations("tool"))
        BY CallsAssumption, FS_Subset DEF Reservations
      <4>6. Cardinality(Reservations("tool")') = Cardinality(Reservations("tool")) + 1
        BY <4>4, <4>5, FS_AddElement
      <4>7. EvidenceReadings < MaxToolCalls
        BY <3>2, <4>2 DEF CeilingReached, EvidenceReadings
      <4>8. QED
        BY <4>1, <4>2, <4>6, <4>7 DEF IInv, CountInv, EvidenceReadings
    <3>3. QED
      BY <3>1, <3>2
  <2>4. CASE WaitExpires(c)
    <3>1. UNCHANGED <<dispatches, refusedCalls, answer, sig, ordinal>>
      BY <2>4 DEF WaitExpires
    <3>2. QED
      BY <3>1 DEF IInv, CountInv, Reservations, EvidenceReadings, Kind
  <2>5. CASE AfterTimeout(c)
    <3>1. UNCHANGED <<dispatches, refusedCalls, answer, sig, ordinal>>
      BY <2>5 DEF AfterTimeout
    <3>2. QED
      BY <3>1 DEF IInv, CountInv, Reservations, EvidenceReadings, Kind
  <2>6. CASE Quiesce(c)
    <3>1. UNCHANGED <<dispatches, refusedCalls, answer, sig, ordinal>>
      BY <2>6 DEF Quiesce
    <3>2. QED
      BY <3>1 DEF IInv, CountInv, Reservations, EvidenceReadings, Kind
  <2>7. CASE BodyRaised(c)
    <3>1. UNCHANGED <<dispatches, refusedCalls, answer, sig, ordinal>>
      BY <2>7 DEF BodyRaised
    <3>2. QED
      BY <3>1 DEF IInv, CountInv, Reservations, EvidenceReadings, Kind
  <2>8. CASE CheckRemaining(c)
    <3>1. UNCHANGED <<dispatches, refusedCalls, answer, sig, ordinal>>
      BY <2>8 DEF CheckRemaining
    <3>2. QED
      BY <3>1 DEF IInv, CountInv, Reservations, EvidenceReadings, Kind
  <2>9. CASE RefuseCall(c)
    <3>1. stage[c] = "passed" /\ answer[c] = "none" /\ Complete(c, "error", "returned")
      BY <2>9 DEF RefuseCall, IInv, StageInv, Holding
    <3>2. ~AlreadyRecorded(c)
      BY <3>1 DEF IInv, PermitInv, StageInv, Holding
    <3>3. /\ refusedCalls' = refusedCalls + 1
          /\ answer' = [answer EXCEPT ![c] = "refusal"]
          /\ UNCHANGED <<dispatches, sig, ordinal>>
      BY <2>9, <3>2 DEF RefuseCall
    <3> DEFINE R == {d \in Calls : answer[d] = "refusal"}
    <3>4. {d \in Calls : answer'[d] = "refusal"} = R \cup {c} /\ c \notin R
      BY <3>1, <3>3 DEF IInv, TypeOK
    <3>5. IsFiniteSet(R)
      BY CallsAssumption, FS_Subset
    <3>6. Cardinality(R \cup {c}) = Cardinality(R) + 1
      BY <3>4, <3>5, FS_AddElement
    <3>7. dispatches["tool"] \in Nat /\ refusedCalls \in Nat
      BY DEF IInv, TypeOK, Kinds
    <3>8. Reservations("tool")' = Reservations("tool")
      BY <3>3 DEF Reservations, Kind
    <3>9. EvidenceReadings' <= MaxToolCalls
      BY <3>3, <3>7 DEF IInv, CountInv, EvidenceReadings
    <3>10. QED
      BY <3>3, <3>4, <3>6, <3>8, <3>9 DEF IInv, CountInv
  <2>10. CASE CompleteCall(c)
    <3>1. UNCHANGED <<dispatches, refusedCalls, sig, ordinal>>
      BY <2>10 DEF CompleteCall
    <3>2. \A d \in Calls : answer'[d] = "refusal" <=> answer[d] = "refusal"
      BY <2>10 DEF CompleteCall, IInv, TypeOK, StageInv, Early, Holding
    <3>3. {d \in Calls : answer'[d] = "refusal"} = {d \in Calls : answer[d] = "refusal"}
      BY <3>2
    <3>4. QED
      BY <3>1, <3>3 DEF IInv, CountInv, Reservations, EvidenceReadings, Kind
  <2>11. CASE RecordSuccess(c)
    <3>1. UNCHANGED <<dispatches, refusedCalls, answer, sig, ordinal>>
      BY <2>11 DEF RecordSuccess
    <3>2. QED
      BY <3>1 DEF IInv, CountInv, Reservations, EvidenceReadings, Kind
  <2>13. CASE Submit(c)
    <3>1. UNCHANGED <<dispatches, refusedCalls, answer, sig, ordinal>>
      BY <2>13 DEF Submit
    <3>2. QED
      BY <3>1 DEF IInv, CountInv, Reservations, EvidenceReadings, Kind
  <2>12. QED
    BY <1>3, <2>1, <2>2, <2>3, <2>4, <2>5, <2>6, <2>7, <2>8, <2>9, <2>10, <2>11, <2>13 DEF Thread
<1>4. ASSUME NEW c \in Calls, RunBody(c) PROVE CountInv'
  <2>1. UNCHANGED <<dispatches, refusedCalls, answer, sig, ordinal>>
    BY <1>4 DEF RunBody
  <2>2. QED
    BY <2>1 DEF IInv, CountInv, Reservations, EvidenceReadings, Kind
<1>5. QED
  BY <1>1, <1>2, <1>3, <1>4 DEF Next, Done

-----------------------------------------------------------------------------
(* The theorems. *)

LEMMA InitInv == Init => IInv
<1> SUFFICES ASSUME Init PROVE IInv
  OBVIOUS
<1>1. TypeOK
  BY InitType
<1>2. /\ \A c \in Calls : stage[c] = "idle" /\ worker[c] = "none" /\ ordinal[c] = 0 /\ answer[c] = "none"
      /\ \A k \in Kinds : dispatches[k] = 0 /\ DOMAIN attempts[k] = {}
      /\ \A s \in Signatures : successes[s] = None
      /\ refusedCalls = 0
  BY DEF Init
<1>3. \A c \in Calls : Kind(c) \in Kinds
  BY DEF Kind, Kinds
<1>4. StageInv
  BY <1>2 DEF StageInv, Early, Holding
<1>5. PermitInv
  BY <1>2, <1>3 DEF PermitInv, AlreadyRecorded, Holding
<1>6. RecordInv
  BY <1>2 DEF RecordInv
<1>7. CountInv
  <2>1. Reservations("tool") = {} /\ {c \in Calls : answer[c] = "refusal"} = {}
    BY <1>2 DEF Reservations
  <2>2. Cardinality({}) = 0
    BY FS_EmptySet
  <2>3. dispatches["tool"] = 0
    BY <1>2 DEF Kinds
  <2>4. QED
    BY <1>2, <2>1, <2>2, <2>3, CeilingsAssumption DEF CountInv, EvidenceReadings
<1>8. TurnInv
  BY <1>2 DEF TurnInv
<1>9. QED
  BY <1>1, <1>4, <1>5, <1>6, <1>7, <1>8 DEF IInv

\* The inductive invariant holds in every reachable state of every cell.
THEOREM Invariance == Spec => []IInv
<1>1. IInv /\ [Next]_vars => IInv'
  <2> SUFFICES ASSUME IInv, [Next]_vars PROVE IInv'
    OBVIOUS
  <2>1. TypeOK'
    BY TypeStep DEF IInv
  <2>2. QED
    BY <2>1, StageStep, PermitStep, RecordStep, CountStep, TurnStep DEF IInv
<1>2. QED
  BY InitInv, <1>1, PTL DEF Spec

\* The two counters behind the ceiling tell how many calls hold a reservation.
LEMMA ReadingsCounted ==
  ASSUME IInv
  PROVE  EvidenceReadings = Cardinality(Readings)
<1> DEFINE T == Reservations("tool")
           R == {c \in Calls : answer[c] = "refusal"}
<1>1. R \subseteq T /\ Readings = T \ R
  BY DEF IInv, StageInv, Reservations, Readings
<1>2. IsFiniteSet(T) /\ IsFiniteSet(R)
  BY CallsAssumption, FS_Subset DEF Reservations
<1>3. T \cap R = R
  BY <1>1
<1>4. Cardinality(T \ R) = Cardinality(T) - Cardinality(R)
  BY <1>2, <1>3, FS_Difference
<1>5. QED
  BY <1>1, <1>4 DEF IInv, CountInv, EvidenceReadings

\* max_tool_calls bounds the calls that hold a reservation for a reading, for
\* any number of concurrent calls, refusals and cancellations.
THEOREM ReadingsCeiling == Spec => []ReadingsMetered
<1>1. IInv => ReadingsMetered
  BY ReadingsCounted DEF IInv, CountInv, ReadingsMetered
<1>2. QED
  BY Invariance, <1>1, PTL

\* Whatever timed out, was refused or was cancelled in a batch, when the model
\* has the turn again no worker runs and the published attempts are complete.
THEOREM QuietCell == Spec => []QuietBetweenBatches
<1>1. IInv => QuietBetweenBatches
  <2> SUFFICES ASSUME IInv, cell # "tools" PROVE
        /\ \A c \in Calls : worker[c] # "running"
        /\ \A k \in Kinds : DOMAIN attempts[k] = 1 .. dispatches[k]
        /\ \A c \in Calls : AlreadyRecorded(c) <=> ordinal[c] # 0
    BY DEF QuietBetweenBatches
  <2>1. \A c \in Calls : stage[c] \in Decided \cup {"idle"}
    BY DEF IInv, TurnInv
  <2>2. \A c \in Calls : worker[c] # "running" /\ stage[c] \notin Holding
    BY <2>1 DEF IInv, StageInv, Holding, Decided
  <2>3. \A c \in Calls : AlreadyRecorded(c) <=> ordinal[c] # 0
    BY <2>2 DEF IInv, PermitInv
  <2>4. ASSUME NEW k \in Kinds PROVE DOMAIN attempts[k] = 1 .. dispatches[k]
    <3>1. dispatches[k] \in Nat /\ \A c \in Calls : ordinal[c] \in Nat
      BY DEF IInv, TypeOK
    <3>2. \A o \in DOMAIN attempts[k] : o \in 1 .. dispatches[k]
      BY <3>1 DEF IInv, PermitInv
    <3>3. ASSUME NEW o \in 1 .. dispatches[k] PROVE o \in DOMAIN attempts[k]
      <4>1. PICK c \in Calls : Kind(c) = k /\ ordinal[c] = o
        BY DEF IInv, PermitInv
      <4>2. QED
        BY <2>3, <3>1, <4>1 DEF AlreadyRecorded
    <3>4. QED
      BY <3>2, <3>3
  <2>5. QED
    BY <2>2, <2>3, <2>4
<1>2. QED
  BY Invariance, <1>1, PTL

\* Identical calls served from the record repeat one invocation that ended well.
THEOREM ServedOnce == Spec => []CachedAnswersAgree
<1>1. IInv => CachedAnswersAgree
  <2> SUFFICES ASSUME IInv, NEW c \in Calls, answer[c] = "cached" PROVE
        /\ servedFrom[c] = successes[sig[c]]
        /\ worker[servedFrom[c]] = "ok"
        /\ sig[servedFrom[c]] = sig[c]
        /\ ordinal[c] = 0
    BY DEF CachedAnswersAgree
  <2>1. sig[c] \in Signatures /\ ordinal[c] = 0
    BY DEF IInv, TypeOK, StageInv
  <2>2. QED
    BY <2>1 DEF IInv, RecordInv
<1>2. QED
  BY Invariance, <1>1, PTL

\* After the stop no call gets a permit, and none without one starts a body.
THEOREM StopIsFinal == Spec => NoPermitAfterStop
<1>1. IInv /\ [Next]_vars =>
        [RunIsOver => \A c \in Calls :
           ordinal[c] = 0 => ordinal'[c] = 0 /\ worker'[c] = "none"]_vars
  <2> SUFFICES ASSUME IInv, [Next]_vars, RunIsOver, NEW d \in Calls, ordinal[d] = 0
               PROVE  ordinal'[d] = 0 /\ worker'[d] = "none"
    OBVIOUS
  <2>1. worker[d] = "none" /\ stage[d] # "submitting"
    BY DEF IInv, StageInv, Holding
  <2>2. CASE \E c \in Calls : RunBody(c)
    BY <2>1, <2>2 DEF RunBody, IInv, TypeOK
  <2>3. CASE \E c \in Calls : Reserve(c)
    BY <2>1, <2>3 DEF Reserve, Stopped, RunIsOver
  <2>4. CASE \E c \in Calls : Submit(c)
    BY <2>1, <2>4 DEF Submit, IInv, TypeOK
  <2>5. CASE ~\E c \in Calls : RunBody(c) \/ Reserve(c) \/ Submit(c)
    <3>1. UNCHANGED <<worker, ordinal>>
      BY <2>5 DEF Next, Thread, Done, vars, callVars, budgetVars, Respond, EndBatch, CloseCell,
                  Tick, Cancel, RecallRefusal, RecallSuccess, WaitExpires, AfterTimeout, Quiesce,
                  BodyRaised, CheckRemaining, RefuseCall, CompleteCall, RecordSuccess
    <3>2. QED
      BY <2>1, <3>1
  <2>6. QED
    BY <2>2, <2>3, <2>4, <2>5
<1>2. QED
  BY Invariance, <1>1, PTL DEF Spec, NoPermitAfterStop

-----------------------------------------------------------------------------
(* The cell is metered: the refinement of MeteredCell. *)

\* What the abstract cell sees and the invariant of the threads does not say: a
\* record names a call that is settled, an answer tells whether the call held a
\* permit, a page is never looked up, and the permits for pages are counted.
SeenInv ==
  /\ \A s \in refusedSigs :
       \E d \in Calls : sig[d] = s /\ stage[d] = "returned" /\ answer[d] = "refusal"
  /\ \A s \in Signatures : successes[s] # None =>
       stage[successes[s]] = "returned" /\ answer[successes[s]] = "result"
  /\ \A c \in Calls :
       /\ answer[c] = "result" => ordinal[c] # 0
       /\ answer[c] = "repeated_refusal" => ordinal[c] = 0 /\ stage[c] = "returned"
       /\ Navigates(sig[c]) => stage[c] \notin {"recall_refusal", "recall_success"}
  /\ dispatches["navigation"] = Cardinality(Reservations("navigation"))

\* What a step of its thread does to one call: the others, and what is asked, stay.
LEMMA OwnStep ==
  ASSUME IInv, NEW c \in Calls, Thread(c)
  PROVE  /\ UNCHANGED <<now, cancelled, sig>>
         /\ stage[c] \notin Over
         /\ \A d \in Calls \ {c} :
              stage'[d] = stage[d] /\ answer'[d] = answer[d] /\ ordinal'[d] = ordinal[d]
<1> USE DEF IInv, TypeOK, Over, Decided
<1>1. CASE RecallRefusal(c) BY <1>1 DEF RecallRefusal
<1>2. CASE RecallSuccess(c) BY <1>2 DEF RecallSuccess
<1>3. CASE Reserve(c) BY <1>3 DEF Reserve
<1>4. CASE WaitExpires(c) BY <1>4 DEF WaitExpires
<1>5. CASE AfterTimeout(c) BY <1>5 DEF AfterTimeout, Complete
<1>6. CASE Quiesce(c) BY <1>6 DEF Quiesce, Complete
<1>7. CASE BodyRaised(c) BY <1>7 DEF BodyRaised, Complete
<1>8. CASE CheckRemaining(c) BY <1>8 DEF CheckRemaining, Complete
<1>9. CASE RefuseCall(c) BY <1>9 DEF RefuseCall, Complete
<1>10. CASE CompleteCall(c) BY <1>10 DEF CompleteCall, Complete
<1>11. CASE RecordSuccess(c) BY <1>11 DEF RecordSuccess
<1>13. CASE Submit(c) BY <1>13 DEF Submit
<1> QED BY <1>1, <1>2, <1>3, <1>4, <1>5, <1>6, <1>7, <1>8, <1>9, <1>10, <1>11, <1>13 DEF Thread

\* A page gets its permit under the ceiling on pages, and the count follows.
LEMMA PagesStep ==
  ASSUME IInv, SeenInv, [Next]_vars
  PROVE  dispatches'["navigation"] = Cardinality(Reservations("navigation")')
<1> DEFINE P == Reservations("navigation")
<1>1. CASE Respond
  <2>1. PICK batch \in SUBSET Idle : \E asked \in [batch -> Signatures] :
          sig' = [c \in Calls |-> IF c \in batch THEN asked[c] ELSE sig[c]]
    BY <1>1 DEF Respond
  <2>2. \A c \in Calls : ordinal[c] # 0 => sig'[c] = sig[c]
    BY <2>1 DEF Idle, IInv, StageInv, Early
  <2>3. UNCHANGED <<dispatches, ordinal>>
    BY <1>1 DEF Respond, budgetVars
  <2>4. QED
    BY <2>2, <2>3 DEF SeenInv, Reservations, Kind
<1>2. CASE \E c \in Calls : Reserve(c)
  <2>1. PICK c \in Calls : Reserve(c)
    BY <1>2
  <2>2. UNCHANGED sig /\ stage[c] = "reserve" /\ ordinal[c] = 0
    BY <2>1 DEF Reserve, IInv, StageInv, Early
  <2>3. CASE Stopped \/ CeilingReached(Kind(c)) \/ Kind(c) = "tool"
    <3>1. dispatches'["navigation"] = dispatches["navigation"]
      BY <2>1, <2>3 DEF Reserve, IInv, TypeOK, Kinds
    <3>2. \A d \in Calls : Kind(d) = "navigation" => ordinal'[d] = ordinal[d]
      BY <2>1, <2>3 DEF Reserve, IInv, TypeOK
    <3>3. P' = P
      BY <2>2, <3>2 DEF Reservations, Kind
    <3>4. QED
      BY <3>1, <3>3 DEF SeenInv
  <2>4. CASE ~Stopped /\ ~CeilingReached(Kind(c)) /\ Kind(c) # "tool"
    <3>1. /\ ordinal' = [ordinal EXCEPT ![c] = dispatches["navigation"] + 1]
          /\ dispatches' = [dispatches EXCEPT !["navigation"] = dispatches["navigation"] + 1]
          /\ Kind(c) = "navigation"
      BY <2>1, <2>4 DEF Reserve, NextOrdinal, Kind
    <3>2. dispatches["navigation"] \in Nat /\ dispatches'["navigation"] = dispatches["navigation"] + 1
      BY <3>1 DEF IInv, TypeOK, Kinds
    <3>3. P' = P \cup {c} /\ c \notin P
      BY <2>2, <3>1, <3>2 DEF Reservations, Kind, IInv, TypeOK
    <3>4. IsFiniteSet(P)
      BY CallsAssumption, FS_Subset DEF Reservations
    <3>5. Cardinality(P \cup {c}) = Cardinality(P) + 1
      BY <3>3, <3>4, FS_AddElement
    <3>6. QED
      BY <3>2, <3>3, <3>5 DEF SeenInv
  <2>5. QED
    BY <2>3, <2>4
<1>3. CASE ~Respond /\ ~\E c \in Calls : Reserve(c)
  <2>1. UNCHANGED <<dispatches, ordinal, sig>>
    BY <1>3 DEF Next, Thread, Done, vars, callVars, budgetVars, EndBatch, CloseCell, Tick, Cancel,
                RunBody, RecallRefusal, RecallSuccess, Submit, WaitExpires, AfterTimeout, Quiesce,
                BodyRaised, CheckRemaining, RefuseCall, CompleteCall, RecordSuccess
  <2>2. QED
    BY <2>1 DEF SeenInv, Reservations, Kind
<1>4. QED
  BY <1>1, <1>2, <1>3

\* A step of one thread keeps what the records and the answers say.
LEMMA SeenThread ==
  ASSUME IInv, SeenInv, NEW c \in Calls, Thread(c)
  PROVE  /\ \A s \in refusedSigs' :
              \E d \in Calls : sig'[d] = s /\ stage'[d] = "returned" /\ answer'[d] = "refusal"
         /\ \A s \in Signatures : successes'[s] # None =>
              stage'[successes'[s]] = "returned" /\ answer'[successes'[s]] = "result"
         /\ answer'[c] = "result" => ordinal'[c] # 0
         /\ answer'[c] = "repeated_refusal" => ordinal'[c] = 0 /\ stage'[c] = "returned"
         /\ Navigates(sig'[c]) => stage'[c] \notin {"recall_refusal", "recall_success"}
<1> DEFINE Refusals(s) == {d \in Calls : sig[d] = s /\ stage[d] = "returned" /\ answer[d] = "refusal"}
<1>1. /\ UNCHANGED sig /\ stage[c] \notin Over
      /\ \A d \in Calls \ {c} :
           stage'[d] = stage[d] /\ answer'[d] = answer[d] /\ ordinal'[d] = ordinal[d]
  BY OwnStep
<1>2. stage[c] # "returned"
  BY <1>1 DEF Over, Decided
<1>3. \A s \in refusedSigs :
        \E d \in Calls : sig'[d] = s /\ stage'[d] = "returned" /\ answer'[d] = "refusal"
  BY <1>1, <1>2 DEF SeenInv
<1>4. \A s \in Signatures : successes[s] # None =>
        stage'[successes[s]] = "returned" /\ answer'[successes[s]] = "result"
  BY <1>1, <1>2 DEF SeenInv, IInv, TypeOK
<1>5. refusedSigs' = refusedSigs \/ (refusedSigs' = refusedSigs \cup {sig[c]} /\ RefuseCall(c))
  BY DEF Thread, budgetVars, RecallRefusal, RecallSuccess, Reserve, Submit, WaitExpires, AfterTimeout, Quiesce,
         BodyRaised, CheckRemaining, RefuseCall, CompleteCall, RecordSuccess
<1>6. CASE RefuseCall(c)
  <2>1. stage[c] = "passed" /\ Complete(c, "error", "returned") /\ ordinal[c] # 0
    BY <1>6 DEF RefuseCall, IInv, StageInv, Holding
  <2>2. ~AlreadyRecorded(c)
    BY <2>1 DEF IInv, PermitInv, Holding
  <2>3. /\ stage'[c] = "returned" /\ answer'[c] = "refusal"
        /\ refusedSigs' = refusedSigs \cup {sig[c]} /\ UNCHANGED <<successes, ordinal>>
    BY <1>6, <2>1, <2>2 DEF RefuseCall, Complete, IInv, TypeOK
  <2>4. QED
    BY <1>1, <1>3, <1>4, <2>1, <2>3
<1>7. CASE RecordSuccess(c)
  <2>1. stage[c] = "recording" /\ answer[c] = "result" /\ ordinal[c] # 0 /\ sig[c] \in Signatures
    BY <1>7 DEF RecordSuccess, IInv, StageInv, TypeOK
  <2>2. /\ stage'[c] = "returned" /\ UNCHANGED <<answer, ordinal, refusedSigs>>
        /\ \A s \in Signatures : successes'[s] = successes[s] \/ successes'[s] = c
    BY <1>7, <2>1 DEF RecordSuccess, KeepFirst, IInv, TypeOK
  <2>3. QED
    BY <1>1, <1>3, <1>4, <2>1, <2>2
<1>8. CASE ~RefuseCall(c) /\ ~RecordSuccess(c)
  <2>1. refusedSigs' = refusedSigs /\ successes' = successes
    BY <1>8 DEF Thread, budgetVars, RecallRefusal, RecallSuccess, Reserve, Submit, WaitExpires, AfterTimeout,
                Quiesce, BodyRaised, CheckRemaining, CompleteCall
  <2>2. /\ answer'[c] = "result" => ordinal'[c] # 0
        /\ answer'[c] = "repeated_refusal" => ordinal'[c] = 0 /\ stage'[c] = "returned"
        /\ Navigates(sig[c]) => stage'[c] \notin {"recall_refusal", "recall_success"}
    <3> USE DEF IInv, TypeOK, StageInv, SeenInv, Early, Holding
    <3>1. CASE RecallRefusal(c) BY <3>1 DEF RecallRefusal
    <3>2. CASE RecallSuccess(c) BY <3>2 DEF RecallSuccess
    <3>3. CASE Reserve(c) BY <3>3 DEF Reserve
    <3>4. CASE WaitExpires(c) BY <3>4 DEF WaitExpires
    <3>5. CASE AfterTimeout(c) BY <3>5 DEF AfterTimeout, Complete
    <3>6. CASE Quiesce(c) BY <3>6 DEF Quiesce, Complete
    <3>7. CASE BodyRaised(c) BY <3>7 DEF BodyRaised, Complete
    <3>8. CASE CheckRemaining(c) BY <3>8 DEF CheckRemaining, Complete
    <3>9. CASE CompleteCall(c) BY <3>9 DEF CompleteCall, Complete
    <3>10. CASE Submit(c) BY <3>10 DEF Submit
    <3> QED BY <1>8, <3>1, <3>2, <3>3, <3>4, <3>5, <3>6, <3>7, <3>8, <3>9, <3>10 DEF Thread
  <2>3. QED
    BY <1>1, <1>3, <1>4, <2>1, <2>2
<1>9. QED
  BY <1>6, <1>7, <1>8

LEMMA SeenStep ==
  ASSUME IInv, SeenInv, [Next]_vars
  PROVE  SeenInv'
<1> USE DEF budgetVars, callVars
<1>1. dispatches'["navigation"] = Cardinality(Reservations("navigation")')
  BY PagesStep
<1>2. CASE Respond
  <2>1. PICK batch \in SUBSET Idle : \E asked \in [batch -> Signatures] :
          /\ sig' = [c \in Calls |-> IF c \in batch THEN asked[c] ELSE sig[c]]
          /\ stage' = [c \in Calls |-> IF c \notin batch THEN stage[c]
                                       ELSE IF Navigates(asked[c]) THEN "reserve"
                                       ELSE "recall_refusal"]
    BY <1>2 DEF Respond
  <2>2. ASSUME NEW c \in Calls
        PROVE  \/ sig'[c] = sig[c] /\ stage'[c] = stage[c]
               \/ /\ stage[c] = "idle" /\ stage'[c] \in {"reserve", "recall_refusal"}
                  /\ Navigates(sig'[c]) => stage'[c] = "reserve"
    BY <2>1 DEF Idle
  <2>3. UNCHANGED <<refusedSigs, successes, ordinal, answer>>
    BY <1>2 DEF Respond
  <2>4. QED
    BY <1>1, <2>2, <2>3 DEF SeenInv, IInv, TypeOK
<1>3. ASSUME NEW c \in Calls, Thread(c) PROVE SeenInv'
  <2>1. /\ UNCHANGED sig
        /\ \A d \in Calls \ {c} :
             stage'[d] = stage[d] /\ answer'[d] = answer[d] /\ ordinal'[d] = ordinal[d]
    BY <1>3, OwnStep
  <2>2. QED
    BY <1>1, <1>3, <2>1, SeenThread DEF SeenInv
<1>4. CASE ~Respond /\ ~\E c \in Calls : Thread(c)
  <2>1. UNCHANGED <<refusedSigs, successes, sig, stage, answer, ordinal>>
    BY <1>4 DEF Next, Done, vars, EndBatch, CloseCell, Tick, Cancel, RunBody
  <2>2. QED
    BY <1>1, <2>1 DEF SeenInv
<1>5. QED
  BY <1>2, <1>3, <1>4

\* The abstract cell counts with the same cardinality.
LEMMA CellCounts ==
  ASSUME NEW S
  PROVE  Cell!Cardinality(S) = Cardinality(S)
BY DEF Cell!Cardinality, Cardinality

\* The calls that hold a permit in the abstract cell are the reservations the
\* budget counts, so that its room is the room under the budget's ceilings.
LEMMA RoomIsCounted ==
  ASSUME IInv, SeenInv, NEW c \in Calls
  PROVE  Cell!RoomFor(c) <=> ~CeilingReached(Kind(c))
<1> DEFINE what == [d \in Calls |-> CallState(d)]
<1>1. ASSUME NEW d \in Calls
      PROVE  what[d] \in Cell!Holding <=> ordinal[d] # 0 /\ answer[d] # "refusal"
  <2>1. what[d] = CallState(d)
    OBVIOUS
  <2>2. stage[d] \in Stages /\ answer[d] \in Answers
    BY DEF IInv, TypeOK
  <2>3. QED
    BY <2>1, <2>2 DEF CallState, Cell!Holding, IInv, StageInv, SeenInv, Early, Holding, Stages,
                      Decided, Answers
<1>2. Cell!Holders(c) = {d \in Calls : ordinal[d] # 0 /\ answer[d] # "refusal" /\ Kind(d) = Kind(c)}
  BY <1>1 DEF Cell!Holders, Cell!Navigates, Kind, Navigates
<1>3. CASE Kind(c) = "tool"
  <2>1. Cell!Holders(c) = Readings
    BY <1>2, <1>3 DEF Readings, Reservations
  <2>2. EvidenceReadings = Cardinality(Readings)
    BY ReadingsCounted
  <2>3. Cell!Ceiling(c) = MaxToolCalls
    BY <1>3 DEF Cell!Ceiling, Cell!Navigates, Kind, Navigates
  <2>4. EvidenceReadings \in Int
    BY DEF EvidenceReadings, IInv, TypeOK, Kinds
  <2>5. QED
    BY <1>3, <2>1, <2>2, <2>3, <2>4, CeilingsAssumption, CellCounts DEF Cell!RoomFor, CeilingReached
<1>4. CASE Kind(c) # "tool"
  <2>1. Kind(c) = "navigation"
    BY <1>4 DEF Kind
  <2>2. Cell!Holders(c) = Reservations("navigation")
    BY <1>2, <2>1 DEF Reservations, IInv, StageInv
  <2>3. Cell!Ceiling(c) = MaxNavigationCalls
    BY <1>4 DEF Cell!Ceiling, Cell!Navigates, Kind, Navigates
  <2>4. dispatches["navigation"] \in Nat /\ dispatches["navigation"] = Cardinality(Cell!Holders(c))
    BY <2>2 DEF IInv, TypeOK, Kinds, SeenInv
  <2>5. QED
    BY <2>1, <2>3, <2>4, CeilingsAssumption, CellCounts DEF Cell!RoomFor, CeilingReached
<1>5. QED
  BY <1>3, <1>4

\* A step that changes nothing the abstract cell sees of any call.
LEMMA CellRests ==
  ASSUME UNCHANGED <<sig, now, cancelled>>,
         \A d \in Calls : CallState(d)' = CallState(d)
  PROVE  /\ sig' = sig /\ RunIsOver' = RunIsOver
         /\ [d \in Calls |-> CallState(d)]' = [d \in Calls |-> CallState(d)]
BY DEF RunIsOver

\* A step that changes what the abstract cell sees of one call.
LEMMA CellMoves ==
  ASSUME UNCHANGED <<sig, now, cancelled>>, NEW c \in Calls, NEW state,
         \A d \in Calls \ {c} : CallState(d)' = CallState(d), CallState(c)' = state
  PROVE  Cell!Becomes(c, state)
<1> DEFINE what == [d \in Calls |-> CallState(d)]
<1>1. what' = [what EXCEPT ![c] = state]
  OBVIOUS
<1>2. QED
  BY <1>1 DEF Cell!Becomes, RunIsOver

\* A step of one thread settles its call, gives it its permit or goes unseen.
LEMMA ThreadMetered ==
  ASSUME IInv, SeenInv, NEW c \in Calls, Thread(c)
  PROVE  \/ Cell!Permit(c) \/ Cell!Deny(c) \/ Cell!Repeat(c) \/ Cell!Finish(c)
         \/ UNCHANGED <<sig, [d \in Calls |-> CallState(d)], RunIsOver>>
<1> DEFINE what == [d \in Calls |-> CallState(d)]
<1>1. /\ UNCHANGED <<now, cancelled, sig>> /\ stage[c] \notin Over
      /\ \A d \in Calls \ {c} :
           stage'[d] = stage[d] /\ answer'[d] = answer[d] /\ ordinal'[d] = ordinal[d]
  BY OwnStep
<1>2. \A d \in Calls \ {c} : CallState(d)' = CallState(d)
  BY <1>1 DEF CallState
<1>3. what[c] = CallState(c)
  OBVIOUS
<1>4. ASSUME CallState(c)' = CallState(c) PROVE UNCHANGED <<sig, what, RunIsOver>>
  BY <1>1, <1>2, <1>4, CellRests
<1>5. ASSUME NEW state, CallState(c)' = state PROVE Cell!Becomes(c, state)
  BY <1>1, <1>2, <1>5, CellMoves
<1>6. /\ stage \in [Calls -> Stages] /\ answer \in [Calls -> Answers]
      /\ ordinal \in [Calls -> Nat] /\ sig[c] \in Signatures
  BY <1>1 DEF IInv, TypeOK, Over
<1>7. CASE RecallRefusal(c)
  <2>1. stage[c] = "recall_refusal" /\ CallState(c) = "pending"
    BY <1>7 DEF RecallRefusal, CallState
  <2>2. CASE sig[c] \in refusedSigs
    <3>1. PICK d \in Calls : sig[d] = sig[c] /\ stage[d] = "returned" /\ answer[d] = "refusal"
      BY <2>2 DEF SeenInv
    <3>2. what[d] = "refused"
      BY <3>1 DEF CallState
    <3>3. CallState(c)' = "repeated"
      BY <1>6, <1>7, <2>2 DEF RecallRefusal, CallState
    <3>4. sig[c] \notin NavSignatures
      BY <2>1 DEF SeenInv, Navigates
    <3>5. QED
      BY <1>3, <1>5, <2>1, <3>1, <3>2, <3>3, <3>4 DEF Cell!Repeat, Cell!Navigates
  <2>3. CASE sig[c] \notin refusedSigs
    BY <1>4, <1>6, <1>7, <2>1, <2>3 DEF RecallRefusal, CallState
  <2>4. QED
    BY <2>2, <2>3
<1>8. CASE RecallSuccess(c)
  <2>1. stage[c] = "recall_success" /\ CallState(c) = "pending"
    BY <1>8 DEF RecallSuccess, CallState
  <2>2. CASE successes[sig[c]] # None
    <3> DEFINE d == successes[sig[c]]
    <3>1. d \in Calls /\ sig[d] = sig[c] /\ stage[d] = "returned" /\ answer[d] = "result"
      BY <1>6, <2>2 DEF SeenInv, IInv, RecordInv, TypeOK
    <3>2. what[d] = "answered"
      BY <3>1 DEF CallState
    <3>3. CallState(c)' = "repeated"
      BY <1>6, <1>8, <2>2 DEF RecallSuccess, KnownSuccess, CallState
    <3>4. sig[c] \notin NavSignatures
      BY <2>1 DEF SeenInv, Navigates
    <3>5. QED
      BY <1>3, <1>5, <2>1, <3>1, <3>2, <3>3, <3>4 DEF Cell!Repeat, Cell!Navigates
  <2>3. CASE successes[sig[c]] = None
    BY <1>4, <1>6, <1>8, <2>1, <2>3 DEF RecallSuccess, KnownSuccess, CallState
  <2>4. QED
    BY <2>2, <2>3
<1>9. CASE Reserve(c)
  <2>1. /\ stage[c] = "reserve" /\ CallState(c) = "pending"
        /\ answer[c] = "none" /\ ordinal[c] = 0 /\ UNCHANGED answer
    BY <1>9 DEF Reserve, CallState, IInv, StageInv, Early
  <2>2. CASE Stopped \/ CeilingReached(Kind(c))
    <3>1. stage'[c] = "denied" /\ UNCHANGED ordinal
      BY <1>6, <1>9, <2>2 DEF Reserve
    <3>2. CallState(c)' = "denied"
      BY <2>1, <3>1 DEF CallState
    <3>3. QED
      BY <1>3, <1>5, <2>1, <2>2, <3>2, RoomIsCounted DEF Cell!Deny, Stopped, RunIsOver
  <2>3. CASE ~Stopped /\ ~CeilingReached(Kind(c))
    <3>1. stage'[c] = "submitting"
      BY <1>6, <1>9, <2>3 DEF Reserve
    <3>2. CallState(c)' = "permitted"
      BY <3>1 DEF CallState
    <3>3. QED
      BY <1>3, <1>5, <2>1, <2>3, <3>2, RoomIsCounted DEF Cell!Permit, Stopped, RunIsOver
  <2>4. QED
    BY <2>2, <2>3
<1>10. CASE WaitExpires(c)
  BY <1>4, <1>6, <1>10 DEF WaitExpires, CallState
<1>11. ASSUME stage[c] \in Holding, stage'[c] \in {"raised", "denied"}, UNCHANGED <<answer, ordinal>>
       PROVE  Cell!Finish(c)
  <2>1. CallState(c) = "permitted" /\ answer[c] = "none" /\ ordinal[c] # 0
    BY <1>11 DEF CallState, Holding, IInv, StageInv
  <2>2. CallState(c)' = "lost"
    BY <1>11, <2>1 DEF CallState
  <2>3. QED
    BY <1>3, <1>5, <2>1, <2>2 DEF Cell!Finish
<1>12. CASE AfterTimeout(c)
  <2>1. stage[c] = "timed_out" /\ UNCHANGED <<answer, ordinal>>
    BY <1>12 DEF AfterTimeout
  <2>2. stage'[c] \in {"raised", "quiescing"}
    BY <1>6, <1>12 DEF AfterTimeout, Complete
  <2>3. CASE stage'[c] = "raised"
    BY <1>11, <2>1, <2>3 DEF Holding
  <2>4. CASE stage'[c] = "quiescing"
    BY <1>4, <2>1, <2>4 DEF CallState
  <2>5. QED
    BY <2>2, <2>3, <2>4
<1>13. CASE Quiesce(c)
  <2>1. stage[c] = "quiescing" /\ UNCHANGED <<answer, ordinal>>
    BY <1>13 DEF Quiesce
  <2>2. stage'[c] \in {"raised", "denied"}
    BY <1>6, <1>13 DEF Quiesce, Complete
  <2>3. QED
    BY <1>11, <2>1, <2>2 DEF Holding
<1>14. CASE BodyRaised(c)
  <2>1. stage[c] = "waiting" /\ UNCHANGED <<answer, ordinal>>
    BY <1>14 DEF BodyRaised
  <2>2. stage'[c] = "raised"
    BY <1>6, <1>14 DEF BodyRaised, Complete
  <2>3. QED
    BY <1>11, <2>1, <2>2 DEF Holding
<1>15. CASE CheckRemaining(c)
  <2>1. stage[c] = "waiting" /\ UNCHANGED <<answer, ordinal>>
    BY <1>15 DEF CheckRemaining
  <2>2. stage'[c] \in {"raised", "denied", "passed"}
    BY <1>6, <1>15 DEF CheckRemaining, Complete
  <2>3. CASE stage'[c] \in {"raised", "denied"}
    BY <1>11, <2>1, <2>3 DEF Holding
  <2>4. CASE stage'[c] = "passed"
    BY <1>4, <2>1, <2>4 DEF CallState
  <2>5. QED
    BY <2>2, <2>3, <2>4
<1>16. CASE RefuseCall(c)
  <2>1. stage[c] = "passed" /\ CallState(c) = "permitted" /\ sig[c] \notin NavSignatures
        /\ Complete(c, "error", "returned")
    BY <1>16 DEF RefuseCall, CallState, DeclaredRefusal, Navigates
  <2>2. ~AlreadyRecorded(c)
    BY <2>1 DEF IInv, PermitInv, Holding
  <2>3. CallState(c)' = "refused"
    BY <1>6, <1>16, <2>1, <2>2 DEF RefuseCall, Complete, CallState
  <2>4. QED
    BY <1>3, <1>5, <2>1, <2>3 DEF Cell!Finish, Cell!Navigates
<1>17. CASE CompleteCall(c)
  <2>1. stage[c] = "passed" /\ CallState(c) = "permitted"
        /\ Complete(c, "success", IF DeclaredSuccess(c) THEN "recording" ELSE "returned")
    BY <1>17 DEF CompleteCall, CallState
  <2>2. ~AlreadyRecorded(c)
    BY <2>1 DEF IInv, PermitInv, Holding
  <2>3. stage'[c] \in {"recording", "returned"} /\ answer'[c] = "result"
    BY <1>6, <1>17, <2>1, <2>2 DEF CompleteCall, Complete
  <2>4. CallState(c)' = "answered"
    BY <2>3 DEF CallState
  <2>5. QED
    BY <1>3, <1>5, <2>1, <2>4 DEF Cell!Finish
<1>18. CASE RecordSuccess(c)
  <2>1. stage[c] = "recording" /\ answer[c] = "result" /\ UNCHANGED answer /\ stage'[c] = "returned"
    BY <1>6, <1>18 DEF RecordSuccess, IInv, StageInv
  <2>2. QED
    BY <1>4, <2>1 DEF CallState
<1>19. CASE Submit(c)
  BY <1>4, <1>6, <1>19 DEF Submit, CallState
<1>20. QED
  BY <1>7, <1>8, <1>9, <1>10, <1>12, <1>13, <1>14, <1>15, <1>16, <1>17, <1>18, <1>19 DEF Thread

\* A batch is asked when the batch before it is settled.
LEMMA RespondAsks ==
  ASSUME IInv, Respond
  PROVE  \E batch \in SUBSET Calls : Cell!Ask(batch)
<1> DEFINE what == [d \in Calls |-> CallState(d)]
<1>1. PICK batch \in SUBSET Idle : \E asked \in [batch -> Signatures] :
        /\ sig' = [c \in Calls |-> IF c \in batch THEN asked[c] ELSE sig[c]]
        /\ stage' = [c \in Calls |-> IF c \notin batch THEN stage[c]
                                     ELSE IF Navigates(asked[c]) THEN "reserve"
                                     ELSE "recall_refusal"]
  BY DEF Respond
<1>2. PICK asked \in [batch -> Signatures] :
        /\ sig' = [c \in Calls |-> IF c \in batch THEN asked[c] ELSE sig[c]]
        /\ stage' = [c \in Calls |-> IF c \notin batch THEN stage[c]
                                     ELSE IF Navigates(asked[c]) THEN "reserve"
                                     ELSE "recall_refusal"]
  BY <1>1
<1>3. cell = "model" /\ UNCHANGED <<now, cancelled, answer, ordinal>>
  BY DEF Respond, budgetVars
<1>4. batch \subseteq Calls /\ \A c \in batch : stage[c] = "idle"
  BY DEF Idle
<1>5. \A c \in Calls : what[c] \notin Cell!InFlight
  <2> SUFFICES ASSUME NEW c \in Calls PROVE CallState(c) \notin {"pending", "permitted"}
    BY DEF Cell!InFlight
  <2>1. stage[c] \in Over
    BY <1>3 DEF IInv, TurnInv, Over
  <2>2. QED
    BY <2>1 DEF CallState, Over, Decided
<1>6. \A c \in batch : what[c] = "unasked"
  BY <1>4 DEF CallState
<1>7. what' = [c \in Calls |-> IF c \in batch THEN "pending" ELSE what[c]]
  <2>1. ASSUME NEW c \in Calls
        PROVE  CallState(c)' = IF c \in batch THEN "pending" ELSE CallState(c)
    BY <1>2, <1>3 DEF CallState
  <2>2. QED
    BY <2>1
<1>8. RunIsOver' = RunIsOver
  BY <1>3 DEF RunIsOver
<1>9. QED
  BY <1>2, <1>4, <1>5, <1>6, <1>7, <1>8 DEF Cell!Ask

\* Every step of the cell is a step of the metered cell, or goes unseen.
LEMMA StepMetered ==
  ASSUME IInv, SeenInv, [Next]_vars
  PROVE  [Cell!Next]_<<sig, [c \in Calls |-> CallState(c)], RunIsOver>>
<1> DEFINE what == [c \in Calls |-> CallState(c)]
<1>1. CASE Respond
  BY <1>1, RespondAsks DEF Cell!Next
<1>2. ASSUME NEW c \in Calls, Thread(c) PROVE Cell!Next \/ UNCHANGED <<sig, what, RunIsOver>>
  BY <1>2, ThreadMetered DEF Cell!Next
<1>3. CASE ~Respond /\ ~\E c \in Calls : Thread(c)
  <2>1. UNCHANGED <<sig, stage, answer, ordinal>>
    BY <1>3 DEF Next, Done, vars, callVars, EndBatch, CloseCell, Tick, Cancel, RunBody
  <2>2. UNCHANGED <<sig, what>>
    BY <2>1 DEF CallState
  <2>3. RunIsOver => RunIsOver'
    <3>1. CASE Tick
      <4>1. now \in Int /\ Deadline \in Int /\ now' = now + 1 /\ cancelled' = cancelled
        BY <3>1, CeilingsAssumption DEF Tick, IInv, TypeOK
      <4>2. QED
        BY <4>1 DEF RunIsOver
    <3>2. CASE Cancel BY <3>2 DEF Cancel, RunIsOver
    <3>3. CASE ~Tick /\ ~Cancel
      <4>1. UNCHANGED <<now, cancelled>>
        BY <1>3, <3>3 DEF Next, Done, vars, EndBatch, CloseCell, RunBody
      <4>2. QED
        BY <4>1 DEF RunIsOver
    <3>4. QED
      BY <3>1, <3>2, <3>3
  <2>4. CASE RunIsOver' = RunIsOver
    BY <2>2, <2>4
  <2>5. CASE RunIsOver' # RunIsOver
    <3>1. RunIsOver' = TRUE
      BY <2>3, <2>5 DEF RunIsOver
    <3>2. QED
      BY <2>2, <3>1 DEF Cell!Next, Cell!Stop
  <2>6. QED
    BY <2>4, <2>5
<1>4. QED
  BY <1>1, <1>2, <1>3

LEMMA InitMetered == Init => SeenInv /\ Cell!Init
<1> SUFFICES ASSUME Init PROVE SeenInv /\ Cell!Init
  OBVIOUS
<1>1. /\ \A c \in Calls : stage[c] = "idle" /\ ordinal[c] = 0 /\ answer[c] = "none"
      /\ refusedSigs = {} /\ \A s \in Signatures : successes[s] = None
      /\ dispatches["navigation"] = 0
  BY DEF Init, Kinds
<1>2. Reservations("navigation") = {}
  BY <1>1 DEF Reservations
<1>3. SeenInv
  BY <1>1, <1>2, FS_EmptySet DEF SeenInv
<1>4. \A c \in Calls : CallState(c) = "unasked"
  BY <1>1 DEF CallState
<1>5. sig = [c \in Calls |-> None] /\ RunIsOver = FALSE
  BY CeilingsAssumption DEF Init, RunIsOver
<1>6. QED
  BY <1>3, <1>4, <1>5 DEF Cell!Init

\* The property CellIsMetered: threads, workers, the clock and the operator together
\* do what the metered cell promises, for any calls, signatures and ceilings.
THEOREM CellRefinesMetering == Spec => CellIsMetered
<1>1. Init => SeenInv /\ Cell!Init
  BY InitMetered
<1>2. IInv /\ SeenInv /\ [Next]_vars => SeenInv'
  BY SeenStep
<1>3. IInv /\ SeenInv /\ [Next]_vars => [Cell!Next]_<<sig, [c \in Calls |-> CallState(c)], RunIsOver>>
  BY StepMetered
<1>4. QED
  BY <1>1, <1>2, <1>3, Invariance, PTL DEF Spec, CellIsMetered, Cell!Spec

-----------------------------------------------------------------------------
(* What BatchReturns rests on.  That the scheduler then lets the threads run is  *)
(* beyond these proofs.                                                          *)

\* How many steps a call has left at most, those of its body included.
StepsFrom ==
  [idle |-> 0, recall_refusal |-> 9, recall_success |-> 8, reserve |-> 7, submitting |-> 6,
   waiting |-> 4, timed_out |-> 3, quiescing |-> 2, passed |-> 2, recording |-> 1,
   returned |-> 0, raised |-> 0, denied |-> 0]

StepsLeft(c) == StepsFrom[stage[c]] + (IF worker[c] = "running" THEN 1 ELSE 0)

\* What the next step of a call waits for: its own body, or nothing.
MayGoOn(c) ==
  \/ stage[c] \in {"recall_refusal", "recall_success", "reserve", "submitting", "timed_out", "passed", "recording"}
  \/ stage[c] \in {"waiting", "quiescing"} /\ worker[c] \in Outcomes \cup {"running"}

LEMMA StepsAreCounted == ASSUME IInv, NEW c \in Calls PROVE StepsLeft(c) \in 0 .. 9
BY DEF IInv, TypeOK, StageInv, StepsLeft, StepsFrom, Stages, Decided, Holding

\* A step of a thread, or the end of its body, brings its call nearer to its end.
LEMMA ThreadNearsItsEnd ==
  ASSUME IInv, NEW c \in Calls, Thread(c) \/ RunBody(c)
  PROVE  StepsLeft(c)' \in Nat /\ StepsLeft(c)' < StepsLeft(c)
<1>0. /\ stage \in [Calls -> Stages] /\ worker \in [Calls -> Outcomes \cup {"none", "running"}]
      /\ "running" \notin Outcomes
      /\ StepsFrom[stage[c]] \in Nat
  BY DEF IInv, TypeOK, Outcomes, StepsFrom, Stages, Decided
<1> USE <1>0 DEF StepsLeft, StepsFrom
<1>1. CASE RecallRefusal(c) BY <1>1 DEF RecallRefusal
<1>2. CASE RecallSuccess(c) BY <1>2 DEF RecallSuccess
<1>3. CASE Reserve(c) BY <1>3 DEF Reserve
<1>4. CASE WaitExpires(c) BY <1>4 DEF WaitExpires
<1>5. CASE AfterTimeout(c) BY <1>5 DEF AfterTimeout, Complete
<1>6. CASE Quiesce(c) BY <1>6 DEF Quiesce, Complete
<1>7. CASE BodyRaised(c) BY <1>7 DEF BodyRaised, Complete
<1>8. CASE CheckRemaining(c) BY <1>8 DEF CheckRemaining, Complete
<1>9. CASE RefuseCall(c) BY <1>9 DEF RefuseCall, Complete
<1>10. CASE CompleteCall(c) BY <1>10 DEF CompleteCall, Complete
<1>11. CASE RecordSuccess(c) BY <1>11 DEF RecordSuccess
<1>12. CASE RunBody(c) BY <1>12 DEF RunBody
<1>13. CASE Submit(c) BY <1>13 DEF Submit
<1> QED
  BY <1>1, <1>2, <1>3, <1>4, <1>5, <1>6, <1>7, <1>8, <1>9, <1>10, <1>11, <1>12, <1>13 DEF Thread

\* Nobody else's step moves a call that was asked.
LEMMA OthersLeaveItAlone ==
  ASSUME IInv, [Next]_vars, NEW c \in Calls, stage[c] # "idle", ~Thread(c), ~RunBody(c)
  PROVE  stage'[c] = stage[c] /\ worker'[c] = worker[c]
<1> USE DEF IInv, TypeOK, callVars
<1>1. CASE Respond BY <1>1 DEF Respond, Idle
<1>2. CASE EndBatch \/ CloseCell \/ Tick \/ Cancel \/ UNCHANGED vars
  BY <1>2 DEF EndBatch, CloseCell, Tick, Cancel, vars
<1>3. ASSUME NEW d \in Calls \ {c}, Thread(d) PROVE stage'[c] = stage[c] /\ worker'[c] = worker[c]
  <2>1. stage'[c] = stage[c]
    BY <1>3, OwnStep
  <2>2. worker'[c] = worker[c]
    BY <1>3 DEF Thread, RecallRefusal, RecallSuccess, Reserve, Submit, WaitExpires, AfterTimeout, Quiesce,
                BodyRaised, CheckRemaining, RefuseCall, CompleteCall, RecordSuccess
  <2>3. QED
    BY <2>1, <2>2
<1>4. ASSUME NEW d \in Calls \ {c}, RunBody(d) PROVE stage'[c] = stage[c] /\ worker'[c] = worker[c]
  BY <1>4 DEF RunBody
<1>5. QED
  BY <1>1, <1>2, <1>3, <1>4 DEF Next, Done

\* However many calls a batch has, none waits for another one, or for a lock that another
\* one keeps: until it is decided it has a step to do, or its own body has.
LEMMA NoCallIsStuck == Spec => [](\A c \in Calls : stage[c] \notin Over => MayGoOn(c))
<1>1. IInv => \A c \in Calls : stage[c] \notin Over => MayGoOn(c)
  BY DEF IInv, TypeOK, StageInv, MayGoOn, Over, Decided, Stages, Holding
<1>2. QED
  BY Invariance, <1>1, PTL

\* And there is no loop: every step of a call, or of its body, uses up one of at most nine,
\* which no step of another call, of the clock or of the operator gives back.
THEOREM EveryCallRunsOut ==
  Spec => [][\A c \in Calls : stage[c] # "idle" =>
               /\ StepsLeft(c) \in 0 .. 9
               /\ StepsLeft(c)' <= StepsLeft(c)
               /\ (Thread(c) \/ RunBody(c)) => StepsLeft(c)' < StepsLeft(c)]_vars
<1>1. ASSUME IInv, [Next]_vars, NEW c \in Calls, stage[c] # "idle"
      PROVE  /\ StepsLeft(c) \in 0 .. 9
             /\ StepsLeft(c)' <= StepsLeft(c)
             /\ (Thread(c) \/ RunBody(c)) => StepsLeft(c)' < StepsLeft(c)
  <2>1. StepsLeft(c) \in 0 .. 9
    BY <1>1, StepsAreCounted
  <2>2. CASE Thread(c) \/ RunBody(c)
    BY <1>1, <2>1, <2>2, ThreadNearsItsEnd
  <2>3. CASE ~(Thread(c) \/ RunBody(c))
    <3>1. StepsLeft(c)' = StepsLeft(c)
      BY <1>1, <2>3, OthersLeaveItAlone DEF StepsLeft
    <3>2. QED
      BY <2>1, <2>3, <3>1
  <2>4. QED
    BY <2>2, <2>3
<1>2. IInv /\ [Next]_vars =>
        [\A c \in Calls : stage[c] # "idle" =>
           /\ StepsLeft(c) \in 0 .. 9
           /\ StepsLeft(c)' <= StepsLeft(c)
           /\ (Thread(c) \/ RunBody(c)) => StepsLeft(c)' < StepsLeft(c)]_vars
  BY <1>1
<1>3. QED
  BY <1>2, Invariance, PTL DEF Spec

\* What was recorded of a signature stays, and a call that finds it there in one of its two
\* recalls is not executed: it never gets from them to its reservation.
THEOREM RecordedIsNotReadAgain ==
  Spec => [][/\ refusedSigs \subseteq refusedSigs'
             /\ \A s \in Signatures : successes[s] # None => successes'[s] = successes[s]
             /\ \A c \in Calls :
                  /\ stage[c] = "recall_refusal" /\ sig[c] \in refusedSigs
                       => stage'[c] \in {"recall_refusal", "returned"}
                  /\ stage[c] \in {"recall_refusal", "recall_success"} /\ successes[sig[c]] # None
                       => stage'[c] \in {"recall_refusal", "recall_success", "returned"}]_vars
<1> DEFINE Stands ==
      /\ refusedSigs \subseteq refusedSigs'
      /\ \A s \in Signatures : successes[s] # None => successes'[s] = successes[s]
    Served(c) ==
      /\ stage[c] = "recall_refusal" /\ sig[c] \in refusedSigs
           => stage'[c] \in {"recall_refusal", "returned"}
      /\ stage[c] \in {"recall_refusal", "recall_success"} /\ successes[sig[c]] # None
           => stage'[c] \in {"recall_refusal", "recall_success", "returned"}
<1>1. ASSUME IInv, [Next]_vars PROVE Stands
  <2>1. CASE \E c \in Calls : RefuseCall(c)
    BY <2>1 DEF RefuseCall
  <2>2. CASE \E c \in Calls : RecordSuccess(c)
    BY <2>2 DEF RecordSuccess, KeepFirst, IInv, TypeOK
  <2>3. CASE ~\E c \in Calls : RefuseCall(c) \/ RecordSuccess(c)
    <3>1. UNCHANGED <<refusedSigs, successes>>
      BY <1>1, <2>3 DEF Next, Done, vars, budgetVars, Respond, EndBatch, CloseCell, Tick, Cancel,
                  Thread, RunBody, RecallRefusal, RecallSuccess, Reserve, Submit, WaitExpires,
                  AfterTimeout, Quiesce, BodyRaised, CheckRemaining, CompleteCall
    <3>2. QED
      BY <3>1
  <2>4. QED
    BY <2>1, <2>2, <2>3
<1>2. ASSUME IInv, [Next]_vars, NEW c \in Calls PROVE Served(c)
  <2>1. SUFFICES ASSUME stage[c] \in {"recall_refusal", "recall_success"} PROVE Served(c)
    OBVIOUS
  <2>2. worker[c] # "running"
    BY <1>2, <2>1 DEF IInv, StageInv, Early
  <2>3. CASE Thread(c)
    <3>1. RecallRefusal(c) \/ RecallSuccess(c)
      BY <2>1, <2>3 DEF Thread, Reserve, Submit, WaitExpires, AfterTimeout, Quiesce, BodyRaised,
                  CheckRemaining, RefuseCall, CompleteCall, RecordSuccess
    <3>2. CASE RecallRefusal(c)
      BY <1>2, <3>2 DEF RecallRefusal, IInv, TypeOK
    <3>3. CASE RecallSuccess(c)
      BY <1>2, <3>3 DEF RecallSuccess, KnownSuccess, IInv, TypeOK
    <3>4. QED
      BY <3>1, <3>2, <3>3
  <2>4. CASE ~Thread(c)
    <3>1. ~RunBody(c)
      BY <2>2 DEF RunBody
    <3>2. stage'[c] = stage[c]
      BY <1>2, <2>1, <2>4, <3>1, OthersLeaveItAlone
    <3>3. QED
      BY <2>1, <3>2
  <2>5. QED
    BY <2>3, <2>4
<1>3. IInv /\ [Next]_vars => [Stands /\ \A c \in Calls : Served(c)]_vars
  BY <1>1, <1>2
<1>4. QED
  BY <1>3, Invariance, PTL DEF Spec
===========================================================================
