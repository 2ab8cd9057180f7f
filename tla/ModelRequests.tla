---------------------------- MODULE ModelRequests ----------------------------
(***************************************************************************)
(* The model requests of a run: what the cell budget grants to the roles   *)
(* investigation, forced_final and verification, and how the transport     *)
(* builds, attests, sends and re-sends the body of one request when the    *)
(* provider refuses a control in it or rejects it after a change of route. *)
(*                                                                         *)
(* The graph is sequential: one request is in flight at a time.  The clock *)
(* and the provider act on their own.                                      *)
(***************************************************************************)
EXTENDS Integers, FiniteSets, SequencesExt

CONSTANTS
  MaxSteps,           \* max_investigation_requests
  MaxModelRequests,   \* the ceiling of all roles together
  Recover,            \* recover_incomplete_run: a run without a draft concludes by force
  Verifies,           \* verify: a draft goes to the verifier
  MaxResends,         \* PROVIDER_SWAP_MAX_RESENDS
  MaxTurns,           \* requests within the recursion limit of a concluding graph
  MaxRequests,        \* bound on the requests the investigation issues
  FirstChoice,        \* the policy for the first investigation request
  Envelope,           \* whether a conclusion is held to the answer schema
  None

\* reserved_terminal_model_requests: two for the conclusion, two for the verifier.
Reserve == (IF Recover THEN 2 ELSE 0) + (IF Verifies THEN 2 ELSE 0)

\* The budget refuses a share that leaves the investigation no request.
ASSUME RequestsAssumption ==
  /\ {MaxSteps, MaxModelRequests, MaxResends, MaxTurns, MaxRequests} \subseteq Nat
  /\ MaxTurns > 0
  /\ FirstChoice \in {"auto", "required"}
  /\ {Envelope, Recover, Verifies} \subseteq BOOLEAN
  /\ Reserve < MaxModelRequests

Roles   == {"investigation", "forced_final", "verification"}
Reasons == {"max_wall_time_s", "max_steps", "max_model_requests"}

\* A body as the provider receives it: the tool_choice parameter, how much of
\* the palette is visible, and whether the reply is held to a schema.
Bodies == [choice : {"none", "auto", "required", "named"},
           palette : {"none", "one", "all"},
           format : BOOLEAN]

ASSUME NoBodyAssumption == None \notin Bodies \cup Reasons

\* A row of the record: the request, the body now with the provider, those refused.
Requests == [role : {"investigation", "forced_final"},
             asked : {"any", "required", "named"},
             receipt : Bodies \cup {None},
             refused : Seq([body : Bodies, why : {"choice", "format", "route"}])]

VARIABLES
  clock,          \* "open", "reserve": only the terminal share is left, "over"
  dispatched,     \* permits granted to each role
  denials,        \* who was denied a permit, and why
  phase,          \* the role the run is in, or "over"
  rounds,         \* concluding invocations, or verification attempts
  turn,           \* requests of the current concluding invocation
  sending,        \* "idle", "build", "sent"
  accepts,        \* _accepts_constrained_tool_choice
  named,          \* _next_specific_tool_choice is armed
  position,       \* _investigation_request_count
  refusesFormat,  \* the armed format constraint was refused
  resends,        \* _provider_swap_resends
  rows,           \* one row per request: what was asked and every body attested
  chain           \* entries of the oversight log: requests answered and failed

budgetVars    == <<dispatched, denials>>
runVars       == <<phase, rounds, turn>>
transportVars == <<accepts, named, position, refusesFormat, resends>>
recordVars    == <<rows, chain>>
vars == <<clock, budgetVars, runVars, sending, transportVars, recordVars>>

Dispatches == dispatched["investigation"] + dispatched["forced_final"]
                + dispatched["verification"]

TypeOK ==
  /\ clock \in {"open", "reserve", "over"}
  /\ dispatched \in [Roles -> Nat]
  /\ denials \subseteq (Roles \X Reasons)
  /\ phase \in Roles \cup {"over"}
  /\ rounds \in 0 .. 2 /\ turn \in 0 .. MaxTurns
  /\ sending \in {"idle", "build", "sent"}
  /\ accepts \in BOOLEAN /\ named \in BOOLEAN /\ refusesFormat \in BOOLEAN
  /\ position \in Nat
  /\ resends \in 0 .. MaxResends
  /\ rows \in Seq(Requests)
  /\ chain \in [{"success", "error"} -> Nat]

Init ==
  /\ clock = "open"
  /\ dispatched = [r \in Roles |-> 0]
  /\ denials = {}
  /\ phase = "investigation"
  /\ rounds = 0 /\ turn = 0
  /\ sending = "idle"
  /\ accepts = TRUE /\ named = FALSE /\ position = 0
  /\ refusesFormat = FALSE
  /\ resends = 0
  /\ rows = <<>>
  /\ chain = [s \in {"success", "error"} |-> 0]

Tick ==
  /\ clock # "over"
  /\ clock' = IF clock = "open" THEN "reserve" ELSE "over"
  /\ UNCHANGED <<budgetVars, runVars, sending, transportVars, recordVars>>

-----------------------------------------------------------------------------
(* reserve_model *)

\* Mutant: the terminal share is taken for granted.
DenialWithoutReserve(role) ==
  CASE clock = "over" -> "max_wall_time_s"
    [] role = "investigation" /\ clock = "reserve" -> "max_wall_time_s"
    [] role = "investigation" /\ dispatched[role] >= MaxSteps -> "max_steps"
    [] Dispatches >= MaxModelRequests -> "max_model_requests"
    [] OTHER -> None

Denial(role) ==
  CASE clock = "over" -> "max_wall_time_s"
    [] role = "investigation" /\ clock = "reserve" -> "max_wall_time_s"
    [] role = "investigation" /\ dispatched[role] >= MaxSteps -> "max_steps"
    [] role = "investigation" /\ Dispatches >= MaxModelRequests - Reserve ->
         "max_model_requests"
    [] Dispatches >= MaxModelRequests -> "max_model_requests"
    [] OTHER -> None

Grant(role) ==
  /\ Denial(role) = None
  /\ dispatched' = [dispatched EXCEPT ![role] = @ + 1]
  /\ UNCHANGED denials

Deny(role) ==
  /\ Denial(role) # None
  /\ denials' = denials \cup {<<role, Denial(role)>>}
  /\ UNCHANGED dispatched

-----------------------------------------------------------------------------
(* The transport. *)

Current == Len(rows)

\* What the runtime asks of the request it issues now.
Asked(compel) ==
  IF phase # "investigation" THEN "any"
  ELSE IF compel THEN "named"
  ELSE IF FirstChoice = "required" /\ position = 0 /\ accepts THEN "required"
  ELSE "any"

\* One _generate call: the callback opens its row, the resend counter restarts.
Open(compel) ==
  /\ sending = "idle"
  /\ sending' = "build"
  /\ resends' = 0
  /\ rows' = Append(rows, [role |-> phase, asked |-> Asked(compel),
                           receipt |-> None, refused |-> <<>>])
  /\ UNCHANGED <<clock, budgetVars, accepts, position, chain>>

\* The graph asks for the next turn; a recovery stage may compel one tool.
Investigate ==
  /\ phase = "investigation"
  /\ Len(rows) < MaxRequests
  /\ \E compel \in BOOLEAN :
       /\ Open(compel)
       /\ named' = compel
  /\ UNCHANGED <<runVars, refusesFormat>>

\* The concluding graph is invoked, with a format constraint of its own.
ConcludeAfresh ==
  /\ phase = "forced_final"
  /\ turn = 0 /\ rounds < 2
  /\ Open(FALSE)
  /\ rounds' = rounds + 1
  /\ turn' = 1
  /\ refusesFormat' = FALSE
  /\ UNCHANGED <<phase, named>>

\* It answered with a tool call although no tool was visible, and is asked again.
ConcludeOn ==
  /\ phase = "forced_final"
  /\ turn \in 1 .. MaxTurns - 1
  /\ Open(FALSE)
  /\ turn' = turn + 1
  /\ UNCHANGED <<phase, rounds, named, refusesFormat>>

\* _get_request_payload.
Body ==
  IF phase = "forced_final"
  THEN [choice |-> "none", palette |-> "none", format |-> Envelope /\ ~refusesFormat]
  ELSE [choice |-> IF named THEN (IF accepts THEN "named" ELSE "auto")
                   ELSE IF position = 0 /\ accepts THEN FirstChoice ELSE "auto",
        palette |-> IF named /\ ~accepts THEN "one" ELSE "all",
        format |-> FALSE]

\* A permit, a body, its receipt; what the body expresses is consumed.
Dispatch ==
  /\ sending = "build"
  /\ Grant(phase)
  /\ rows' = [rows EXCEPT ![Current].receipt = Body]
  /\ IF phase = "investigation"
     THEN named' = FALSE /\ position' = position + 1
     ELSE UNCHANGED <<named, position>>
  /\ sending' = "sent"
  /\ UNCHANGED <<clock, runVars, accepts, refusesFormat, resends, chain>>

\* The graph is left by an exception: an armed choice dies with its scope.
Leave ==
  /\ sending' = "idle"
  /\ named' = FALSE
  /\ turn' = 0

\* _DispatchDenied is no request, so the log does not hear of it.
DenyRequest ==
  /\ sending = "build"
  /\ Deny(phase)
  /\ Leave
  /\ UNCHANGED <<clock, phase, rounds, accepts, position, refusesFormat, resends, recordVars>>

Record(status) == chain' = [chain EXCEPT ![status] = @ + 1]

\* A reply; one that names a tool keeps the concluding graph going.
Answer ==
  /\ sending = "sent"
  /\ phase # "verification"
  /\ Record("success")
  /\ sending' = "idle"
  /\ \E tool \in BOOLEAN : turn' = IF tool /\ turn < MaxTurns THEN turn ELSE 0
  /\ UNCHANGED <<clock, budgetVars, phase, rounds, transportVars, rows>>

Sent == rows[Current].receipt

\* Mutant: the next receipt replaces it.
Overwrite(why) == rows' = [rows EXCEPT ![Current].receipt = None]

\* The receipt of a body the provider rejected is kept beside the next one.
Retire(why) ==
  rows' = [rows EXCEPT ![Current].refused = Append(@, [body |-> Sent, why |-> why]),
                       ![Current].receipt = None]

Resend(why) ==
  /\ Record("error")
  /\ Retire(why)
  /\ sending' = "build"

\* Mutant: the choice the refused body consumed is not armed again.
ForgetChoice == FALSE

\* _accept_tool_choice_refusal, _rearm_refused_request
ArmAgain == Sent.choice = "named" \/ Sent.palette = "one"

\* The provider refuses to be compelled: remembered for the rest of the run.
RefuseChoice ==
  /\ sending = "sent"
  /\ phase # "verification"
  /\ accepts /\ Sent.choice \in {"required", "named"}
  /\ Resend("choice")
  /\ accepts' = FALSE
  /\ named' = ArmAgain
  /\ UNCHANGED <<clock, budgetVars, runVars, position, refusesFormat, resends>>

DropFormat == TRUE

\* It refuses the schema: remembered while this constraint is armed.
RefuseFormat ==
  /\ sending = "sent"
  /\ phase = "forced_final"
  /\ Sent.format /\ ~refusesFormat
  /\ Resend("format")
  /\ refusesFormat' = DropFormat
  /\ UNCHANGED <<clock, budgetVars, runVars, accepts, named, position, resends>>

RewindTo == IF position > 0 THEN position - 1 ELSE 0

\* Another endpoint rejected what the first one would have served: the same body
\* is offered once more, with everything that building it had consumed.
SwapRoute ==
  /\ sending = "sent"
  /\ phase # "verification"
  /\ resends < MaxResends
  /\ Resend("route")
  /\ resends' = resends + 1
  /\ named' = ArmAgain
  /\ position' = IF phase = "investigation" THEN RewindTo ELSE position
  /\ UNCHANGED <<clock, budgetVars, runVars, accepts, refusesFormat>>

\* Any other error ends the request; the run survives it only where a draft may
\* still be recovered.
Fail ==
  /\ sending = "sent"
  /\ phase # "verification"
  /\ Record("error")
  /\ Leave
  /\ phase' \in {phase, "over"}
  /\ UNCHANGED <<clock, budgetVars, rounds, accepts, position, refusesFormat, resends, rows>>

-----------------------------------------------------------------------------
(* The phases. *)

\* Without a draft it can publish the run concludes by force, once more if the
\* first conclusion was unusable; a draft goes to the verifier, or out as it is.
EndPhase ==
  /\ sending = "idle" /\ turn = 0
  /\ \/ phase = "investigation" /\ Recover /\ phase' = "forced_final"
     \/ phase \in {"investigation", "forced_final"} /\ Verifies /\ phase' = "verification"
     \/ phase # "over" /\ phase' = "over"
  /\ phase # "investigation" => rounds >= 1
  /\ rounds' = 0
  /\ UNCHANGED <<clock, budgetVars, turn, sending, transportVars, recordVars>>

\* reserve_verification; the verifier has a client of its own, which never
\* re-sends, and one bounded retry of a malformed report.
Verify ==
  /\ phase = "verification" /\ sending = "idle"
  /\ rounds < 2
  /\ \/ Grant("verification") /\ sending' = "sent"
     \/ Deny("verification") /\ UNCHANGED sending
  /\ rounds' = IF sending' = "sent" THEN rounds + 1 ELSE 2
  /\ UNCHANGED <<clock, phase, turn, transportVars, recordVars>>

\* Only a report that is malformed in a retryable way is asked for again.
VerifierReplies ==
  /\ phase = "verification" /\ sending = "sent"
  /\ sending' = "idle"
  /\ rounds' \in {rounds, 2}
  /\ UNCHANGED <<clock, budgetVars, phase, turn, transportVars, recordVars>>

Done == phase = "over" /\ UNCHANGED vars

Next ==
  \/ Tick
  \/ Investigate \/ ConcludeAfresh \/ ConcludeOn
  \/ Dispatch \/ DenyRequest
  \/ Answer \/ RefuseChoice \/ RefuseFormat \/ SwapRoute \/ Fail
  \/ EndPhase \/ Verify \/ VerifierReplies
  \/ Done

Spec == Init /\ [][Next]_vars

-----------------------------------------------------------------------------
(* Safety *)

Rows(role) == {i \in 1 .. Len(rows) : rows[i].role = role}

\* Every body of one request, in the order in which they were sent.
BodiesOf(row) ==
  [k \in 1 .. Len(row.refused) |-> row.refused[k].body]
    \o (IF row.receipt = None THEN <<>> ELSE <<row.receipt>>)

\* A run whose concluding requests each went out once, in at most two requests,
\* finds a permit for the verifier and for its retry.
ReserveSuffices ==
  (/\ Cardinality(Rows("forced_final")) <= 2
   /\ \A i \in Rows("forced_final") : rows[i].refused = <<>>)
    => {<<"forced_final", "max_model_requests">>, <<"verification", "max_model_requests">>}
         \cap denials = {}

\* The bodies of the requests of a role, by row and place.
Attested(role) == UNION {{i} \X (1 .. Len(BodiesOf(rows[i]))) : i \in Rows(role)}

\* Every permit granted to a role is the receipt of exactly one body of that role,
\* and every body that is no longer under way has exactly one entry on the log.
EveryDispatchIsOnRecord ==
  LET granted  == dispatched["investigation"] + dispatched["forced_final"]
      underWay == IF sending = "sent" /\ phase # "verification" THEN 1 ELSE 0
  IN  /\ \A role \in {"investigation", "forced_final"} :
           Cardinality(Attested(role)) = dispatched[role]
      /\ chain["success"] + chain["error"] + underWay = granted

Names(body) == body.choice = "named" \/ body.palette = "one"

\* A tool the runtime compels is compelled in every body of that request, through
\* refusals and changes of route, and in no body of any other request; the first
\* turn stays compelled for as long as the provider was not heard to refuse.
CompulsionSurvives ==
  \A i \in 1 .. Len(rows) :
    LET bodies == BodiesOf(rows[i]) IN
    \A k \in 1 .. Len(bodies) :
      /\ Names(bodies[k]) <=> rows[i].asked = "named"
      /\ (rows[i].asked = "required" /\ accepts) => bodies[k].choice = "required"
=============================================================================
