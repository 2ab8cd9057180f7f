-------------------------- MODULE ModelRequestsProofs --------------------------
(* What holds of the model requests for every budget, retry bound, policy and *)
(* configuration of the terminal stages.                                      *)
EXTENDS ModelRequests, FiniteSetTheorems, TLAPS

GraphRoles == {"investigation", "forced_final"}

\* The bodies of one row: those refused, and the one now with the provider.
BodySet(row) ==
  {row.refused[k].body : k \in 1 .. Len(row.refused)} \cup ({row.receipt} \ {None})

BodyCount(row) == Len(row.refused) + (IF row.receipt = None THEN 0 ELSE 1)

\* What CompulsionSurvives asks of one row, given whether the provider is
\* thought to accept a constrained choice.
Faithful(row, accepting) ==
  \A body \in BodySet(row) :
    /\ Names(body) <=> row.asked = "named"
    /\ (row.asked = "required" /\ accepting) => body.choice = "required"

InFlight == sending # "idle" /\ phase # "verification"

\* The request in flight is the last row; its receipt says whether it was sent.
FlightInv ==
  /\ InFlight =>
       /\ phase \in GraphRoles
       /\ Len(rows) > 0
       /\ rows[Len(rows)].role = phase
       /\ rows[Len(rows)].receipt = None <=> sending = "build"
  /\ phase = "verification" => sending # "build"
  /\ phase = "over" => sending = "idle"
  /\ \A i \in 1 .. Len(rows) :
       (phase = "investigation" \/ rows[i].asked # "any") => rows[i].role = "investigation"

\* What building the next body of the request in flight will take from the transport.
ArmedInv ==
  /\ named => sending = "build" /\ phase = "investigation"
  /\ (InFlight /\ phase = "investigation") =>
       LET asked == rows[Len(rows)].asked IN
       /\ sending = "build" => (named <=> asked = "named")
       /\ asked = "required" => FirstChoice = "required"
       /\ (asked = "required" /\ accepts) => position = (IF sending = "build" THEN 0 ELSE 1)

FaithfulInv == \A i \in 1 .. Len(rows) : Faithful(rows[i], accepts)

\* The permits of each role, against the record and against its share.
PermitInv ==
  /\ \A role \in GraphRoles :
       /\ IsFiniteSet(Attested(role))
       /\ Cardinality(Attested(role)) = dispatched[role]
  /\ dispatched["investigation"] <= MaxModelRequests - Reserve
  /\ dispatched["verification"] <= 2
  /\ phase = "verification" => dispatched["verification"] <= rounds
  /\ phase \in GraphRoles => dispatched["verification"] = 0
  /\ phase = "forced_final" => Recover
  /\ phase = "verification" => Verifies
  /\ ~Recover => dispatched["forced_final"] = 0

ChainInv ==
  chain["success"] + chain["error"] + (IF sending = "sent" /\ phase # "verification" THEN 1 ELSE 0)
    = dispatched["investigation"] + dispatched["forced_final"]

IInv == TypeOK /\ FlightInv /\ ArmedInv /\ FaithfulInv /\ PermitInv /\ ChainInv /\ ReserveSuffices

-----------------------------------------------------------------------------
(* The record: rows, their bodies, and how many there are. *)

Refusals == [body : Bodies, why : {"choice", "format", "route"}]

LEMMA RowFields ==
  ASSUME NEW row \in Requests
  PROVE  /\ row.role \in GraphRoles /\ row.asked \in {"any", "required", "named"}
         /\ row.receipt \in Bodies \cup {None} /\ row.refused \in Seq(Refusals)
         /\ BodyCount(row) \in Nat /\ BodySet(row) \subseteq Bodies
<1>1. /\ row.role \in GraphRoles /\ row.asked \in {"any", "required", "named"}
      /\ row.receipt \in Bodies \cup {None} /\ row.refused \in Seq(Refusals)
  BY DEF Requests, GraphRoles, Refusals
<1>2. \A k \in 1 .. Len(row.refused) : row.refused[k] \in Refusals BY <1>1
<1>3. \A r \in Refusals : r.body \in Bodies BY DEF Refusals
<1>4. BodySet(row) \subseteq Bodies BY <1>1, <1>2, <1>3 DEF BodySet
<1>5. BodyCount(row) \in Nat
  <2>1. Len(row.refused) \in Nat BY <1>1
  <2>2. \A n \in Nat : n + (IF row.receipt = None THEN 0 ELSE 1) \in Nat OBVIOUS
  <2> QED BY <2>1, <2>2 DEF BodyCount
<1> QED BY <1>1, <1>4, <1>5

LEMMA RefusalFields ==
  ASSUME NEW r \in Refusals
  PROVE  r.body \in Bodies
BY DEF Refusals

LEMMA BodiesFields ==
  ASSUME NEW row \in Requests
  PROVE  /\ Len(BodiesOf(row)) = BodyCount(row)
         /\ \A k \in 1 .. Len(BodiesOf(row)) : BodiesOf(row)[k] \in BodySet(row)
<1> DEFINE n == Len(row.refused)
           early == [k \in 1 .. n |-> row.refused[k].body]
           late == IF row.receipt = None THEN <<>> ELSE <<row.receipt>>
<1>1. n \in Nat /\ \A k \in 1 .. n : row.refused[k] \in Refusals BY RowFields
<1>2. early \in Seq(Bodies) /\ Len(early) = n
  <2>1. \A k \in 1 .. n : row.refused[k].body \in Bodies BY <1>1, RefusalFields
  <2>2. early \in [1 .. n -> Bodies] BY <2>1
  <2> QED BY <2>2, <1>1
<1>3. /\ late \in Seq(Bodies)
      /\ Len(late) = IF row.receipt = None THEN 0 ELSE 1
      /\ row.receipt # None => late[1] = row.receipt
  BY RowFields
<1>4. BodiesOf(row) = early \o late BY DEF BodiesOf
<1>5. \A k \in 1 .. n : early[k] = row.refused[k].body OBVIOUS
<1>6. Len(BodiesOf(row)) = n + Len(late)
  <2> HIDE DEF early, late, n
  <2> QED BY <1>1, <1>2, <1>3, <1>4
<1>7. ASSUME NEW k \in 1 .. Len(BodiesOf(row))
      PROVE  BodiesOf(row)[k] \in BodySet(row)
  <2>1. CASE k <= n
    <3>1. BodiesOf(row)[k] = early[k]
      <4> HIDE DEF early, late, n
      <4> QED BY <1>1, <1>2, <1>3, <1>4, <1>6, <2>1
    <3>2. k \in 1 .. n BY <1>1, <2>1
    <3> QED BY <3>1, <3>2, <1>5 DEF BodySet
  <2>2. CASE k > n
    <3>1. row.receipt # None /\ k = n + 1
      <4> HIDE DEF early, late, n
      <4> QED BY <1>1, <1>3, <1>6, <2>2
    <3>2. BodiesOf(row)[k] = late[1]
      <4> HIDE DEF early, late, n
      <4> QED BY <1>1, <1>2, <1>3, <1>4, <3>1
    <3> QED BY <3>1, <3>2, <1>3 DEF BodySet
  <2> QED BY <2>1, <2>2, <1>1
<1> QED BY <1>6, <1>7 DEF BodyCount

Pairs(rs, role) ==
  UNION {{i} \X (1 .. Len(BodiesOf(rs[i]))) : i \in {i \in 1 .. Len(rs) : rs[i].role = role}}

LEMMA PairsMember ==
  ASSUME NEW rs \in Seq(Requests), NEW role
  PROVE  \A p : p \in Pairs(rs, role) <=>
           \E i \in 1 .. Len(rs) : \E k \in 1 .. BodyCount(rs[i]) :
             rs[i].role = role /\ p = <<i, k>>
<1>1. \A i \in 1 .. Len(rs) : Len(BodiesOf(rs[i])) = BodyCount(rs[i]) BY BodiesFields
<1> QED BY <1>1 DEF Pairs

LEMMA PairsSame ==
  ASSUME NEW rs \in Seq(Requests), NEW rt \in Seq(Requests), NEW role,
         Len(rs) <= Len(rt),
         \A i \in 1 .. Len(rs) : rt[i].role = rs[i].role /\ BodyCount(rt[i]) = BodyCount(rs[i]),
         \A i \in 1 .. Len(rt) : i > Len(rs) => BodyCount(rt[i]) = 0
  PROVE  Pairs(rt, role) = Pairs(rs, role)
<1>1. \A i \in 1 .. Len(rs) : i \in 1 .. Len(rt) OBVIOUS
<1>2. \A i \in 1 .. Len(rt) : \A k \in 1 .. BodyCount(rt[i]) : i \in 1 .. Len(rs)
  OBVIOUS
<1>3. \A p : p \in Pairs(rt, role) => p \in Pairs(rs, role) BY <1>2, PairsMember
<1>4. \A p : p \in Pairs(rs, role) => p \in Pairs(rt, role) BY <1>1, PairsMember
<1> QED BY <1>3, <1>4

LEMMA PairsMore ==
  ASSUME NEW rs \in Seq(Requests), NEW rt \in Seq(Requests), NEW role,
         NEW n \in 1 .. Len(rs), Len(rt) = Len(rs),
         \A i \in 1 .. Len(rs) : rt[i].role = rs[i].role /\ (i # n => rt[i] = rs[i]),
         BodyCount(rt[n]) = BodyCount(rs[n]) + 1
  PROVE  /\ rs[n].role # role => Pairs(rt, role) = Pairs(rs, role)
         /\ rs[n].role = role => Pairs(rt, role) = Pairs(rs, role) \cup {<<n, BodyCount(rt[n])>>}
         /\ <<n, BodyCount(rt[n])>> \notin Pairs(rs, role)
<1>1. BodyCount(rs[n]) \in Nat /\ BodyCount(rt[n]) \in Nat BY RowFields
<1>2. <<n, BodyCount(rt[n])>> \notin Pairs(rs, role) BY <1>1, PairsMember
<1>3. CASE rs[n].role # role
  <2>1. \A p : p \in Pairs(rt, role) <=> p \in Pairs(rs, role) BY <1>3, PairsMember
  <2> QED BY <2>1, <1>2, <1>3
<1>4. CASE rs[n].role = role
  <2>1. \A k \in 1 .. BodyCount(rt[n]) : k \in 1 .. BodyCount(rs[n]) \/ k = BodyCount(rt[n])
    BY <1>1
  <2>2. \A k \in 1 .. BodyCount(rs[n]) : k \in 1 .. BodyCount(rt[n]) BY <1>1
  <2>3. BodyCount(rt[n]) \in 1 .. BodyCount(rt[n]) BY <1>1
  <2>4. \A p : p \in Pairs(rt, role) => p \in Pairs(rs, role) \cup {<<n, BodyCount(rt[n])>>}
    BY <2>1, PairsMember
  <2>5. \A p : p \in Pairs(rs, role) => p \in Pairs(rt, role) BY <2>2, PairsMember
  <2>6. <<n, BodyCount(rt[n])>> \in Pairs(rt, role) BY <2>3, <1>4, PairsMember
  <2> QED BY <2>4, <2>5, <2>6, <1>2, <1>4
<1> QED BY <1>3, <1>4

-----------------------------------------------------------------------------
(* What an action does to the rows. *)

\* A new request: everything before it is as it was, and nothing of it was sent.
Opened(rs, rt, role, asked) ==
  /\ rt \in Seq(Requests) /\ Len(rt) = Len(rs) + 1
  /\ \A i \in 1 .. Len(rs) : rt[i] = rs[i]
  /\ LET row == rt[Len(rt)] IN
     /\ row.role = role /\ row.asked = asked /\ row.receipt = None
     /\ BodySet(row) = {} /\ BodyCount(row) = 0 /\ row.refused = <<>>

\* The last request changed: the bodies it had, and perhaps one more.
Changed(rs, rt, receipt, more) ==
  /\ rt \in Seq(Requests) /\ Len(rt) = Len(rs) /\ Len(rs) > 0
  /\ \A i \in 1 .. Len(rs) : i # Len(rs) => rt[i] = rs[i]
  /\ LET old == rs[Len(rs)]
         new == rt[Len(rs)]
     IN /\ new.role = old.role /\ new.asked = old.asked /\ new.receipt = receipt
        /\ BodySet(new) = BodySet(old) \cup more
        /\ BodyCount(new) = BodyCount(old) + (IF more = {} THEN 0 ELSE 1)
        /\ new.refused = <<>> => old.refused = <<>>

LEMMA OpenRows ==
  ASSUME TypeOK, phase \in GraphRoles, NEW compel \in BOOLEAN, Open(compel)
  PROVE  Opened(rows, rows', phase, Asked(compel))
<1> DEFINE row == [role |-> phase, asked |-> Asked(compel), receipt |-> None, refused |-> <<>>]
<1>1. row \in Requests BY DEF Requests, GraphRoles, Asked
<1>2. rows \in Seq(Requests) /\ rows' = Append(rows, row) BY DEF TypeOK, Open
<1>3. /\ row.role = phase /\ row.asked = Asked(compel) /\ row.receipt = None
      /\ row.refused = <<>> /\ BodySet(row) = {} /\ BodyCount(row) = 0
  BY DEF BodySet, BodyCount
<1> HIDE DEF row
<1>4. /\ rows' \in Seq(Requests) /\ Len(rows') = Len(rows) + 1 /\ rows'[Len(rows')] = row
      /\ \A i \in 1 .. Len(rows) : rows'[i] = rows[i]
  BY <1>1, <1>2
<1> QED BY <1>3, <1>4 DEF Opened

LEMMA BodyType == ASSUME TypeOK PROVE Body \in Bodies /\ Body # None
<1>1. FirstChoice \in {"auto", "required"} /\ Envelope \in BOOLEAN BY RequestsAssumption
<1>2. Body \in Bodies BY <1>1 DEF TypeOK, Body, Bodies
<1> QED BY <1>2, NoBodyAssumption

LEMMA DispatchRows ==
  ASSUME TypeOK, FlightInv, Dispatch
  PROVE  Changed(rows, rows', Body, {Body})
<1> DEFINE n == Len(rows)
           old == rows[n]
           new == [old EXCEPT !.receipt = Body]
<1>1. /\ rows \in Seq(Requests) /\ n \in 1 .. Len(rows) /\ old \in Requests
      /\ old.receipt = None /\ rows' = [rows EXCEPT ![n] = new]
  <2>1. sending = "build" /\ phase # "verification" /\ rows \in Seq(Requests)
    BY DEF Dispatch, TypeOK, FlightInv
  <2>2. Len(rows) > 0 /\ old.receipt = None BY <2>1 DEF FlightInv, InFlight
  <2> QED BY <2>1, <2>2 DEF Dispatch, Current
<1>2. Body \in Bodies /\ Body # None BY BodyType
<1>3. new \in Requests /\ new.role = old.role /\ new.asked = old.asked /\ new.receipt = Body
      /\ new.refused = old.refused
  BY <1>1, <1>2 DEF Requests
<1>4. Len(old.refused) \in Nat BY <1>1, RowFields
<1>5. BodySet(new) = BodySet(old) \cup {Body} BY <1>1, <1>2, <1>3 DEF BodySet
<1>6. BodyCount(new) = BodyCount(old) + 1
  BY <1>1, <1>2, <1>3, <1>4 DEF BodyCount
<1>7. new.refused = <<>> => old.refused = <<>> BY <1>3
<1> HIDE DEF new, old
<1>8. /\ rows' \in Seq(Requests) /\ Len(rows') = Len(rows) /\ rows'[n] = new
      /\ \A i \in 1 .. Len(rows) : i # n => rows'[i] = rows[i]
  BY <1>1, <1>3
<1>9. {Body} # {} /\ Len(rows) > 0 BY <1>1
<1> QED BY <1>3, <1>5, <1>6, <1>7, <1>8, <1>9 DEF Changed, old

LEMMA RetireRows ==
  ASSUME TypeOK, FlightInv, sending = "sent", phase # "verification",
         NEW why \in {"choice", "format", "route"}, Retire(why)
  PROVE  Changed(rows, rows', None, {})
<1> DEFINE n == Len(rows)
           old == rows[n]
           refusal == [body |-> old.receipt, why |-> why]
           new == [old EXCEPT !.refused = Append(@, refusal), !.receipt = None]
<1>1. /\ rows \in Seq(Requests) /\ n \in 1 .. Len(rows) /\ old \in Requests
      /\ old.receipt \in Bodies /\ old.receipt # None /\ rows' = [rows EXCEPT ![n] = new]
  <2>1. rows \in Seq(Requests) BY DEF TypeOK
  <2>2. Len(rows) > 0 /\ old.receipt # None BY DEF FlightInv, InFlight
  <2>3. old \in Requests /\ n \in 1 .. Len(rows) BY <2>1, <2>2
  <2>4. old.receipt \in Bodies BY <2>2, <2>3, RowFields
  <2> QED BY <2>1, <2>2, <2>3, <2>4 DEF Retire, Current, Sent
<1>2. refusal \in Refusals /\ refusal.body = old.receipt BY <1>1 DEF Refusals
<1>3. old.refused \in Seq(Refusals) BY <1>1, RowFields
<1>4. PICK m \in Nat : m = Len(old.refused) BY <1>3
<1>5. /\ Append(old.refused, refusal) \in Seq(Refusals)
      /\ Len(Append(old.refused, refusal)) = m + 1
      /\ Append(old.refused, refusal)[m + 1] = refusal
      /\ \A k \in 1 .. m : Append(old.refused, refusal)[k] = old.refused[k]
  <2> HIDE DEF refusal, old
  <2> QED BY <1>2, <1>3, <1>4
<1>6. /\ new \in Requests /\ new.role = old.role /\ new.asked = old.asked
      /\ new.receipt = None /\ new.refused = Append(old.refused, refusal)
  <2> HIDE DEF refusal
  <2> QED BY <1>1, <1>5 DEF Requests, Refusals
<1> HIDE DEF new, refusal
<1>7. BodySet(new) = BodySet(old)
  <2>1. \A k \in 1 .. m + 1 : k \in 1 .. m \/ k = m + 1 BY <1>4
  <2>2. \A k \in 1 .. m : k \in 1 .. m + 1 BY <1>4
  <2>3. m + 1 \in 1 .. m + 1 BY <1>4
  <2>4. BodySet(new) = {new.refused[k].body : k \in 1 .. m + 1} BY <1>5, <1>6 DEF BodySet
  <2>5. BodySet(old) = {old.refused[k].body : k \in 1 .. m} \cup {old.receipt}
    BY <1>1, <1>4 DEF BodySet
  <2>6. /\ \A k \in 1 .. m : new.refused[k].body = old.refused[k].body
        /\ new.refused[m + 1].body = old.receipt
    BY <1>2, <1>5, <1>6
  <2> HIDE DEF old
  <2> QED BY <2>1, <2>2, <2>3, <2>4, <2>5, <2>6
<1>8. BodyCount(new) = BodyCount(old) + 0 BY <1>1, <1>4, <1>5, <1>6 DEF BodyCount
<1>9. new.refused # <<>> BY <1>4, <1>5, <1>6
<1> HIDE DEF old
<1>10. /\ rows' \in Seq(Requests) /\ Len(rows') = Len(rows) /\ rows'[n] = new
       /\ \A i \in 1 .. Len(rows) : i # n => rows'[i] = rows[i]
  BY <1>1, <1>6
<1>11. Len(rows) > 0 BY <1>1
<1> QED BY <1>6, <1>7, <1>8, <1>9, <1>10, <1>11 DEF Changed, old

-----------------------------------------------------------------------------
(* Types and the request in flight. *)

Issues  == Investigate \/ ConcludeAfresh \/ ConcludeOn
Resends == RefuseChoice \/ RefuseFormat \/ SwapRoute
Quiet   == \/ Tick \/ DenyRequest \/ Answer \/ Fail
           \/ EndPhase \/ Verify \/ VerifierReplies
           \/ UNCHANGED vars

LEMMA Steps == [Next]_vars => Issues \/ Dispatch \/ Resends \/ Quiet
BY DEF Next, Issues, Resends, Quiet, Done

LEMMA IssueRows ==
  ASSUME TypeOK, Issues
  PROVE  \E compel \in BOOLEAN : Open(compel) /\ Opened(rows, rows', phase, Asked(compel))
                                 /\ (named' = IF phase = "investigation" THEN compel ELSE named)
<1>1. CASE Investigate
  <2>1. PICK compel \in BOOLEAN : Open(compel) /\ named' = compel BY <1>1 DEF Investigate
  <2>2. phase = "investigation" BY <1>1 DEF Investigate
  <2> QED BY <2>1, <2>2, OpenRows DEF GraphRoles
<1>2. CASE ConcludeAfresh
  BY <1>2, OpenRows DEF ConcludeAfresh, GraphRoles
<1>3. CASE ConcludeOn
  BY <1>3, OpenRows DEF ConcludeOn, GraphRoles
<1> QED BY <1>1, <1>2, <1>3 DEF Issues

LEMMA ResendRows ==
  ASSUME TypeOK, FlightInv, Resends
  PROVE  /\ Changed(rows, rows', None, {})
         /\ sending = "sent" /\ sending' = "build" /\ phase # "verification"
         /\ phase' = phase /\ Record("error") /\ UNCHANGED <<clock, dispatched, denials, rounds, turn>>
<1>1. CASE RefuseChoice
  BY <1>1, RetireRows DEF RefuseChoice, Resend, budgetVars, runVars
<1>2. CASE RefuseFormat
  BY <1>2, RetireRows DEF RefuseFormat, Resend, budgetVars, runVars
<1>3. CASE SwapRoute
  BY <1>3, RetireRows DEF SwapRoute, Resend, budgetVars, runVars
<1> QED BY <1>1, <1>2, <1>3 DEF Resends

LEMMA BudgetType ==
  ASSUME TypeOK, NEW role \in Roles
  PROVE  /\ Dispatches \in Nat
         /\ Grant(role) => /\ dispatched' = [dispatched EXCEPT ![role] = @ + 1]
                           /\ dispatched' \in [Roles -> Nat] /\ denials' = denials
         /\ Deny(role) => denials' \subseteq (Roles \X Reasons) /\ dispatched' = dispatched
<1>1. dispatched \in [Roles -> Nat] /\ denials \subseteq (Roles \X Reasons) BY DEF TypeOK
<1>2. Denial(role) # None => Denial(role) \in Reasons BY DEF Denial, Reasons
<1> QED BY <1>1, <1>2 DEF Dispatches, Roles, Grant, Deny

LEMMA RecordType ==
  ASSUME TypeOK, NEW status \in {"success", "error"}, Record(status)
  PROVE  /\ chain' \in [{"success", "error"} -> Nat]
         /\ chain'["success"] + chain'["error"] = chain["success"] + chain["error"] + 1
<1>1. chain \in [{"success", "error"} -> Nat] BY DEF TypeOK
<1>2. chain' = [chain EXCEPT ![status] = @ + 1] BY DEF Record
<1> QED BY <1>1, <1>2

LEMMA FlagTypes ==
  ASSUME TypeOK, [Next]_vars
  PROVE  accepts' \in BOOLEAN /\ named' \in BOOLEAN /\ refusesFormat' \in BOOLEAN
<1>1. accepts \in BOOLEAN /\ named \in BOOLEAN /\ refusesFormat \in BOOLEAN BY DEF TypeOK
<1>2. accepts' \in {accepts, FALSE}
  BY DEF Next, Tick, Investigate, ConcludeAfresh, ConcludeOn, Open, Dispatch, DenyRequest, Answer,
     RefuseChoice, RefuseFormat, SwapRoute, Fail, EndPhase, Verify, VerifierReplies, Done, vars,
     transportVars
<1>3. refusesFormat' \in {refusesFormat, TRUE, FALSE}
  BY DEF Next, Tick, Investigate, ConcludeAfresh, ConcludeOn, Open, Dispatch, DenyRequest, Answer,
     RefuseChoice, RefuseFormat, SwapRoute, Fail, EndPhase, Verify, VerifierReplies, Done, vars,
     transportVars, DropFormat
<1>4. named' = named \/ named' \in BOOLEAN
  BY DEF Next, Tick, Investigate, ConcludeAfresh, ConcludeOn, Open, Dispatch, DenyRequest, Answer,
     RefuseChoice, RefuseFormat, SwapRoute, Fail, EndPhase, Verify, VerifierReplies, Done, vars,
     transportVars, Leave, ArmAgain
<1> QED BY <1>1, <1>2, <1>3, <1>4

\* What the transport's counters, the run and the clock may hold.
CounterTypes ==
  /\ clock \in {"open", "reserve", "over"}
  /\ phase \in Roles \cup {"over"}
  /\ rounds \in 0 .. 2 /\ turn \in 0 .. MaxTurns
  /\ sending \in {"idle", "build", "sent"}
  /\ position \in Nat /\ resends \in 0 .. MaxResends

LEMMA CounterStep ==
  ASSUME TypeOK, [Next]_vars
  PROVE  CounterTypes'
<1>1. CounterTypes BY DEF TypeOK, CounterTypes
<1>2. MaxTurns \in Nat /\ MaxTurns > 0 /\ MaxResends \in Nat BY RequestsAssumption
<1>3. CASE Issues
  <2>1. /\ sending' = "build" /\ resends' = 0 /\ UNCHANGED <<clock, position, phase>>
        /\ rounds' \in {rounds, rounds + 1} /\ turn' \in {turn, 1, turn + 1}
        /\ rounds' # rounds => rounds < 2
        /\ turn' # turn => turn' = 1 \/ turn \in 1 .. MaxTurns - 1
    BY <1>3 DEF Issues, Investigate, ConcludeAfresh, ConcludeOn, Open, runVars
  <2> QED BY <1>1, <1>2, <2>1 DEF CounterTypes
<1>4. CASE Dispatch BY <1>1, <1>4 DEF CounterTypes, Dispatch, runVars
<1>5. CASE Resends
  BY <1>1, <1>2, <1>5 DEF CounterTypes, Resends, RefuseChoice, RefuseFormat, SwapRoute, Resend,
     RewindTo, runVars
<1>6. CASE Quiet
  BY <1>1, <1>2, <1>6 DEF CounterTypes, Quiet, Tick, DenyRequest, Answer, Fail, EndPhase, Verify,
     VerifierReplies, Leave, vars, Roles, runVars, transportVars
<1> QED BY <1>3, <1>4, <1>5, <1>6, Steps

LEMMA TypeStep ==
  ASSUME TypeOK, FlightInv, [Next]_vars
  PROVE  TypeOK'
<1> SUFFICES /\ dispatched' \in [Roles -> Nat] /\ denials' \subseteq (Roles \X Reasons)
             /\ rows' \in Seq(Requests) /\ chain' \in [{"success", "error"} -> Nat]
  BY FlagTypes, CounterStep DEF TypeOK, CounterTypes
<1>0. /\ dispatched \in [Roles -> Nat] /\ denials \subseteq (Roles \X Reasons)
      /\ rows \in Seq(Requests) /\ chain \in [{"success", "error"} -> Nat]
  BY DEF TypeOK
<1>1. CASE Issues
  <2>1. rows' \in Seq(Requests) /\ UNCHANGED <<budgetVars, chain>>
    BY <1>1, IssueRows DEF Opened, Open
  <2> QED BY <1>0, <2>1 DEF budgetVars
<1>2. CASE Dispatch
  <2>1. rows' \in Seq(Requests) BY <1>2, DispatchRows DEF Changed
  <2>2. phase \in Roles
    BY <1>2 DEF Dispatch, FlightInv, InFlight, GraphRoles, Roles
  <2>3. dispatched' \in [Roles -> Nat] /\ denials' = denials BY <1>2, <2>2, BudgetType DEF Dispatch
  <2> QED BY <1>0, <1>2, <2>1, <2>3 DEF Dispatch
<1>3. CASE Resends
  <2>1. /\ rows' \in Seq(Requests) /\ Record("error") /\ UNCHANGED <<dispatched, denials>>
    BY <1>3, ResendRows DEF Changed
  <2> QED BY <1>0, <2>1, RecordType
<1>4. CASE Quiet
  <2>1. CASE Tick \/ EndPhase \/ VerifierReplies \/ UNCHANGED vars
    BY <1>0, <2>1 DEF Tick, EndPhase, VerifierReplies, vars, budgetVars, recordVars
  <2>2. CASE DenyRequest
    <3>1. phase \in Roles
      BY <2>2 DEF DenyRequest, FlightInv, InFlight, GraphRoles, Roles
    <3>2. denials' \subseteq (Roles \X Reasons) /\ dispatched' = dispatched
      BY <2>2, <3>1, BudgetType DEF DenyRequest
    <3> QED BY <1>0, <2>2, <3>2 DEF DenyRequest, recordVars
  <2>3. CASE Answer BY <1>0, <2>3, RecordType DEF Answer, budgetVars
  <2>4. CASE Fail BY <1>0, <2>4, RecordType DEF Fail, budgetVars
  <2>5. CASE Verify
    <3>1. dispatched' \in [Roles -> Nat] /\ denials' \subseteq (Roles \X Reasons)
      BY <1>0, <2>5, BudgetType DEF Verify, Roles
    <3> QED BY <1>0, <2>5, <3>1 DEF Verify, recordVars
  <2> QED BY <1>4, <2>1, <2>2, <2>3, <2>4, <2>5 DEF Quiet
<1> QED BY <1>1, <1>2, <1>3, <1>4, Steps

LEMMA FlightStep ==
  ASSUME TypeOK, FlightInv, [Next]_vars
  PROVE  FlightInv'
<1>1. CASE Issues
  <2>1. PICK compel \in BOOLEAN : Open(compel) /\ Opened(rows, rows', phase, Asked(compel))
    BY <1>1, IssueRows
  <2>2. phase \in GraphRoles /\ phase' = phase /\ sending' = "build"
    BY <1>1, <2>1 DEF Issues, Investigate, ConcludeAfresh, ConcludeOn, runVars, Open, GraphRoles
  <2>3. rows \in Seq(Requests) BY DEF TypeOK
  <2>4. /\ Len(rows') > 0 /\ rows'[Len(rows')].role = phase /\ rows'[Len(rows')].receipt = None
        /\ rows'[Len(rows')].asked = Asked(compel)
    BY <2>1, <2>3 DEF Opened
  <2>5. ASSUME NEW i \in 1 .. Len(rows'),
               phase = "investigation" \/ rows'[i].asked # "any"
        PROVE  rows'[i].role = "investigation"
    <3>1. CASE i \in 1 .. Len(rows) BY <2>1, <2>5, <3>1 DEF Opened, FlightInv
    <3>2. CASE i = Len(rows') BY <2>2, <2>4, <2>5, <3>2 DEF Asked, GraphRoles
    <3> QED BY <2>1, <2>3, <3>1, <3>2 DEF Opened
  <2> QED BY <2>2, <2>4, <2>5 DEF FlightInv, InFlight, GraphRoles
<1>2. ASSUME NEW receipt, NEW more, Changed(rows, rows', receipt, more)
      PROVE  /\ rows'[Len(rows')].role = rows[Len(rows)].role
             /\ rows'[Len(rows')].receipt = receipt /\ Len(rows') = Len(rows)
             /\ \A i \in 1 .. Len(rows') :
                  rows'[i].role = rows[i].role /\ rows'[i].asked = rows[i].asked
  BY <1>2 DEF Changed
<1>3. CASE Dispatch
  <2>1. Changed(rows, rows', Body, {Body}) /\ Body # None BY <1>3, DispatchRows, BodyType
  <2>2. sending = "build" /\ sending' = "sent" /\ phase' = phase BY <1>3 DEF Dispatch, runVars
  <2> QED BY <1>2, <2>1, <2>2 DEF FlightInv, InFlight
<1>4. CASE Resends
  <2>1. /\ Changed(rows, rows', None, {}) /\ sending = "sent" /\ sending' = "build"
        /\ phase # "verification" /\ phase' = phase
    BY <1>4, ResendRows
  <2> QED BY <1>2, <2>1 DEF FlightInv, InFlight
<1>5. CASE Quiet
  <2>1. CASE sending' = sending /\ phase' = phase /\ rows' = rows
    BY <2>1 DEF FlightInv, InFlight
  <2>2. CASE DenyRequest \/ Answer
    BY <2>2 DEF DenyRequest, Answer, Leave, recordVars, FlightInv, InFlight
  <2>3. CASE Fail
    BY <2>3 DEF Fail, Leave, FlightInv, InFlight
  <2>4. CASE EndPhase
    BY <2>4 DEF EndPhase, recordVars, FlightInv, InFlight, GraphRoles
  <2>5. CASE Verify \/ VerifierReplies
    BY <2>5 DEF Verify, VerifierReplies, recordVars, FlightInv, InFlight
  <2> QED BY <1>5, <2>1, <2>2, <2>3, <2>4, <2>5 DEF Quiet, Tick, vars, runVars, recordVars
<1> QED BY <1>1, <1>3, <1>4, <1>5, Steps

-----------------------------------------------------------------------------
(* What the runtime compels. *)

LastRow == rows[Len(rows)]

LEMMA LastRowAsked ==
  ASSUME TypeOK, FlightInv, InFlight
  PROVE  /\ Len(rows) \in 1 .. Len(rows) /\ LastRow \in Requests /\ LastRow.role = phase
         /\ phase = "forced_final" => LastRow.asked = "any"
<1>1. rows \in Seq(Requests) /\ Len(rows) > 0 BY DEF TypeOK, FlightInv
<1>2. Len(rows) \in 1 .. Len(rows) /\ LastRow \in Requests BY <1>1 DEF LastRow
<1> QED BY <1>2 DEF FlightInv, LastRow

\* The body built now expresses what its request asked for, and no more.
LEMMA BodyFaithful ==
  ASSUME TypeOK, FlightInv, ArmedInv, InFlight, sending = "build"
  PROVE  /\ Names(Body) <=> LastRow.asked = "named"
         /\ (LastRow.asked = "required" /\ accepts) => Body.choice = "required"
<1>1. CASE phase = "forced_final"
  BY <1>1, LastRowAsked DEF Names, Body
<1>2. CASE phase = "investigation"
  <2>1. /\ named <=> LastRow.asked = "named"
        /\ LastRow.asked = "required" => FirstChoice = "required"
        /\ (LastRow.asked = "required" /\ accepts) => position = 0
    BY <1>2 DEF ArmedInv, LastRow
  <2>2. FirstChoice \in {"auto", "required"} BY RequestsAssumption
  <2>3. CASE named
    <3>1. Body = [choice |-> IF accepts THEN "named" ELSE "auto",
                  palette |-> IF accepts THEN "all" ELSE "one", format |-> FALSE]
      BY <1>2, <2>3 DEF Body
    <3>2. Names(Body) BY <3>1 DEF Names
    <3> QED BY <2>1, <2>3, <3>2
  <2>4. CASE ~named
    <3>1. Body = [choice |-> IF position = 0 /\ accepts THEN FirstChoice ELSE "auto",
                  palette |-> "all", format |-> FALSE]
      BY <1>2, <2>4 DEF Body
    <3>2. ~Names(Body) BY <2>2, <3>1 DEF Names
    <3> QED BY <2>1, <2>4, <3>1, <3>2
  <2> QED BY <2>3, <2>4
<1> QED BY <1>1, <1>2 DEF FlightInv, GraphRoles

LEMMA FaithfulStep ==
  ASSUME TypeOK, FlightInv, ArmedInv, FaithfulInv, [Next]_vars
  PROVE  FaithfulInv'
<1>1. rows \in Seq(Requests) BY DEF TypeOK
<1>2. CASE Issues
  <2>1. PICK asked : Opened(rows, rows', phase, asked) /\ accepts' = accepts
    BY <1>2, IssueRows DEF Open
  <2>2. \A i \in 1 .. Len(rows') : i \in 1 .. Len(rows) \/ i = Len(rows') BY <1>1, <2>1 DEF Opened
  <2> QED BY <2>1, <2>2 DEF FaithfulInv, Faithful, Opened
<1>3. CASE Dispatch
  <2>1. Changed(rows, rows', Body, {Body}) /\ accepts' = accepts BY <1>3, DispatchRows DEF Dispatch
  <2>2. InFlight /\ sending = "build" BY <1>3 DEF Dispatch, InFlight, FlightInv
  <2>3. Faithful(LastRow, accepts) BY <2>2, LastRowAsked DEF FaithfulInv, LastRow
  <2>4. Faithful(rows'[Len(rows)], accepts) BY <2>1, <2>2, <2>3, BodyFaithful DEF Faithful, Changed, LastRow
  <2> QED BY <2>1, <2>4 DEF FaithfulInv, Changed
<1>4. CASE Resends
  <2>0. accepts' = accepts \/ accepts' = FALSE
    BY <1>4 DEF Resends, RefuseChoice, RefuseFormat, SwapRoute
  <2>1. Changed(rows, rows', None, {}) /\ (accepts' => accepts) BY <1>4, <2>0, ResendRows
  <2>2. Len(rows) \in 1 .. Len(rows) BY <1>1, <2>1 DEF Changed
  <2>3. Faithful(rows'[Len(rows)], accepts') BY <2>1, <2>2 DEF Faithful, FaithfulInv, Changed
  <2>4. \A i \in 1 .. Len(rows) : Faithful(rows[i], accepts') BY <2>1 DEF Faithful, FaithfulInv
  <2> QED BY <2>1, <2>3, <2>4 DEF FaithfulInv, Changed
<1>5. CASE Quiet
  <2>1. rows' = rows /\ accepts' = accepts
    BY <1>5 DEF Quiet, Tick, DenyRequest, Answer, Fail, EndPhase, Verify, VerifierReplies, vars,
       recordVars, transportVars
  <2> QED BY <2>1 DEF FaithfulInv
<1> QED BY <1>2, <1>3, <1>4, <1>5, Steps

LEMMA ArmedStep ==
  ASSUME TypeOK, FlightInv, ArmedInv, FaithfulInv, [Next]_vars
  PROVE  ArmedInv'
<1>1. rows \in Seq(Requests) /\ position \in Nat BY DEF TypeOK
<1>2. CASE Issues
  <2>1. PICK compel \in BOOLEAN :
          /\ Open(compel) /\ Opened(rows, rows', phase, Asked(compel))
          /\ named' = IF phase = "investigation" THEN compel ELSE named
    BY <1>2, IssueRows
  <2>2. /\ sending = "idle" /\ sending' = "build" /\ phase' = phase
        /\ UNCHANGED <<accepts, position>>
    BY <1>2, <2>1 DEF Issues, Investigate, ConcludeAfresh, ConcludeOn, Open, runVars
  <2>3. ~named BY <2>2 DEF ArmedInv
  <2>4. rows'[Len(rows')].asked = Asked(compel) BY <2>1 DEF Opened
  <2>5. CASE phase = "investigation"
    <3>1. Asked(compel) = "named" <=> compel BY <2>1, <2>5 DEF Asked
    <3>2. Asked(compel) = "required" => FirstChoice = "required" /\ position = 0
      BY <2>5 DEF Asked
    <3> QED BY <2>1, <2>2, <2>4, <2>5, <3>1, <3>2 DEF ArmedInv, InFlight
  <2>6. CASE phase # "investigation" BY <2>1, <2>2, <2>3, <2>6 DEF ArmedInv, InFlight
  <2> QED BY <2>5, <2>6
<1>3. CASE Dispatch
  <2>1. Changed(rows, rows', Body, {Body}) /\ InFlight
    BY <1>3, DispatchRows DEF Dispatch, InFlight, FlightInv
  <2>2. rows'[Len(rows')].asked = LastRow.asked BY <2>1 DEF Changed, LastRow
  <2>3. sending = "build" /\ sending' = "sent" /\ phase' = phase /\ accepts' = accepts
    BY <1>3 DEF Dispatch, runVars
  <2>4. CASE phase = "investigation"
    <3>1. named' = FALSE /\ position' = position + 1 BY <1>3, <2>4 DEF Dispatch
    <3>2. /\ LastRow.asked = "required" => FirstChoice = "required"
          /\ (LastRow.asked = "required" /\ accepts) => position = 0
      BY <2>1, <2>3, <2>4 DEF ArmedInv, LastRow
    <3> QED BY <2>2, <2>3, <3>1, <3>2 DEF ArmedInv
  <2>5. CASE phase # "investigation"
    <3>1. ~named /\ named' = named BY <1>3, <2>5 DEF Dispatch, ArmedInv
    <3> QED BY <2>3, <2>5, <3>1 DEF ArmedInv
  <2> QED BY <2>4, <2>5
<1>4. CASE Resends
  <2>1. /\ Changed(rows, rows', None, {}) /\ InFlight /\ sending = "sent" /\ sending' = "build"
        /\ phase' = phase
    BY <1>4, ResendRows DEF InFlight
  <2>2. rows'[Len(rows')].asked = LastRow.asked BY <2>1 DEF Changed, LastRow
  <2>3. ArmAgain <=> LastRow.asked = "named"
    <3>1. Faithful(LastRow, accepts) BY <2>1, LastRowAsked DEF FaithfulInv, LastRow
    <3>2. LastRow.receipt \in BodySet(LastRow) BY <2>1 DEF FlightInv, BodySet, LastRow
    <3>3. Names(LastRow.receipt) <=> LastRow.asked = "named" BY <3>1, <3>2 DEF Faithful
    <3> QED BY <3>3 DEF ArmAgain, Names, Sent, Current, LastRow
  <2>4. phase = "investigation" =>
          /\ LastRow.asked = "required" => FirstChoice = "required"
          /\ (LastRow.asked = "required" /\ accepts) => position = 1
    BY <2>1 DEF ArmedInv, LastRow
  <2>5. phase # "investigation" => LastRow.asked = "any"
    BY <2>1, LastRowAsked DEF FlightInv, GraphRoles
  <2>6. ~named BY <2>1 DEF ArmedInv
  <2>7. CASE RefuseChoice
    <3>1. ~accepts' /\ named' = ArmAgain BY <2>7 DEF RefuseChoice
    <3> QED BY <2>1, <2>2, <2>3, <2>4, <2>5, <3>1 DEF ArmedInv
  <2>8. CASE RefuseFormat
    <3>1. named' = named /\ phase = "forced_final" BY <2>8 DEF RefuseFormat
    <3> QED BY <2>1, <2>6, <3>1 DEF ArmedInv
  <2>9. CASE SwapRoute
    <3>1. /\ named' = ArmAgain /\ accepts' = accepts
          /\ phase = "investigation" => position' = RewindTo
      BY <2>9 DEF SwapRoute
    <3>2. position = 1 => RewindTo = 0 BY DEF RewindTo
    <3> QED BY <2>1, <2>2, <2>3, <2>4, <2>5, <3>1, <3>2 DEF ArmedInv
  <2> QED BY <1>4, <2>7, <2>8, <2>9 DEF Resends
<1>5. CASE Quiet
  <2>1. rows' = rows /\ accepts' = accepts /\ position' = position
    BY <1>5 DEF Quiet, Tick, DenyRequest, Answer, Fail, EndPhase, Verify, VerifierReplies, vars,
       recordVars, transportVars
  <2>2. CASE Tick \/ UNCHANGED vars
    BY <2>1, <2>2 DEF Tick, vars, runVars, transportVars, ArmedInv, InFlight
  <2>3. CASE DenyRequest \/ Fail
    <3>1. sending' = "idle" /\ ~named' BY <2>3 DEF DenyRequest, Fail, Leave
    <3> QED BY <3>1 DEF ArmedInv, InFlight
  <2>4. CASE Answer \/ EndPhase \/ Verify \/ VerifierReplies
    <3>1. /\ named' = named /\ ~named
          /\ sending' = "idle" \/ phase' = "verification"
      BY <2>4 DEF Answer, EndPhase, Verify, VerifierReplies, transportVars, ArmedInv
    <3> QED BY <3>1 DEF ArmedInv, InFlight
  <2> QED BY <1>5, <2>2, <2>3, <2>4 DEF Quiet
<1> QED BY <1>2, <1>3, <1>4, <1>5, Steps

-----------------------------------------------------------------------------
(* Permits, receipts and the entries on the log. *)

LEMMA AttestedPairs ==
  \A role : Attested(role) = Pairs(rows, role) /\ Attested(role)' = Pairs(rows', role)
BY DEF Attested, Rows, Pairs

LEMMA PermitStep ==
  ASSUME TypeOK, FlightInv, PermitInv, [Next]_vars
  PROVE  PermitInv'
<1>1. rows \in Seq(Requests) /\ dispatched \in [Roles -> Nat] BY DEF TypeOK
<1>2. MaxModelRequests \in Nat /\ Recover \in BOOLEAN /\ Verifies \in BOOLEAN /\ Reserve \in Nat
  BY RequestsAssumption DEF Reserve
<1>3. ASSUME UNCHANGED <<dispatched, rounds, phase>>,
             \A role \in GraphRoles : Pairs(rows', role) = Pairs(rows, role)
      PROVE  PermitInv'
  BY <1>3, AttestedPairs DEF PermitInv
<1>4. CASE Issues
  <2>1. PICK asked : Opened(rows, rows', phase, asked) BY <1>4, IssueRows
  <2>2. /\ rows' \in Seq(Requests) /\ Len(rows) <= Len(rows')
        /\ \A i \in 1 .. Len(rows) : rows'[i] = rows[i]
        /\ \A i \in 1 .. Len(rows') : i > Len(rows) => BodyCount(rows'[i]) = 0
    BY <1>1, <2>1 DEF Opened
  <2>3. \A role \in GraphRoles : Pairs(rows', role) = Pairs(rows, role) BY <1>1, <2>2, PairsSame
  <2>4. dispatched' = dispatched /\ phase' = phase /\ phase # "verification"
    BY <1>4 DEF Issues, Investigate, ConcludeAfresh, ConcludeOn, Open, budgetVars, runVars
  <2> QED BY <2>3, <2>4, AttestedPairs DEF PermitInv
<1>5. CASE Dispatch
  <2> DEFINE n == Len(rows)
  <2>1. Changed(rows, rows', Body, {Body}) /\ {Body} # {} BY <1>5, DispatchRows
  <2>2. phase \in GraphRoles /\ rows[n].role = phase BY <1>5 DEF Dispatch, FlightInv, InFlight
  <2>3. /\ rows' \in Seq(Requests) /\ Len(rows') = Len(rows) /\ n \in 1 .. Len(rows)
        /\ \A i \in 1 .. Len(rows) : rows'[i].role = rows[i].role /\ (i # n => rows'[i] = rows[i])
        /\ BodyCount(rows'[n]) = BodyCount(rows[n]) + 1
    BY <1>1, <2>1 DEF Changed
  <2>4. ASSUME NEW role
        PROVE  /\ phase # role => Pairs(rows', role) = Pairs(rows, role)
               /\ phase = role => \E x : /\ Pairs(rows', role) = Pairs(rows, role) \cup {x}
                                         /\ x \notin Pairs(rows, role)
    <3>1. /\ rows[n].role # role => Pairs(rows', role) = Pairs(rows, role)
          /\ rows[n].role = role =>
               Pairs(rows', role) = Pairs(rows, role) \cup {<<n, BodyCount(rows'[n])>>}
          /\ <<n, BodyCount(rows'[n])>> \notin Pairs(rows, role)
      <4> HIDE DEF n
      <4> QED BY <1>1, <2>3, PairsMore
    <3> HIDE DEF n
    <3> QED BY <2>2, <3>1
  <2>5. /\ dispatched' = [dispatched EXCEPT ![phase] = @ + 1] /\ Denial(phase) = None
        /\ UNCHANGED <<phase, rounds>>
    BY <1>5 DEF Dispatch, Grant, runVars
  <2>6. ASSUME NEW role \in GraphRoles
        PROVE  IsFiniteSet(Attested(role)') /\ Cardinality(Attested(role)') = dispatched'[role]
    <3>1. IsFiniteSet(Pairs(rows, role)) /\ Cardinality(Pairs(rows, role)) = dispatched[role]
      BY AttestedPairs DEF PermitInv
    <3>2. CASE role # phase
      <4>1. Pairs(rows', role) = Pairs(rows, role) BY <2>4, <3>2
      <4> QED BY <1>1, <2>5, <3>1, <3>2, <4>1, AttestedPairs
    <3>3. CASE role = phase
      <4>1. PICK x : Pairs(rows', role) = Pairs(rows, role) \cup {x} /\ x \notin Pairs(rows, role)
        BY <2>4, <3>3
      <4>2. /\ IsFiniteSet(Pairs(rows', role))
            /\ Cardinality(Pairs(rows', role)) = Cardinality(Pairs(rows, role)) + 1
        BY <3>1, <4>1, FS_AddElement
      <4>3. dispatched'[role] = dispatched[role] + 1
        BY <1>1, <2>2, <2>5, <3>3 DEF Roles, GraphRoles
      <4> QED BY <3>1, <4>2, <4>3, AttestedPairs
    <3> QED BY <3>2, <3>3
  <2>7. /\ dispatched'["investigation"] <= MaxModelRequests - Reserve
        /\ dispatched'["verification"] = dispatched["verification"]
        /\ ~Recover => dispatched'["forced_final"] = 0
    <3>1. CASE phase = "investigation"
      <4>1. Dispatches < MaxModelRequests - Reserve
        BY <1>1, <1>2, <2>5, <3>1, NoBodyAssumption DEF Denial, Reasons, Dispatches, Roles
      <4> QED BY <1>1, <1>2, <2>5, <3>1, <4>1 DEF Dispatches, Roles, PermitInv
    <3>2. CASE phase = "forced_final" BY <1>1, <2>5, <3>2 DEF Roles, PermitInv
    <3> QED BY <2>2, <3>1, <3>2 DEF GraphRoles
  <2> QED BY <2>5, <2>6, <2>7 DEF PermitInv
<1>6. CASE Resends
  <2>1. /\ Changed(rows, rows', None, {}) /\ phase' = phase
        /\ dispatched' = dispatched /\ rounds' = rounds
    BY <1>6, ResendRows
  <2>2. \A i \in 1 .. Len(rows) : BodyCount(rows[i]) \in Nat BY <1>1, RowFields
  <2>3. /\ rows' \in Seq(Requests) /\ Len(rows') = Len(rows)
        /\ \A i \in 1 .. Len(rows) :
             rows'[i].role = rows[i].role /\ BodyCount(rows'[i]) = BodyCount(rows[i])
    BY <1>1, <2>1, <2>2 DEF Changed
  <2>4. \A role \in GraphRoles : Pairs(rows', role) = Pairs(rows, role) BY <1>1, <2>3, PairsSame
  <2> QED BY <1>3, <2>1, <2>4
<1>7. CASE Quiet
  <2>1. rows' = rows
    BY <1>7 DEF Quiet, Tick, DenyRequest, Answer, Fail, EndPhase, Verify, VerifierReplies, vars,
       recordVars
  <2>2. CASE Tick \/ DenyRequest \/ Answer \/ UNCHANGED vars
    <3>1. UNCHANGED <<dispatched, rounds, phase>>
      BY <2>2 DEF Tick, DenyRequest, Deny, Answer, vars, budgetVars, runVars
    <3> QED BY <1>3, <2>1, <3>1
  <2>3. CASE Fail \/ EndPhase
    <3>1. /\ dispatched' = dispatched
          /\ \/ phase' = phase /\ (rounds' = rounds \/ phase = "over")
             \/ phase' = "over"
             \/ phase = "investigation" /\ phase' = "forced_final" /\ Recover
             \/ phase \in GraphRoles /\ phase' = "verification" /\ Verifies /\ rounds' = 0
      BY <2>3 DEF Fail, EndPhase, budgetVars, GraphRoles
    <3> QED BY <2>1, <3>1, AttestedPairs DEF PermitInv, GraphRoles
  <2>4. CASE VerifierReplies
    <3>1. dispatched' = dispatched /\ phase' = phase /\ rounds' \in {rounds, 2}
      BY <2>4 DEF VerifierReplies, budgetVars
    <3> QED BY <2>1, <3>1, AttestedPairs DEF PermitInv
  <2>5. CASE Verify
    <3>1. phase = "verification" /\ phase' = phase /\ rounds \in 0 .. 1
      BY <2>5 DEF Verify, TypeOK
    <3>2. CASE Grant("verification") /\ sending' = "sent"
      <4>1. dispatched' = [dispatched EXCEPT !["verification"] = @ + 1] /\ rounds' = rounds + 1
        BY <2>5, <3>2 DEF Verify, Grant
      <4> QED BY <1>1, <2>1, <3>1, <4>1, AttestedPairs DEF PermitInv, Roles, GraphRoles
    <3>3. CASE Deny("verification") /\ UNCHANGED sending
      <4>1. dispatched' = dispatched /\ rounds' = 2 BY <2>5, <3>3 DEF Verify, Deny
      <4> QED BY <2>1, <3>1, <4>1, AttestedPairs DEF PermitInv, GraphRoles
    <3> QED BY <2>5, <3>2, <3>3 DEF Verify
  <2> QED BY <1>7, <2>2, <2>3, <2>4, <2>5 DEF Quiet
<1> QED BY <1>4, <1>5, <1>6, <1>7, Steps

Waits(now, role) == IF now = "sent" /\ role # "verification" THEN 1 ELSE 0

LEMMA ChainStep ==
  ASSUME TypeOK, FlightInv, ChainInv, [Next]_vars
  PROVE  ChainInv'
<1> DEFINE heard == chain["success"] + chain["error"]
           granted == dispatched["investigation"] + dispatched["forced_final"]
<1>1. heard \in Nat /\ granted \in Nat /\ dispatched \in [Roles -> Nat] BY DEF TypeOK, Roles
<1>2. heard + Waits(sending, phase) = granted BY DEF ChainInv, Waits
<1>3. SUFFICES heard' + Waits(sending', phase') = granted' BY DEF ChainInv, Waits
<1>4. CASE Issues
  <2>1. chain' = chain /\ dispatched' = dispatched /\ sending = "idle" /\ sending' = "build"
    BY <1>4 DEF Issues, Investigate, ConcludeAfresh, ConcludeOn, Open, budgetVars
  <2> QED BY <1>2, <2>1 DEF Waits
<1>5. CASE Dispatch
  <2>1. /\ chain' = chain /\ sending = "build" /\ sending' = "sent" /\ phase' = phase
        /\ phase \in GraphRoles /\ dispatched' = [dispatched EXCEPT ![phase] = @ + 1]
    BY <1>5 DEF Dispatch, Grant, FlightInv, InFlight, runVars
  <2>2. granted' = granted + 1 BY <1>1, <2>1 DEF GraphRoles, Roles
  <2>3. heard' = heard /\ Waits(sending, phase) = 0 /\ Waits(sending', phase') = 1
    BY <2>1 DEF Waits, GraphRoles
  <2> HIDE DEF heard, granted
  <2> QED BY <1>1, <1>2, <2>2, <2>3
<1>6. ASSUME NEW status \in {"success", "error"}, Record(status), dispatched' = dispatched,
             sending = "sent", phase # "verification", sending' # "sent"
      PROVE  heard' + Waits(sending', phase') = granted'
  <2>1. heard' = heard + 1 /\ granted' = granted BY <1>6, RecordType
  <2>2. Waits(sending, phase) = 1 /\ Waits(sending', phase') = 0 BY <1>6 DEF Waits
  <2> HIDE DEF heard, granted
  <2> QED BY <1>1, <1>2, <2>1, <2>2
<1>7. CASE Resends BY <1>6, <1>7, ResendRows
<1>8. CASE Quiet
  <2>1. CASE Answer BY <1>6, <2>1 DEF Answer, budgetVars
  <2>2. CASE Fail BY <1>6, <2>2 DEF Fail, Leave, budgetVars
  <2>3. ASSUME chain' = chain, granted' = granted,
               Waits(sending', phase') = Waits(sending, phase)
        PROVE  heard' + Waits(sending', phase') = granted'
    BY <1>2, <2>3
  <2>4. CASE Tick \/ UNCHANGED vars
    BY <2>3, <2>4 DEF Tick, vars, budgetVars, runVars, recordVars
  <2>5. CASE DenyRequest
    BY <2>3, <2>5 DEF DenyRequest, Deny, Leave, recordVars, Waits
  <2>6. CASE EndPhase BY <2>3, <2>6 DEF EndPhase, budgetVars, recordVars, Waits
  <2>7. CASE Verify \/ VerifierReplies
    <3>1. chain' = chain /\ phase = "verification" /\ phase' = "verification"
      BY <2>7 DEF Verify, VerifierReplies, recordVars
    <3>2. granted' = granted
      BY <1>1, <2>7 DEF Verify, VerifierReplies, Grant, Deny, budgetVars, Roles
    <3> QED BY <2>3, <3>1, <3>2 DEF Waits
  <2> QED BY <1>8, <2>1, <2>2, <2>4, <2>5, <2>6, <2>7 DEF Quiet
<1> QED BY <1>4, <1>5, <1>7, <1>8, Steps

-----------------------------------------------------------------------------
(* The terminal share. *)

\* The conclusion went out as the share supposes: in at most two requests, once each.
OnceEach ==
  /\ Cardinality(Rows("forced_final")) <= 2
  /\ \A i \in Rows("forced_final") : rows[i].refused = <<>>

Denied == {<<"forced_final", "max_model_requests">>, <<"verification", "max_model_requests">>}

RowsOf(rs, role) == {i \in 1 .. Len(rs) : rs[i].role = role}

LEMMA RowsAre == \A role : Rows(role) = RowsOf(rows, role) /\ Rows(role)' = RowsOf(rows', role)
BY DEF Rows, RowsOf

LEMMA RowsFinite ==
  ASSUME NEW rs \in Seq(Requests), NEW rt \in Seq(Requests), NEW role, Len(rs) <= Len(rt),
         \A i \in 1 .. Len(rs) : rt[i].role = rs[i].role
  PROVE  /\ RowsOf(rs, role) \subseteq RowsOf(rt, role)
         /\ IsFiniteSet(RowsOf(rs, role)) /\ Cardinality(RowsOf(rs, role)) \in Nat
         /\ IsFiniteSet(RowsOf(rt, role)) /\ Cardinality(RowsOf(rt, role)) \in Nat
         /\ Cardinality(RowsOf(rs, role)) <= Cardinality(RowsOf(rt, role))
<1>0. 1 \in Int /\ Len(rt) \in Int OBVIOUS
<1>1. IsFiniteSet(1 .. Len(rt)) BY <1>0, FS_Interval
<1>2. RowsOf(rs, role) \subseteq RowsOf(rt, role) /\ RowsOf(rt, role) \subseteq 1 .. Len(rt)
  BY DEF RowsOf
<1>3. IsFiniteSet(RowsOf(rt, role)) /\ Cardinality(RowsOf(rt, role)) \in Nat
  BY <1>1, <1>2, FS_Subset, FS_CardinalityType
<1>4. /\ IsFiniteSet(RowsOf(rs, role)) /\ Cardinality(RowsOf(rs, role)) \in Nat
      /\ Cardinality(RowsOf(rs, role)) <= Cardinality(RowsOf(rt, role))
  BY <1>2, <1>3, FS_Subset, FS_CardinalityType
<1> QED BY <1>2, <1>3, <1>4

\* Then each of those requests has taken one permit, the one being built none yet.
LEMMA OnePermitEach ==
  ASSUME TypeOK, FlightInv, PermitInv, OnceEach
  PROVE  /\ dispatched["forced_final"] <= 2
         /\ (phase = "forced_final" /\ sending = "build") => dispatched["forced_final"] <= 1
<1> DEFINE concluding == Rows("forced_final")
           attested == Attested("forced_final")
           place == [p \in attested |-> p[1]]
<1>1. rows \in Seq(Requests) /\ dispatched["forced_final"] \in Nat BY DEF TypeOK, Roles
<1>2. IsFiniteSet(attested) /\ Cardinality(attested) = dispatched["forced_final"]
  BY DEF PermitInv, GraphRoles
<1>3. IsFiniteSet(concluding) /\ Cardinality(concluding) \in Nat /\ Cardinality(concluding) <= 2
  <2>1. concluding = RowsOf(rows, "forced_final") BY RowsAre
  <2>2. Cardinality(concluding) <= 2 BY DEF OnceEach
  <2> HIDE DEF concluding
  <2> QED BY <1>1, <2>1, <2>2, RowsFinite
<1>4. ASSUME NEW p \in attested
      PROVE  /\ p[1] \in concluding /\ p = <<p[1], 1>>
             /\ rows[p[1]].receipt # None
  <2>1. PICK i \in 1 .. Len(rows) : \E k \in 1 .. BodyCount(rows[i]) :
          rows[i].role = "forced_final" /\ p = <<i, k>>
    BY <1>1, <1>4, AttestedPairs, PairsMember
  <2>2. i \in concluding /\ rows[i].refused = <<>> BY <2>1 DEF Rows, OnceEach
  <2>3. BodyCount(rows[i]) = IF rows[i].receipt = None THEN 0 ELSE 1 BY <2>2 DEF BodyCount
  <2> QED BY <2>1, <2>2, <2>3
<1>5. ASSUME NEW T \in SUBSET concluding, \A p \in attested : p[1] \in T
      PROVE  dispatched["forced_final"] <= Cardinality(T)
  <2>1. place \in Injection(attested, T)
    <3>1. place \in [attested -> T] BY <1>5
    <3>2. \A p, q \in attested : place[p] = place[q] => p = q BY <1>4
    <3> HIDE DEF place, attested
    <3> QED BY <3>1, <3>2 DEF Injection, IsInjective
  <2>2. IsFiniteSet(T) BY <1>3, FS_Subset
  <2> HIDE DEF place, attested
  <2> QED BY <1>2, <2>1, <2>2, FS_Injection
<1>6. dispatched["forced_final"] <= 2
  <2>1. dispatched["forced_final"] <= Cardinality(concluding) BY <1>4, <1>5
  <2> HIDE DEF concluding
  <2> QED BY <1>1, <1>3, <2>1
<1>7. ASSUME phase = "forced_final", sending = "build"
      PROVE  dispatched["forced_final"] <= 1
  <2> DEFINE n == Len(rows)
  <2>1. InFlight BY <1>7 DEF InFlight
  <2>2. n \in concluding /\ rows[n].receipt = None
    BY <1>7, <2>1, LastRowAsked DEF FlightInv, Rows, LastRow
  <2>3. \A p \in attested : p[1] \in concluding \ {n} BY <1>4, <2>2
  <2>4. dispatched["forced_final"] <= Cardinality(concluding \ {n})
    <3> HIDE DEF concluding, attested
    <3> QED BY <1>5, <2>3
  <2>5. Cardinality(concluding \ {n}) = Cardinality(concluding) - 1
    <3> HIDE DEF concluding
    <3> QED BY <1>3, <2>2, FS_RemoveElement
  <2> HIDE DEF concluding
  <2> QED BY <1>1, <1>3, <2>4, <2>5
<1> QED BY <1>6, <1>7

\* So neither terminal role is ever at the ceiling of the run when it asks.
LEMMA ShareLeft ==
  ASSUME TypeOK, FlightInv, PermitInv, OnceEach
  PROVE  /\ (phase = "forced_final" /\ sending = "build") => Dispatches < MaxModelRequests
         /\ (phase = "verification" /\ rounds < 2) => Dispatches < MaxModelRequests
<1>1. /\ dispatched["investigation"] \in Nat /\ dispatched["forced_final"] \in Nat
      /\ dispatched["verification"] \in Nat /\ rounds \in Nat
  BY DEF TypeOK, Roles
<1>2. MaxModelRequests \in Nat /\ Recover \in BOOLEAN /\ Verifies \in BOOLEAN
  BY RequestsAssumption
<1>3. dispatched["investigation"] <= MaxModelRequests - Reserve BY DEF PermitInv
<1>4. ASSUME phase = "forced_final", sending = "build" PROVE Dispatches < MaxModelRequests
  <2>1. /\ dispatched["verification"] = 0 /\ dispatched["forced_final"] <= 1
        /\ Reserve \in {2, 4}
    BY <1>2, <1>4, OnePermitEach DEF PermitInv, GraphRoles, Reserve
  <2> QED BY <1>1, <1>2, <1>3, <2>1 DEF Dispatches
<1>5. ASSUME phase = "verification", rounds < 2 PROVE Dispatches < MaxModelRequests
  <2>1. dispatched["verification"] <= rounds /\ Verifies BY <1>5 DEF PermitInv
  <2>2. CASE Recover
    <3>1. dispatched["forced_final"] <= 2 /\ Reserve = 4
      BY <1>2, <2>1, <2>2, OnePermitEach DEF Reserve
    <3> QED BY <1>1, <1>2, <1>3, <1>5, <2>1, <3>1 DEF Dispatches
  <2>3. CASE ~Recover
    <3>1. dispatched["forced_final"] = 0 /\ Reserve = 2
      BY <1>2, <2>1, <2>3 DEF PermitInv, Reserve
    <3> QED BY <1>1, <1>2, <1>3, <1>5, <2>1, <3>1 DEF Dispatches
  <2> QED BY <2>2, <2>3
<1> QED BY <1>4, <1>5

LEMMA ReserveStep ==
  ASSUME TypeOK, FlightInv, PermitInv, ReserveSuffices, [Next]_vars
  PROVE  ReserveSuffices'
<1>1. rows \in Seq(Requests) BY DEF TypeOK
<1>2. ReserveSuffices <=> (OnceEach => Denied \cap denials = {})
  BY DEF ReserveSuffices, OnceEach, Denied
<1>3. ReserveSuffices' <=> (OnceEach' => Denied \cap denials' = {})
  BY DEF ReserveSuffices, OnceEach, Denied
<1>4. /\ rows' \in Seq(Requests) /\ Len(rows) <= Len(rows')
      /\ \A i \in 1 .. Len(rows) :
           /\ rows'[i].role = rows[i].role
           /\ rows'[i].refused = <<>> => rows[i].refused = <<>>
  <2>1. CASE Issues BY <1>1, <2>1, IssueRows DEF Opened
  <2>2. CASE Dispatch BY <1>1, <2>2, DispatchRows DEF Changed
  <2>3. CASE Resends BY <1>1, <2>3, ResendRows DEF Changed
  <2>4. CASE Quiet
    BY <1>1, <2>4 DEF Quiet, Tick, DenyRequest, Answer, Fail, EndPhase, Verify, VerifierReplies,
       vars, recordVars
  <2> QED BY <2>1, <2>2, <2>3, <2>4, Steps
<1>5. OnceEach' => OnceEach
  <2> SUFFICES ASSUME OnceEach' PROVE OnceEach OBVIOUS
  <2>1. /\ Rows("forced_final") \subseteq Rows("forced_final")'
        /\ Cardinality(Rows("forced_final")) <= Cardinality(Rows("forced_final")')
        /\ Cardinality(Rows("forced_final")) \in Nat
        /\ Cardinality(Rows("forced_final")') \in Nat
    BY <1>1, <1>4, RowsAre, RowsFinite
  <2>2. Cardinality(Rows("forced_final")) <= 2 BY <2>1 DEF OnceEach
  <2>3. \A i \in Rows("forced_final") : rows[i].refused = <<>>
    BY <1>4, <2>1 DEF OnceEach, Rows
  <2> QED BY <2>2, <2>3 DEF OnceEach
<1>6. SUFFICES ASSUME OnceEach PROVE Denied \cap denials' \subseteq denials
  BY <1>2, <1>3, <1>5
<1>7. ASSUME NEW role, Deny(role), Denial(role) = "max_model_requests"
      PROVE  role = "investigation" \/ ~(Dispatches < MaxModelRequests)
  <2>1. "max_model_requests" # None BY NoBodyAssumption DEF Reasons
  <2>2. ASSUME role # "investigation", Dispatches < MaxModelRequests
        PROVE  Denial(role) \in {"max_wall_time_s", None}
    <3>1. ~(Dispatches >= MaxModelRequests)
      <4>1. Dispatches \in Nat BY DEF TypeOK, Roles, Dispatches
      <4> QED BY <2>2, <4>1, RequestsAssumption
    <3> QED BY <2>2, <3>1 DEF Denial
  <2> QED BY <1>7, <2>1, <2>2
<1>8. CASE DenyRequest
  <2>1. /\ sending = "build" /\ Deny(phase) /\ phase \in GraphRoles
    BY <1>8 DEF DenyRequest, FlightInv, InFlight
  <2>2. Denial(phase) = "max_model_requests" => phase = "investigation"
    BY <1>6, <1>7, <2>1, ShareLeft DEF GraphRoles
  <2> QED BY <2>1, <2>2 DEF Deny, Denied, GraphRoles
<1>9. CASE Verify
  <2>1. Deny("verification") => Denial("verification") # "max_model_requests"
    BY <1>6, <1>7, <1>9, ShareLeft DEF Verify
  <2> QED BY <1>9, <2>1 DEF Verify, Grant, Deny, Denied
<1>10. CASE denials' = denials BY <1>10
<1> QED BY <1>8, <1>9, <1>10
     DEF Next, Tick, Investigate, ConcludeAfresh, ConcludeOn, Open, Dispatch, Grant, Answer,
         RefuseChoice, RefuseFormat, SwapRoute, Fail, EndPhase, VerifierReplies, Done, vars,
         budgetVars

-----------------------------------------------------------------------------
(* The theorems. *)

LEMMA InitInv == Init => IInv
<1> SUFFICES ASSUME Init PROVE IInv OBVIOUS
<1>1. TypeOK
  <2>1. MaxTurns \in Nat /\ MaxResends \in Nat /\ <<>> \in Seq(Requests) BY RequestsAssumption
  <2>2. accepts \in BOOLEAN /\ named \in BOOLEAN /\ refusesFormat \in BOOLEAN BY DEF Init
  <2> QED BY <2>1, <2>2 DEF Init, TypeOK, Roles
<1>2. FlightInv /\ ArmedInv /\ FaithfulInv /\ ChainInv
  BY DEF Init, FlightInv, ArmedInv, FaithfulInv, ChainInv, InFlight, Roles
<1>3. \A role : Attested(role) = {} BY DEF Attested, Rows, Init
<1>4. MaxModelRequests \in Nat /\ Reserve \in Nat /\ Reserve < MaxModelRequests
  BY RequestsAssumption DEF Reserve
<1>5. PermitInv
  <2>1. \A role \in Roles : dispatched[role] = 0 BY DEF Init
  <2>2. \A role \in GraphRoles : /\ IsFiniteSet(Attested(role))
                                 /\ Cardinality(Attested(role)) = dispatched[role]
    BY <1>3, <2>1, FS_EmptySet DEF GraphRoles, Roles
  <2>3. dispatched["investigation"] <= MaxModelRequests - Reserve BY <1>4, <2>1 DEF Roles
  <2> QED BY <2>1, <2>2, <2>3 DEF Init, PermitInv, Roles
<1>6. ReserveSuffices BY DEF Init, ReserveSuffices
<1> QED BY <1>1, <1>2, <1>5, <1>6 DEF IInv

\* The induction: the parts of IInv, each kept by every step of the run.
THEOREM Invariance == Spec => []IInv
<1>1. IInv /\ [Next]_vars => IInv'
  BY TypeStep, FlightStep, ArmedStep, FaithfulStep, PermitStep, ChainStep, ReserveStep DEF IInv
<1> QED BY <1>1, InitInv, PTL DEF Spec

\* The type invariant TypeOK.
THEOREM TypeCorrect == Spec => []TypeOK
<1>1. IInv => TypeOK BY DEF IInv
<1> QED BY <1>1, Invariance, PTL

\* The invariant CompulsionSurvives: whatever the provider refuses and wherever the request
\* is routed, every body of a request compels the tool it was to compel, and no body of
\* another request does (_get_request_payload, _rearm_refused_request).
THEOREM CompulsionIsKept == Spec => []CompulsionSurvives
<1>1. IInv => CompulsionSurvives
  <2> SUFFICES ASSUME IInv, NEW i \in 1 .. Len(rows), NEW k \in 1 .. Len(BodiesOf(rows[i]))
               PROVE  /\ Names(BodiesOf(rows[i])[k]) <=> rows[i].asked = "named"
                      /\ (rows[i].asked = "required" /\ accepts)
                           => BodiesOf(rows[i])[k].choice = "required"
    BY DEF CompulsionSurvives
  <2>1. rows[i] \in Requests /\ Faithful(rows[i], accepts) BY DEF IInv, TypeOK, FaithfulInv
  <2>2. BodiesOf(rows[i])[k] \in BodySet(rows[i]) BY <2>1, BodiesFields
  <2> QED BY <2>1, <2>2 DEF Faithful
<1> QED BY <1>1, Invariance, PTL

\* The invariant EveryDispatchIsOnRecord: permits, receipts and the entries on the log agree
\* in every state of a request (reserve_model, _RequestPayloadLedger, _record_model_request).
THEOREM PermitsAreOnRecord == Spec => []EveryDispatchIsOnRecord
<1>1. IInv => EveryDispatchIsOnRecord
  BY DEF IInv, PermitInv, ChainInv, EveryDispatchIsOnRecord, GraphRoles
<1> QED BY <1>1, Invariance, PTL

\* The invariant ReserveSuffices, for every ceiling and with either terminal stage on or off:
\* a conclusion sent once in at most two requests, and the verifier with its retry, never
\* meet the ceiling of the run (reserved_terminal_model_requests, reserve_model).
THEOREM TerminalShareSuffices == Spec => []ReserveSuffices
<1>1. IInv => ReserveSuffices BY DEF IInv
<1> QED BY <1>1, Invariance, PTL
=============================================================================
