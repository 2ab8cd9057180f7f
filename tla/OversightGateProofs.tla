-------------------------- MODULE OversightGateProofs --------------------------
(***************************************************************************)
(* Proofs about OversightGate and its log, for any number of calls and any *)
(* faults of the file.                                                     *)
(***************************************************************************)
EXTENDS OversightGate, FiniteSetTheorems, TLAPS

-----------------------------------------------------------------------------
(* The inductive invariant. *)

IsSequence(q) == \E S : q \in Seq(S)

\* While nothing was lost the entries follow one another on the lines.
LinesInv(file, n) ==
  \A i \in DOMAIN file :
    /\ file[i].write \in {"whole", "torn"}
    /\ file[i].entry.prev = file[i].entry.seq
    /\ Len(file) = n => file[i].entry.seq = i - 1

\* What can be parsed are lines of the file, all of them while all are whole.
LegibleInv(good, file) ==
  /\ good \in Seq(Nat) /\ \A k \in DOMAIN good : good[k] \in DOMAIN file
  /\ (\A i \in DOMAIN file : file[i].write = "whole") =>
       Len(good) = Len(file) /\ \A i \in DOMAIN file : good[i] = i

\* The head is the digest of the last entry, written or not.
LogInv ==
  /\ head \in Nat /\ seq = head
  /\ IsSequence(lines) /\ Len(lines) >= 1 /\ Len(lines) <= seq
  /\ LinesInv(lines, seq)
  /\ LegibleInv(legible, lines)

Before  == {"idle", "resolve", "unproduced", "pre_check", "pre_alarm", "policy", "contract",
            "run", "post_check", "post_alarm", "settle", "record"}
After   == {"standardize", "bind", "bind_visible", "sidecar", "returned", "raised"}
Unrun   == {"idle", "resolve", "unproduced", "pre_check", "policy", "contract", "run"}
Decided == {"pre_alarm", "post_alarm", "record"}

GateTypes ==
  /\ source \in Traces
  /\ DOMAIN asked = Calls /\ DOMAIN stage = Calls /\ DOMAIN body = Calls /\ DOMAIN readFrom = Calls
  /\ DOMAIN captured = Calls /\ DOMAIN outcome = Calls /\ DOMAIN action = Calls
  /\ DOMAIN parent = Calls /\ DOMAIN class = Calls
  /\ \A c \in Calls : action[c] \in Nat
  /\ bound \in [Calls -> [Artifacts -> Nat]]

\* What a body left, and what enforce made of it.
BodyInv(c) ==
  /\ stage[c] \in Before \cup After
  /\ stage[c] \in Unrun \cup {"pre_alarm"} => body[c] = "none" /\ readFrom[c] = "none"
  /\ stage[c] \in {"post_check", "post_alarm", "settle"} => body[c] # "none"
  /\ readFrom[c] = "traced" => source = "traced"
  /\ body[c] # "none" => body[c] \in Endings /\ readFrom[c] \in Traces
  /\ stage[c] = "settle" => Unseen(c)
  /\ stage[c] \in Unrun => outcome[c] = "none"
  /\ stage[c] \in Decided => (outcome[c] = "refused_by_oversight" <=> body[c] = "none")
  /\ outcome[c] = "executed" => body[c] = "ok" /\ Unseen(c)
  /\ outcome[c] = "refused_by_tool" => Unseen(c) /\ asked[c] \in failedCalls
  /\ stage[c] \in Before => class[c] = "none"
  /\ class[c] \in {"observed", "derived"} => captured[c]

\* The entry of a call is the only one, and says what enforce decided.
HasEntry(c) ==
  \E i \in 1 .. Len(lines) :
    /\ Events(c, "action") = {i}
    /\ (lines[i].entry.what.outcome = "refused_by_oversight") <=> (body[c] = "none")

\* What the log has of a call: nothing before its turn, and its entry before what rests on it.
EntryInv(c) ==
  /\ stage[c] \in Before =>
       Events(c, "action") = {} /\ action[c] = 0 /\ bound[c]["complete"] = 0
  /\ action[c] <= head
  /\ action[c] # 0 => HasEntry(c)
  /\ bound[c]["complete"] # 0 => action[c] < bound[c]["complete"]

IInv == LogInv /\ GateTypes /\ \A c \in Calls : BodyInv(c) /\ EntryInv(c)

-----------------------------------------------------------------------------
(* The log. *)

AnyWrite == {"whole", "lost", "torn"}

LEMMA WritesAreKnown == Writes \subseteq AnyWrite
  BY WriteFaultsAssumption DEF Writes, AnyWrite

LEMMA Appended ==
  ASSUME NEW S, NEW q \in Seq(S), NEW e \in S
  PROVE  /\ Append(q, e) \in Seq(S)
         /\ Len(Append(q, e)) = Len(q) + 1 /\ Len(q) \in Nat
         /\ DOMAIN Append(q, e) = 1 .. Len(q) + 1 /\ DOMAIN q = 1 .. Len(q)
         /\ Append(q, e)[Len(q) + 1] = e
         /\ \A i \in 1 .. Len(q) : Append(q, e)[i] = q[i]
  OBVIOUS

\* What one append does to the file, whatever becomes of it: what was there stays.
LEMMA EmitLines ==
  ASSUME LogInv, NEW content, NEW w \in AnyWrite, Emit(content, w)
  PROVE  /\ head' = head + 1 /\ seq' = seq + 1
         /\ IsSequence(lines')
         /\ Len(lines) \in Nat /\ DOMAIN lines = 1 .. Len(lines) /\ DOMAIN lines' = 1 .. Len(lines')
         /\ \A i \in 1 .. Len(lines) : lines'[i] = lines[i]
         /\ w = "lost" => lines' = lines
         /\ w # "lost" => /\ Len(lines') = Len(lines) + 1
                          /\ lines'[Len(lines) + 1] = [entry |-> Stamped(content), write |-> w]
<1>1. head \in Nat /\ seq = head BY DEF LogInv
<1>2. head' = head + 1 /\ seq' = seq + 1 BY <1>1 DEF Emit, Stamped, Digest
<1>3. PICK S : lines \in Seq(S) BY DEF LogInv, IsSequence
<1>4. Len(lines) \in Nat /\ DOMAIN lines = 1 .. Len(lines) BY <1>3
<1>5. CASE w = "lost"
  <2>1. lines' = lines BY <1>5 DEF Emit
  <2> QED BY <1>2, <1>3, <1>4, <1>5, <2>1 DEF IsSequence
<1>6. CASE w # "lost"
  <2> DEFINE line == [entry |-> Stamped(content), write |-> w]
  <2>1. lines' = Append(lines, line) BY <1>6 DEF Emit
  <2> HIDE DEF line
  <2>2. lines \in Seq(S \cup {line}) /\ line \in S \cup {line} BY <1>3
  <2>3. /\ lines' \in Seq(S \cup {line}) /\ Len(lines') = Len(lines) + 1
        /\ DOMAIN lines' = 1 .. Len(lines) + 1
        /\ lines'[Len(lines) + 1] = line /\ \A i \in 1 .. Len(lines) : lines'[i] = lines[i]
    BY <2>1, <2>2, Appended
  <2>4. lines'[Len(lines) + 1] = [entry |-> Stamped(content), write |-> w] BY <2>3 DEF line
  <2> QED BY <1>2, <1>4, <1>6, <2>3, <2>4 DEF IsSequence
<1> QED BY <1>5, <1>6

LEMMA EmitKeepsLog ==
  ASSUME LogInv, NEW content, NEW w \in AnyWrite, Emit(content, w)
  PROVE  LogInv'
<1>1. PICK n \in Nat : n = Len(lines) BY EmitLines
<1>2. /\ head \in Nat /\ seq = head /\ n >= 1 /\ n <= seq
      /\ legible \in Seq(Nat) /\ \A k \in DOMAIN legible : legible[k] \in 1 .. n
  <2>1. head \in Nat /\ seq = head /\ n >= 1 /\ n <= seq BY <1>1 DEF LogInv
  <2>2. DOMAIN lines = 1 .. n BY <1>1, EmitLines
  <2>3. legible \in Seq(Nat) /\ \A k \in DOMAIN legible : legible[k] \in DOMAIN lines
      BY DEF LogInv, LegibleInv
  <2> QED BY <2>1, <2>2, <2>3
<1>3. /\ head' = head + 1 /\ seq' = seq + 1 /\ IsSequence(lines')
      /\ DOMAIN lines = 1 .. n /\ DOMAIN lines' = 1 .. Len(lines')
  BY <1>1, EmitLines
<1>4. \A i \in 1 .. n : lines'[i] = lines[i] BY <1>1, EmitLines
<1>5. \A i \in 1 .. n : /\ lines[i].write \in {"whole", "torn"}
                        /\ lines[i].entry.prev = lines[i].entry.seq
                        /\ n = seq => lines[i].entry.seq = i - 1
  BY <1>1, <1>3 DEF LogInv, LinesInv
<1>6. (\A i \in 1 .. n : lines[i].write = "whole") =>
         Len(legible) = n /\ \A i \in 1 .. n : legible[i] = i
  BY <1>1, <1>3 DEF LogInv, LegibleInv
<1>7. CASE w = "lost"
  <2>1. lines' = lines /\ Len(lines') = n BY <1>1, <1>7, EmitLines
  <2>2. legible' = legible BY <1>7 DEF Emit
  <2>3. n # seq' /\ n <= seq' BY <1>2, <1>3
  <2>4. LinesInv(lines', seq') BY <1>3, <1>5, <2>1, <2>3 DEF LinesInv
  <2>5. LegibleInv(legible', lines') BY <2>1, <2>2 DEF LogInv
  <2> QED BY <1>2, <1>3, <2>1, <2>3, <2>4, <2>5 DEF LogInv
<1>8. CASE w # "lost"
  <2>1. Len(lines') = n + 1 /\ lines'[n + 1] = [entry |-> Stamped(content), write |-> w]
    BY <1>1, <1>8, EmitLines
  <2>2. /\ lines'[n + 1].write = w /\ lines'[n + 1].entry.seq = seq
        /\ lines'[n + 1].entry.prev = head
    BY <2>1 DEF Stamped
  <2>3. \A i \in 1 .. n + 1 : i \in 1 .. n \/ i = n + 1 OBVIOUS
  <2>4. \A i \in 1 .. n + 1 : /\ lines'[i].write \in {"whole", "torn"}
                              /\ lines'[i].entry.prev = lines'[i].entry.seq
                              /\ n + 1 = seq' => lines'[i].entry.seq = i - 1
    <3> TAKE i \in 1 .. n + 1
    <3>1. CASE i \in 1 .. n
      <4>1. lines'[i] = lines[i] BY <1>4, <3>1
      <4>2. n + 1 = seq' => n = seq BY <1>2, <1>3
      <4> QED BY <1>5, <3>1, <4>1, <4>2
    <3>2. CASE i = n + 1 BY <1>2, <1>3, <1>8, <2>2, <3>2 DEF AnyWrite
    <3> QED BY <2>3, <3>1, <3>2
  <2>5. /\ head' \in Nat /\ seq' = head' /\ Len(lines') >= 1 /\ Len(lines') <= seq'
        /\ DOMAIN lines' = 1 .. n + 1
    BY <1>2, <1>3, <2>1
  <2>6. LinesInv(lines', seq') BY <2>1, <2>4, <2>5 DEF LinesInv
  <2>7. legible' = IF w = "whole" /\ ~Continued THEN Append(legible, n + 1) ELSE legible
    BY <1>8, <2>1 DEF Emit
  <2>8. CASE w = "whole" /\ ~Continued
    <3>1. legible' = Append(legible, n + 1) BY <2>7, <2>8
    <3>2. /\ legible' \in Seq(Nat) /\ Len(legible') = Len(legible) + 1 /\ Len(legible) \in Nat
          /\ DOMAIN legible' = 1 .. Len(legible) + 1 /\ DOMAIN legible = 1 .. Len(legible)
          /\ legible'[Len(legible) + 1] = n + 1
          /\ \A k \in 1 .. Len(legible) : legible'[k] = legible[k]
      BY <1>2, <3>1, Appended
    <3>3. \A k \in DOMAIN legible' : legible'[k] \in 1 .. n + 1
      BY <1>2, <3>2
    <3>4. ASSUME \A i \in 1 .. n + 1 : lines'[i].write = "whole"
          PROVE  Len(legible') = n + 1 /\ \A i \in 1 .. n + 1 : legible'[i] = i
      <4>1. \A i \in 1 .. n : lines[i].write = "whole" BY <1>4, <2>3, <3>4
      <4>2. Len(legible) = n /\ \A i \in 1 .. n : legible[i] = i BY <1>6, <4>1
      <4> QED BY <2>3, <3>2, <4>2
    <3>5. LegibleInv(legible', lines') BY <2>1, <2>5, <3>2, <3>3, <3>4 DEF LegibleInv
    <3> QED BY <1>3, <2>5, <2>6, <3>5 DEF LogInv
  <2>9. CASE w = "torn" \/ Continued
    <3>1. legible' = legible BY <2>7, <2>9
    <3>2. \A k \in DOMAIN legible' : legible'[k] \in 1 .. n + 1 BY <1>2, <3>1
    <3>3. \E i \in 1 .. n + 1 : lines'[i].write # "whole"
      <4>1. CASE w = "torn" BY <2>2, <4>1
      <4>2. CASE Continued
        <5>1. lines[n].write = "torn" BY <1>1, <4>2 DEF Continued, Last
        <5>2. lines'[n].write = "torn" /\ n \in 1 .. n + 1 BY <1>2, <1>4, <5>1
        <5> QED BY <5>2
      <4> QED BY <2>9, <4>1, <4>2
    <3>4. LegibleInv(legible', lines') BY <1>2, <2>5, <3>1, <3>2, <3>3 DEF LegibleInv
    <3> QED BY <1>3, <2>5, <2>6, <3>4 DEF LogInv
  <2> QED BY <1>8, <2>8, <2>9 DEF AnyWrite
<1> QED BY <1>7, <1>8

LEMMA SameLog ==
  ASSUME LogInv, UNCHANGED logVars
  PROVE  LogInv' /\ Load' = Load
<1>1. head' = head /\ seq' = seq /\ lines' = lines /\ legible' = legible BY DEF logVars
<1>2. LogInv' BY <1>1 DEF LogInv
<1> QED BY <1>1, <1>2 DEF Load

\* An append that is not the action entry of c leaves what the log has of c.
LEMMA EmitOther ==
  ASSUME LogInv, NEW content, NEW w \in AnyWrite, Emit(content, w), NEW c,
         content.event # "action" \/ content.call # c
  PROVE  Events(c, "action")' = Events(c, "action")
<1>1. PICK n \in Nat : n = Len(lines) BY EmitLines
<1>2. \A i \in 1 .. n : lines'[i] = lines[i] BY <1>1, EmitLines
<1>3. CASE w = "lost"
  <2>1. lines' = lines BY <1>3, EmitLines
  <2> QED BY <2>1 DEF Events
<1>4. CASE w # "lost"
  <2>1. Len(lines') = n + 1 /\ lines'[n + 1] = [entry |-> Stamped(content), write |-> w]
    BY <1>1, <1>4, EmitLines
  <2>2. lines'[n + 1].entry.what = content BY <2>1 DEF Stamped
  <2>3. \A i \in 1 .. n + 1 : i \in 1 .. n \/ i = n + 1 OBVIOUS
  <2>4. Events(c, "action")' = {i \in 1 .. n + 1 : lines'[i].entry.what.event = "action"
                                                    /\ lines'[i].entry.what.call = c}
    BY <2>1 DEF Events
  <2>5. Events(c, "action") = {i \in 1 .. n : lines[i].entry.what.event = "action"
                                               /\ lines[i].entry.what.call = c}
    BY <1>1 DEF Events
  <2>6. \A i \in Events(c, "action")' : i \in Events(c, "action") BY <1>2, <2>2, <2>3, <2>4, <2>5
  <2>7. \A i \in Events(c, "action") : i \in Events(c, "action")' BY <1>2, <2>4, <2>5
  <2> QED BY <2>6, <2>7
<1> QED BY <1>3, <1>4

\* The action entry of c, written whole, is the first and only one.
LEMMA EmitAction ==
  ASSUME LogInv, NEW c, NEW o, Events(c, "action") = {},
         Emit([event |-> "action", call |-> c, outcome |-> o], "whole")
  PROVE  \E i \in 1 .. Len(lines') :
           Events(c, "action")' = {i} /\ lines'[i].entry.what.outcome = o
<1> DEFINE content == [event |-> "action", call |-> c, outcome |-> o]
<1>1. PICK n \in Nat : n = Len(lines) BY EmitLines DEF AnyWrite
<1>2. \A i \in 1 .. n : lines'[i] = lines[i] BY <1>1, EmitLines DEF AnyWrite
<1>3. Len(lines') = n + 1 /\ lines'[n + 1] = [entry |-> Stamped(content), write |-> "whole"]
  BY <1>1, EmitLines DEF AnyWrite
<1>4. lines'[n + 1].entry.what = content BY <1>3 DEF Stamped
<1>5. /\ lines'[n + 1].entry.what.event = "action" /\ lines'[n + 1].entry.what.call = c
      /\ lines'[n + 1].entry.what.outcome = o
  BY <1>4
<1>6. \A i \in 1 .. n + 1 : i \in 1 .. n \/ i = n + 1 OBVIOUS
<1>7. Events(c, "action")' = {i \in 1 .. n + 1 : lines'[i].entry.what.event = "action"
                                                  /\ lines'[i].entry.what.call = c}
  BY <1>3 DEF Events
<1>8. \A i \in 1 .. n : ~(lines[i].entry.what.event = "action" /\ lines[i].entry.what.call = c)
  BY <1>1 DEF Events
<1>9. \A i \in 1 .. n : i \notin Events(c, "action")' BY <1>2, <1>7, <1>8
<1>10. n + 1 \in Events(c, "action")' BY <1>5, <1>7
<1>11. Events(c, "action")' = {n + 1} BY <1>6, <1>7, <1>9, <1>10
<1> QED BY <1>3, <1>5, <1>11

-----------------------------------------------------------------------------
(* The calls that a step is not about. *)

\* What every step does to the state the threads share.
Onward ==
  /\ LogInv'
  /\ guarded' = guarded
  /\ source' \in Traces /\ (source = "traced" => source' = "traced")
  /\ failedCalls \subseteq failedCalls'
  /\ head' >= head /\ head' \in Nat
  /\ Len(lines) <= Len(lines')
  /\ \A i \in 1 .. Len(lines) : lines'[i] = lines[i]

SameCall(c) ==
  /\ asked'[c] = asked[c] /\ stage'[c] = stage[c] /\ body'[c] = body[c]
  /\ readFrom'[c] = readFrom[c] /\ captured'[c] = captured[c] /\ outcome'[c] = outcome[c]
  /\ action'[c] = action[c] /\ parent'[c] = parent[c] /\ class'[c] = class[c]
  /\ bound'[c] = bound[c]

LEMMA SharedLog ==
  ASSUME IInv, guarded' = guarded, source' = source, failedCalls' = failedCalls,
         \/ UNCHANGED logVars
         \/ \E content : \E w \in AnyWrite : Emit(content, w)
  PROVE  Onward
<1>1. LogInv /\ GateTypes /\ head \in Nat /\ Len(lines) \in Nat BY DEF IInv, LogInv
<1>2. source \in Traces BY <1>1 DEF GateTypes
<1>3. CASE UNCHANGED logVars
  <2>1. LogInv' BY <1>1, <1>3, SameLog
  <2>2. head' = head /\ lines' = lines BY <1>3 DEF logVars
  <2> QED BY <1>1, <1>2, <2>1, <2>2 DEF Onward
<1>4. ASSUME NEW content, NEW w \in AnyWrite, Emit(content, w) PROVE Onward
  <2>1. LogInv' BY <1>1, <1>4, EmitKeepsLog
  <2>2. head' = head + 1 /\ \A i \in 1 .. Len(lines) : lines'[i] = lines[i]
    BY <1>1, <1>4, EmitLines
  <2>3. (w = "lost" => lines' = lines) /\ (w # "lost" => Len(lines') = Len(lines) + 1)
    BY <1>1, <1>4, EmitLines
  <2>4. Len(lines) <= Len(lines') BY <1>1, <2>3
  <2> QED BY <1>1, <1>2, <2>1, <2>2, <2>4 DEF Onward
<1> QED BY <1>3, <1>4

LEMMA OtherCall ==
  ASSUME IInv, Onward, NEW c \in Calls, SameCall(c), Events(c, "action")' = Events(c, "action")
  PROVE  BodyInv(c)' /\ EntryInv(c)'
<1>1. BodyInv(c) /\ EntryInv(c) /\ action[c] \in Nat /\ head \in Nat BY DEF IInv, LogInv, GateTypes
<1>2. BodyInv(c)' BY <1>1 DEF BodyInv, Unseen, SameCall, Onward
<1>3. HasEntry(c) => HasEntry(c)'
  <2>1. ASSUME NEW i \in 1 .. Len(lines), Events(c, "action") = {i},
               (lines[i].entry.what.outcome = "refused_by_oversight") <=> (body[c] = "none")
        PROVE  HasEntry(c)'
    <3>1. lines'[i] = lines[i] BY <2>1 DEF Onward
    <3>2. i \in 1 .. Len(lines') BY <2>1 DEF Onward, LogInv
    <3>3. body'[c] = body[c] BY DEF SameCall
    <3> QED BY <2>1, <3>1, <3>2, <3>3 DEF HasEntry
  <2> QED BY <2>1 DEF HasEntry
<1>4. EntryInv(c)' BY <1>1, <1>3 DEF EntryInv, SameCall, Onward
<1> QED BY <1>2, <1>4

-----------------------------------------------------------------------------
(* The steps of one call. *)

\* What a step of c owes the invariant.
Acts(c) ==
  /\ Onward /\ GateTypes'
  /\ BodyInv(c)' /\ EntryInv(c)'
  /\ \A d \in Calls \ {c} : SameCall(d) /\ Events(d, "action")' = Events(d, "action")

LEMMA OneCall ==
  ASSUME IInv, NEW c \in Calls, Acts(c)
  PROVE  IInv'
<1>1. ASSUME NEW d \in Calls PROVE BodyInv(d)' /\ EntryInv(d)'
  <2>1. CASE d = c BY <2>1 DEF Acts
  <2>2. CASE d # c BY <2>2, OtherCall DEF Acts
  <2> QED BY <2>1, <2>2
<1> QED BY <1>1 DEF Acts, Onward, IInv

\* A step that does not append: what the log has of each call stays.
LEMMA QuietLog ==
  ASSUME IInv, UNCHANGED logVars
  PROVE  /\ LogInv' /\ head' = head /\ lines' = lines
         /\ \A d : Events(d, "action")' = Events(d, "action")
         /\ \A d : body'[d] = body[d] => (HasEntry(d)' <=> HasEntry(d))
<1>1. lines' = lines /\ head' = head BY DEF logVars
<1>2. LogInv' BY SameLog DEF IInv
<1>3. \A d : Events(d, "action")' = Events(d, "action") BY <1>1 DEF Events
<1>4. \A d : body'[d] = body[d] => (HasEntry(d)' <=> HasEntry(d)) BY <1>1, <1>3 DEF HasEntry
<1> QED BY <1>1, <1>2, <1>3, <1>4

\* A step of c that neither appends nor changes what the log was told of c.
LEMMA QuietStep ==
  ASSUME IInv, NEW c \in Calls, UNCHANGED logVars,
         guarded' = guarded, source' = source, failedCalls \subseteq failedCalls', GateTypes',
         \A d \in Calls \ {c} : SameCall(d),
         action'[c] = action[c], bound'[c] = bound[c],
         body'[c] = body[c] \/ action[c] = 0,
         stage'[c] \in Before => stage[c] \in Before,
         BodyInv(c)'
  PROVE  Acts(c)
<1>1. /\ LogInv' /\ head' = head /\ lines' = lines
      /\ \A d : Events(d, "action")' = Events(d, "action")
      /\ \A d : body'[d] = body[d] => (HasEntry(d)' <=> HasEntry(d))
  BY QuietLog
<1>2. EntryInv(c) /\ source \in Traces /\ head \in Nat /\ Len(lines) \in Nat
  BY EmitLines DEF IInv, GateTypes, LogInv, IsSequence
<1>3. EntryInv(c)' BY <1>1, <1>2 DEF EntryInv
<1>4. Onward BY <1>1, <1>2 DEF Onward
<1> QED BY <1>1, <1>3, <1>4 DEF Acts

LEMMA StartStep ==
  ASSUME IInv, NEW c \in Calls, Start(c)
  PROVE  Acts(c)
<1> USE DEF Start, Goto, sharedVars
<1>1. BodyInv(c) /\ GateTypes BY DEF IInv
<1>2. GateTypes' BY <1>1 DEF GateTypes
<1>3. \A d \in Calls \ {c} : SameCall(d) BY <1>1 DEF SameCall, GateTypes
<1>4. BodyInv(c)' BY <1>1 DEF BodyInv, Unseen, GateTypes, Before, After, Unrun, Decided
<1>5. stage[c] \in Before BY DEF Before
<1> QED BY <1>2, <1>3, <1>4, <1>5, QuietStep

LEMMA ResolveStep ==
  ASSUME IInv, NEW c \in Calls, Resolve(c)
  PROVE  Acts(c)
<1> USE DEF Resolve, Goto, sharedVars
<1>1. BodyInv(c) /\ GateTypes BY DEF IInv
<1>2. GateTypes' BY <1>1 DEF GateTypes
<1>3. \A d \in Calls \ {c} : SameCall(d) BY <1>1 DEF SameCall, GateTypes
<1>4. BodyInv(c)' BY <1>1 DEF BodyInv, Unseen, GateTypes, Before, After, Unrun, Decided
<1>5. stage[c] \in Before BY DEF Before
<1> QED BY <1>2, <1>3, <1>4, <1>5, QuietStep

LEMMA PreCheckStep ==
  ASSUME IInv, NEW c \in Calls, PreCheck(c)
  PROVE  Acts(c)
<1> USE DEF PreCheck, Goto
<1>1. BodyInv(c) /\ GateTypes BY DEF IInv
<1>2. GateTypes' BY <1>1 DEF GateTypes
<1>3. \A d \in Calls \ {c} : SameCall(d) BY <1>1 DEF SameCall, GateTypes
<1>4. BodyInv(c)' BY <1>1 DEF BodyInv, Unseen, GateTypes, Before, After, Unrun, Decided
<1>5. stage[c] \in Before BY DEF Before
<1> QED BY <1>2, <1>3, <1>4, <1>5, QuietStep

LEMMA JudgeStep ==
  ASSUME IInv, NEW c \in Calls, Judge(c)
  PROVE  Acts(c)
<1> USE DEF Judge, Goto, sharedVars
<1>1. BodyInv(c) /\ GateTypes BY DEF IInv
<1>2. GateTypes' BY <1>1 DEF GateTypes
<1>3. \A d \in Calls \ {c} : SameCall(d) BY <1>1 DEF SameCall, GateTypes
<1>4. BodyInv(c)' BY <1>1 DEF BodyInv, Unseen, GateTypes, Before, After, Unrun, Decided
<1>5. stage[c] \in Before BY DEF Before
<1> QED BY <1>2, <1>3, <1>4, <1>5, QuietStep

LEMMA CheckArgumentsStep ==
  ASSUME IInv, NEW c \in Calls, CheckArguments(c)
  PROVE  Acts(c)
<1> USE DEF CheckArguments, Goto
<1>1. BodyInv(c) /\ GateTypes BY DEF IInv
<1>2. GateTypes' BY <1>1 DEF GateTypes
<1>3. \A d \in Calls \ {c} : SameCall(d) BY <1>1 DEF SameCall, GateTypes
<1>4. BodyInv(c)' BY <1>1 DEF BodyInv, Unseen, GateTypes, Before, After, Unrun, Decided
<1>5. stage[c] \in Before BY DEF Before
<1> QED BY <1>2, <1>3, <1>4, <1>5, QuietStep

LEMMA RunBodyStep ==
  ASSUME IInv, NEW c \in Calls, RunBody(c)
  PROVE  Acts(c)
<1> USE DEF RunBody, Goto, sharedVars
<1>1. BodyInv(c) /\ EntryInv(c) /\ GateTypes BY DEF IInv
<1>2. GateTypes' BY <1>1 DEF GateTypes
<1>3. \A d \in Calls \ {c} : SameCall(d) BY <1>1 DEF SameCall, GateTypes
<1>4. BodyInv(c)' BY <1>1 DEF BodyInv, Unseen, GateTypes, Before, After, Unrun, Decided, Endings
<1>5. stage[c] \in Before BY DEF Before
<1>6. action[c] = 0 BY <1>1, <1>5 DEF EntryInv
<1> QED BY <1>2, <1>3, <1>4, <1>5, <1>6, QuietStep

LEMMA PostCheckStep ==
  ASSUME IInv, NEW c \in Calls, PostCheck(c)
  PROVE  Acts(c)
<1> USE DEF PostCheck, Goto
<1>1. BodyInv(c) /\ GateTypes BY DEF IInv
<1>2. GateTypes' BY <1>1 DEF GateTypes
<1>3. \A d \in Calls \ {c} : SameCall(d) BY <1>1 DEF SameCall, GateTypes
<1>4. BodyInv(c)'
  BY <1>1 DEF BodyInv, Unseen, GateTypes, Before, After, Unrun, Decided, StillViolated, Violated
<1>5. stage[c] \in Before BY DEF Before
<1> QED BY <1>2, <1>3, <1>4, <1>5, QuietStep

LEMMA SettleStep ==
  ASSUME IInv, NEW c \in Calls, Settle(c)
  PROVE  Acts(c)
<1> USE DEF Settle, Goto
<1>1. BodyInv(c) /\ GateTypes BY DEF IInv
<1>2. GateTypes' BY <1>1 DEF GateTypes
<1>3. \A d \in Calls \ {c} : SameCall(d) BY <1>1 DEF SameCall, GateTypes
<1>4. BodyInv(c)'
  BY <1>1 DEF BodyInv, Unseen, GateTypes, Before, After, Unrun, Decided, Endings, OutcomeOf, RememberFailure
<1>5. stage[c] \in Before /\ failedCalls \subseteq failedCalls' BY DEF Before, RememberFailure
<1> QED BY <1>2, <1>3, <1>4, <1>5, QuietStep

LEMMA StandardizeStep ==
  ASSUME IInv, NEW c \in Calls, Standardize(c)
  PROVE  Acts(c)
<1> USE DEF Standardize, Goto
<1>1. BodyInv(c) /\ GateTypes BY DEF IInv
<1>2. GateTypes' BY <1>1 DEF GateTypes
<1>3. \A d \in Calls \ {c} : SameCall(d) BY <1>1 DEF SameCall, GateTypes
<1>4. BodyInv(c)'
  BY <1>1 DEF BodyInv, Unseen, GateTypes, Before, After, Unrun, Decided, ClassesOf
<1>5. stage'[c] \notin Before BY <1>1 DEF Before, GateTypes
<1> QED BY <1>2, <1>3, <1>4, <1>5, QuietStep

\* A step of c that appends something else than the action entry of c.
LEMMA LoudStep ==
  ASSUME IInv, NEW c \in Calls, NEW content, NEW w \in AnyWrite, Emit(content, w),
         \A d \in Calls : content.event # "action" \/ content.call # d,
         guarded' = guarded, source' = source, failedCalls' = failedCalls, GateTypes',
         \A d \in Calls \ {c} : SameCall(d),
         action'[c] = action[c], body'[c] = body[c],
         bound'[c]["complete"] = bound[c]["complete"]
           \/ (bound'[c]["complete"] = head' /\ stage[c] \notin Before),
         stage'[c] \in Before => stage[c] \in Before,
         BodyInv(c)'
  PROVE  Acts(c)
<1>1. LogInv /\ EntryInv(c) /\ action[c] \in Nat /\ head \in Nat BY DEF IInv, LogInv, GateTypes
<1>2. Onward BY SharedLog
<1>3. \A d \in Calls : Events(d, "action")' = Events(d, "action") BY <1>1, EmitOther
<1>4. head' = head + 1 /\ Len(lines) \in Nat BY <1>1, EmitLines
<1>5. HasEntry(c) => HasEntry(c)'
  <2>1. ASSUME NEW i \in 1 .. Len(lines), Events(c, "action") = {i},
               (lines[i].entry.what.outcome = "refused_by_oversight") <=> (body[c] = "none")
        PROVE  HasEntry(c)'
    <3>1. lines'[i] = lines[i] BY <1>2, <2>1 DEF Onward
    <3>2. i \in 1 .. Len(lines') BY <1>2, <1>4, <2>1 DEF Onward, LogInv
    <3>3. Events(c, "action")' = {i} BY <1>3, <2>1
    <3> QED BY <2>1, <3>1, <3>2, <3>3 DEF HasEntry
  <2> QED BY <2>1 DEF HasEntry
<1>6. EntryInv(c)' BY <1>1, <1>3, <1>4, <1>5 DEF EntryInv
<1> QED BY <1>2, <1>3, <1>6 DEF Acts

LEMMA RefuseUnproducedStep ==
  ASSUME IInv, NEW c \in Calls, RefuseUnproduced(c)
  PROVE  Acts(c)
<1> USE DEF RefuseUnproduced, Goto, sharedVars
<1>1. BodyInv(c) /\ GateTypes BY DEF IInv
<1>2. GateTypes' BY <1>1 DEF GateTypes
<1>3. \A d \in Calls \ {c} : SameCall(d) BY <1>1 DEF SameCall, GateTypes
<1>4. BodyInv(c)' BY <1>1 DEF BodyInv, Unseen, GateTypes, Before, After, Unrun, Decided
<1>5. stage'[c] \notin Before BY <1>1 DEF Before, GateTypes
<1>6. PICK w \in AnyWrite : Emit([event |-> "result_unbound", call |-> c], w)
  BY WritesAreKnown
<1> DEFINE content == [event |-> "result_unbound", call |-> c]
<1>7. content.event # "action" OBVIOUS
<1>8. Emit(content, w) BY <1>6
<1> HIDE DEF content
<1> QED BY <1>2, <1>3, <1>4, <1>5, <1>7, <1>8, LoudStep

LEMMA AlarmStep ==
  ASSUME IInv, NEW c \in Calls, Alarm(c)
  PROVE  Acts(c)
<1> USE DEF Alarm, Goto, sharedVars, callVars
<1>1. BodyInv(c) /\ GateTypes BY DEF IInv
<1>2. GateTypes' BY <1>1 DEF GateTypes
<1>3. \A d \in Calls \ {c} : SameCall(d) BY <1>1 DEF SameCall, GateTypes
<1>4. BodyInv(c)' BY <1>1 DEF BodyInv, Unseen, GateTypes, Before, After, Unrun, Decided
<1>5. stage[c] \in Before BY DEF Before
<1>6. PICK w \in AnyWrite : Emit([event |-> "security", call |-> c], w)
  BY WritesAreKnown
<1> DEFINE content == [event |-> "security", call |-> c]
<1>7. content.event # "action" OBVIOUS
<1>8. Emit(content, w) BY <1>6
<1> HIDE DEF content
<1> QED BY <1>2, <1>3, <1>4, <1>5, <1>7, <1>8, LoudStep

LEMMA SidecarStep ==
  ASSUME IInv, NEW c \in Calls, Sidecar(c)
  PROVE  Acts(c)
<1> USE DEF Sidecar, Goto, sharedVars, callVars
<1>1. BodyInv(c) /\ GateTypes BY DEF IInv
<1>2. GateTypes' BY <1>1 DEF GateTypes
<1>3. \A d \in Calls \ {c} : SameCall(d) BY <1>1 DEF SameCall, GateTypes
<1>4. BodyInv(c)' BY <1>1 DEF BodyInv, Unseen, GateTypes, Before, After, Unrun, Decided
<1>5. stage'[c] \notin Before BY <1>1 DEF Before, GateTypes
<1>6. PICK w \in AnyWrite : Emit([event |-> "security", call |-> c], w)
  BY WritesAreKnown
<1> DEFINE content == [event |-> "security", call |-> c]
<1>7. content.event # "action" OBVIOUS
<1>8. Emit(content, w) BY <1>6
<1> HIDE DEF content
<1> QED BY <1>2, <1>3, <1>4, <1>5, <1>7, <1>8, LoudStep

\* A binding names the head of the moment, which is past the entry of its call.
LEMMA BindingContent ==
  ASSUME IInv, NEW c \in Calls, NEW artifact \in Artifacts, BindArtifact(c, artifact)
  PROVE  /\ \E content : /\ content.event # "action"
                         /\ \E w \in AnyWrite : Emit(content, w)
         /\ bound' = bound \/ bound' = [bound EXCEPT ![c][artifact] = head']
<1>1. PICK w \in AnyWrite :
        IF Bindable(c)
        THEN /\ Emit([event |-> "result_binding", call |-> c, names |-> HeadToName(c)], w)
             /\ bound' = IF w = "whole" THEN [bound EXCEPT ![c][artifact] = head'] ELSE bound
        ELSE /\ Emit([event |-> "result_unbound", call |-> c], w)
             /\ UNCHANGED bound
  BY WritesAreKnown DEF BindArtifact
<1>2. CASE Bindable(c)
  <2> DEFINE content == [event |-> "result_binding", call |-> c, names |-> HeadToName(c)]
  <2>1. content.event # "action" OBVIOUS
  <2>2. Emit(content, w) BY <1>1, <1>2
  <2> HIDE DEF content
  <2> QED BY <1>1, <1>2, <2>1, <2>2
<1>3. CASE ~Bindable(c)
  <2> DEFINE content == [event |-> "result_unbound", call |-> c]
  <2>1. content.event # "action" OBVIOUS
  <2>2. Emit(content, w) BY <1>1, <1>3
  <2> HIDE DEF content
  <2> QED BY <1>1, <1>3, <2>1, <2>2
<1> QED BY <1>2, <1>3

LEMMA BindStep ==
  ASSUME IInv, NEW c \in Calls, Bind(c)
  PROVE  Acts(c)
<1> USE DEF Bind, Goto, sharedVars
<1>1. BodyInv(c) /\ GateTypes /\ LogInv /\ bound \in [Calls -> [Artifacts -> Nat]]
  BY DEF IInv, GateTypes
<1>2. PICK content : content.event # "action" /\ \E w \in AnyWrite : Emit(content, w)
  BY BindingContent DEF Artifacts
<1>3. bound' = bound \/ bound' = [bound EXCEPT ![c]["complete"] = head']
  BY BindingContent DEF Artifacts
<1>4. PICK w \in AnyWrite : Emit(content, w) BY <1>2
<1>5. head' \in Nat
  <2>1. head \in Nat BY <1>1 DEF LogInv
  <2>2. head' = head + 1 BY <1>1, <1>4, EmitLines
  <2> QED BY <2>1, <2>2
<1>6. /\ bound' \in [Calls -> [Artifacts -> Nat]] /\ \A d \in Calls \ {c} : bound'[d] = bound[d]
      /\ bound'[c]["complete"] \in {bound[c]["complete"], head'}
  BY <1>1, <1>3, <1>5 DEF Artifacts
<1>7. GateTypes' BY <1>1, <1>6 DEF GateTypes
<1>8. \A d \in Calls \ {c} : SameCall(d) BY <1>1, <1>6 DEF SameCall, GateTypes
<1>9. BodyInv(c)' BY <1>1 DEF BodyInv, Unseen, GateTypes, Before, After, Unrun, Decided
<1>10. stage[c] \notin Before /\ stage'[c] \notin Before BY <1>1 DEF Before, GateTypes
<1> QED BY <1>2, <1>4, <1>6, <1>7, <1>8, <1>9, <1>10, LoudStep

LEMMA BindVisibleStep ==
  ASSUME IInv, NEW c \in Calls, BindVisible(c)
  PROVE  Acts(c)
<1> USE DEF BindVisible, Goto, sharedVars
<1>1. BodyInv(c) /\ GateTypes /\ LogInv /\ bound \in [Calls -> [Artifacts -> Nat]]
  BY DEF IInv, GateTypes
<1>2. PICK content : content.event # "action" /\ \E w \in AnyWrite : Emit(content, w)
  BY BindingContent DEF Artifacts
<1>3. bound' = bound \/ bound' = [bound EXCEPT ![c]["visible"] = head']
  BY BindingContent DEF Artifacts
<1>4. PICK w \in AnyWrite : Emit(content, w) BY <1>2
<1>5. head' \in Nat
  <2>1. head \in Nat BY <1>1 DEF LogInv
  <2>2. head' = head + 1 BY <1>1, <1>4, EmitLines
  <2> QED BY <2>1, <2>2
<1>6. /\ bound' \in [Calls -> [Artifacts -> Nat]] /\ \A d \in Calls \ {c} : bound'[d] = bound[d]
      /\ bound'[c]["complete"] = bound[c]["complete"]
  BY <1>1, <1>3, <1>5 DEF Artifacts
<1>7. GateTypes' BY <1>1, <1>6 DEF GateTypes
<1>8. \A d \in Calls \ {c} : SameCall(d) BY <1>1, <1>6 DEF SameCall, GateTypes
<1>9. BodyInv(c)' BY <1>1 DEF BodyInv, Unseen, GateTypes, Before, After, Unrun, Decided
<1>10. stage'[c] \notin Before BY <1>1 DEF Before, GateTypes
<1> QED BY <1>2, <1>4, <1>6, <1>7, <1>8, <1>9, <1>10, LoudStep

LEMMA RecordStep ==
  ASSUME IInv, NEW c \in Calls, Record(c)
  PROVE  Acts(c)
<1> USE DEF Record, Goto, sharedVars
<1>1. BodyInv(c) /\ EntryInv(c) /\ GateTypes /\ LogInv /\ head \in Nat /\ stage[c] \in Before
  BY DEF IInv, LogInv, Before
<1> DEFINE content == [event |-> "action", call |-> c, outcome |-> outcome[c]]
<1>2. PICK w \in AnyWrite : /\ Emit(content, w)
                            /\ IF w = "whole"
                               THEN /\ action' = [action EXCEPT ![c] = head']
                                    /\ stage' = [stage EXCEPT ![c] = "standardize"]
                               ELSE /\ action' = action
                                    /\ stage' = [stage EXCEPT ![c] = "raised"]
  BY WritesAreKnown
<1>3. content.event = "action" /\ content.call = c OBVIOUS
<1>4. w = "whole" => \E i \in 1 .. Len(lines') :
                       Events(c, "action")' = {i} /\ lines'[i].entry.what.outcome = outcome[c]
  BY <1>1, <1>2, EmitAction DEF EntryInv
<1> HIDE DEF content
<1>5. Onward BY <1>2, SharedLog
<1>6. head' = head + 1 BY <1>1, <1>2, EmitLines
<1>7. \A d \in Calls \ {c} : Events(d, "action")' = Events(d, "action")
  BY <1>1, <1>2, <1>3, EmitOther
<1>8. GateTypes' BY <1>1, <1>2, <1>6 DEF GateTypes
<1>9. \A d \in Calls \ {c} : SameCall(d) BY <1>1, <1>2 DEF SameCall, GateTypes
<1>10. stage'[c] \in After \ Before BY <1>1, <1>2 DEF GateTypes, After, Before
<1>11. BodyInv(c)'
  BY <1>1, <1>2 DEF BodyInv, Unseen, GateTypes, Before, After, Unrun, Decided
<1>12. outcome[c] = "refused_by_oversight" <=> body[c] = "none" BY <1>1 DEF BodyInv, Decided
<1>13. w = "whole" => HasEntry(c)' BY <1>4, <1>12 DEF HasEntry
<1>14. action'[c] = IF w = "whole" THEN head' ELSE 0
  BY <1>1, <1>2 DEF GateTypes, EntryInv
<1>15. EntryInv(c)' BY <1>1, <1>6, <1>10, <1>13, <1>14 DEF EntryInv
<1> QED BY <1>5, <1>7, <1>8, <1>9, <1>11, <1>15 DEF Acts

-----------------------------------------------------------------------------
(* The invariant. *)

LEMMA InitInv == Init => IInv
<1> SUFFICES ASSUME Init PROVE IInv
  OBVIOUS
<1> DEFINE open == [entry |-> [what |-> [event |-> "case_open"], seq |-> 0, prev |-> Genesis],
                    write |-> "whole"]
<1>1. lines = <<open>> BY DEF Init, LogInit
<1>2. open.write = "whole" /\ open.entry.seq = 0 /\ open.entry.prev = 0 BY DEF Genesis
<1>3. open.entry.what.event = "case_open" OBVIOUS
<1> HIDE DEF open
<1>4. head = 1 /\ seq = 1 /\ legible = <<1>> BY DEF Init, LogInit
<1>5. /\ IsSequence(lines) /\ Len(lines) = 1 /\ DOMAIN lines = 1 .. 1 /\ lines[1] = open
  <2>1. <<open>> \in Seq({open}) /\ Len(<<open>>) = 1 /\ DOMAIN <<open>> = 1 .. 1 /\ <<open>>[1] = open
    OBVIOUS
  <2> QED BY <1>1, <2>1 DEF IsSequence
<1>6. \A i \in 1 .. 1 : i = 1 OBVIOUS
<1>7. LinesInv(lines, seq) BY <1>2, <1>4, <1>5, <1>6 DEF LinesInv
<1>8. LegibleInv(legible, lines)
  <2>1. <<1>> \in Seq(Nat) /\ Len(<<1>>) = 1 /\ DOMAIN <<1>> = 1 .. 1 /\ <<1>>[1] = 1 OBVIOUS
  <2> QED BY <1>4, <1>5, <1>6, <2>1 DEF LegibleInv
<1>9. LogInv BY <1>4, <1>5, <1>7, <1>8 DEF LogInv
<1>10. GateTypes BY DEF Init, GateTypes, Traces
<1>11. ASSUME NEW c \in Calls PROVE BodyInv(c) /\ EntryInv(c)
  <2>1. BodyInv(c) BY DEF Init, BodyInv, Unseen, Before, After, Unrun, Decided
  <2>2. Events(c, "action") = {}
    <3>1. \A i \in 1 .. Len(lines) : lines[i].entry.what.event # "action" BY <1>3, <1>5, <1>6
    <3> QED BY <3>1 DEF Events
  <2>3. bound[c]["complete"] = 0 /\ action[c] = 0 BY DEF Init, Artifacts
  <2>4. EntryInv(c) BY <1>4, <2>2, <2>3 DEF EntryInv
  <2> QED BY <2>1, <2>4
<1> QED BY <1>9, <1>10, <1>11 DEF IInv

LEMMA ThreadStep ==
  ASSUME IInv, NEW c \in Calls, Thread(c)
  PROVE  Acts(c)
  BY StartStep, ResolveStep, RefuseUnproducedStep, PreCheckStep, AlarmStep, JudgeStep,
     CheckArgumentsStep, RunBodyStep, PostCheckStep, SettleStep, RecordStep, StandardizeStep,
     BindStep, BindVisibleStep, SidecarStep
  DEF Thread

\* A step that is about no call.
LEMMA NoCall ==
  ASSUME IInv, Onward, GateTypes', \A d \in Calls : SameCall(d),
         \A d \in Calls : Events(d, "action")' = Events(d, "action")
  PROVE  IInv'
  BY OtherCall DEF IInv, Onward

LEMMA InvStep == IInv /\ [Next]_vars => IInv'
<1> SUFFICES ASSUME IInv, [Next]_vars PROVE IInv'
  OBVIOUS
<1>1. GateTypes /\ LogInv BY DEF IInv
<1>2. CASE SourceChanges
  <2> USE <1>2 DEF SourceChanges, callVars
  <2>1. Onward BY <1>1, QuietLog DEF Onward, LogInv, IsSequence, Traces
  <2>2. GateTypes' BY <1>1 DEF GateTypes, Traces
  <2>3. \A d \in Calls : SameCall(d) BY DEF SameCall
  <2> QED BY <2>1, <2>2, <2>3, NoCall, QuietLog
<1>3. CASE CloseCase
  <2> USE <1>3 DEF CloseCase, callVars
  <2> DEFINE content == [event |-> "case_close"]
  <2>1. PICK w \in AnyWrite : Emit(content, w) BY WritesAreKnown
  <2>2. content.event # "action" OBVIOUS
  <2> HIDE DEF content
  <2>3. Onward BY <2>1, SharedLog
  <2>4. GateTypes' BY <1>1 DEF GateTypes
  <2>5. \A d \in Calls : SameCall(d) BY DEF SameCall
  <2>6. \A d \in Calls : Events(d, "action")' = Events(d, "action") BY <1>1, <2>1, <2>2, EmitOther
  <2> QED BY <2>3, <2>4, <2>5, <2>6, NoCall
<1>4. CASE \E c \in Calls : Thread(c) BY <1>4, ThreadStep, OneCall
<1>5. CASE UNCHANGED vars
  <2> USE <1>5 DEF vars, sharedVars, callVars
  <2>1. Onward BY SharedLog
  <2>2. GateTypes' BY <1>1 DEF GateTypes
  <2>3. \A d \in Calls : SameCall(d) BY DEF SameCall
  <2> QED BY <2>1, <2>2, <2>3, NoCall, QuietLog
<1> QED BY <1>2, <1>3, <1>4, <1>5 DEF Next, Done

\* Every reachable state of the gate satisfies the inductive invariant: what a body left and
\* what enforce decided agree with the stage of the call, and the log has of each call
\* nothing before its turn and one entry from then on.
THEOREM Invariance == Spec => []IInv
  BY InitInv, InvStep, PTL DEF Spec

-----------------------------------------------------------------------------
(* What the log says of the calls. *)

\* The property OneTrueEntry: a call that came back through enforce has exactly one action
\* entry, which says refused by oversight if and only if the tool body was never entered,
\* however many threads share the guard, the policy and the memory of failed calls.
THEOREM OneTrueEntryPerCall == Spec => []OneTrueEntry
<1>1. IInv => OneTrueEntry BY DEF IInv, EntryInv, HasEntry, OneTrueEntry
<1> QED BY <1>1, Invariance, PTL

\* The property GuardedAnswersShowNoTrace: in a run with a guard no output that is
\* standardized as executed or as the tool's own refusal was read from evidence whose metadata
\* already showed a change, although guard.check and the read are three separate steps.
THEOREM AnswersShowNoTrace == Spec => []GuardedAnswersShowNoTrace
<1>1. IInv => GuardedAnswersShowNoTrace BY DEF IInv, BodyInv, GuardedAnswersShowNoTrace
<1> QED BY <1>1, Invariance, PTL

\* The property AdmittedRestsOnTheLog: a result that result_is_admissible accepts descends
\* from an executed and fully retained reading, of evidence that showed no change if there is
\* a guard, whose entry precedes its binding on the log.
THEOREM AdmissionRestsOnTheLog == Spec => []AdmittedRestsOnTheLog
<1>1. IInv => AdmittedRestsOnTheLog
  BY DEF IInv, BodyInv, EntryInv, AdmittedRestsOnTheLog, Admissible
<1> QED BY <1>1, Invariance, PTL

\* The property StableFailuresAreNotRetried: once an entry says that a tool refused a call
\* deterministically, evaluate never lets an identical call that is judged later through to
\* the tool: the memory of failed calls is written before the entry is.
THEOREM NoStableFailureIsRetried == Spec => StableFailuresAreNotRetried
<1>1. ASSUME IInv, [Next]_vars, NEW c \in Calls, NEW d \in Calls,
             asked[c] = asked[d], action[d] # 0, outcome[d] = "refused_by_tool",
             stage[c] = "policy"
      PROVE  stage'[c] # "contract"
  <2>1. asked[c] \in failedCalls BY <1>1 DEF IInv, BodyInv
  <2>2. stage[c] = "policy" /\ DOMAIN stage = Calls BY <1>1 DEF IInv, GateTypes
  <2>3. CASE SourceChanges BY <2>2, <2>3 DEF SourceChanges
  <2>4. CASE CloseCase BY <2>2, <2>4 DEF CloseCase
  <2>5. ASSUME NEW b \in Calls, Thread(b) PROVE stage'[c] # "contract"
    <3>1. CASE b = c
      <4>1. Judge(c)
        BY <2>2, <2>5, <3>1 DEF Thread, Start, Resolve, RefuseUnproduced, PreCheck, Alarm,
           CheckArguments, RunBody, PostCheck, Settle, Record, Standardize, Bind, BindVisible,
           Sidecar
      <4> QED BY <2>1, <2>2, <4>1 DEF Judge, Repeated, Goto
    <3>2. CASE b # c
      <4>1. SameCall(c) BY <1>1, <2>5, <3>2, ThreadStep DEF Acts
      <4> QED BY <2>2, <4>1 DEF SameCall
    <3> QED BY <3>1, <3>2
  <2>6. CASE UNCHANGED vars BY <2>2, <2>6 DEF vars
  <2> QED BY <1>1, <2>3, <2>4, <2>5, <2>6 DEF Next, Done
<1>2. IInv /\ [Next]_vars =>
        [\A c, d \in Calls :
           (/\ asked[c] = asked[d] /\ action[d] # 0 /\ outcome[d] = "refused_by_tool"
            /\ stage[c] = "policy")
             => stage'[c] # "contract"]_vars
  BY <1>1
<1> QED BY <1>2, Invariance, PTL DEF StableFailuresAreNotRetried, Spec

-----------------------------------------------------------------------------
(* What a reading is served from. *)

\* A call that has left enforce for good, with its output and its entry.
Ran(p) ==
  /\ p \in Calls /\ stage[p] \in After
  /\ outcome[p] = "executed" /\ captured[p] /\ action[p] # 0

\* The same after a step, of a call named before it.
StillRan(p) ==
  /\ p \in Calls /\ stage'[p] \in After
  /\ outcome'[p] = "executed" /\ captured'[p] /\ action'[p] # 0

\* What a call was served from went before it.
Descends(c) ==
  /\ stage[c] = "standardize" => action[c] # 0
  /\ parent[c] # None =>
       /\ Ran(parent[c]) /\ parent[c] # c
       /\ action[c] # 0 => action[parent[c]] < action[c]

ParentsInv ==
  /\ producer # None => Ran(producer)
  /\ \A c \in Calls : Descends(c)

\* Once a call is past its entry what it was recorded with stays.
LEMMA PastItsEntry ==
  ASSUME IInv, NEW c \in Calls, Thread(c), stage[c] \in After
  PROVE  /\ stage'[c] \in After /\ stage'[c] # "standardize"
         /\ outcome'[c] = outcome[c] /\ captured'[c] = captured[c] /\ action'[c] = action[c]
         /\ parent'[c] = parent[c]
         /\ producer' = producer \/ (producer' = c /\ stage[c] = "standardize"
                                     /\ outcome[c] = "executed" /\ captured[c])
<1>1. GateTypes BY DEF IInv
<1>2. Standardize(c) \/ Bind(c) \/ BindVisible(c) \/ Sidecar(c)
  BY DEF After, Thread, Start, Resolve, RefuseUnproduced, PreCheck, Alarm, Judge, CheckArguments,
     RunBody, PostCheck, Settle, Record
<1>3. CASE Standardize(c)
  BY <1>1, <1>3 DEF Standardize, Registers, Goto, GateTypes, After
<1>4. CASE Bind(c) BY <1>1, <1>4 DEF Bind, Goto, GateTypes, After, sharedVars
<1>5. CASE BindVisible(c) BY <1>1, <1>5 DEF BindVisible, Goto, GateTypes, After, sharedVars
<1>6. CASE Sidecar(c) BY <1>1, <1>6 DEF Sidecar, Goto, GateTypes, After, sharedVars, callVars
<1> QED BY <1>2, <1>3, <1>4, <1>5, <1>6

\* Before, it registers nothing; it may look its parent up, and then it may get its entry.
LEMMA BeforeItsEntry ==
  ASSUME IInv, NEW c \in Calls, Thread(c), stage[c] \notin After
  PROVE  /\ producer' = producer
         /\ \/ action'[c] = action[c] /\ parent'[c] = producer /\ stage'[c] # "standardize"
            \/ action'[c] = action[c] /\ parent'[c] = parent[c] /\ stage'[c] # "standardize"
            \/ action'[c] = head + 1 /\ parent'[c] = parent[c]
<1>1. GateTypes /\ LogInv BY DEF IInv
<1>2. CASE Start(c) BY <1>1, <1>2 DEF Start, Goto, GateTypes, sharedVars
<1>3. CASE Resolve(c) BY <1>1, <1>3 DEF Resolve, Goto, GateTypes, sharedVars
<1>4. CASE RefuseUnproduced(c) BY <1>1, <1>4 DEF RefuseUnproduced, Goto, GateTypes, sharedVars
<1>5. CASE PreCheck(c) BY <1>1, <1>5 DEF PreCheck, Goto, GateTypes
<1>6. CASE Alarm(c) BY <1>1, <1>6 DEF Alarm, Goto, GateTypes, sharedVars, callVars
<1>7. CASE Judge(c) BY <1>1, <1>7 DEF Judge, Goto, GateTypes, sharedVars
<1>8. CASE CheckArguments(c) BY <1>1, <1>8 DEF CheckArguments, Goto, GateTypes
<1>9. CASE RunBody(c) BY <1>1, <1>9 DEF RunBody, Goto, GateTypes, sharedVars
<1>10. CASE PostCheck(c) BY <1>1, <1>10 DEF PostCheck, Goto, GateTypes
<1>11. CASE Settle(c) BY <1>1, <1>11 DEF Settle, Goto, GateTypes
<1>12. CASE Record(c)
  <2>1. PICK w \in AnyWrite :
          /\ Emit([event |-> "action", call |-> c, outcome |-> outcome[c]], w)
          /\ IF w = "whole"
             THEN /\ action' = [action EXCEPT ![c] = head']
                  /\ stage' = [stage EXCEPT ![c] = "standardize"]
             ELSE /\ action' = action
                  /\ stage' = [stage EXCEPT ![c] = "raised"]
    BY <1>12, WritesAreKnown DEF Record, Goto
  <2>2. head' = head + 1 BY <1>1, <2>1, EmitLines
  <2>3. parent' = parent /\ producer' = producer BY <1>12 DEF Record, sharedVars
  <2> QED BY <1>1, <2>1, <2>2, <2>3 DEF GateTypes
<1>13. ~(Standardize(c) \/ Bind(c) \/ BindVisible(c) \/ Sidecar(c))
  BY DEF After, Standardize, Bind, BindVisible, Sidecar
<1> QED BY <1>2, <1>3, <1>4, <1>5, <1>6, <1>7, <1>8, <1>9, <1>10, <1>11, <1>12, <1>13 DEF Thread

LEMMA ParentsStay ==
  ASSUME IInv, ParentsInv, NEW c \in Calls, Thread(c)
  PROVE  ParentsInv'
<1>1. /\ \A d \in Calls \ {c} : SameCall(d)
      /\ \A d \in Calls : action[d] \in Nat /\ action[d] <= head
      /\ head \in Nat
  BY ThreadStep DEF Acts, IInv, GateTypes, EntryInv, LogInv
<1>2. \A p : Ran(p) => StillRan(p) /\ action'[p] = action[p]
  <2> SUFFICES ASSUME NEW p, Ran(p) PROVE StillRan(p) /\ action'[p] = action[p]
    OBVIOUS
  <2>1. CASE p = c BY <2>1, PastItsEntry DEF Ran, StillRan
  <2>2. CASE p # c BY <1>1, <2>2 DEF Ran, StillRan, SameCall
  <2> QED BY <2>1, <2>2
<1>3. ASSUME NEW d \in Calls, parent'[d] = parent[d], action'[d] = action[d],
             stage'[d] = "standardize" => stage[d] = "standardize"
      PROVE  Descends(d)'
  <2>1. Descends(d) BY DEF ParentsInv
  <2>2. parent[d] # None => StillRan(parent[d]) /\ action'[parent[d]] = action[parent[d]]
    BY <1>2, <2>1 DEF Descends
  <2> QED BY <1>3, <2>1, <2>2 DEF Descends, Ran, StillRan
<1>4. \A d \in Calls \ {c} : Descends(d)' BY <1>1, <1>3 DEF SameCall
<1>5. CASE stage[c] \in After
  <2>1. Descends(c)' BY <1>3, <1>5, PastItsEntry
  <2>2. producer' # None => StillRan(producer')
    <3>1. CASE producer' = producer BY <1>2, <3>1 DEF ParentsInv
    <3>2. CASE producer' # producer
      <4>1. producer' = c /\ Ran(c)
        BY <1>5, <3>2, PastItsEntry DEF Ran, ParentsInv, Descends
      <4> QED BY <1>2, <4>1
    <3> QED BY <3>1, <3>2
  <2>3. (producer # None => Ran(producer))' BY <2>2 DEF Ran, StillRan
  <2> QED BY <1>4, <2>1, <2>3 DEF ParentsInv
<1>6. CASE stage[c] \notin After
  <2>1. producer' = producer BY <1>6, BeforeItsEntry
  <2>2. producer # None => StillRan(producer) /\ producer # c
    BY <1>2, <1>6 DEF ParentsInv, Ran
  <2>3. action[c] = 0 BY <1>6 DEF IInv, BodyInv, EntryInv
  <2>4. parent[c] # None =>
          /\ StillRan(parent[c]) /\ parent[c] # c /\ action'[parent[c]] = action[parent[c]]
          /\ action[parent[c]] <= head /\ action[parent[c]] \in Nat
    BY <1>1, <1>2 DEF ParentsInv, Descends, Ran
  <2>5. Descends(c)'
    <3>1. CASE action'[c] = action[c] /\ parent'[c] = producer /\ stage'[c] # "standardize"
      BY <2>2, <2>3, <3>1 DEF Descends, Ran, StillRan
    <3>2. CASE action'[c] = action[c] /\ parent'[c] = parent[c] /\ stage'[c] # "standardize"
      BY <2>3, <2>4, <3>2 DEF Descends, Ran, StillRan
    <3>3. CASE action'[c] = head + 1 /\ parent'[c] = parent[c]
      BY <1>1, <2>4, <3>3 DEF Descends, Ran, StillRan
    <3> QED BY <1>6, <3>1, <3>2, <3>3, BeforeItsEntry
  <2>6. (producer # None => Ran(producer))' BY <2>1, <2>2 DEF Ran, StillRan
  <2> QED BY <1>4, <2>5, <2>6 DEF ParentsInv
<1> QED BY <1>5, <1>6

LEMMA ParentsStep == IInv /\ ParentsInv /\ [Next]_vars => ParentsInv'
<1> SUFFICES ASSUME IInv, ParentsInv, [Next]_vars PROVE ParentsInv'
  OBVIOUS
<1>1. CASE SourceChanges
  BY <1>1 DEF SourceChanges, callVars, ParentsInv, Descends, Ran
<1>2. CASE CloseCase
  BY <1>2 DEF CloseCase, callVars, ParentsInv, Descends, Ran
<1>3. CASE \E c \in Calls : Thread(c) BY <1>3, ParentsStay
<1>4. CASE UNCHANGED vars
  BY <1>4 DEF vars, sharedVars, callVars, ParentsInv, Descends, Ran
<1> QED BY <1>1, <1>2, <1>3, <1>4 DEF Next, Done

\* The property ServedFromARecordedCall: what a reading is served from was written by another
\* call, which executed, was retained completely and is on the log before the reading; and
\* where validate_result_input accepts it, it was bound after its entry.
THEOREM ReadingsDescendFromRecordedCalls == Spec => []ServedFromARecordedCall
<1>1. Init => ParentsInv BY DEF Init, ParentsInv, Descends
<1>2. IInv /\ ParentsInv => ServedFromARecordedCall
  <2> SUFFICES ASSUME IInv, ParentsInv, NEW c \in Calls, parent[c] # None
               PROVE  LET p == parent[c] IN
                      /\ p # c /\ outcome[p] = "executed" /\ captured[p] /\ Unseen(p)
                      /\ action[p] # 0 /\ (action[c] # 0 => action[p] < action[c])
                      /\ ParentResolves(c) => action[p] < bound[p]["complete"]
    BY DEF ServedFromARecordedCall
  <2>1. /\ Ran(parent[c]) /\ parent[c] # c
        /\ action[c] # 0 => action[parent[c]] < action[c]
    BY DEF ParentsInv, Descends
  <2>2. PICK p \in Calls : p = parent[c] BY <2>1 DEF Ran
  <2>3. BodyInv(p) /\ EntryInv(p) BY DEF IInv
  <2>4. Unseen(p) BY <2>1, <2>2, <2>3 DEF BodyInv, Ran
  <2>5. ParentResolves(c) => action[p] < bound[p]["complete"]
    BY <2>2, <2>3 DEF ParentResolves, EntryInv
  <2> QED BY <2>1, <2>2, <2>4, <2>5 DEF Ran
<1> QED BY <1>1, <1>2, ParentsStep, Invariance, PTL DEF Spec

-----------------------------------------------------------------------------
(* The chain. *)

\* The property ChainVerifies: as long as every append succeeded, verify_chain accepts the
\* file, whatever the threads interleave.
THEOREM TheChainVerifies == Spec => []ChainVerifies
<1>1. ASSUME LogInv, Failed = 0 PROVE Verify(Load)
  <2>1. PICK n \in Nat : n = Len(lines) BY <1>1 DEF LogInv, IsSequence
  <2>2. DOMAIN lines = 1 .. n BY <1>1, <2>1 DEF LogInv, IsSequence
  <2>3. Torn \subseteq 1 .. n BY <2>2 DEF Torn
  <2>4. IsFiniteSet(Torn) /\ Cardinality(Torn) \in Nat
    <3>1. 1 \in Int /\ n \in Int BY <2>1
    <3>2. IsFiniteSet(1 .. n) BY <3>1, FS_Interval
    <3>3. IsFiniteSet(Torn) BY <2>3, <3>2, FS_Subset
    <3> QED BY <3>3, FS_CardinalityType
  <2>5. seq \in Nat /\ n <= seq /\ seq - n + Cardinality(Torn) = 0 BY <1>1, <2>1 DEF LogInv, Failed
  <2>6. n = seq /\ Cardinality(Torn) = 0 BY <2>1, <2>4, <2>5
  <2>7. Torn = {} BY <2>4, <2>6, FS_EmptySet
  <2>8. \A i \in 1 .. n : lines[i].write = "whole"
    BY <1>1, <2>2, <2>7 DEF LogInv, LinesInv, Torn
  <2>9. legible \in Seq(Nat) /\ Len(legible) = n /\ \A i \in 1 .. n : legible[i] = i
    BY <1>1, <2>1, <2>2, <2>8 DEF LogInv, LegibleInv
  <2>10. DOMAIN legible = 1 .. n BY <2>9
  <2>11. Load = [k \in 1 .. n |-> lines[k].entry] BY <2>9, <2>10 DEF Load
  <2>12. Len(Load) = n BY <2>1, <2>11
  <2>13. \A i \in 1 .. n : Load[i].prev = i - 1 /\ Load[i].seq = i - 1
    <3>1. \A i \in 1 .. n : lines[i].entry.prev = lines[i].entry.seq /\ lines[i].entry.seq = i - 1
      BY <1>1, <2>1, <2>2, <2>6 DEF LogInv, LinesInv
    <3> QED BY <2>11, <3>1
  <2>14. ASSUME NEW i \in 1 .. n
         PROVE  Load[i].prev = IF i = 1 THEN Genesis ELSE Digest(Load[i - 1])
    <3>1. CASE i = 1 BY <2>13, <3>1 DEF Genesis
    <3>2. CASE i # 1
      <4>1. i - 1 \in 1 .. n BY <2>1, <3>2
      <4>2. Load[i - 1].seq = (i - 1) - 1 /\ Load[i].prev = i - 1 BY <2>13, <4>1
      <4> QED BY <2>1, <3>2, <4>2 DEF Digest
    <3> QED BY <3>1, <3>2
  <2> QED BY <2>12, <2>14 DEF Verify
<1>2. IInv => ChainVerifies BY <1>1 DEF IInv, ChainVerifies
<1> QED BY <1>2, Invariance, PTL

\* One append leaves what a reader is given, or extends it by one entry at its end.
LEMMA AppendsOnly ==
  ASSUME LogInv, NEW content, NEW w \in AnyWrite, Emit(content, w)
  PROVE  Load' = Load \/ Trace!Record
<1>1. PICK n \in Nat : n = Len(lines) BY EmitLines
<1>2. DOMAIN lines = 1 .. n /\ \A i \in 1 .. n : lines'[i] = lines[i] BY <1>1, EmitLines
<1>3. legible \in Seq(Nat) /\ \A k \in DOMAIN legible : legible[k] \in 1 .. n
  BY <1>2 DEF LogInv, LegibleInv
<1>4. CASE legible' = legible
  <2>1. \A k \in DOMAIN legible : lines'[legible[k]] = lines[legible[k]] BY <1>2, <1>3
  <2> QED BY <1>4, <2>1 DEF Load
<1>5. CASE legible' # legible
  <2>1. legible' = Append(legible, Len(lines')) BY <1>5 DEF Emit
  <2>2. w # "lost" BY <1>5 DEF Emit
  <2>3. Len(lines') = n + 1 BY <1>1, <2>2, EmitLines
  <2>4. PICK m \in Nat : m = Len(legible) /\ DOMAIN legible = 1 .. m BY <1>3
  <2>5. /\ DOMAIN legible' = 1 .. m + 1 /\ \A k \in 1 .. m : legible'[k] = legible[k]
    BY <1>3, <2>1, <2>3, <2>4, Appended
  <2>6. Load = [k \in 1 .. m |-> lines[legible[k]].entry] BY <2>4 DEF Load
  <2>7. Load' = [k \in 1 .. m + 1 |-> lines'[legible'[k]].entry] BY <2>5 DEF Load
  <2>8. Len(Load) = m /\ Len(Load') = m + 1 BY <2>6, <2>7
  <2>9. \A k \in 1 .. m : Load'[k] = Load[k] BY <1>2, <1>3, <2>4, <2>5, <2>6, <2>7
  <2>10. SubSeq(Load', 1, m) = [k \in 1 .. m |-> Load'[k]] BY <2>8
  <2>11. SubSeq(Load', 1, m) = Load
    <3>1. [k \in 1 .. m |-> Load'[k]] = [k \in 1 .. m |-> Load[k]] BY <2>9
    <3>2. [k \in 1 .. m |-> Load[k]] = Load BY <2>6
    <3> QED BY <2>10, <3>1, <3>2
  <2> QED BY <2>8, <2>11 DEF Trace!Record
<1> QED BY <1>4, <1>5

\* The property TraceOnlyGrows: the log implements the append-only trace.  Whatever becomes of
\* a write, what load gives a reader keeps its entries in their order and is only extended at
\* its end, one entry at a time.
THEOREM LogIsAnAppendOnlyTrace == Spec => TraceOnlyGrows
<1>1. Init => Trace!Init
  <2> SUFFICES ASSUME Init PROVE Trace!Init
    OBVIOUS
  <2>1. legible = <<1>> BY DEF Init, LogInit
  <2>2. DOMAIN legible = 1 .. 1 BY <2>1
  <2>3. Load = [k \in 1 .. 1 |-> lines[legible[k]].entry] BY <2>2 DEF Load
  <2>4. Len(Load) = 1 BY <2>3
  <2> QED BY <2>4 DEF Trace!Init
<1>2. IInv /\ [Next]_vars => [Trace!Record]_Load
  <2> SUFFICES ASSUME IInv, [Next]_vars PROVE Load' = Load \/ Trace!Record
    OBVIOUS
  <2>1. LogInv BY DEF IInv
  <2>2. CASE UNCHANGED logVars BY <2>1, <2>2, SameLog
  <2>3. ASSUME NEW content, NEW w \in Writes, Emit(content, w) PROVE Load' = Load \/ Trace!Record
    BY <2>1, <2>3, WritesAreKnown, AppendsOnly
  <2>4. UNCHANGED logVars \/ \E content : \E w \in Writes : Emit(content, w)
    <3>1. CASE SourceChanges BY <3>1 DEF SourceChanges
    <3>2. CASE CloseCase BY <3>2 DEF CloseCase
    <3>3. ASSUME NEW c \in Calls, Thread(c)
          PROVE  UNCHANGED logVars \/ \E content : \E w \in Writes : Emit(content, w)
      <4>1. CASE Start(c) \/ Resolve(c) \/ PreCheck(c) \/ Judge(c) \/ CheckArguments(c)
                 \/ RunBody(c) \/ PostCheck(c) \/ Settle(c) \/ Standardize(c)
        BY <4>1 DEF Start, Resolve, PreCheck, Judge, CheckArguments, RunBody, PostCheck, Settle,
           Standardize
      <4>2. CASE RefuseUnproduced(c) BY <4>2 DEF RefuseUnproduced
      <4>3. CASE Alarm(c) BY <4>3 DEF Alarm
      <4>4. CASE Record(c) BY <4>4 DEF Record
      <4>5. CASE Bind(c) BY <4>5 DEF Bind, BindArtifact
      <4>6. CASE BindVisible(c) BY <4>6 DEF BindVisible, BindArtifact
      <4>7. CASE Sidecar(c) BY <4>7 DEF Sidecar
      <4> QED BY <3>3, <4>1, <4>2, <4>3, <4>4, <4>5, <4>6, <4>7 DEF Thread
    <3>4. CASE UNCHANGED vars BY <3>4 DEF vars
    <3> QED BY <3>1, <3>2, <3>3, <3>4 DEF Next, Done
  <2> QED BY <2>2, <2>3, <2>4
<1> QED BY <1>1, <1>2, Invariance, PTL DEF TraceOnlyGrows, Trace!Spec, Spec
=============================================================================
