---------------------------- MODULE MeteredCell ----------------------------
(***************************************************************************)
(* What an investigation cell is promised of its tool calls, whatever      *)
(* threads serve them: a call is settled once, by its own permit or by an  *)
(* identical call that was settled before it; never more calls hold a      *)
(* permit than the ceiling of their kind; none gets one after the stop;    *)
(* none is denied one for any other reason.                                *)
(***************************************************************************)
EXTENDS Naturals, FiniteSets

CONSTANTS
  Calls, Signatures, NavSignatures,
  MaxToolCalls, MaxNavigationCalls,
  None

VARIABLES
  asked,    \* what each call asks, None before it does
  call,     \* what became of each call
  stopped   \* the operator cancelled, or the time is over

InFlight == {"pending", "permitted"}
Settled  == {"answered", "refused", "repeated", "denied", "lost"}

\* A refused call has handed its permit back; one that raised or came too late has not.
Holding == {"permitted", "answered", "lost"}

Init ==
  /\ asked = [c \in Calls |-> None]
  /\ call = [c \in Calls |-> "unasked"]
  /\ stopped = FALSE

Becomes(c, state) ==
  /\ call' = [call EXCEPT ![c] = state]
  /\ UNCHANGED <<asked, stopped>>

\* A batch is asked when the one before it is settled.
Ask(batch) ==
  /\ \A c \in Calls : call[c] \notin InFlight
  /\ \A c \in batch : call[c] = "unasked"
  /\ call' = [c \in Calls |-> IF c \in batch THEN "pending" ELSE call[c]]
  /\ \E wants \in [batch -> Signatures] :
       asked' = [c \in Calls |-> IF c \in batch THEN wants[c] ELSE asked[c]]
  /\ UNCHANGED stopped

Stop == stopped' = TRUE /\ UNCHANGED <<asked, call>>

Navigates(c) == asked[c] \in NavSignatures
Ceiling(c)   == IF Navigates(c) THEN MaxNavigationCalls ELSE MaxToolCalls
Holders(c)   == {d \in Calls : call[d] \in Holding /\ Navigates(d) = Navigates(c)}
RoomFor(c)   == Cardinality(Holders(c)) < Ceiling(c)

Permit(c) ==
  /\ call[c] = "pending"
  /\ ~stopped /\ RoomFor(c)
  /\ Becomes(c, "permitted")

Deny(c) ==
  /\ call[c] = "pending"
  /\ stopped \/ ~RoomFor(c)
  /\ Becomes(c, "denied")

\* A page is never repeated: reading on is a new page.
Repeat(c) ==
  /\ call[c] = "pending" /\ ~Navigates(c)
  /\ \E d \in Calls : asked[d] = asked[c] /\ call[d] \in {"answered", "refused"}
  /\ Becomes(c, "repeated")

Finish(c) ==
  /\ call[c] = "permitted"
  /\ \/ Becomes(c, "answered")
     \/ ~Navigates(c) /\ Becomes(c, "refused")
     \/ Becomes(c, "lost")

Next ==
  \/ \E batch \in SUBSET Calls : Ask(batch)
  \/ Stop
  \/ \E c \in Calls : Permit(c) \/ Deny(c) \/ Repeat(c) \/ Finish(c)

Spec == Init /\ [][Next]_<<asked, call, stopped>>
=============================================================================
