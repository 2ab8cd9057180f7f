--------------------------- MODULE StoppableTools ---------------------------
(***************************************************************************)
(* What a run and its operator are promised of the external tools the run  *)
(* starts: every one of them comes to an end that is told truly, and none  *)
(* is started in answer to one that was stopped.                           *)
(***************************************************************************)
CONSTANT Calls   \* the calls of a run that start an external tool

VARIABLE tool    \* what became of the tool of each call

InFlight == {"granted", "runs", "stopping"}
Ends     == {"refused", "done", "failed", "timed out", "stopped"}

Init == tool = [c \in Calls |-> "none"]

Becomes(c, outcomes) == \E o \in outcomes : tool' = [tool EXCEPT ![c] = o]

\* The run is allowed the call; after the first stop it is allowed no other.
Grant(c) ==
  /\ tool[c] = "none"
  /\ \A d \in Calls : tool[d] \notin {"stopping", "stopped"}
  /\ Becomes(c, {"granted"})

\* The tool starts, or there is no time for it, or it cannot be started.
Start(c) ==
  /\ tool[c] = "granted"
  /\ Becomes(c, {"runs", "refused", "failed"})

Stop(c) ==
  /\ tool[c] = "runs"
  /\ Becomes(c, {"stopping"})

\* A tool that was stopped is never reported as one that failed, or finished.
End(c) ==
  \/ tool[c] = "runs"     /\ Becomes(c, {"done", "failed", "timed out"})
  \/ tool[c] = "stopping" /\ Becomes(c, {"stopped", "timed out"})

Next == \E c \in Calls : Grant(c) \/ Start(c) \/ Stop(c) \/ End(c)

Fairness == \A c \in Calls : WF_tool(Start(c)) /\ WF_tool(End(c))

Spec == Init /\ [][Next]_tool /\ Fairness
=============================================================================
