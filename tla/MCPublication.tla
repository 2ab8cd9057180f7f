---------------------------- MODULE MCPublication ----------------------------
(* Small instances of Publication for TLC. *)
EXTENDS PublicationProofs

Checked == {"verify", "standardize", "recover", "tools", "failClosed", "advisory"}

\* The console on two sources, a check of one source at a time, the answer
\* assembled from the draft, and the raw arm.
Console   == Checked \cup {"crossSource", "multisource"}
Assembled == Checked \cup {"envelope"}
Raw       == {"tools"}

AllArms == {Console, Checked, Assembled, Raw}
==============================================================================
