------------------------------ MODULE LinePort ------------------------------
(***************************************************************************)
(* What CommandHandler promises its caller, whichever port is behind it: a *)
(* command is answered by exactly the lines (or the bytes) of the device's *)
(* response to it, in order, or the call throws and gives nothing.         *)
(***************************************************************************)
CONSTANT Responses   \* what the device may answer, as sequences of results

VARIABLES
  phase,   \* "idle" or "busy"
  asked,   \* the response to the last command
  answer   \* what the last call returned, <<>> when it threw

vars == <<phase, asked, answer>>

Init ==
  /\ phase = "idle"
  /\ asked = <<>>
  /\ answer = <<>>

Ask(r) ==
  /\ phase = "idle"
  /\ phase' = "busy"
  /\ asked' = r
  /\ answer' = <<>>

Answer ==
  /\ phase = "busy"
  /\ phase' = "idle"
  /\ answer' = asked
  /\ UNCHANGED asked

\* Sending or reading fails: the caller gets an exception.
Throw ==
  /\ phase' = "idle"
  /\ answer' = <<>>
  /\ UNCHANGED asked

Next == (\E r \in Responses : Ask(r)) \/ Answer \/ Throw

Spec == Init /\ [][Next]_vars

=============================================================================
