----------------------------- MODULE HubPolls ------------------------------
(***************************************************************************)
(* A loop's polls and what it makes of them: ClaimReader reads a response, *)
(* and its outcome decides which handler of HubBackoff runs.  A body that  *)
(* breaks off is the hub gone; an oversized claim is the hub back.         *)
(***************************************************************************)
EXTENDS HubBackoff, ClaimReader

pollVars == <<vars, readVars>>

PollInit == Init /\ ReadInit

Reads == ~circuitOpen /\ ReadStep /\ UNCHANGED vars

\* The match of RouteRunner::run; the next poll goes out when its handler is
\* done.
Handles ==
  /\ \/ outcome \in Errors /\ HubError(outcome = "Auth")
     \/ outcome = "TopicUnborn" /\ OnTopicUnborn
     \/ outcome = "Empty" /\ OnEmpty
     \/ outcome = "Oversize" /\ OnOversize
     \/ outcome = "Message" /\ OnMessage
  /\ NextPoll

WaitsOutCircuit == Probe /\ UNCHANGED readVars

\* A panic, at whatever await of the poll or of the circuit.
Respawns == Respawn /\ NextPoll

PollNext == Reads \/ Handles \/ WaitsOutCircuit \/ Respawns

PollSpec == PollInit /\ [][PollNext]_pollVars
=============================================================================
