---------------------------- MODULE AtLeastOnce ----------------------------
(***************************************************************************)
(* What a kyu-runner route promises: every message the subscription is     *)
(* owed is, in the end, settled after the webhook has accepted it, or      *)
(* visibly dead; a message over the body cap is never given to the         *)
(* webhook.  Nothing is said of how often or in which order the webhook    *)
(* sees a message, and nothing is promised in time by a process that has   *)
(* been told to stop, until it is started again.                           *)
(***************************************************************************)
CONSTANTS Msg, Big

VARIABLES
  state,           \* where each message stands
  accepted,        \* the messages the webhook has accepted
  running          \* the process has not been told to stop

vars == <<state, accepted, running>>

Init ==
  /\ state = [m \in Msg |-> "unowed"]
  /\ accepted = {}
  /\ running = TRUE

\* Messages become owed: published to a subscription, or found by a replay.
Owe(S) ==
  /\ S # {} /\ \A m \in S : state[m] = "unowed"
  /\ state' = [m \in Msg |-> IF m \in S THEN "open" ELSE state[m]]
  /\ UNCHANGED <<accepted, running>>

Accept(m) ==
  /\ state[m] # "unowed"
  /\ m \notin Big
  /\ accepted' = accepted \cup {m}
  /\ UNCHANGED <<state, running>>

Settle(m) ==
  /\ state[m] = "open"
  /\ m \in accepted
  /\ state' = [state EXCEPT ![m] = "done"]
  /\ UNCHANGED <<accepted, running>>

DeadLetter(m) ==
  /\ state[m] = "open"
  /\ state' = [state EXCEPT ![m] = "dead"]
  /\ UNCHANGED <<accepted, running>>

\* SIGTERM, and the process started again.
StopOrStart == running' = ~running /\ UNCHANGED <<state, accepted>>

Next ==
  \/ StopOrStart
  \/ \E S \in SUBSET Msg : Owe(S)
  \/ \E m \in Msg : Accept(m) \/ Settle(m) \/ DeadLetter(m)

Spec == Init /\ [][Next]_vars

\* No message stays open for ever while the process runs.
FairSpec ==
  Spec /\ \A m \in Msg : WF_vars(running /\ (Settle(m) \/ DeadLetter(m)))
=============================================================================
