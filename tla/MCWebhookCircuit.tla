-------------------------- MODULE MCWebhookCircuit --------------------------
(***************************************************************************)
(* Instances of WebhookCircuit for TLC: the routes and their timeouts.     *)
(***************************************************************************)
EXTENDS WebhookCircuit, TLC

CONSTANTS r1, r2, r3

\* Two routes with the default timeout, one whose own is below the connect's.
OneImpatient == (r1 :> 10) @@ (r2 :> 10) @@ (r3 :> 2)
=============================================================================
