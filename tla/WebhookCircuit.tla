--------------------------- MODULE WebhookCircuit ---------------------------
(***************************************************************************)
(* The webhook client of webhook.rs, which all routes share, under a host  *)
(* that dies in one of several ways: how a try fails, how its failure is   *)
(* classified, and what an outage costs before every route has opened its  *)
(* circuit (AR15).  RouteLoop takes the classification as exact; this      *)
(* module does not.                                                        *)
(*                                                                         *)
(* Times matter only by their order: which of the two timeouts of a POST   *)
(* comes first.  The backlog is never empty, so a route that polls has a   *)
(* claim.  Connections are counted, not named.                             *)
(***************************************************************************)
EXTENDS Naturals, FiniteSets

CONSTANTS
  Route,           \* the routes; their webhooks are on one host
  ConnectTimeout,  \* circuit_probe_timeout_ms, the client's connect timeout
  WebhookTimeout,  \* webhook_timeout_ms of each route, of the whole POST
  MaxTries,        \* bound: tries of one ladder
  MaxChanges       \* bound: changes of the host

ASSUME CircuitAssumption ==
  /\ IsFiniteSet(Route)
  /\ ConnectTimeout \in Nat /\ WebhookTimeout \in [Route -> Nat]
  /\ MaxTries \in Nat /\ MaxChanges \in Nat

\* The routes whose POST outlasts the connect.  The one client has the probe's
\* timeout for all, the routes have timeouts of their own, and no check of
\* config/ compares the two.
Patient == {r \in Route : ConnectTimeout < WebhookTimeout[r]}

\* up: answers; hung: its kernel accepts, nobody answers; refusing: no
\* listener; silent: no packet comes back.
Host == {"up", "hung", "refusing", "silent"}
Down == {"refusing", "silent"}

VARIABLES
  host,          \* external: the webhook's host
  idle,          \* connections in the client's pool that work
  stale,         \* connections in the pool whose other end is gone
  pc,            \* each route: "poll", "retry" (between tries), "try", "circuit"
  conn,          \* of a try: "connecting", "live" or "stale"; else "none"
  tries,         \* tries of the ladder so far
  changes,       \* changes of the host so far
  conns,         \* connections there were when the present outage began
  burntFailed,   \* claims patient routes nacked as Failed in this outage
  burntConnect   \* claims nacked as ConnectClass in it, by each route

clientVars == <<pc, conn, tries>>
poolVars == <<idle, stale>>
burntVars == <<conns, burntFailed, burntConnect>>
vars == <<clientVars, poolVars, burntVars, host, changes>>

TypeOK ==
  /\ host \in Host
  /\ idle \in Nat /\ stale \in Nat /\ conns \in Nat /\ burntFailed \in Nat
  /\ changes \in 0 .. MaxChanges
  /\ pc \in [Route -> {"poll", "retry", "try", "circuit"}]
  /\ conn \in [Route -> {"none", "connecting", "live", "stale"}]
  /\ tries \in [Route -> 0 .. MaxTries]
  /\ burntConnect \in [Route -> Nat]

Init ==
  /\ host = "up"
  /\ idle = 0 /\ stale = 0
  /\ pc = [r \in Route |-> "poll"]
  /\ conn = [r \in Route |-> "none"]
  /\ tries = [r \in Route |-> 0]
  /\ changes = 0
  /\ conns = 0 /\ burntFailed = 0
  /\ burntConnect = [r \in Route |-> 0]

-----------------------------------------------------------------------------
(* WebhookClient::deliver.                                                 *)

\* A POST goes out on a pooled connection if there is one.
StartTry(r) ==
  /\ pc[r] \in {"poll", "retry"}
  /\ tries[r] < MaxTries
  /\ pc' = [pc EXCEPT ![r] = "try"]
  /\ tries' = [tries EXCEPT ![r] = @ + 1]
  /\ \/ /\ idle > 0
        /\ idle' = idle - 1 /\ UNCHANGED stale
        /\ conn' = [conn EXCEPT ![r] = "live"]
     \/ /\ stale > 0
        /\ stale' = stale - 1 /\ UNCHANGED idle
        /\ conn' = [conn EXCEPT ![r] = "stale"]
     \/ /\ idle = 0 /\ stale = 0
        /\ conn' = [conn EXCEPT ![r] = "connecting"]
        /\ UNCHANGED poolVars
  /\ UNCHANGED <<host, changes, burntVars>>

Connects(r) ==
  /\ conn[r] = "connecting"
  /\ host \notin Down
  /\ conn' = [conn EXCEPT ![r] = "live"]
  /\ UNCHANGED <<host, changes, pc, tries, poolVars, burntVars>>

Delivered(r) ==
  /\ conn[r] = "live" /\ host = "up"
  /\ conn' = [conn EXCEPT ![r] = "none"]
  /\ idle' = idle + 1
  /\ pc' = [pc EXCEPT ![r] = "poll"]
  /\ tries' = [tries EXCEPT ![r] = 0]
  /\ UNCHANGED <<host, changes, stale, burntVars>>

\* deliver_with_budget: another try of the same claim, or GiveUp with the
\* class of this last error; on_message then nacks, and opens the circuit
\* if that class is ConnectClass.
TryIsOver(r, connectClass) ==
  /\ conn' = [conn EXCEPT ![r] = "none"]
  /\ \/ /\ tries[r] < MaxTries
        /\ pc' = [pc EXCEPT ![r] = "retry"]
        /\ UNCHANGED <<tries, burntVars>>
     \/ /\ tries' = [tries EXCEPT ![r] = 0]
        /\ UNCHANGED conns
        /\ IF connectClass
           THEN /\ pc' = [pc EXCEPT ![r] = "circuit"]
                /\ burntConnect' = [burntConnect EXCEPT ![r] = @ + 1]
                /\ UNCHANGED burntFailed
           ELSE /\ pc' = [pc EXCEPT ![r] = "poll"]
                /\ burntFailed' = IF host \in Down /\ r \in Patient
                                  THEN burntFailed + 1 ELSE burntFailed
                /\ UNCHANGED burntConnect

\* Not 2xx.  The answer's body is not read: the connection may be kept.
StatusError(r) ==
  /\ conn[r] = "live" /\ host = "up"
  /\ \/ idle' = idle + 1
     \/ UNCHANGED idle
  /\ TryIsOver(r, FALSE)
  /\ UNCHANGED <<host, changes, stale>>

\* The library reconnects by itself when a pooled connection turns out to
\* have been closed.
Reconnects(r) ==
  /\ conn[r] = "stale" /\ host # "silent"
  /\ conn' = [conn EXCEPT ![r] = "connecting"]
  /\ UNCHANGED <<host, changes, pc, tries, poolVars, burntVars>>

\* The total timeout ends a POST that is still connecting.
RequestTimesOut(r) ==
  /\ conn[r] = "connecting" /\ host = "silent"
  /\ WebhookTimeout[r] <= ConnectTimeout

\* Failed: no answer in time, or the connection broke.
RequestFails(r) ==
  /\ \/ conn[r] \in {"live", "stale"}
     \/ RequestTimesOut(r)
  /\ TryIsOver(r, FALSE)
  /\ UNCHANGED <<host, changes, poolVars>>

\* A mutant: a connect that nobody answers is waited for.
ConnectFailsRefused(r) ==
  /\ conn[r] = "connecting"
  /\ host = "refusing"
  /\ TryIsOver(r, TRUE)
  /\ UNCHANGED <<host, changes, poolVars>>

\* ConnectClass: refused, or no answer to the SYN within ConnectTimeout.
ConnectFails(r) ==
  /\ conn[r] = "connecting"
  /\ \/ host = "refusing"
     \/ host = "silent" /\ ConnectTimeout <= WebhookTimeout[r]
  /\ TryIsOver(r, TRUE)
  /\ UNCHANGED <<host, changes, poolVars>>

\* A mutant: an error that comes in time counts as an answer.
ProbeAnswered ==
  host # "silent"

\* probe_origin: a TCP connect that succeeds in time.
ProbeConnects == host \notin Down

\* wait_out_circuit ends; a probe that fails changes nothing.
CircuitCloses(r) ==
  /\ pc[r] = "circuit"
  /\ ProbeConnects
  /\ pc' = [pc EXCEPT ![r] = "poll"]
  /\ UNCHANGED <<host, changes, conn, tries, poolVars, burntVars>>

RouteStep(r) ==
  \/ StartTry(r) \/ Connects(r) \/ Reconnects(r) \/ Delivered(r)
  \/ StatusError(r) \/ RequestFails(r) \/ ConnectFails(r) \/ CircuitCloses(r)

-----------------------------------------------------------------------------
(* External: the host and its connections.                                 *)

InUse == {r \in Route : conn[r] \in {"live", "stale"}}

\* The host dies: every connection to it is dead, and one that a listener
\* left with a FIN or RST is gone from the pool.
HostDies ==
  /\ host \notin Down /\ changes < MaxChanges
  /\ \E h \in Down :
       /\ host' = h
       /\ stale' = IF h = "silent" THEN stale + idle ELSE stale
  /\ idle' = 0
  /\ conn' = [r \in Route |-> IF conn[r] = "live" THEN "stale" ELSE conn[r]]
  /\ conns' = idle + stale + Cardinality(InUse)
  /\ burntFailed' = 0
  /\ burntConnect' = [r \in Route |-> 0]
  /\ changes' = changes + 1
  /\ UNCHANGED <<pc, tries>>

\* It comes back, hangs, or one way of being down becomes the other.
HostChanges ==
  /\ changes < MaxChanges
  /\ host \in Down \/ host = "hung"
  /\ \E h \in Host \ {host} :
       /\ host = "hung" => h = "up"
       /\ host' = h
  /\ changes' = changes + 1
  /\ UNCHANGED <<clientVars, poolVars, burntVars>>

HostHangs ==
  /\ host = "up" /\ changes < MaxChanges
  /\ host' = "hung"
  /\ changes' = changes + 1
  /\ UNCHANGED <<clientVars, poolVars, burntVars>>

Next ==
  \/ \E r \in Route : RouteStep(r)
  \/ HostDies \/ HostChanges \/ HostHangs

Spec == Init /\ [][Next]_vars

\* Every await of a route ends: a timeout bounds it.
FairSpec == Spec /\ \A r \in Route : WF_vars(RouteStep(r))

-----------------------------------------------------------------------------
(* What the properties rest on, for WebhookCircuitProofs.                   *)

StaleInUse == {r \in Route : conn[r] = "stale"}

\* A dead host takes no new connection, so each claim of a patient route that
\* fails as Failed uses up one of those there were.
CostInv ==
  /\ \A r \in Route : pc[r] # "try" <=> conn[r] = "none"
  /\ host \in Down =>
       /\ idle = 0 /\ \A r \in Route : conn[r] # "live"
       /\ burntFailed + stale + Cardinality(StaleInUse) <= conns
       /\ \A r \in Route :
            \/ burntConnect[r] = 0
            \/ burntConnect[r] = 1 /\ pc[r] = "circuit"

-----------------------------------------------------------------------------
\* AR15: an outage, however long and however the host is down, costs each
\* route at most one claim that failed to connect, and the patient ones
\* together at most one more for each connection there was when the host died,
\* whatever the impatient routes on the same client do meanwhile.
OutageCost ==
  host \in Down =>
    /\ burntFailed <= conns
    /\ \A r \in Route : burntConnect[r] <= 1

\* AR15: a host that stays down is noticed, and the route stops claiming: by
\* every route if it refuses, by the patient ones however it is down.
OutageNoticed ==
  \A r \in Route :
    <>[](host = "refusing" \/ (host \in Down /\ r \in Patient))
    => <>[](pc[r] = "circuit")
=============================================================================
