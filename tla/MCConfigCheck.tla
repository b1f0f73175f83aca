--------------------------- MODULE MCConfigCheck ---------------------------
(***************************************************************************)
(* Configurations for TLC: a usable one, and all that differ from it in    *)
(* one part, at and around every limit of that part.                       *)
(***************************************************************************)
EXTENDS ConfigCheck

PlainNames == {"a", "b"}

NoPolicy == [given |-> FALSE, keysPlain |-> TRUE, valuesPlain |-> TRUE,
             leaseIs |-> "absent", lease_ms |-> 0]
BaseRoute == [name |-> "a", topic |-> "a", subscription |-> "a",
              webhook_url |-> "http", timeoutGiven |-> FALSE,
              webhook_timeout_ms |-> 0, policy |-> NoPolicy]
BaseTuning == [hub_backoff_ms |-> 500, hub_backoff_max_ms |-> 30000,
               circuit_probe_ms |-> 1000, circuit_probe_max_ms |-> 60000,
               circuit_probe_timeout_ms |-> 3000,
               topic_unborn_poll_ms |-> 5000, route_respawn_ms |-> 5000,
               settle_timeout_ms |-> 5000]
BaseDefaults == [poll_wait_ms |-> 25000, webhook_timeout_ms |-> 10000,
                 max_body_bytes |-> 16777216]
Base == [wellFormed |-> TRUE, hub_url |-> "http", defaults |-> BaseDefaults,
         tuning |-> BaseTuning, routes |-> <<BaseRoute>>]

Policies ==
  {[NoPolicy EXCEPT !.given = TRUE, !.keysPlain = k, !.valuesPlain = v] :
     k \in BOOLEAN, v \in BOOLEAN}
  \cup {[NoPolicy EXCEPT !.given = TRUE, !.leaseIs = "other"]}
  \cup {[NoPolicy EXCEPT !.given = TRUE, !.leaseIs = "integer", !.lease_ms = l] :
          l \in {-1, 0, 999, 1000, 7285, 7286, 30000, 86400000, 86400001,
                 OverflowLease}}

\* A timeout of 16 s and a settle of 5 s are 70 percent of 30 s.
Routes ==
  {[BaseRoute EXCEPT !.timeoutGiven = TRUE, !.webhook_timeout_ms = t,
                     !.policy = p] :
     t \in {0, 99, 100, 16000, 16001}, p \in Policies \cup {NoPolicy}}
  \cup {[BaseRoute EXCEPT !.policy = p] : p \in Policies}
  \cup {[BaseRoute EXCEPT !.webhook_url = u] : u \in Url}
  \cup {[BaseRoute EXCEPT !.name = n, !.topic = t, !.subscription = s] :
          n \in {"a", "b", "!"}, t \in {"a", "b", "!"}, s \in {"a", "!"}}

Others ==
  {[BaseRoute EXCEPT !.name = n, !.topic = t, !.timeoutGiven = TRUE,
                     !.webhook_timeout_ms = 100] :
     n \in {"a", "b"}, t \in {"a", "b"}}

Third == [BaseRoute EXCEPT !.name = "b", !.subscription = "b"]

RouteLists ==
  {<<>>} \cup {<<r>> : r \in Routes}
  \cup {<<r, s>> : r \in Routes, s \in Others}
  \cup {<<s, r>> : r \in Routes, s \in Others}
  \cup {<<BaseRoute, r, Third>> : r \in Routes}

Edges(range) == {0} \cup UNION {{x - 1, x, x + 1} : x \in range}

Tunings ==
  {[BaseTuning EXCEPT !.hub_backoff_ms = b, !.hub_backoff_max_ms = m] :
     b \in Edges({50, 600000}), m \in Edges({50, 600000})}
  \cup {[BaseTuning EXCEPT !.circuit_probe_ms = b, !.circuit_probe_max_ms = m] :
          b \in {50, 600000}, m \in {49, 50, 600000}}
  \cup UNION {{[BaseTuning EXCEPT ![f] = t] : t \in Edges({100, 600000})} :
                f \in {"circuit_probe_timeout_ms", "topic_unborn_poll_ms",
                       "route_respawn_ms", "settle_timeout_ms"}}

DefaultsTried ==
  {[BaseDefaults EXCEPT !.poll_wait_ms = w] : w \in Edges({1000, 300000})}
  \cup {[BaseDefaults EXCEPT !.webhook_timeout_ms = t] : t \in {99, 100, 16001}}
  \cup {[BaseDefaults EXCEPT !.max_body_bytes = b] : b \in {1023, 1024}}

SmallTables ==
  {[Base EXCEPT !.routes = r] : r \in RouteLists}
  \cup {[Base EXCEPT !.tuning = t] : t \in Tunings}
  \cup {[Base EXCEPT !.defaults = d, !.routes = r] :
          d \in DefaultsTried, r \in {<<BaseRoute>>, <<CHOOSE s \in Others : TRUE>>}}
  \cup {[Base EXCEPT !.hub_url = u] : u \in Url}
  \cup {[Base EXCEPT !.wellFormed = FALSE]}
=============================================================================
