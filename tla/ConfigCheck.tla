---------------------------- MODULE ConfigCheck ----------------------------
(***************************************************************************)
(* The configuration check (config/): from_project_table parses the        *)
(* project's half of the config file and validate refuses it at the first  *)
(* problem, check by check and route by route.  The times that the other   *)
(* modules take as given are derived from what it lets through.            *)
(*                                                                         *)
(* Times are in ms, as in the code.  A name or URL is what the checks tell *)
(* of it: which of the model's names it is, and of what kind.              *)
(***************************************************************************)
EXTENDS Integers, Sequences

CONSTANTS
  Tables,         \* the configurations tried
  Plain,          \* names made of A-Za-z0-9._- only
  OverflowLease   \* the least lease whose 70-fold overflows a u64

MIN_POLL_WAIT_MS == 1000
MAX_POLL_WAIT_MS == 300000
MIN_WEBHOOK_TIMEOUT_MS == 100
MIN_BODY_BYTES == 1024
POLICY_LEASE_MIN_MS == 1000
POLICY_LEASE_MAX_MS == 86400000
POLICY_LEASE_RANGE_MS == POLICY_LEASE_MIN_MS .. POLICY_LEASE_MAX_MS
BACKOFF_RANGE_MS == 50 .. 600000
TIMING_RANGE_MS == 100 .. 600000
HUB_DEFAULT_LEASE_MS == 30000

Url == {"http", "slashed", "bareScheme", "otherScheme", "unparsable",
        "noHost", "userinfo"}

\* A policy block: its keys and values as the checks see them, and lease_ms.
Policy ==
  [given : BOOLEAN, keysPlain : BOOLEAN, valuesPlain : BOOLEAN,
   leaseIs : {"absent", "integer", "other"}, lease_ms : Int]

Route == [name : STRING, topic : STRING, subscription : STRING,
          webhook_url : Url, timeoutGiven : BOOLEAN,
          webhook_timeout_ms : Nat, policy : Policy]

Tuning ==
  [hub_backoff_ms : Nat, hub_backoff_max_ms : Nat, circuit_probe_ms : Nat,
   circuit_probe_max_ms : Nat, circuit_probe_timeout_ms : Nat,
   topic_unborn_poll_ms : Nat, route_respawn_ms : Nat, settle_timeout_ms : Nat]

Defaults ==
  [poll_wait_ms : Nat, webhook_timeout_ms : Nat, max_body_bytes : Nat]

Config == [wellFormed : BOOLEAN, hub_url : Url, defaults : Defaults,
           tuning : Tuning, routes : Seq(Route)]

ASSUME TablesAssumption == Tables \subseteq Config
ASSUME OverflowAssumption ==
  OverflowLease \in Nat /\ OverflowLease > POLICY_LEASE_MAX_MS

VARIABLES
  config,      \* the table; its hub_url is normalised on the way
  pc,          \* the check that is next, or "accepted", or the ConfigError
  route,       \* the route being checked
  names, pairs,   \* validate: what check_unique has seen
  leaseTaken   \* the last lease that budget_of was asked about

vars == <<config, pc, route, names, pairs, leaseTaken>>

Checks == {"table", "tuning", "hub_url", "defaults", "routes", "route",
           "timeout", "policy", "budget", "unique"}
Errors == {"Invalid", "Tuning", "UrlScheme", "UrlInvalid", "PollWait",
           "WebhookTimeout", "BodyCap", "NoRoutes", "Route", "PolicyLease",
           "LeaseBudget"}

TypeOK ==
  /\ config \in Config
  /\ pc \in Checks \cup Errors \cup {"accepted"}
  /\ route \in Nat
  /\ leaseTaken \in Int

Init ==
  /\ config \in Tables
  /\ pc = "table"
  /\ route = 1
  /\ names = {} /\ pairs = {}
  /\ leaseTaken = HUB_DEFAULT_LEASE_MS

-----------------------------------------------------------------------------
(* The values derived from a configuration (config/mod.rs).                *)

\* lease * 70 / 100, without the product that is too large for TLC.
BudgetOf(lease) == (lease \div 100) * 70 + ((lease % 100) * 70) \div 100

\* A mutant: the block is there, but its lease is not looked at.
EffectiveLeaseIsDefault(r) == HUB_DEFAULT_LEASE_MS

EffectiveLease(r) ==
  IF r.policy.given /\ r.policy.leaseIs = "integer" /\ r.policy.lease_ms > 0
  THEN r.policy.lease_ms
  ELSE HUB_DEFAULT_LEASE_MS

Timeout(c, r) ==
  IF r.timeoutGiven THEN r.webhook_timeout_ms ELSE c.defaults.webhook_timeout_ms

-----------------------------------------------------------------------------
(* The checks.                                                             *)

Current == config.routes[route]

\* validate_pair.
PairOK(base, max) ==
  base \in BACKOFF_RANGE_MS /\ max \in BACKOFF_RANGE_MS /\ max >= base

TuningOK(t) ==
  /\ PairOK(t.hub_backoff_ms, t.hub_backoff_max_ms)
  /\ PairOK(t.circuit_probe_ms, t.circuit_probe_max_ms)
  /\ {t.circuit_probe_timeout_ms, t.topic_unborn_poll_ms, t.route_respawn_ms,
      t.settle_timeout_ms} \subseteq TIMING_RANGE_MS

\* validate's loop over the trailing slashes: "http://" loses its own.
Normalised(url) ==
  IF url = "slashed" THEN "http"
  ELSE IF url = "bareScheme" THEN "otherScheme"
  ELSE url

\* validate_url.
UrlVerdict(url, next) ==
  IF url = "otherScheme" THEN "UrlScheme"
  ELSE IF url \in {"bareScheme", "unparsable", "noHost", "userinfo"}
  THEN "UrlInvalid"
  ELSE next

FromProjectTable ==
  /\ pc = "table"
  /\ pc' = IF config.wellFormed THEN "tuning" ELSE "Invalid"
  /\ UNCHANGED <<config, route, names, pairs, leaseTaken>>

CheckTuning ==
  /\ pc = "tuning"
  /\ pc' = IF TuningOK(config.tuning) THEN "hub_url" ELSE "Tuning"
  /\ UNCHANGED <<config, route, names, pairs, leaseTaken>>

CheckHubUrl ==
  /\ pc = "hub_url"
  /\ config' = [config EXCEPT !.hub_url = Normalised(config.hub_url)]
  /\ pc' = UrlVerdict(config'.hub_url, "defaults")
  /\ UNCHANGED <<route, names, pairs, leaseTaken>>

CheckDefaults ==
  LET d == config.defaults
  IN  /\ pc = "defaults"
      /\ pc' = IF d.poll_wait_ms \notin MIN_POLL_WAIT_MS .. MAX_POLL_WAIT_MS
               THEN "PollWait"
               ELSE IF d.webhook_timeout_ms < MIN_WEBHOOK_TIMEOUT_MS
               THEN "WebhookTimeout"
               ELSE IF d.max_body_bytes < MIN_BODY_BYTES THEN "BodyCap"
               ELSE "routes"
      /\ UNCHANGED <<config, route, names, pairs, leaseTaken>>

CheckSomeRoute ==
  /\ pc = "routes"
  /\ pc' = IF config.routes = <<>> THEN "NoRoutes" ELSE "route"
  /\ UNCHANGED <<config, route, names, pairs, leaseTaken>>

\* Route::validate.
CheckRoute ==
  /\ pc = "route"
  /\ pc' = IF {Current.name, Current.topic, Current.subscription} \subseteq Plain
           THEN UrlVerdict(Current.webhook_url, "timeout")
           ELSE "Route"
  /\ UNCHANGED <<config, route, names, pairs, leaseTaken>>

CheckRouteTimeout ==
  /\ pc = "timeout"
  /\ pc' = IF /\ Current.timeoutGiven
              /\ Current.webhook_timeout_ms < MIN_WEBHOOK_TIMEOUT_MS
           THEN "WebhookTimeout"
           ELSE "policy"
  /\ UNCHANGED <<config, route, names, pairs, leaseTaken>>

\* A mutant: a lease that is an integer is left to the hub to refuse.
LeaseOKIfInteger(policy) == policy.leaseIs # "other"

LeaseOK(policy) ==
  \/ policy.leaseIs = "absent"
  \/ policy.leaseIs = "integer" /\ policy.lease_ms \in POLICY_LEASE_RANGE_MS

CheckPolicy ==
  LET policy == Current.policy
  IN  /\ pc = "policy"
      /\ pc' = IF ~policy.given THEN "budget"
               ELSE IF ~(policy.keysPlain /\ policy.valuesPlain) THEN "Route"
               ELSE IF ~LeaseOK(policy) THEN "PolicyLease"
               ELSE "budget"
      /\ UNCHANGED <<config, route, names, pairs, leaseTaken>>

CheckLeaseBudget ==
  /\ pc = "budget"
  /\ leaseTaken' = EffectiveLease(Current)
  /\ pc' = IF Timeout(config, Current) + config.tuning.settle_timeout_ms
              <= BudgetOf(EffectiveLease(Current))
           THEN "unique"
           ELSE "LeaseBudget"
  /\ UNCHANGED <<config, route, names, pairs>>

Pair(r) == <<r.topic, r.subscription>>

\* A mutant: two routes of one topic are refused only under one name.
SeenTogether(r) == r.name \in names /\ Pair(r) \in pairs

Seen(r) == r.name \in names \/ Pair(r) \in pairs

CheckUnique ==
  /\ pc = "unique"
  /\ pc' = IF Seen(Current) THEN "Route"
           ELSE IF route < Len(config.routes) THEN "route"
           ELSE "accepted"
  /\ names' = names \cup {Current.name}
  /\ pairs' = pairs \cup {Pair(Current)}
  /\ route' = IF route < Len(config.routes) THEN route + 1 ELSE route
  /\ UNCHANGED <<config, leaseTaken>>

Next ==
  \/ FromProjectTable \/ CheckTuning \/ CheckHubUrl \/ CheckDefaults
  \/ CheckSomeRoute \/ CheckRoute \/ CheckRouteTimeout \/ CheckPolicy
  \/ CheckLeaseBudget \/ CheckUnique

Spec == Init /\ [][Next]_vars

-----------------------------------------------------------------------------
(* What a usable configuration is, without the order of the checks.        *)

RouteUsable(c, r) ==
  /\ r.name \in Plain /\ r.topic \in Plain /\ r.subscription \in Plain
  /\ r.webhook_url \in {"http", "slashed"}
  /\ Timeout(c, r) >= MIN_WEBHOOK_TIMEOUT_MS
  /\ r.policy.given =>
       /\ r.policy.keysPlain /\ r.policy.valuesPlain
       /\ r.policy.leaseIs # "absent" =>
            r.policy.leaseIs = "integer"
            /\ r.policy.lease_ms \in POLICY_LEASE_RANGE_MS
  /\ Timeout(c, r) + c.tuning.settle_timeout_ms <= BudgetOf(EffectiveLease(r))

Distinct(r, s) == r.name # s.name /\ Pair(r) # Pair(s)

Usable(c) ==
  /\ c.wellFormed
  /\ TuningOK(c.tuning)
  /\ c.hub_url \in {"http", "slashed"}
  /\ c.defaults.poll_wait_ms \in MIN_POLL_WAIT_MS .. MAX_POLL_WAIT_MS
  /\ c.defaults.webhook_timeout_ms >= MIN_WEBHOOK_TIMEOUT_MS
  /\ c.defaults.max_body_bytes >= MIN_BODY_BYTES
  /\ c.routes # <<>>
  /\ \A i \in DOMAIN c.routes :
       /\ RouteUsable(c, c.routes[i])
       /\ \A j \in DOMAIN c.routes :
            i # j => Distinct(c.routes[i], c.routes[j])

-----------------------------------------------------------------------------
\* K8, fail-closed: what starts is usable, in all its routes together, and
\* what is refused is not, whichever check it was that stumbled.
VerdictIsRight ==
  /\ pc = "accepted" => Usable(config)
  /\ pc \in Errors => ~Usable(config)

\* The lease budget is never asked of a lease that has not been checked: no
\* lease in a config file makes its arithmetic overflow.
BudgetIsExact == leaseTaken < OverflowLease

\* AR5: a route that asks the hub for a lease is held to 70 percent of that
\* lease, and never to the hub's default.
BudgetIsOfLeaseAsked ==
  pc = "accepted" =>
    \A i \in DOMAIN config.routes :
      LET p == config.routes[i].policy
      IN  p.given /\ p.leaseIs # "absent" =>
            Timeout(config, config.routes[i]) + config.tuning.settle_timeout_ms
            <= BudgetOf(p.lease_ms)
=============================================================================
