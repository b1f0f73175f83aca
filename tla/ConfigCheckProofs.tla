------------------------- MODULE ConfigCheckProofs -------------------------
(***************************************************************************)
(* Proofs about ConfigCheck, for every configuration: the ones that are    *)
(* accepted are the usable ones.  The invariant says, of each check, what  *)
(* is known of the configuration once it is past.                          *)
(***************************************************************************)
EXTENDS ConfigCheck, TLAPS

FromUnique == {"unique"}
FromBudget == {"budget"} \cup FromUnique
FromPolicy == {"policy"} \cup FromBudget
FromTimeout == {"timeout"} \cup FromPolicy
InRoutes == {"route"} \cup FromTimeout
FromRoutes == {"routes"} \cup InRoutes
FromDefaults == {"defaults"} \cup FromRoutes
FromHubUrl == {"hub_url"} \cup FromDefaults
FromTuning == {"tuning"} \cup FromHubUrl

DefaultsOK(d) ==
  /\ d.poll_wait_ms \in MIN_POLL_WAIT_MS .. MAX_POLL_WAIT_MS
  /\ d.webhook_timeout_ms >= MIN_WEBHOOK_TIMEOUT_MS
  /\ d.max_body_bytes >= MIN_BODY_BYTES

PolicyOK(p) ==
  p.given => p.keysPlain /\ p.valuesPlain /\ LeaseOK(p)

BudgetKept(c, r) ==
  Timeout(c, r) + c.tuning.settle_timeout_ms <= BudgetOf(EffectiveLease(r))

\* What is known before the routes are looked at.
HeadKnown ==
  /\ pc \in FromTuning => config.wellFormed
  /\ pc \in FromHubUrl => TuningOK(config.tuning)
  /\ pc \in FromDefaults => config.hub_url = "http"
  /\ pc \in FromRoutes => DefaultsOK(config.defaults)
  /\ pc \in {"table", "tuning", "hub_url", "defaults", "routes"} =>
       route = 1 /\ names = {} /\ pairs = {}

\* What is known of the route being checked.
RouteKnown ==
  /\ pc \in InRoutes => route \in DOMAIN config.routes
  /\ pc \in FromTimeout =>
       /\ {Current.name, Current.topic, Current.subscription} \subseteq Plain
       /\ Current.webhook_url \in {"http", "slashed"}
  /\ pc \in FromPolicy => Timeout(config, Current) >= MIN_WEBHOOK_TIMEOUT_MS
  /\ pc \in FromBudget => PolicyOK(Current.policy)
  /\ pc \in FromUnique => BudgetKept(config, Current)

\* What is known of the routes before it.
EarlierKnown ==
  pc \in InRoutes =>
    /\ \A i \in DOMAIN config.routes : i < route =>
         RouteUsable(config, config.routes[i])
    /\ \A i, j \in DOMAIN config.routes : i < route /\ j < route /\ i # j =>
         Distinct(config.routes[i], config.routes[j])
    /\ names = {config.routes[i].name : i \in {k \in DOMAIN config.routes : k < route}}
    /\ pairs = {Pair(config.routes[i]) : i \in {k \in DOMAIN config.routes : k < route}}

IInv ==
  /\ TypeOK
  /\ HeadKnown
  /\ RouteKnown
  /\ EarlierKnown
  /\ VerdictIsRight
  /\ BudgetIsExact

-----------------------------------------------------------------------------
LEMMA RouteUsableParts ==
  ASSUME NEW c, NEW r
  PROVE  RouteUsable(c, r) <=>
           /\ {r.name, r.topic, r.subscription} \subseteq Plain
           /\ r.webhook_url \in {"http", "slashed"}
           /\ Timeout(c, r) >= MIN_WEBHOOK_TIMEOUT_MS
           /\ PolicyOK(r.policy)
           /\ BudgetKept(c, r)
BY DEF RouteUsable, PolicyOK, LeaseOK, BudgetKept

LEMMA UrlVerdicts ==
  ASSUME NEW u \in Url, NEW next \in Checks
  PROVE  /\ u \in {"http", "slashed"} => UrlVerdict(u, next) = next
         /\ u \notin {"http", "slashed"} => UrlVerdict(u, next) \in Errors
BY DEF Url, UrlVerdict, Errors

LEMMA ErrorsAreNoChecks == Errors \cap (Checks \cup {"accepted"}) = {}
BY DEF Errors, Checks

\* Every lease in range, and the hub's default, is safe to compute with.
LEMMA LeaseRange ==
  \A l : l \in POLICY_LEASE_RANGE_MS \/ l = HUB_DEFAULT_LEASE_MS =>
          l \in Int /\ l > 0 /\ l < OverflowLease
<1>0. /\ POLICY_LEASE_MIN_MS \in Int /\ POLICY_LEASE_MIN_MS > 0
      /\ POLICY_LEASE_MAX_MS \in Int
  BY DEF POLICY_LEASE_MIN_MS, POLICY_LEASE_MAX_MS
<1>1. ASSUME NEW l \in POLICY_LEASE_RANGE_MS
      PROVE  l \in Int /\ l > 0 /\ l < OverflowLease
  BY <1>0, OverflowAssumption DEF POLICY_LEASE_RANGE_MS
<1>2. /\ HUB_DEFAULT_LEASE_MS \in Int /\ HUB_DEFAULT_LEASE_MS > 0
      /\ HUB_DEFAULT_LEASE_MS < OverflowLease
  BY OverflowAssumption DEF HUB_DEFAULT_LEASE_MS, POLICY_LEASE_MAX_MS
<1>. QED  BY <1>1, <1>2, Zenon

\* A lease that the checks let through is the one that is asked for.
LEMMA LeaseTaken ==
  ASSUME NEW r \in Route, PolicyOK(r.policy)
  PROVE  /\ EffectiveLease(r) \in Int
         /\ EffectiveLease(r) > 0 /\ EffectiveLease(r) < OverflowLease
         /\ r.policy.given /\ r.policy.leaseIs # "absent" =>
              EffectiveLease(r) = r.policy.lease_ms
<1>1. r.policy.given \in BOOLEAN
  BY DEF Route, Policy
<1>2. CASE r.policy.given /\ r.policy.leaseIs # "absent"
  <2>1. r.policy.leaseIs = "integer" /\ r.policy.lease_ms \in POLICY_LEASE_RANGE_MS
    BY <1>2 DEF PolicyOK, LeaseOK
  <2>2. r.policy.lease_ms > 0
    BY <2>1, LeaseRange, Zenon
  <2>3. EffectiveLease(r) = r.policy.lease_ms
    BY <1>2, <2>1, <2>2, Zenon DEF EffectiveLease
  <2>. QED  BY <1>2, <2>1, <2>3, LeaseRange, Zenon
<1>3. CASE ~(r.policy.given /\ r.policy.leaseIs # "absent")
  <2>1. EffectiveLease(r) = HUB_DEFAULT_LEASE_MS
    <3>1. ~(r.policy.given /\ r.policy.leaseIs = "integer" /\ r.policy.lease_ms > 0)
      BY <1>3
    <3>. QED  BY <3>1, Zenon DEF EffectiveLease
  <2>. QED  BY <1>3, <2>1, LeaseRange, Zenon
<1>. QED  BY <1>2, <1>3, Zenon

-----------------------------------------------------------------------------
LEMMA InitHolds == Init => IInv
<1> SUFFICES ASSUME Init PROVE IInv
  OBVIOUS
<1>1. TypeOK
  BY TablesAssumption DEF Init, TypeOK, Checks, HUB_DEFAULT_LEASE_MS
<1>2. pc = "table" /\ route = 1 /\ names = {} /\ pairs = {}
  BY DEF Init
<1>3. HeadKnown /\ RouteKnown /\ EarlierKnown
  BY <1>2
  DEF HeadKnown, RouteKnown, EarlierKnown, FromTuning, FromHubUrl,
      FromDefaults, FromRoutes, InRoutes, FromTimeout, FromPolicy, FromBudget,
      FromUnique
<1>4. VerdictIsRight
  BY <1>2 DEF VerdictIsRight, Errors
<1>5. BudgetIsExact
  BY LeaseRange DEF Init, BudgetIsExact
<1>. QED  BY <1>1, <1>3, <1>4, <1>5 DEF IInv

\* A refusal: it is enough that the configuration is not usable.
LEMMA RefusedHolds ==
  ASSUME IInv, config' \in Config, route' \in Nat, leaseTaken' \in Int,
         leaseTaken' < OverflowLease, pc' \in Errors, ~Usable(config')
  PROVE  IInv'
<1>1. pc' \notin Checks /\ pc' # "accepted"
  BY ErrorsAreNoChecks
<1>2. TypeOK' /\ BudgetIsExact' /\ VerdictIsRight'
  BY <1>1 DEF TypeOK, BudgetIsExact, VerdictIsRight
<1>3. HeadKnown' /\ RouteKnown' /\ EarlierKnown'
  BY <1>1
  DEF HeadKnown, RouteKnown, EarlierKnown, Checks, FromTuning, FromHubUrl,
      FromDefaults, FromRoutes, InRoutes, FromTimeout, FromPolicy, FromBudget,
      FromUnique
<1>. QED  BY <1>2, <1>3 DEF IInv

\* The checks before the routes: the next one is reached with one more part
\* of the configuration known.
LEMMA HeadHolds ==
  ASSUME IInv, FromProjectTable \/ CheckTuning \/ CheckHubUrl \/ CheckDefaults
  PROVE  IInv'
<1>. USE DEF FromTuning, FromHubUrl, FromDefaults, FromRoutes, InRoutes,
       FromTimeout, FromPolicy, FromBudget, FromUnique
<1>1. /\ route' = route /\ names' = names /\ pairs' = pairs
      /\ leaseTaken' = leaseTaken
      /\ route = 1 /\ names = {} /\ pairs = {}
  BY DEF FromProjectTable, CheckTuning, CheckHubUrl, CheckDefaults, IInv,
         HeadKnown
<1>2. /\ config \in Config /\ route \in Nat /\ leaseTaken \in Int
      /\ leaseTaken < OverflowLease
  BY DEF IInv, TypeOK, BudgetIsExact
<1>3. ASSUME config' \in Config, HeadKnown',
             pc' \in {"tuning", "hub_url", "defaults", "routes"}
      PROVE  IInv'
  <2>1. TypeOK' /\ BudgetIsExact'
    BY <1>1, <1>2, <1>3 DEF TypeOK, BudgetIsExact, Checks
  <2>2. RouteKnown' /\ EarlierKnown'
    BY <1>3 DEF RouteKnown, EarlierKnown
  <2>3. VerdictIsRight'
    BY <1>3 DEF VerdictIsRight, Errors
  <2>. QED  BY <1>3, <2>1, <2>2, <2>3 DEF IInv
<1>4. ASSUME config' \in Config, pc' \in Errors, ~Usable(config')
      PROVE  IInv'
  BY <1>1, <1>2, <1>4, RefusedHolds
<1>5. CASE FromProjectTable
  <2>1. config' = config
    BY <1>5 DEF FromProjectTable
  <2>2. CASE config.wellFormed
    BY <1>1, <1>2, <1>3, <1>5, <2>1, <2>2 DEF FromProjectTable, HeadKnown
  <2>3. CASE ~config.wellFormed
    BY <1>2, <1>4, <1>5, <2>1, <2>3 DEF FromProjectTable, Usable, Errors
  <2>. QED  BY <2>2, <2>3
<1>6. CASE CheckTuning
  <2>1. config' = config /\ config.wellFormed
    BY <1>6 DEF CheckTuning, IInv, HeadKnown
  <2>2. CASE TuningOK(config.tuning)
    BY <1>1, <1>2, <1>3, <1>6, <2>1, <2>2 DEF CheckTuning, HeadKnown
  <2>3. CASE ~TuningOK(config.tuning)
    BY <1>2, <1>4, <1>6, <2>1, <2>3 DEF CheckTuning, Usable, Errors
  <2>. QED  BY <2>2, <2>3
<1>7. CASE CheckHubUrl
  <2>1. config.wellFormed /\ TuningOK(config.tuning)
    BY <1>7 DEF CheckHubUrl, IInv, HeadKnown
  <2>2. /\ Normalised(config.hub_url) \in Url
        /\ Normalised(config.hub_url) # "slashed"
    BY <1>2 DEF Config, Url, Normalised
  <2>3. /\ config' \in Config /\ config'.hub_url = Normalised(config.hub_url)
        /\ config'.wellFormed = config.wellFormed
        /\ config'.tuning = config.tuning
    BY <1>2, <1>7, <2>2 DEF CheckHubUrl, Config
  <2>4. CASE config'.hub_url = "http"
    <3>1. pc' = "defaults"
      BY <1>7, <2>4 DEF CheckHubUrl, UrlVerdict
    <3>2. HeadKnown'
      BY <1>1, <2>1, <2>3, <2>4, <3>1 DEF HeadKnown
    <3>. QED  BY <1>3, <2>3, <3>1, <3>2
  <2>5. CASE config'.hub_url # "http"
    <3>1. config'.hub_url \notin {"http", "slashed"} /\ config'.hub_url \in Url
      BY <2>2, <2>3, <2>5
    <3>2. pc' \in Errors
      BY <1>7, <3>1, UrlVerdicts DEF CheckHubUrl, Checks
    <3>. QED  BY <1>4, <2>3, <3>1, <3>2 DEF Usable
  <2>. QED  BY <2>4, <2>5
<1>8. CASE CheckDefaults
  <2>1. /\ config' = config /\ config.wellFormed /\ TuningOK(config.tuning)
        /\ config.hub_url = "http"
    BY <1>8 DEF CheckDefaults, IInv, HeadKnown
  <2>2. /\ config.defaults.poll_wait_ms \in Nat
        /\ config.defaults.webhook_timeout_ms \in Nat
        /\ config.defaults.max_body_bytes \in Nat
    BY <1>2 DEF Config, Defaults
  <2>3. CASE DefaultsOK(config.defaults)
    <3>1. pc' = "routes"
      BY <1>8, <2>2, <2>3
      DEF CheckDefaults, DefaultsOK, MIN_BODY_BYTES, MIN_WEBHOOK_TIMEOUT_MS
    <3>. QED  BY <1>1, <1>2, <1>3, <2>1, <2>3, <3>1 DEF HeadKnown
  <2>4. CASE ~DefaultsOK(config.defaults)
    <3>1. pc' \in Errors
      BY <1>8, <2>2, <2>4
      DEF CheckDefaults, DefaultsOK, Errors, MIN_BODY_BYTES,
          MIN_WEBHOOK_TIMEOUT_MS
    <3>. QED  BY <1>2, <1>4, <2>1, <2>4, <3>1 DEF Usable, DefaultsOK
  <2>. QED  BY <2>3, <2>4
<1>. QED  BY <1>5, <1>6, <1>7, <1>8

\* The checks of one route: the next one is reached with one more of its
\* parts known.
LEMMA RouteHolds ==
  ASSUME IInv,
         CheckSomeRoute \/ CheckRoute \/ CheckRouteTimeout \/ CheckPolicy
           \/ CheckLeaseBudget
  PROVE  IInv'
<1>. USE DEF FromTuning, FromHubUrl, FromDefaults, FromRoutes, InRoutes,
       FromTimeout, FromPolicy, FromBudget, FromUnique
<1>1. /\ config' = config /\ route' = route /\ names' = names /\ pairs' = pairs
  BY DEF CheckSomeRoute, CheckRoute, CheckRouteTimeout, CheckPolicy,
         CheckLeaseBudget
<1>2. /\ config \in Config /\ route \in Nat /\ leaseTaken \in Int
      /\ leaseTaken < OverflowLease
  BY DEF IInv, TypeOK, BudgetIsExact
<1>3. HeadKnown /\ pc \in FromRoutes
  BY DEF CheckSomeRoute, CheckRoute, CheckRouteTimeout, CheckPolicy,
         CheckLeaseBudget, IInv
<1>4. ASSUME pc' \in InRoutes, RouteKnown', EarlierKnown', leaseTaken' \in Int,
             leaseTaken' < OverflowLease
      PROVE  IInv'
  <2>1. TypeOK' /\ BudgetIsExact'
    BY <1>1, <1>2, <1>4 DEF TypeOK, BudgetIsExact, Checks
  <2>2. HeadKnown'
    BY <1>1, <1>3, <1>4 DEF HeadKnown
  <2>3. VerdictIsRight'
    BY <1>4 DEF VerdictIsRight, Errors
  <2>. QED  BY <1>4, <2>1, <2>2, <2>3 DEF IInv
<1>5. ASSUME pc' \in Errors, ~Usable(config), leaseTaken' \in Int,
             leaseTaken' < OverflowLease
      PROVE  IInv'
  BY <1>1, <1>2, <1>5, RefusedHolds
<1>6. CASE CheckSomeRoute
  <2>1. leaseTaken' = leaseTaken /\ route = 1 /\ names = {} /\ pairs = {}
    BY <1>3, <1>6 DEF CheckSomeRoute, HeadKnown
  <2>2. CASE config.routes = <<>>
    BY <1>2, <1>5, <1>6, <2>1, <2>2 DEF CheckSomeRoute, Usable, Errors
  <2>3. CASE config.routes # <<>>
    <3>1. pc' = "route"
      BY <1>6, <2>3 DEF CheckSomeRoute
    <3>2. config.routes \in Seq(Route)
      BY <1>2 DEF Config
    <3>3. /\ 1 \in DOMAIN config.routes
          /\ \A i \in DOMAIN config.routes : ~(i < 1)
      BY <2>3, <3>2
    <3>4. RouteKnown'
      BY <1>1, <2>1, <3>1, <3>3 DEF RouteKnown
    <3>5. EarlierKnown'
      BY <1>1, <2>1, <3>3 DEF EarlierKnown
    <3>. QED  BY <1>2, <1>4, <2>1, <3>1, <3>4, <3>5
  <2>. QED  BY <2>2, <2>3
<1>7. ASSUME pc \in InRoutes
      PROVE  /\ route \in DOMAIN config.routes /\ Current \in Route
             /\ Current.policy \in Policy /\ Current.webhook_url \in Url
             /\ Current' = Current
             /\ EarlierKnown
             /\ pc' \in InRoutes => EarlierKnown'
  <2>1. route \in DOMAIN config.routes /\ EarlierKnown
    BY <1>7 DEF IInv, RouteKnown
  <2>2. config.routes \in Seq(Route)
    BY <1>2 DEF Config
  <2>3. Current \in Route
    BY <2>1, <2>2 DEF Current
  <2>4. Current.policy \in Policy /\ Current.webhook_url \in Url
    BY <2>3 DEF Route
  <2>5. Current' = Current
    BY <1>1 DEF Current
  <2>6. pc' \in InRoutes => EarlierKnown'
    BY <1>1, <1>7, <2>1 DEF EarlierKnown
  <2>. QED  BY <2>1, <2>3, <2>4, <2>5, <2>6
<1>8. ASSUME pc \in InRoutes, ~RouteUsable(config, Current)
      PROVE  ~Usable(config)
  BY <1>7, <1>8 DEF Usable, Current
<1>9. CASE CheckRoute
  <2>1. pc \in InRoutes /\ leaseTaken' = leaseTaken
    BY <1>9 DEF CheckRoute
  <2>2. CASE /\ {Current.name, Current.topic, Current.subscription} \subseteq Plain
             /\ Current.webhook_url \in {"http", "slashed"}
    <3>1. pc' = "timeout"
      BY <1>7, <1>9, <2>1, <2>2, UrlVerdicts DEF CheckRoute, Checks
    <3>2. RouteKnown'
      BY <1>1, <1>7, <2>1, <2>2, <3>1 DEF RouteKnown
    <3>. QED  BY <1>2, <1>4, <1>7, <2>1, <3>1, <3>2
  <2>3. CASE ~(/\ {Current.name, Current.topic, Current.subscription} \subseteq Plain
               /\ Current.webhook_url \in {"http", "slashed"})
    <3>1. pc' \in Errors
      <4>1. "Route" \in Errors /\ "timeout" \in Checks
        BY DEF Errors, Checks
      <4>. QED  BY <1>7, <1>9, <2>1, <2>3, <4>1, UrlVerdicts DEF CheckRoute
    <3>2. ~RouteUsable(config, Current)
      BY <2>3, RouteUsableParts
    <3>. QED  BY <1>2, <1>5, <1>8, <2>1, <3>1, <3>2
  <2>. QED  BY <2>2, <2>3
<1>10. CASE CheckRouteTimeout
  <2>1. pc = "timeout" /\ leaseTaken' = leaseTaken
    BY <1>10 DEF CheckRouteTimeout
  <2>2. CASE /\ Current.timeoutGiven
             /\ Current.webhook_timeout_ms < MIN_WEBHOOK_TIMEOUT_MS
    <3>1. Current.webhook_timeout_ms \in Nat
      BY <1>7, <2>1 DEF Route
    <3>2. ~(Timeout(config, Current) >= MIN_WEBHOOK_TIMEOUT_MS)
      BY <2>2, <3>1 DEF Timeout, MIN_WEBHOOK_TIMEOUT_MS
    <3>3. ~RouteUsable(config, Current)
      BY <3>2, RouteUsableParts
    <3>4. pc' \in Errors
      BY <1>10, <2>2 DEF CheckRouteTimeout, Errors
    <3>. QED  BY <1>2, <1>5, <1>8, <2>1, <3>3, <3>4
  <2>3. CASE ~(/\ Current.timeoutGiven
               /\ Current.webhook_timeout_ms < MIN_WEBHOOK_TIMEOUT_MS)
    <3>1. pc' = "policy"
      BY <1>10, <2>3 DEF CheckRouteTimeout
    <3>2. config.defaults.webhook_timeout_ms >= MIN_WEBHOOK_TIMEOUT_MS
      BY <1>3, <2>1 DEF HeadKnown, DefaultsOK
    <3>3. Current.webhook_timeout_ms \in Nat
      BY <1>7, <2>1 DEF Route
    <3>4. Timeout(config, Current) >= MIN_WEBHOOK_TIMEOUT_MS
      BY <2>3, <3>2, <3>3 DEF Timeout, MIN_WEBHOOK_TIMEOUT_MS
    <3>5. Timeout(config, Current)' = Timeout(config, Current)
      BY <1>1, <1>7, <2>1 DEF Timeout
    <3>6. RouteKnown'
      <4>1. RouteKnown
        BY DEF IInv
      <4>. QED  BY <1>1, <1>7, <2>1, <3>1, <3>4, <3>5, <4>1 DEF RouteKnown
    <3>. QED  BY <1>2, <1>4, <1>7, <2>1, <3>1, <3>6
  <2>. QED  BY <2>2, <2>3
<1>11. CASE CheckPolicy
  <2>1. pc = "policy" /\ leaseTaken' = leaseTaken
    BY <1>11 DEF CheckPolicy
  <2>2. CASE PolicyOK(Current.policy)
    <3>1. pc' = "budget"
      BY <1>11, <2>2 DEF CheckPolicy, PolicyOK
    <3>2. Timeout(config, Current)' = Timeout(config, Current)
      BY <1>1, <1>7, <2>1 DEF Timeout
    <3>3. PolicyOK(Current.policy)' = PolicyOK(Current.policy)
      BY <1>7, <2>1 DEF PolicyOK, LeaseOK
    <3>4. RouteKnown'
      <4>1. RouteKnown
        BY DEF IInv
      <4>. QED  BY <1>1, <1>7, <2>1, <2>2, <3>1, <3>2, <3>3, <4>1 DEF RouteKnown
    <3>. QED  BY <1>2, <1>4, <1>7, <2>1, <3>1, <3>4
  <2>3. CASE ~PolicyOK(Current.policy)
    <3>1. pc' \in Errors
      BY <1>11, <2>3 DEF CheckPolicy, PolicyOK, Errors
    <3>2. ~RouteUsable(config, Current)
      BY <2>3, RouteUsableParts
    <3>. QED  BY <1>2, <1>5, <1>8, <2>1, <3>1, <3>2
  <2>. QED  BY <2>2, <2>3
<1>12. CASE CheckLeaseBudget
  <2>1. pc = "budget" /\ leaseTaken' = EffectiveLease(Current)
    BY <1>12 DEF CheckLeaseBudget
  <2>2. PolicyOK(Current.policy) /\ RouteKnown
    BY <2>1 DEF IInv, RouteKnown
  <2>3. leaseTaken' \in Int /\ leaseTaken' < OverflowLease
    BY <1>7, <2>1, <2>2, LeaseTaken
  <2>4. CASE BudgetKept(config, Current)
    <3>1. pc' = "unique"
      BY <1>12, <2>4 DEF CheckLeaseBudget, BudgetKept
    <3>2. /\ Timeout(config, Current)' = Timeout(config, Current)
          /\ PolicyOK(Current.policy)' = PolicyOK(Current.policy)
          /\ BudgetKept(config, Current)' = BudgetKept(config, Current)
      BY <1>1, <1>7, <2>1
      DEF Timeout, PolicyOK, LeaseOK, BudgetKept, EffectiveLease
    <3>3. RouteKnown'
      BY <1>1, <1>7, <2>1, <2>2, <2>4, <3>1, <3>2 DEF RouteKnown
    <3>. QED  BY <1>4, <1>7, <2>1, <2>3, <3>1, <3>3
  <2>5. CASE ~BudgetKept(config, Current)
    <3>1. pc' \in Errors
      BY <1>12, <2>5 DEF CheckLeaseBudget, BudgetKept, Errors
    <3>2. ~RouteUsable(config, Current)
      BY <2>5, RouteUsableParts
    <3>. QED  BY <1>5, <1>8, <2>1, <2>3, <3>1, <3>2
  <2>. QED  BY <2>4, <2>5
<1>. QED  BY <1>6, <1>9, <1>10, <1>11, <1>12

\* check_unique: the route joins the ones that are known to be usable and
\* distinct.
LEMMA UniqueHolds ==
  ASSUME IInv, CheckUnique
  PROVE  IInv'
<1>. USE DEF FromTuning, FromHubUrl, FromDefaults, FromRoutes, InRoutes,
       FromTimeout, FromPolicy, FromBudget, FromUnique
<1>. DEFINE n == Len(config.routes)
<1>1. /\ config' = config /\ leaseTaken' = leaseTaken /\ pc = "unique"
  BY DEF CheckUnique
<1>2. /\ config \in Config /\ config.routes \in Seq(Route) /\ n \in Nat
      /\ DOMAIN config.routes = 1 .. n /\ route \in 1 .. n
      /\ leaseTaken \in Int /\ leaseTaken < OverflowLease
  <2>1. config \in Config /\ route \in DOMAIN config.routes
    BY <1>1 DEF IInv, TypeOK, RouteKnown
  <2>2. config.routes \in Seq(Route)
    BY <2>1 DEF Config
  <2>. QED  BY <2>1, <2>2 DEF IInv, TypeOK, BudgetIsExact
<1>3. HeadKnown /\ RouteKnown /\ EarlierKnown
  BY DEF IInv
<1>4. RouteUsable(config, Current)
  BY <1>1, <1>3, RouteUsableParts DEF RouteKnown
<1>5. Current = config.routes[route]
  BY DEF Current
<1>6. CASE Seen(Current)
  <2>1. PICK i \in DOMAIN config.routes :
          i < route /\ ~Distinct(config.routes[i], config.routes[route])
    <3>1. CASE Current.name \in names
      BY <1>1, <1>3, <1>5, <3>1 DEF EarlierKnown, Distinct
    <3>2. CASE Pair(Current) \in pairs
      BY <1>1, <1>3, <1>5, <3>2 DEF EarlierKnown, Distinct
    <3>. QED  BY <1>6, <3>1, <3>2 DEF Seen
  <2>2. i # route
    BY <1>2, <2>1
  <2>3. ~Usable(config)
    BY <1>2, <2>1, <2>2 DEF Usable
  <2>4. pc' \in Errors /\ route' \in Nat
    BY <1>2, <1>6 DEF CheckUnique, Errors
  <2>. QED  BY <1>1, <1>2, <2>3, <2>4, RefusedHolds
<1>7. CASE ~Seen(Current)
  <2>. DEFINE Done == {k \in DOMAIN config.routes : k <= route}
  <2>1. \A i \in Done : RouteUsable(config, config.routes[i])
    <3>1. SUFFICES ASSUME NEW i \in Done
                   PROVE  RouteUsable(config, config.routes[i])
      OBVIOUS
    <3>2. i < route \/ i = route
      BY <1>2
    <3>. QED  BY <1>1, <1>3, <1>4, <1>5, <3>2 DEF EarlierKnown
  <2>2. \A i \in DOMAIN config.routes : i < route =>
          /\ Distinct(config.routes[i], config.routes[route])
          /\ Distinct(config.routes[route], config.routes[i])
    <3>1. SUFFICES ASSUME NEW i \in DOMAIN config.routes, i < route
                   PROVE  /\ config.routes[i].name # Current.name
                          /\ Pair(config.routes[i]) # Pair(Current)
      BY <1>5 DEF Distinct
    <3>2. config.routes[i].name \in names /\ Pair(config.routes[i]) \in pairs
      BY <1>1, <1>3, <3>1 DEF EarlierKnown
    <3>. QED  BY <1>7, <3>2 DEF Seen
  <2>3. \A i, j \in Done : i # j =>
          Distinct(config.routes[i], config.routes[j])
    <3>1. SUFFICES ASSUME NEW i \in Done, NEW j \in Done, i # j
                   PROVE  Distinct(config.routes[i], config.routes[j])
      OBVIOUS
    <3>2. (i < route /\ j < route) \/ (i < route /\ j = route)
          \/ (i = route /\ j < route)
      BY <1>2, <3>1
    <3>. QED  BY <1>1, <1>3, <2>2, <3>1, <3>2 DEF EarlierKnown
  <2>4. CASE route < n
    <3>1. pc' = "route" /\ route' = route + 1
      BY <1>7, <2>4 DEF CheckUnique
    <3>2. route' \in 1 .. n
      BY <1>2, <2>4, <3>1
    <3>3. {k \in DOMAIN config.routes : k < route'} = Done
      BY <1>2, <3>1
    <3>4. /\ Done = {k \in DOMAIN config.routes : k < route} \cup {route}
      BY <1>2
    <3>5. /\ names' = {config.routes[i].name : i \in Done}
          /\ pairs' = {Pair(config.routes[i]) : i \in Done}
      <4>1. /\ names' = names \cup {config.routes[route].name}
            /\ pairs' = pairs \cup {Pair(config.routes[route])}
        BY <1>5 DEF CheckUnique
      <4>. QED  BY <1>1, <1>3, <3>4, <4>1 DEF EarlierKnown
    <3>6. EarlierKnown'
      <4>1. \A i \in DOMAIN config.routes : i < route' => i \in Done
        BY <3>3
      <4>. HIDE DEF Done
      <4>. QED  BY <1>1, <2>1, <2>3, <3>3, <3>5, <4>1 DEF EarlierKnown
    <3>7. RouteKnown' /\ HeadKnown'
      BY <1>1, <1>2, <1>3, <3>1, <3>2 DEF RouteKnown, HeadKnown
    <3>8. TypeOK' /\ BudgetIsExact' /\ VerdictIsRight'
      BY <1>1, <1>2, <3>1, <3>2
      DEF TypeOK, BudgetIsExact, VerdictIsRight, Checks, Errors
    <3>. QED  BY <3>6, <3>7, <3>8 DEF IInv
  <2>5. CASE ~(route < n)
    <3>1. pc' = "accepted" /\ route' = route
      BY <1>7, <2>5 DEF CheckUnique
    <3>2. Done = DOMAIN config.routes /\ config.routes # <<>>
      BY <1>2, <2>5
    <3>3. Usable(config)
      <4>1. /\ config.wellFormed /\ TuningOK(config.tuning)
            /\ config.hub_url = "http" /\ DefaultsOK(config.defaults)
        BY <1>1, <1>3 DEF HeadKnown
      <4>2. \A i \in DOMAIN config.routes :
              /\ RouteUsable(config, config.routes[i])
              /\ \A j \in DOMAIN config.routes :
                   i # j => Distinct(config.routes[i], config.routes[j])
        BY <2>1, <2>3, <3>2
      <4>. QED  BY <3>2, <4>1, <4>2 DEF Usable, DefaultsOK
    <3>4. RouteKnown' /\ HeadKnown' /\ EarlierKnown'
      BY <3>1 DEF RouteKnown, HeadKnown, EarlierKnown
    <3>5. TypeOK' /\ BudgetIsExact' /\ VerdictIsRight'
      BY <1>1, <1>2, <3>1, <3>3
      DEF TypeOK, BudgetIsExact, VerdictIsRight, Checks, Errors
    <3>. QED  BY <3>4, <3>5 DEF IInv
  <2>. QED  BY <2>4, <2>5
<1>. QED  BY <1>6, <1>7

-----------------------------------------------------------------------------
\* The invariant holds of every run, from every configuration.
THEOREM InvariantHolds == Spec => []IInv
<1>1. IInv /\ [Next]_vars => IInv'
  <2> SUFFICES ASSUME IInv, [Next]_vars PROVE IInv'
    OBVIOUS
  <2>1. CASE FromProjectTable \/ CheckTuning \/ CheckHubUrl \/ CheckDefaults
    BY <2>1, HeadHolds
  <2>2. CASE CheckSomeRoute \/ CheckRoute \/ CheckRouteTimeout \/ CheckPolicy
             \/ CheckLeaseBudget
    BY <2>2, RouteHolds
  <2>3. CASE CheckUnique
    BY <2>3, UniqueHolds
  <2>4. CASE UNCHANGED vars
    BY <2>4
    DEF vars, IInv, TypeOK, HeadKnown, RouteKnown, EarlierKnown, Current,
        VerdictIsRight, BudgetIsExact, Timeout, PolicyOK, LeaseOK, BudgetKept
  <2>. QED  BY <2>1, <2>2, <2>3, <2>4 DEF Next
<1>. QED  BY <1>1, InitHolds, PTL DEF Spec

\* Every variable keeps its type.
THEOREM ConfigTypeCorrect == Spec => []TypeOK
BY InvariantHolds, PTL DEF IInv

\* K8: what is accepted is usable, what is refused is not.
THEOREM VerdictCorrect == Spec => []VerdictIsRight
<1>1. IInv => VerdictIsRight
  BY DEF IInv
<1>. QED  BY <1>1, InvariantHolds, PTL

\* No lease of a config file reaches the 70 percent of AR5 unchecked.
THEOREM BudgetNeverOverflows == Spec => []BudgetIsExact
<1>1. IInv => BudgetIsExact
  BY DEF IInv
<1>. QED  BY <1>1, InvariantHolds, PTL

\* AR5: the budget of a route that asks for a lease is that lease's.
THEOREM BudgetFollowsLease == Spec => []BudgetIsOfLeaseAsked
<1>1. IInv => BudgetIsOfLeaseAsked
  <2> SUFFICES ASSUME IInv, pc = "accepted", NEW i \in DOMAIN config.routes,
                      config.routes[i].policy.given,
                      config.routes[i].policy.leaseIs # "absent"
               PROVE  Timeout(config, config.routes[i])
                        + config.tuning.settle_timeout_ms
                      <= BudgetOf(config.routes[i].policy.lease_ms)
    BY DEF BudgetIsOfLeaseAsked
  <2>1. RouteUsable(config, config.routes[i])
    BY DEF IInv, VerdictIsRight, Usable
  <2>2. config.routes[i] \in Route
    <3>1. config.routes \in Seq(Route)
      BY DEF IInv, TypeOK, Config
    <3>. QED  BY <3>1
  <2>3. PolicyOK(config.routes[i].policy) /\ BudgetKept(config, config.routes[i])
    BY <2>1, RouteUsableParts
  <2>4. EffectiveLease(config.routes[i]) = config.routes[i].policy.lease_ms
    BY <2>2, <2>3, LeaseTaken, Zenon
  <2>. QED  BY <2>3, <2>4, Zenon DEF BudgetKept
<1>. QED  BY <1>1, InvariantHolds, PTL

\* Seventy percent of a hundred whole parts and a remainder.
LEMMA SeventyOfParts ==
  ASSUME NEW q \in Int, NEW r \in Int
  PROVE  ((100 * q + r) * 70) \div 100 = q * 70 + (r * 70) \div 100
<1> DEFINE s == r * 70
<1>1. s \in Int /\ (100 * q + r) * 70 = 100 * (q * 70) + s
  OBVIOUS
<1>2. \A a, b \in Int : (100 * a + b) \div 100 = a + b \div 100
  OBVIOUS
<1>3. q * 70 \in Int
  OBVIOUS
<1> HIDE DEF s
<1>4. (100 * (q * 70) + s) \div 100 = q * 70 + s \div 100
  BY <1>1, <1>2, <1>3
<1>5. ((100 * q + r) * 70) \div 100 = q * 70 + s \div 100
  BY <1>1, <1>4
<1>. QED  BY <1>5 DEF s

\* The formula of ClaimTiming's LeaseBudget is BudgetOf.
LEMMA BudgetIsSeventyPercent ==
  ASSUME NEW l \in Int
  PROVE  BudgetOf(l) = (l * 70) \div 100
<1> DEFINE q == l \div 100
           r == l % 100
<1>1. q \in Int /\ r \in Int /\ l = 100 * q + r
  OBVIOUS
<1>2. BudgetOf(l) = q * 70 + (r * 70) \div 100
  BY DEF BudgetOf
<1> HIDE DEF q, r
<1>3. (l * 70) \div 100 = q * 70 + (r * 70) \div 100
  BY <1>1, SeventyOfParts
<1>. QED  BY <1>2, <1>3

\* What the other modules take as given of the times of a route: ClaimTiming
\* its ValidatedAssumption, and HubBackoff, whose bases and caps are the two
\* pairs, its BackoffAssumption.
TimesAsAssumed ==
  pc = "accepted" =>
    \A i \in DOMAIN config.routes :
      LET t == config.tuning
          lease == EffectiveLease(config.routes[i])
          timeout == Timeout(config, config.routes[i])
      IN  /\ {lease, timeout, t.settle_timeout_ms, t.hub_backoff_ms,
              t.hub_backoff_max_ms, t.circuit_probe_ms,
              t.circuit_probe_max_ms} \subseteq Nat
          /\ timeout + t.settle_timeout_ms <= (lease * 70) \div 100
          /\ t.hub_backoff_ms <= t.hub_backoff_max_ms
          /\ t.circuit_probe_ms <= t.circuit_probe_max_ms

\* The check earns the assumptions under which the timing and the delays of
\* a route are proved: they hold of every configuration it accepts.
THEOREM AssumptionsAreEarned == Spec => []TimesAsAssumed
<1>1. IInv => TimesAsAssumed
  <2> SUFFICES ASSUME IInv, pc = "accepted", NEW i \in DOMAIN config.routes
               PROVE  LET t == config.tuning
                          lease == EffectiveLease(config.routes[i])
                          timeout == Timeout(config, config.routes[i])
                      IN  /\ {lease, timeout, t.settle_timeout_ms,
                              t.hub_backoff_ms, t.hub_backoff_max_ms,
                              t.circuit_probe_ms, t.circuit_probe_max_ms}
                             \subseteq Nat
                          /\ timeout + t.settle_timeout_ms
                             <= (lease * 70) \div 100
                          /\ t.hub_backoff_ms <= t.hub_backoff_max_ms
                          /\ t.circuit_probe_ms <= t.circuit_probe_max_ms
    BY DEF TimesAsAssumed
  <2> DEFINE r == config.routes[i]
  <2>1. RouteUsable(config, r) /\ TuningOK(config.tuning)
    BY DEF IInv, VerdictIsRight, Usable
  <2>2. config \in Config /\ r \in Route
    <3>1. config \in Config /\ config.routes \in Seq(Route)
      BY DEF IInv, TypeOK, Config
    <3>. QED  BY <3>1
  <2>3. EffectiveLease(r) \in Nat
    BY <2>2 DEF EffectiveLease, Route, Policy, HUB_DEFAULT_LEASE_MS
  <2>4. Timeout(config, r) \in Nat
    BY <2>2 DEF Timeout, Config, Defaults, Route
  <2>5. config.tuning \in Tuning
    BY <2>2 DEF Config
  <2>6. Timeout(config, r) + config.tuning.settle_timeout_ms
        <= (EffectiveLease(r) * 70) \div 100
    <3>1. BudgetKept(config, r)
      BY <2>1, RouteUsableParts
    <3>2. BudgetOf(EffectiveLease(r)) = (EffectiveLease(r) * 70) \div 100
      BY <2>3, BudgetIsSeventyPercent
    <3>. QED  BY <3>1, <3>2 DEF BudgetKept
  <2>7. /\ config.tuning.hub_backoff_ms <= config.tuning.hub_backoff_max_ms
        /\ config.tuning.circuit_probe_ms <= config.tuning.circuit_probe_max_ms
    BY <2>1, <2>5 DEF TuningOK, PairOK, Tuning
  <2>. QED  BY <2>3, <2>4, <2>5, <2>6, <2>7 DEF Tuning
<1>. QED  BY <1>1, InvariantHolds, PTL
=============================================================================
