# Verification of kyu-runner

kyu-runner is a pump: for each configured route it long-polls a topic
subscription of a kyu hub, POSTs every message to a Home Assistant webhook,
and settles the claim with the hub (ack after a 2xx, nack otherwise). It
stores nothing. What makes it correct is therefore not a data structure but
the order of calls to two other machines that fail, answer late or go away,
and the few flags a loop keeps between its polls. That is what these modules
model, what TLC checks, and what TLAPS proves.

Paths below are relative to the repository's root; `route/`, `hub/`, ... are
directories of its `src/`.

## 1. Inventory of the system

| Part | State it keeps | Operations | Interacts with |
|---|---|---|---|
| Route loop (`route/mod.rs`, `route/outcome.rs`) | `LoopState`: replay flag, policy pending, two backoffs, log-only flags | `run`: poll, then one handler per outcome; `wait_out_circuit` | hub client (calls), webhook client, health (writes), shutdown channel (reads) |
| Ladder and settle (`route/deliver.rs`) | start time, next pause, attempts of a settle | `deliver_with_budget`, `settle_ack`, `settle_nack` | both clients, shutdown |
| Policy (`route/policy.rs`) | `policy_pending` | `apply_policy`, inside the empty and the message handler | hub client |
| Waiting (`route/backoff.rs`) | next delay | `interrupted`, `Backoff::next`, `reset` | shutdown channel |
| Hub client (`hub/`) | none (two HTTP clients) | `next`, `ack`, `nack`, `put_policy`, `read_claim` | the hub, over HTTP, with a timeout on every call |
| Recovery and log flags (`route/`) | `hub_down`, `auth_denied`, `unborn_logged`, `policy_warned` | `note_recovery`, `note_topic_alive`, each handler's logging | the two backoffs, the log |
| Webhook client (`webhook.rs`) | the connection pool of the one client all routes share | `deliver`, `classify`, `probe_origin` | the webhook's host |
| Supervisor (`pump.rs`) | the loop's task | `spawn_pump`, `supervise` | the loop (join), shutdown, health |
| Process (`main.rs`) | the stop sender, the tasks | start, `on_flush`, `drain_tasks` | supervisors (shutdown channel, join), the kit that bounds the hook |
| Health (`health.rs`) | one state per route, two counters | `set`, `count_*`, `check` | written by loop and supervisor, read by `/healthz` and `/metrics` |
| Configuration (`config/`) | the values under validation | parse, `validate` and its checks, the lease budget | read at start |
| kyu hub (another program) | topics, subscriptions, claims, leases, attempts | next, ack, nack, policy; lease and retry timers | every runner |

What is hard here: every call to the hub may be served and its answer lost,
or be served after its caller has gone on (a timeout, a cancelled poll, a
panic, a kill); leases run out under a claim that is still being worked on;
a shutdown may come at any await; the first claim of a subscription runs
under other times than those the budget is made from; a flag that is only in
memory stands for a promise about messages that were already published; two
timeouts race over how a failure is classified; every route's task is waited
for against one deadline, inside a hook that has another.
`PROJECT.json` lists each of these hazards at its line with the properties
that cover it.

What makes each part correct:

* route loop: nothing is lost, the replay owed is made, the policy lands, an
  outage does not eat the backlog's attempts, one message is in flight, it
  stops when told to;
* ladder and settle: the claim is handed on within its lease budget, counted
  from the ladder's start, and at a bounded age counted from the hub's grant;
  only what the webhook processed is acked; a settle names its own claim;
* waiting and log flags: a delay follows the failures in a row, the log has a
  line per cause and not per poll;
* hub client: no more than the cap is kept, and the verdict is exact;
* webhook client: an outage costs few claims and is noticed, whatever order
  the timeouts come in;
* supervisor and process: a loop that dies leaves no trace but an open claim
  and runs again; the drain fits the grace and cuts nothing that fitted;
* health: a failing state is left once the reason is gone;
* configuration: what it accepts is usable in all its routes together, and
  satisfies what the timing needs.

## 2. The modules

| Module | Models | Kind |
|---|---|---|
| `KyuHub` | the hub, for one topic and one subscription | component (external) |
| `RouteLoop` | one route's loop, its supervisor and process, the wire and the webhook's host; extends `KyuHub` | component and composition |
| `AtLeastOnce` | what a route promises its publishers | abstract specification |
| `MCRouteLoop` | the budgets of mishaps for TLC | instance |
| `RouteLoopProofs` | types, and that nothing is lost, proved of `RouteLoop` | proofs |
| `RouteFlagProofs` | the replay, the policy and the circuit, proved of `RouteLoop`; extends `RouteLoopProofs` | proofs |
| `RouteClaimProofs` | whose settle ends a claim, how many claims are open, and that `RouteLoop` implements the safety part of `AtLeastOnce`; extends `RouteLoopProofs` | proofs |
| `ClaimTiming` | the clock of one claim, from the hub's grant: reading the body, policy PUT, ladder, settle, open circuit, shutdown | component |
| `ClaimTimingProofs` | theorems about `ClaimTiming` | proofs |
| `Supervision` | the supervise tasks of all routes, and the drain | component |
| `SupervisionProofs` | theorems about `Supervision` | proofs |
| `WebhookCircuit` | the shared webhook client under a host that dies | component |
| `MCWebhookCircuit` | three routes and their timeouts for TLC | instance |
| `WebhookCircuitProofs` | theorems about `WebhookCircuit` | proofs |
| `ClaimReader` | how a poll's response is read under the cap | component |
| `HubBackoff` | the two backoffs and the log flags of a loop | component |
| `HubPolls` | `ClaimReader` and `HubBackoff` together: polls and what the loop makes of them | composition |
| `MCHubPolls` | bases and caps for TLC | instance |
| `HubPollsProofs` | theorems about `ClaimReader` and `HubBackoff`, and that `HubPolls` implements both | proofs |
| `ConfigCheck` | the validation of a configuration and the lease budget it derives | component |
| `MCConfigCheck` | 1304 configurations for TLC | instance |
| `ConfigCheckProofs` | theorems about `ConfigCheck` | proofs |

How they fit: `RouteLoop` is one route with everything that can happen to it,
without time. `ClaimTiming` adds the clock to one claim, `Supervision` the
other routes and the end of the process, `WebhookCircuit` the network behind
the connect class, `HubPolls` the reading of a response and the waits and log
lines that follow from it. `ConfigCheck` is where the assumptions of the
others about configured values come from.

### RouteLoop and KyuHub

`pc` is the await the loop is in, and an action is the code from one await to
the next: `OnEmpty` is `on_empty` up to the policy PUT, `PolicyReturns` the
rest of it (or of `on_message` up to the first POST). `replay` and
`policyPending` are the `LoopState` fields of those names; `job` is the claim
being handled, `tries` the loop counter of the ladder or the settle, `after`
the `Flow` a handler returns once its nack is through. `health` is the string
given to `HealthState::set`, `counted` the messages behind `delivered_total`.

A hub call is a request in `call` until its `answer` has been consumed.
`HubServes(r, a)` is the hub processing `r` atomically and answering `a`.
`CallFails` is everything that can go wrong on the way: 401, or an error with
the request served (answer lost), not served, or still under way. In the last
case, and when the caller goes away (`Abandon`: a poll dropped by the biased
`select!`, a panic, a kill), the request is kept in `orphans` and may be
served at any later time, or never.

Details that follow the code closely:

* the select in `run` is biased to shutdown, so no poll outcome is handled
  once shutdown is set; inside a handler nothing but `interrupted` looks at
  it, and `interrupted` looks before it waits (`Wait`);
* a failed POST with time left in the budget either waits and tries again or
  is nacked (budget used up); with shutdown set the wait ends at once with
  `DeliverEnd::Shutdown`;
* after `GiveUp` without connect class, and after an oversized claim, the
  reported state is not set; closing the circuit does not set it either;
* an oversized claim neither clears the replay flag nor pushes the policy;
* a panic and a kill differ: a panic keeps the process's counters and reports
  `respawning`, and the supervisor gives up when shutdown is set.

Abstractions, and why they are sound for the properties checked:

* time: a timeout may strike at any moment, the lease budget is the free
  choice to try again or give up, at most `MaxPosts` POSTs per ladder; every
  real schedule is among these. `ClaimTiming` adds the clock;
* a POST that connects and does not end in a 2xx (a non-2xx status, a broken
  or timed-out request) may or may not have been processed by the webhook; a
  webhook that processes a request long after it timed out is not modelled;
* the connect class is taken to be exact: a connect fails iff the host is
  down. `WebhookCircuit` says when that is so;
* identical abandoned requests are one element of `orphans`; serving one of
  two identical settles changes the hub the same way as serving either;
* the verdict on a body is exact, and the flags that only decide what is
  logged and the backoff durations are left out: `HubPolls` has them;
* `nacked_total` is left out (no state reads it), and so are the hub's
  retention, pause and events;
* `burnt` and `unbornSeen` are history variables: no action reads them except
  to update them.

`Budget` bounds how many calls fail and how many panics, kills, outages and
orders to stop happen, each and together (`"any"`); it is the only bound on
them. With all mishaps spent the system still runs, so liveness is judged
after the last one.

### AtLeastOnce

State per message (`unowed`, `open`, `done`, `dead`), the set the webhook
accepted, and whether the process is `running`. A message is settled only
after it was accepted, accepted only if it is not over the body cap, and no
message stays open for ever while the process runs. The refinement maps the
hub's `status` to `state`, the webhook's `received` to `accepted` and "shutdown
has not been signalled" to `running`: a stop suspends the promise in time, the
next start renews it, and neither touches the promise that nothing is lost.

### ClaimTiming

One claim after another, with `now` running from the moment the hub grants the
claim, which is when its lease begins; an await with a timeout takes any time
up to it. `shutAt` is when SIGTERM comes.

Between the grant and the ladder lies the body: `read_claim` awaits it chunk by
chunk under the poll client's timeout (`PollTimeout`, the poll's wait and 10 s),
and a claim may spend most of its lease there. `BodyRead` goes on to the PUT or
the ladder and takes the ladder's `start`; `BodyTooLarge` is nacked,
`BodyBreaks` is left to its lease. So the hub's lease runs from `now = 0`, the
budget from `start`.
`FitsBudget` is the test of `deliver_with_budget`; `LeaseBudget` and
`ShutdownGrace` are the derived times of `config/mod.rs`, the grace that of a
process with this one route (the grace of several is the longest of theirs, so
no smaller); `ValidatedAssumption` is what `validate_lease_budget` guarantees.
The lease of a claim taken while the policy is pending is the hub's default or,
when an earlier PUT landed and its answer was lost, the configured one.

After a nack for an unreachable webhook the route is in `circuit`: the wait
between probes listens for the shutdown, the probe (`ProbeReturns`) does not,
and takes up to `circuit_probe_timeout_ms`, which the validation lets be 600 s.

### Supervision

Per route the supervise task (`sup`), the inner task it has spawned (`loop`)
and the time `left` of what cannot be interrupted: a claim under work, or the
respawn pause, which does not listen to the signal. `Flush` is `on_flush`;
`HandleDone`, `HandleTimesOut` and `DrainReturns` are `drain_tasks`, one handle
after the other against one deadline; the abort ends `supervise` and leaves
the inner task as it is, detached, for as long as the process lives. The
timeout on a handle fires at `waitUntil`, which is set when the drain turns to
that handle (`Flush`, `NextHandle`) from what is `Remaining` of the shared
grace: that the timeouts of all handles together fit the grace is a fact about
`drain_tasks`, not about the clock, and fails if each handle gets the grace
anew (a mutant). `KitGivesUp` is external: the kit bounds a flush hook by
`shutdown_timeout_ms`. `PumpFails` is `build_clients` failing.

`Tick` is held up while a task can be polled or a timer is due, so the counts
are those of a machine that is not overloaded. What a loop does between two
looks at the signal is any work up to `MaxWork`; `ClaimTiming` bounds it.

### WebhookCircuit

Each route's try is `connecting`, on a `live` connection or on a `stale` one
whose other end is gone; the pool is two counters. The host can be up, hung
(its kernel accepts, nobody answers), refusing or silent. `RequestFails` is
what `classify` calls Failed, `ConnectFails` its ConnectClass; which of the
two a connect without an answer becomes follows from the order of
`ConnectTimeout`, which is one for the client, and `WebhookTimeout[r]`, which
each route may set; with equal timeouts it is either. The validation compares
the two nowhere, so neither does the model: `Patient` are the routes whose POST
outlasts the connect, and the properties say what holds of them and what of
all.
`TryIsOver` is `deliver_with_budget`'s next try or `GiveUp`, and what
`on_message` does with its class. The backlog is never empty.

### ClaimReader, HubBackoff and HubPolls

`ClaimReader` is `HubClient::next` for one poll after the other: the response
is fixed when the poll goes out, and then read in chunks of any length, or
breaks off. Lengths are small numbers around the cap.

`HubBackoff` has the rest of `LoopState`: `nextMs` of both `Backoff`s and the
four log flags. A step is a poll outcome with its whole handler
(`note_recovery`, `note_topic_alive`, `apply_policy`), a wait with its probe,
or a panic. `delay`, `row`, `lines` and `told` record what was waited and
logged. The jitter, made of the clock in the code, is any up to an eighth of
the step.

`HubPolls` is the `match` of `run`: each outcome `ClaimReader` comes to runs
its handler of `HubBackoff`.

### ConfigCheck

One action per check, in the order `Config::validate` makes them, with the
routes one by one; `pc` is the check that is next, `accepted`, or the
`ConfigError` returned. `names` and `pairs` are what `check_unique` has seen
so far. A table is a record of the values the checks tell apart: a string is
plain or not, a URL one of the kinds `validate_url` distinguishes, a policy
lease absent, an integer or something else. `BudgetOf` divides before it
multiplies, because the product does not fit the integers of TLC;
`OverflowLease` stands for a lease whose product does not fit a `u64`.
`Usable` says what is wanted of a configuration without an order.

### Mutants

An operator whose comment says "A mutant" is a plausible wrong version of the
one after it (the settle that does not name its attempt, the nack that is
forgotten, the guard that is missing). Nothing uses it; `PROJECT.json` says
which property has to fail when it takes the other's place. They guard against
properties that no error in the code could break.

## 3. The runs

All but one switch deadlock checking off, because the system really stops:
the loop ends on shutdown, and with all messages settled and all mishaps spent
a stopped route has no step left; `ClaimTiming` ends after `MaxClaims`,
`Supervision` when the process exits, `ConfigCheck` with its verdict, and the
routes of `WebhookCircuit` rest in front of a host that stays down. `polls`
is the exception: a loop that may panic at any time always has a next step,
and its deadlock check is on.

Passing runs:

| Run | Instance | What it shows |
|---|---|---|
| `safety` | 2 messages, 2 attempts, message 1 oversized, policy, 2 POSTs per ladder, any two mishaps | `TypeOK`; `ReplayArmed`: while a loop owes the birth messages its next poll asks for them; `PolicyLanded`: the policy stops being pending only once it is in force; `OutageBurnsOneAttempt`; `SettledWasReceived`: acked or counted implies processed by the webhook; `HeldClaimIsOwn`: no late settle of an earlier claim ends the claim the loop is working on |
| `in_flight` | 4 messages, messages 2 and 3 oversized, 1 attempt, 1 POST per ladder, any two of a lost call, a panic and a kill, and an order to stop | `OneInFlight`: one open claim, plus at most one per lost call, panic or kill |
| `liveness` | 2 messages, message 2 oversized, 2 POSTs per ladder, any two of a lost call, a panic, a kill, an outage and an order to stop, fairness | `ImplementsAtLeastOnce` (safety and liveness of the abstract specification), `FailingClears`, `ShutdownStops` |
| `timing` | lease 40 s, hub default 30 s, poll 11 s, webhook 10 s, settle 5 s, probe 30 s, circuit cap 40 s, a policy, 2 claims, SIGTERM at any of 51 seconds | `LadderInBudget`; `SettleAge`: the last settle call goes out at a bounded age; `SettledWithinLease`: within the lease, if the ladder began early enough and not under the hub's default lease before the policy was in force; `SettledWithinGrace`; `StopsInTime`: the route has stopped after the grace and a PUT, or after the probe |
| `supervision` | 2 routes, work up to 4 ticks, respawn pause 4, grace 3, a kit bound of 2 or 4, fairness | `DrainWithinGrace`: all timeouts together fit the one grace, and no supervisor is left that could respawn; `DrainNoLongerThanOwed`: waiting in turn and a panic on the way out add nothing; `CutOnlyPastBound`; `DeadRouteReturns` |
| `circuit_cost` | 3 routes with webhook timeouts 10, 10 and 2 on a client with connect timeout 3, 2 tries per ladder, 3 changes of the host, fairness | `OutageCost`: an outage costs each route at most one claim as unreachable, and the patient ones together one more per connection there was, whatever the impatient one does to the pool; `OutageNoticed`: if the host stays down, every route comes to rest in its circuit if it refuses, the patient ones however it is down |
| `polls` | bodies up to 4 around a cap of 2, backoffs 4 to 20 and 8 to 32 ms, policy, 4 failures in a row | `BufferBounded`, `VerdictExact`, `DelayFollowsFailures`, `OneLinePerCause`, `RecoveryIsTold` |
| `config` | 1304 configurations: a usable one, and those that differ from it in one part, at and around every limit, alone and among other routes | `VerdictIsRight`: accepted iff usable; `BudgetIsExact`; `BudgetIsOfLeaseAsked` |

Why the bounds are enough to be interesting. Two messages let one be behind
another (skipped, claimed out of turn, held up). Two attempts let a message be
claimed, lost and claimed again, which every stale settle needs, and let it
die. Two mishaps let one hit the recovery from the other. Two POSTs let the
ladder's wait be cut short. `in_flight` has four messages because the bound is at
most three there (one, and two mishaps): one more claim than allowed can always
be opened. Each message is claimed once in it; that redelivery changes nothing
is the theorem's. `timing` has one claim before the policy landed and one after,
or two before, with both leases; two slow POSTs or five quick ones fit a ladder,
a body may take longer to read than the lease leaves for a ladder and its ack,
and the probe may take longer than the grace. In `supervision` work and pause
can be longer than the grace, and the kit's bound is below it or above.
`circuit_cost` lets the host die, change its way of being down or come back,
and die again, with a connection of each route in the pool and a route that
gives up before the connect does. The caps of `polls` are reached within four
failures, one as a power of two of its base and one not, and its bodies end
before, at and after the cap.

Each passing property has been seen to fail: see the mutants.

Runs that find a disagreement between the code and what it says:

| Run | Statement | What TLC shows |
|---|---|---|
| `gap` | README: "killing the runner at any moment loses nothing"; user guide AR16: "nothing falls in the gap" | the runner sees a 404 and is killed (or its loop panics); the topic is born; the new loop's first poll carries no `from=beginning`, so the messages published in between are never owed |
| `slow_body` | `config/mod.rs`: "always settled by its owner, never by expiry" | the default times: the body takes 10 s to arrive, the ladder 21 s, and the first settle call is sent 31 s after the grant of a lease of 30 s |
| `grace` | `config/mod.rs`: "an in-flight delivery and its ack always fit" | SIGTERM during the policy PUT before a delivery: 5 + 10 + 5 + 1 + 5 s against 21 s of grace |
| `degraded` | `main.rs`: "the pump could not start; /healthz stays degraded" | the clients cannot be built, no route runs, and all of them are reported as `starting`, which `check` counts as ok |

The first is a loss the documents exclude, the last an outage of the whole
process that monitoring does not see; the others cost one duplicate that the
contract (at-least-once) allows.

Other differences between words and code met while modelling, each a matter of
reading two places rather than of a run:

* `on_message` counts a delivery after `settle_ack` whatever its result
  (`route/outcome.rs:110`); the metric's text says "delivered to the webhook
  and settled" (`health.rs:101`). A message whose acks fail is counted again
  when it returns;
* `drain_tasks` waits for the grace, 21 s with the defaults, inside a hook for
  which the kit allows 10 s unless told otherwise (`docs/KIT.md:142`); nothing
  compares the two. `CutOnlyPastBound` states what holds, with the smaller of
  both;
* `webhook.rs:42-44` says that a host that never answers the SYN fails as a
  connect error "rather than running into the whole-request timeout". With a
  route's webhook timeout below the connect timeout, which no check refuses, it
  is the other way round: the try counts as Failed, the circuit stays closed
  and the outage costs the backlog its attempts. These are the routes outside
  `Patient`; `RequestTimesOut` is the step;
* closing the circuit does not set the reported state (`route/outcome.rs:153`):
  it stays `circuit-open`, and `/healthz` 503, through the next long poll, while
  `health.rs:125-128` says the states count as failing "while they last";
* the lease budget reserves one settle call (`config/validate.rs`), and
  `settle_ack` makes two: with a settle timeout of 10 s and a webhook timeout
  of 11 s, both accepted, the second ack of a full ladder is sent 32 s after a
  grant of 30 s even if the body took no time, against "never by expiry".
  `SettleAge` bounds it, `SettledWithinLease` says when it cannot happen;
* Failed does not mean "the machine is up" (`webhook.rs:18-20`) for a POST on
  a connection whose host has since gone silent. `OutageCost` bounds how often
  that happens;
* the user guide gives the grace as "largest webhook timeout + 5 s"
  (`docs/USER_GUIDE.md:329-330`); it is two settle timeouts and a second more
  than the largest timeout, 11 s with the defaults.

## 4. Fairness

`FairSpec` assumes weak fairness of

* `Loop`: the async runtime polls a task that can go on, timeouts and sleeps
  end. One disjunction is enough: the loop is sequential;
* `HubAnswers`: an outstanding call is answered. A hub that stays silent is
  `CallFails` (every call has a timeout), of which there are finitely many;
* `HubTimer(m)`: leases and retry delays run out;
* `TargetComesUp`: an outage ends. This one is an assumption about the world;
  without it nothing is delivered and the loop waits in its circuit.

`Supervision!FairSpec` assumes that time passes (`Tick`), that `drain_tasks`
goes on when what it waits for is there (`Drain`), and that the runtime polls
each route's tasks (`Runtime(r)`). `WebhookCircuit!FairSpec` assumes of each
route that its await ends (`RouteStep(r)`): every one is bounded by a timeout.
The host need not ever come back.

Nothing is assumed of publishers, of shutdown, of failures, or of orphaned
requests ever being served. A target that answers non-2xx for ever is allowed:
the message dies.

## 5. Theorems

TLAPS proves, for every value of the constants (any number of messages,
attempts, POSTs, any budget; for `ClaimTiming` any times that satisfy the
validation; any number of routes, tries, bodies, failures and
configurations):

| Theorem | Statement |
|---|---|
| `RouteLoopProofs!TypeCorrect` | `Spec => []TypeOK` |
| `RouteLoopProofs!NothingLost` | `Spec => []SettledWasReceived` |
| `RouteFlagProofs!ReplayIsMade` | `Spec => []ReplayArmed` |
| `RouteFlagProofs!PolicyIsMade` | `Spec => []PolicyLanded` |
| `RouteFlagProofs!OutageCostsOne` | `Spec => []OutageBurnsOneAttempt` |
| `RouteFlagProofs!GapTakesDeath` | `Spec => [](~NothingFallsInTheGap => Deaths > 0)`: the finding of `gap` needs a panic or a kill |
| `RouteClaimProofs!HeldClaimStaysOwn` | `Spec => HeldClaimIsOwn`, on a hub with the late-ack check |
| `RouteClaimProofs!OneClaimInFlight` | `Spec => []OneInFlight` |
| `RouteClaimProofs!RouteKeepsItsPromise` | `Spec => Promise!Spec`: the refinement of `AtLeastOnce`, without its liveness |
| `ClaimTimingProofs!TimingTypeCorrect` | `Spec => []TypeOK` (what the others start from; no run checks it) |
| `ClaimTimingProofs!LadderFits` | `Spec => []LadderInBudget` |
| `ClaimTimingProofs!SettleAgeBounded` | `Spec => []SettleAge` |
| `ClaimTimingProofs!EarlyLadderSettles` | `Spec => []SettledWithinLease` |
| `ClaimTimingProofs!GraceFits` | `Spec => []SettledWithinGrace` |
| `ClaimTimingProofs!DrainFitsWithoutPut` | `Spec => [](DrainAlwaysFits \/ (putFirst /\ HasPolicy))`: the finding of `grace` needs a PUT |
| `ClaimTimingProofs!RouteStopsInTime` | `Spec => []StopsInTime` |
| `SupervisionProofs!DrainIsBounded` | `Spec => []DrainWithinGrace` |
| `SupervisionProofs!DrainIsNotIdle` | `Spec => []DrainNoLongerThanOwed` |
| `SupervisionProofs!DeliveryNotCut` | `Spec => []CutOnlyPastBound` |
| `WebhookCircuitProofs!OutageIsCheap` | `Spec => []OutageCost`, for timeouts in any order |
| `HubPollsProofs!BufferIsBounded` | `ReadSpec => []BufferBounded` |
| `HubPollsProofs!VerdictIsExact` | `ReadSpec => []VerdictExact` |
| `HubPollsProofs!LogIsQuiet` | `Spec => []OneLinePerCause` |
| `HubPollsProofs!RecoveryTold` | `Spec => RecoveryIsTold` |
| `HubPollsProofs!DelaysFollowFailures` | `Spec => []DelayFollowsFailures` |
| `HubPollsProofs!PollsAreOutcomes`, `PollsAreRead` | `PollSpec => Spec`, `PollSpec => ReadSpec` |
| `HubPollsProofs!PollsAreSafe` | all five of the above of `PollSpec`, the composition TLC runs |
| `ConfigCheckProofs!VerdictCorrect` | `Spec => []VerdictIsRight` |
| `ConfigCheckProofs!BudgetNeverOverflows` | `Spec => []BudgetIsExact` |
| `ConfigCheckProofs!BudgetFollowsLease` | `Spec => []BudgetIsOfLeaseAsked` |
| `ConfigCheckProofs!AssumptionsAreEarned` | `Spec => []TimesAsAssumed`: an accepted configuration satisfies the assumptions of `ClaimTiming` and `HubBackoff` |

Arguments:

* `TypeOK` is not inductive: an attempt number would leave its range if the hub
  claimed a message whose attempts are spent (`AttemptsLeft`), and serving a
  settle of no message would go outside `status` (`WireWellFormed`,
  `JobInHand`). `TypeInv` is the conjunction, and `TypeStep` proves it action
  by action; `HubServesType` is the hub's part, once for awaited and orphaned
  calls;
* `SettledWasReceived` needs to know that an ack under way, awaited or
  orphaned, is for something already received (`AcksHaveReason`). `received`
  never shrinks, so it is kept by every loss and delay; an ack is sent only by
  `PostAccepted` and its retry. The proof does not use the late-ack check, so
  nothing is lost on a hub that has none;
* `ReplayArmed` and `PolicyLanded` speak of the loop's flags once they are
  down; what makes them inductive is what is known while the call that will
  put a flag down is still out. `ReplayAnswered`: a poll asks for the replay
  when the flag is up, and once it is answered with a claim or with nothing
  no published message is skipped. `RespawnOwesNothing`: the loop about to be
  respawned, whose flag is gone, is not the one that saw the topic missing.
  `PolicyAnswered`: a PUT answered well has landed. `FlagInv` adds them to
  `TypeInv`. No step of the hub takes back what it owes or the policy
  (`HubAloneKeeps`), and an answer the loop acts on tells the truth about the
  hub at the time it was given (`ServedKeeps`);
* `OutageBurnsOneAttempt` is kept because of where the loop is once it has
  given a claim up for an unreachable host: in that nack, in the circuit, or
  at its end, and so at no POST until the host is back (`CircuitHolds`);
* `GapTakesDeath` marks off the finding of `gap`: `ReplayArmed` covers the loop
  that saw the topic missing, and a loop becomes one of the past only by a
  panic or a kill (`PastTakesDeath`);
* the proofs of `RouteClaimProofs` need to know at each await which call is
  out, which answers it can have and whether there is a claim in hand:
  `AwaitInv`. `LoopMovesSo` and `HubServesSo` sort the steps of the loop and of
  the hub by what they do to the claim in hand and to the wire, so that the
  invariants below split into six moves of the loop and four of the hub and
  not into twenty handlers;
* `HeldClaimIsOwn`: every claim that is named anywhere was made, so its attempt
  is at most the hub's latest of that message (`ClaimsWereMade`), and a new
  claim has a greater one; and no settle of the claim in hand is under way
  until the loop sends one (`NoSettleAhead`). A late settle therefore names
  another attempt, and the hub's check turns it down. The check is a hypothesis
  of the theorem: with `LateAckCheck = FALSE` TLC finds a late settle that ends
  a newer claim, as the comment on `Claimed::attempt` says;
* `OneInFlight` is an account (`ClaimsAccounted`). On one side are the claims
  that are open and held by nobody (`Loose`), the abandoned polls that may
  still open one (`LostPolls`), and the loop itself as long as it may poll
  (`Slot`); on the other 1 and the mishaps. A call that fails, a panic or a
  kill leaves behind either the claim in hand or a poll, never both, and pays
  for it (`LeavesOneBehind`); a lost poll that is served late turns into a loose
  claim (`OrphanKeepsAccount`); a loop that stops gives up its slot for the poll
  it drops; and a settle the hub has answered leaves nothing open
  (`SettleAnswered`), so the loop lets go of no claim for free;
* for the refinement the invariant adds to these that what the loop has in hand
  is owed and what it POSTs is not over the cap (`WorkIsOwed`). `PromiseMoves`
  then matches the steps: a publish, a first poll and a replay make messages
  owed, a POST is the webhook's acceptance, an ack settles what was accepted
  (`AcksHaveReason`), a last nack or lease is a death, and all others are
  stutters;
* `TimeSpent` adds up what is spent on a claim, from the grant to its last
  settle call. Its core is the test of the budget, carried from the end of one
  POST to the end of the next: every POST that begins fits. That the first one
  does is the validated configuration;
* `LeaseGranted` says when the lease is the one the budget was made from: unless
  the claim was taken with a policy still to be put. With `TimeSpent` it gives
  `EarlyLadderSettles`, the part that does hold of "always settled by its
  owner": with the default times a ladder that begins within 3 s of the grant,
  under the configured lease, has all its settle calls sent in time.
  `SettleAge` bounds how late any other can be. These are the limits of the
  finding `slow_body`;
* `BehindShutdown` bounds, at each place, how far behind SIGTERM the route can
  be. Two things are not in the grace: the PUT before a ladder (`Overrun`, the
  finding of `grace`; `DrainFitsWithoutPut` says it is the only one that makes a
  claim late), and the probe, in which no claim is open, but which can keep the
  route from stopping for its whole timeout (`StopTime`);
* the drain properties rest on `DrainInv`: where the supervisor stands says
  what became of the loop it spawned, a handle is passed over only when it is
  done or the grace is used up, and from the signal on time passed and time
  left add up to what each route owed (`CountsDown`). Every handle's timeout
  fires at one and the same instant (`waitUntil = Grace`), because what remains
  is computed from the deadline each time the drain turns to the next handle;
  that is what keeps the drain within the grace;
* `CostInv` is the bookkeeping of an outage: a dead host makes no connection,
  so claims patient routes lost as Failed, stale connections in the pool and
  stale ones in use never add up to more than there were; a route that lost a
  claim as unreachable is in its circuit. A patient route cannot fail while
  connecting; an impatient one can, without end, which is why its claims are
  not in the account;
* `ReadInv`: what is kept is what has arrived, as long as the body is read;
* `FlagsCount`: a flag is up exactly when its line has been logged since its
  cause was last gone, and a recovery is told when a flag of the hub is up;
* `StepFollowsRow`: after n failures in a row the next step is the base times
  2^n, or the cap. `PowerOfTwo` is a recursive function, which the provers know
  nothing of before it is shown to exist: for each n there is a table of the
  powers up to n (`PowersExist`), any two agree (`PowersAgree`), and together
  they are the function (`PowerOfTwoIs`). These inductions are made with least
  elements, from the theorem that < is well founded, because the induction
  theorems of the library cannot be used;
* `PollsAreOutcomes` and `PollsAreRead` carry these theorems over to the
  composition that TLC runs (`PollsAreSafe`);
* the invariant of `ConfigCheckProofs` says, check by check, what has been
  established of the configuration so far, for the routes before the present
  one and for the part of the present one that is behind `pc`; a refusal comes
  with the reason why the configuration is not usable;
* `AssumptionsAreEarned` closes the circle between the modules: what
  `ValidatedAssumption` and `BackoffAssumption` say of constants is shown of
  the values of every accepted configuration. `BudgetIsSeventyPercent` is the
  arithmetic between the two ways the budget is written.

The assumptions are those stated as ASSUME in the component modules; each of
them is what the code or its configuration guarantees, and TLC evaluates them
in every run that extends their module.

Every safety property a passing run checks is the statement of a theorem.
Only model-checked is liveness, which under fairness is outside what the
prover can do: the second half of `ImplementsAtLeastOnce` (no message stays
open for ever), `FailingClears`, `ShutdownStops`, `DeadRouteReturns` and
`OutageNoticed`. The statements of the runs that find a disagreement are false,
so there is nothing to prove of them but their limits: `GapTakesDeath`,
`SettleAgeBounded` and `EarlyLadderSettles` (`slow_body`), `DrainFitsWithoutPut`
and `RouteStopsInTime` (`grace`).

## 6. Not modelled

* HTTP, URLs and their parsing, headers, redirects, the token, TOML, log text,
  error bodies cut for the log, `/metrics` text;
* the chassis kit that owns the process (signals, sockets, self-update), but
  for the bound on the flush hook;
* an interaction of routes on the hub: they share the HTTP clients and the
  health map under a lock, and no decision of one reads the state of another;
* what the detached loop does between the abort and the exit of the process:
  for the hub it is a loop that is killed a little later, and `RouteLoop` has a
  kill at every await;
* `nacked_total`;
* deployment, release scripts, the tests themselves.

## 7. Plan

Done, in the order of importance: the route with its hub and the refinement;
the clock of a claim; the proofs of the route's safety; supervision and the
drain; the webhook client; reading, waiting and logging; the configuration.

Then the proofs about claims (`RouteClaimProofs`), the refinement of
`AtLeastOnce`, the delays, the assumptions of the timing, and the limits of
the findings about loss and time.

Left:

1. a bound on duplicates: how often a message the webhook has processed can be
   POSTed again, in terms of the mishaps;
2. several subscriptions of one topic on the hub's side, if the hub's policy
   calls come to depend on each other.

## 8. Running it

    tlc -workers 2 -config RouteSafety.cfg MCRouteLoop.tla
    tlc -workers 2 -config ClaimTiming.cfg ClaimTiming.tla
    tlc -workers 2 -config Supervision.cfg Supervision.tla
    tlc -workers 2 -config WebhookCircuit.cfg MCWebhookCircuit.tla
    tlc -workers 2 -config HubPolls.cfg MCHubPolls.tla
    tlc -workers 2 -config ConfigCheck.cfg MCConfigCheck.tla
    tlapm RouteLoopProofs.tla
    tlapm RouteClaimProofs.tla

`RouteInFlight.cfg`, `RouteLiveness.cfg` and `FindGap.cfg` go with
`MCRouteLoop`, `FindSlowBody.cfg` and `FindGrace.cfg` with `ClaimTiming`,
`FindDegraded.cfg` with `Supervision`. Every module ending in `Proofs` is
checked by `tlapm`. Every run takes about a minute or less.
