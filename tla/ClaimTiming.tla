---------------------------- MODULE ClaimTiming ----------------------------
(***************************************************************************)
(* The clock RouteLoop leaves out: how long one route spends on a claim    *)
(* (reading its body, the policy PUT, the ladder of route/deliver.rs, the  *)
(* settle calls) against the lease the hub granted, and how long after a   *)
(* shutdown it takes to stop, probes of an open circuit included, against  *)
(* the grace that config/mod.rs derives.                                   *)
(*                                                                         *)
(* now is the time since the hub granted the claim.  An await that a       *)
(* timeout bounds takes any time up to it.  shutAt is when SIGTERM comes,  *)
(* fixed beforehand: nothing the route does changes it.  Delays and        *)
(* timeouts are exact; the time the code itself needs is not counted.      *)
(***************************************************************************)
EXTENDS Naturals

CONSTANTS
  Lease,           \* effective_lease_ms: the lease the budget is made from
  HubDefaultLease, \* the lease of a claim taken before the policy landed
  PollTimeout,     \* of the poll client: wait_s + POLL_TIMEOUT_SLACK_S
  WebhookTimeout,  \* webhook_timeout_ms
  SettleTimeout,   \* settle_timeout_ms, of each ack, nack and policy call
  ProbeTimeout,    \* circuit_probe_timeout_ms
  CircuitCap,      \* the longest wait between two probes
  HasPolicy,       \* the route has a [routes.policy] block
  RetryBase, RetryCap,   \* DELIVERY_RETRY_BASE, DELIVERY_RETRY_CAP
  RetryPause,      \* SETTLE_RETRY_PAUSE
  MaxClaims,       \* bound: claims followed
  LastShutdown     \* bound: the latest SIGTERM

\* budget_of: LEASE_BUDGET_PERCENT of the lease.
LeaseBudget == (Lease * 70) \div 100

\* A mutant: the ack's retry is left out.
ShutdownGraceOneCall == WebhookTimeout + SettleTimeout

\* shutdown_grace of the only route: the time drain_tasks leaves it.
ShutdownGrace == WebhookTimeout + (2 * SettleTimeout + RetryPause)

ASSUME TimesAssumption ==
  /\ Lease \in Nat /\ HubDefaultLease \in Nat
  /\ PollTimeout \in Nat /\ WebhookTimeout \in Nat
  /\ SettleTimeout \in Nat /\ ProbeTimeout \in Nat /\ CircuitCap \in Nat
  /\ RetryBase \in Nat /\ RetryCap \in Nat /\ RetryPause \in Nat
  /\ MaxClaims \in Nat /\ LastShutdown \in Nat
ASSUME HasPolicyAssumption == HasPolicy \in BOOLEAN

\* validate_lease_budget refuses a configuration without this.
ASSUME ValidatedAssumption == WebhookTimeout + SettleTimeout <= LeaseBudget

VARIABLES
  pc,              \* where the route is
  now,             \* time since the claim was granted
  start,           \* deliver_with_budget: when the ladder began
  delay,           \* deliver_with_budget: the next pause
  connectClass,    \* DeliverEnd::GiveUp: the webhook was unreachable
  lease,           \* the lease the hub granted the claim
  policyPending,   \* LoopState.policy_pending
  putFirst,        \* a policy PUT came between the claim and its ladder
  shutAt,          \* when shutdown is signalled
  claims           \* claims taken so far

ladder == <<start, delay, connectClass>>
claim  == <<lease, putFirst, claims>>
vars   == <<pc, now, ladder, claim, policyPending, shutAt>>

Pc == {"poll", "body", "policy", "post", "retryWait", "ack", "ackPause",
       "ackAgain", "nack", "settled", "circuit", "probe", "stopped"}

TypeOK ==
  /\ pc \in Pc
  /\ now \in Nat /\ start \in Nat /\ delay \in Nat /\ lease \in Nat
  /\ connectClass \in BOOLEAN
  /\ policyPending \in BOOLEAN /\ putFirst \in BOOLEAN
  /\ shutAt \in Nat /\ claims \in Nat

Init ==
  /\ pc = "poll"
  /\ now = 0 /\ start = 0 /\ delay = RetryBase /\ lease = 0
  /\ connectClass = FALSE
  /\ policyPending = HasPolicy
  /\ putFirst = FALSE
  /\ shutAt \in 0 .. LastShutdown
  /\ claims = 0

\* An await of at most `limit' is over.
Takes(limit) == \E d \in 0 .. limit : now' = now + d

\* Where the loop goes on at `at': it looks at shutdown before it polls.
LoopTop(at) == IF shutAt <= at THEN "stopped" ELSE "poll"

-----------------------------------------------------------------------------
(* The poll.  The select drops it, half-read body and all, on shutdown.     *)

\* The hub grants a claim, at time 0.  The lease is the hub's default until
\* the policy is in force, which it may be (an earlier process put it, an
\* answer was lost) while the route still has it pending.
ClaimArrives ==
  /\ pc = "poll"
  /\ claims < MaxClaims
  /\ shutAt > now
  /\ now' = 0
  /\ shutAt' = shutAt - now
  /\ lease' \in IF policyPending THEN {HubDefaultLease, Lease} ELSE {Lease}
  /\ claims' = claims + 1
  /\ pc' = "body"
  /\ putFirst' = FALSE
  /\ start' = 0
  /\ delay' = RetryBase
  /\ connectClass' = FALSE
  /\ UNCHANGED policyPending

\* read_claim has the whole body: on_message puts the policy if it is due,
\* or begins the ladder.
BodyRead ==
  /\ pc = "body"
  /\ Takes(PollTimeout)
  /\ shutAt > now'
  /\ pc' = IF policyPending THEN "policy" ELSE "post"
  /\ putFirst' = policyPending
  /\ start' = now'
  /\ UNCHANGED <<delay, connectClass, lease, claims, policyPending, shutAt>>

\* The body outgrew the cap: on_oversize nacks the claim.
BodyTooLarge ==
  /\ pc = "body"
  /\ Takes(PollTimeout)
  /\ shutAt > now'
  /\ pc' = "nack"
  /\ start' = now'
  /\ UNCHANGED <<delay, connectClass, claim, policyPending, shutAt>>

\* The connection broke or the poll client's timeout fired: on_hub_error
\* waits (RouteLoop) and polls again; the claim is left to its lease.
BodyBreaks ==
  /\ pc = "body"
  /\ Takes(PollTimeout)
  /\ shutAt > now'
  /\ pc' = "poll"
  /\ UNCHANGED <<ladder, claim, policyPending, shutAt>>

\* A poll without a claim, after which on_empty puts a policy that is due.
PollEmpty ==
  /\ pc = "poll"
  /\ policyPending
  /\ shutAt > now
  /\ Takes(SettleTimeout)
  /\ policyPending' \in BOOLEAN
  /\ pc' = LoopTop(now')
  /\ UNCHANGED <<ladder, claim, shutAt>>

PollShutdown ==
  /\ \/ pc = "poll"
     \/ pc = "body" /\ shutAt <= now + PollTimeout
  /\ pc' = "stopped"
  /\ now' = IF shutAt > now THEN shutAt ELSE now
  /\ UNCHANGED <<ladder, claim, policyPending, shutAt>>

-----------------------------------------------------------------------------
(* The claim.  Only the pauses of the ladder listen for shutdown.           *)

\* apply_policy: the call landed, or it failed and stays due.
PolicyReturns ==
  /\ pc = "policy"
  /\ Takes(SettleTimeout)
  /\ policyPending' \in BOOLEAN
  /\ pc' = "post"
  /\ start' = now'
  /\ UNCHANGED <<delay, connectClass, claim, shutAt>>

PostSucceeds ==
  /\ pc = "post"
  /\ Takes(WebhookTimeout)
  /\ pc' = "ack"
  /\ UNCHANGED <<ladder, claim, policyPending, shutAt>>

\* A mutant: the time the POST itself may take is forgotten.
FitsBudgetOfPause(at) == (at - start) + delay <= LeaseBudget

\* A mutant: so is the pause.
FitsBudgetOfPost(at) == (at - start) + WebhookTimeout <= LeaseBudget

\* Is there time for one more pause and one more POST?
FitsBudget(at) == (at - start) + delay + WebhookTimeout <= LeaseBudget

\* GiveUp says whether the target could be reached; Shutdown does not ask.
PostFails ==
  /\ pc = "post"
  /\ Takes(WebhookTimeout)
  /\ pc' = IF FitsBudget(now') /\ shutAt > now' THEN "retryWait" ELSE "nack"
  /\ connectClass' \in BOOLEAN
  /\ FitsBudget(now') => ~connectClass'
  /\ UNCHANGED <<start, delay, claim, policyPending, shutAt>>

RetryWaitEnds ==
  /\ pc = "retryWait"
  /\ \/ /\ now + delay <= shutAt
        /\ now' = now + delay
        /\ pc' = "post"
        /\ delay' = IF 2 * delay <= RetryCap THEN 2 * delay ELSE RetryCap
     \/ /\ shutAt <= now + delay
        /\ now' = shutAt
        /\ pc' = "nack"
        /\ UNCHANGED delay
  /\ UNCHANGED <<start, connectClass, claim, policyPending, shutAt>>

\* settle_ack: a call, and if it failed a pause and a second call.
AckReturns ==
  /\ pc = "ack"
  /\ Takes(SettleTimeout)
  /\ pc' \in {"settled", "ackPause"}
  /\ UNCHANGED <<ladder, claim, policyPending, shutAt>>

AckPauseEnds ==
  /\ pc = "ackPause"
  /\ now' = now + RetryPause
  /\ pc' = "ackAgain"
  /\ UNCHANGED <<ladder, claim, policyPending, shutAt>>

\* A mutant: one attempt too many (SETTLE_ATTEMPTS).
SettleTriesOn ==
  /\ pc \in {"ackAgain", "nack"}
  /\ Takes(SettleTimeout)
  /\ pc' \in {"settled", "ackPause"}
  /\ now' < 100
  /\ UNCHANGED <<ladder, claim, policyPending, shutAt>>

LastSettleReturns ==
  /\ pc \in {"ackAgain", "nack"}
  /\ Takes(SettleTimeout)
  /\ pc' = "settled"
  /\ UNCHANGED <<ladder, claim, policyPending, shutAt>>

-----------------------------------------------------------------------------
(* After the claim: on to the next, or to an open circuit.                  *)

\* An unreachable webhook opens the circuit; the loop polls on otherwise.
Settled ==
  /\ pc = "settled"
  /\ pc' = IF connectClass THEN "circuit" ELSE LoopTop(now)
  /\ UNCHANGED <<now, ladder, claim, policyPending, shutAt>>

\* A mutant: the circuit's wait does not listen for shutdown.
CircuitWaitIsDeaf ==
  /\ pc = "circuit"
  /\ now' = now + CircuitCap
  /\ pc' = IF shutAt <= now' THEN "stopped" ELSE "probe"
  /\ UNCHANGED <<ladder, claim, policyPending, shutAt>>

\* wait_out_circuit: the wait before a probe, which shutdown cuts short.
CircuitWaitEnds ==
  /\ pc = "circuit"
  /\ \/ /\ shutAt > now
        /\ \E d \in 1 .. CircuitCap : now' = now + d /\ now + d <= shutAt
        /\ pc' = "probe"
     \/ /\ shutAt <= now + CircuitCap
        /\ now' = IF shutAt > now THEN shutAt ELSE now
        /\ pc' = "stopped"
  /\ UNCHANGED <<ladder, claim, policyPending, shutAt>>

\* probe_origin, which shutdown does not cut short: the circuit is closed
\* and the loop goes on, or it waits again.
ProbeReturns ==
  /\ pc = "probe"
  /\ Takes(ProbeTimeout)
  /\ pc' \in {LoopTop(now'), "circuit"}
  /\ UNCHANGED <<ladder, claim, policyPending, shutAt>>

Next ==
  \/ ClaimArrives \/ BodyRead \/ BodyTooLarge \/ BodyBreaks
  \/ PollEmpty \/ PollShutdown \/ PolicyReturns
  \/ PostSucceeds \/ PostFails \/ RetryWaitEnds
  \/ AckReturns \/ AckPauseEnds \/ LastSettleReturns
  \/ Settled \/ CircuitWaitEnds \/ ProbeReturns

Spec == Init /\ [][Next]_vars

-----------------------------------------------------------------------------
(* What the properties rest on, for ClaimTimingProofs.                      *)

\* The most a policy PUT added between the grant and the ladder.
PutTime == IF putFirst THEN SettleTimeout ELSE 0

\* What is spent on the claim: every POST that is begun fits the budget, and
\* so does every pause with the POST after it; and each await adds at most
\* its timeout.
TimeSpent ==
  /\ pc = "body" => now = 0 /\ ~putFirst
  /\ pc = "policy" => putFirst /\ now <= PollTimeout
  /\ start <= PollTimeout + PutTime
  /\ pc = "post" => now - start + WebhookTimeout <= LeaseBudget
  /\ pc = "retryWait" => FitsBudget(now) /\ now < shutAt
  /\ pc \in {"ack", "nack"} => now - start <= LeaseBudget
  /\ pc \in {"post", "retryWait", "ack", "ackPause", "ackAgain", "nack"} =>
       start <= now
  /\ pc = "ackPause" => now <= start + LeaseBudget + SettleTimeout
  /\ pc = "ackAgain" => now <= start + LeaseBudget + SettleTimeout + RetryPause

\* The lease is the configured one unless the claim was taken with a policy
\* still to be put.
LeaseGranted ==
  /\ policyPending \/ putFirst => HasPolicy
  /\ pc \in {"body", "policy", "post", "retryWait", "ack", "ackPause",
             "ackAgain", "nack"} =>
       /\ lease \in {HubDefaultLease, Lease}
       /\ policyPending \/ putFirst \/ lease = Lease

\* By how much a policy PUT can have carried the route past the shutdown
\* before its ladder began.
Overrun == IF start <= shutAt THEN 0 ELSE SettleTimeout

\* The longest a route can go on after a shutdown.
StopTime ==
  IF ProbeTimeout <= ShutdownGrace + SettleTimeout
  THEN ShutdownGrace + SettleTimeout ELSE ProbeTimeout

\* How far behind the shutdown the route can be.
BehindShutdown ==
  /\ pc = "poll" => now <= shutAt
  /\ pc = "body" => now < shutAt
  /\ pc = "policy" => now < shutAt
  /\ pc = "post" => now <= shutAt + Overrun
  /\ pc \in {"ack", "nack"} => now <= shutAt + Overrun + WebhookTimeout
  /\ pc = "ackPause" =>
       now <= shutAt + Overrun + WebhookTimeout + SettleTimeout
  /\ pc = "ackAgain" =>
       now <= shutAt + Overrun + WebhookTimeout + SettleTimeout + RetryPause
  /\ pc = "settled" => now <= shutAt + Overrun + ShutdownGrace
  /\ pc = "probe" => now <= shutAt
  /\ pc \in {"circuit", "stopped"} => now <= shutAt + StopTime
  /\ pc \in {"post", "retryWait", "ack", "ackPause", "ackAgain", "nack",
             "settled"} /\ ~putFirst => start <= shutAt

-----------------------------------------------------------------------------
\* AR5: whatever the POSTs do, the ladder hands its claim on to the settle
\* within the lease budget: the last try is begun only if it fits.
LadderInBudget ==
  pc \in {"retryWait", "ack", "nack"} => now - start <= LeaseBudget

\* How old a claim can be when its last settle call goes out: the body read
\* under the poll's timeout, the policy PUT if one was due, the ladder's
\* budget, and an ack that failed with its pause.  No claim stays open longer
\* while its owner lives.
SettleAge ==
  /\ pc \in {"ack", "nack"} => now <= PollTimeout + PutTime + LeaseBudget
  /\ pc = "ackAgain" =>
       now <= PollTimeout + PutTime + LeaseBudget + SettleTimeout + RetryPause

\* A claim taken before the policy was put: "the very first claim" of
\* policy.rs, though not only that one as long as the PUT fails.
BeforePolicy == policyPending \/ putFirst

\* When what config/mod.rs and policy.rs say of the lease does hold.  A
\* ladder begun early enough for the budget, an ack and its pause (3 s after
\* the grant at the default times) has its settle sent within the lease,
\* unless the claim runs under the hub's default lease because the policy
\* that its budget was made from was not yet put.
SettledWithinLease ==
  /\ pc \in {"ack", "ackAgain", "nack"}
  /\ start + LeaseBudget + SettleTimeout + RetryPause <= Lease
  => now <= lease \/ (BeforePolicy /\ lease = HubDefaultLease)

\* AR9: a shutdown that comes once the ladder has begun finds the claim
\* settled, one way or the other, before drain_tasks gives up waiting.
SettledWithinGrace ==
  pc = "settled" /\ start <= shutAt => now <= shutAt + ShutdownGrace

\* Wherever shutdown finds the route, it has stopped after the grace and the
\* one policy PUT that is not in it, or after a probe that takes longer.
StopsInTime == pc = "stopped" => now <= shutAt + StopTime

-----------------------------------------------------------------------------
\* config/mod.rs: "so the claim is always settled by its owner, never by
\* expiry".  A ladder begun while the lease ran, with no policy PUT before it,
\* hands on to the settle before the lease has run out.
LadderEndsInLease ==
  pc \in {"ack", "nack"} /\ ~putFirst /\ start < lease => now <= lease

\* config/mod.rs: "so an in-flight delivery and its ack always fit" the
\* shutdown grace.
DrainAlwaysFits == pc = "settled" => now <= shutAt + ShutdownGrace
=============================================================================
