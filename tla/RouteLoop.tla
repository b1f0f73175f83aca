----------------------------- MODULE RouteLoop -----------------------------
(***************************************************************************)
(* One route of kyu-runner: the loop of route/mod.rs with its handlers     *)
(* (route/outcome.rs), the delivery ladder and the settle calls            *)
(* (route/deliver.rs), the policy PUT (route/policy.rs), the supervisor    *)
(* that respawns a loop that panicked (pump.rs), and around it the hub     *)
(* (KyuHub), the network and the webhook target.                           *)
(*                                                                         *)
(* The loop is sequential code that awaits; pc names the await it is in,   *)
(* and an action is the code from one await to the next.  A call to the    *)
(* hub is a request in `call' until the loop has consumed `answer'.  A     *)
(* request whose caller is gone (timed out, cancelled by shutdown, killed) *)
(* may still reach the hub: it is then in `orphans'.                       *)
(*                                                                         *)
(* Time is left out: a timeout may strike at any moment, and the lease     *)
(* budget shows as the choice, after a failed POST, between one more try   *)
(* and giving up.  Faults, panics, restarts, outages and shutdowns are     *)
(* taken from Budget, so that a behaviour has finitely many of each.       *)
(***************************************************************************)
EXTENDS KyuHub

CONSTANTS
  Big,             \* the messages larger than max_body_bytes
  HasPolicy,       \* the route has a [routes.policy] block
  MaxPosts,        \* bound on the POSTs of one ladder (the lease budget)
  Budget           \* how many faults, panics, ... a behaviour may have

\* "any" bounds the mishaps of all kinds together.
Mishap == {"fault", "panic", "restart", "outage", "stop", "any"}

\* SETTLE_ATTEMPTS of route/deliver.rs.
SettleAttempts == 2

ASSUME BigAssumption == Big \subseteq Msg
ASSUME HasPolicyAssumption == HasPolicy \in BOOLEAN
ASSUME MaxPostsAssumption == MaxPosts \in Nat \ {0}
ASSUME BudgetAssumption == Budget \in [Mishap -> Nat]

VARIABLES
  pc,              \* the await the loop is in
  job,             \* the claim being handled, or NoJob
  tries,           \* POSTs of this ladder, then ack calls of this settle
  after,           \* where the loop goes once its nack call has returned
  replay,          \* LoopState.replay: poll with from=beginning (AR16)
  policyPending,   \* LoopState.policy_pending: the policy PUT is due (W3)
  health,          \* the loop state HealthState reports for the route
  counted,         \* messages counted in delivered_total by this process
  shutdown,        \* the value of the shutdown watch channel
  call, answer,    \* the hub call awaited, and what has come back
  orphans,         \* requests nobody waits for that may still be served
  target,          \* the webhook's host: "up" or "down"
  received,        \* messages the webhook has processed
  unbornSeen,      \* history: which loop saw the topic missing
  burnt,           \* history: claims the loop gave up as unreachable since
                   \*   the target last came up
  left             \* what is left of Budget

hub == hubVars
loopVars == <<pc, job, tries, after, replay, policyPending>>
reportVars == <<health, counted>>
wireVars == <<call, answer, orphans>>
webVars == <<target, received>>
histVars == <<unbornSeen, burnt>>

vars == <<hubVars, loopVars, reportVars, shutdown, wireVars, webVars,
          histVars, left>>

Pc == {"top", "poll", "hubWait", "unbornWait", "policy", "post", "retryWait",
       "ack", "ackPause", "nack", "circuit", "respawn", "stopped", "ended"}

Health == {"starting", "hub-down", "auth-denied", "topic-unborn", "idle",
           "delivering", "circuit-open", "stopped", "respawning"}

\* The states RouteSubsystem::check reports as failing.
FailingHealth == {"hub-down", "auth-denied", "circuit-open"}

Job == [msg : Msg \cup {0}, attempt : 0 .. MaxAttempts]
NoJob == [msg |-> 0, attempt |-> 0]

TypeOK ==
  /\ HubTypeOK
  /\ pc \in Pc
  /\ job \in Job
  /\ tries \in Nat
  /\ after \in {"top", "circuit", "stopped"}
  /\ replay \in BOOLEAN
  /\ policyPending \in BOOLEAN
  /\ health \in Health
  /\ counted \subseteq Msg
  /\ shutdown \in BOOLEAN
  /\ call \in Request
  /\ answer \in Answer
  /\ orphans \subseteq Request
  /\ target \in {"up", "down"}
  /\ received \subseteq Msg
  /\ unbornSeen \in {"never", "now", "before"}
  /\ burnt \in Nat
  /\ left \in [Mishap -> Nat]

\* LoopState::new: what a fresh loop starts from.
FreshLoop ==
  /\ pc' = "top"
  /\ job' = NoJob
  /\ tries' = 0
  /\ after' = "top"
  /\ replay' = FALSE
  /\ policyPending' = HasPolicy

Init ==
  /\ HubInit
  /\ pc = "top"
  /\ job = NoJob
  /\ tries = 0
  /\ after = "top"
  /\ replay = FALSE
  /\ policyPending = HasPolicy
  /\ health = "starting"
  /\ counted = {}
  /\ shutdown = FALSE
  /\ call = NoRequest
  /\ answer = NoAnswer
  /\ orphans = {}
  /\ target = "up"
  /\ received = {}
  /\ unbornSeen = "never"
  /\ burnt = 0
  /\ left = Budget

-----------------------------------------------------------------------------
(* The pieces the handlers are made of.                                     *)

Spend(kind) ==
  /\ left[kind] > 0
  /\ left["any"] > 0
  /\ left' = [left EXCEPT ![kind] = @ - 1, !["any"] = @ - 1]

Send(r) ==
  /\ call' = r
  /\ answer' = NoAnswer
  /\ UNCHANGED orphans

Quiet ==
  /\ call' = NoRequest
  /\ answer' = NoAnswer
  /\ UNCHANGED orphans

\* The caller of the outstanding request goes away.  The request may be
\* served already, may be on its way, or may never arrive.
Abandon ==
  /\ call' = NoRequest
  /\ answer' = NoAnswer
  /\ orphans' \in IF call = NoRequest \/ answer # NoAnswer
                    THEN {orphans}
                    ELSE {orphans, orphans \cup {call}}

\* The loop ends: run leaves its while and reports "stopped".
Stop ==
  /\ pc' = "stopped"
  /\ health' = "stopped"

\* interrupted(..): shutdown is looked at before the wait begins.
Wait(where, report) ==
  IF shutdown THEN Stop ELSE pc' = where /\ health' = report

\* deliver_with_budget is entered: the first POST of the ladder.
StartLadder ==
  /\ pc' = "post"
  /\ tries' = 1
  /\ health' = "delivering"

\* settle_nack: one call, after which the loop goes to `next'.
Nack(claim, next) ==
  /\ pc' = "nack"
  /\ after' = next
  /\ Send(SettleRequest("nack", claim))

\* settle_ack: the call number n.
Ack(n) ==
  /\ pc' = "ack"
  /\ tries' = n
  /\ Send(SettleRequest("ack", job))

\* read_claim: the body of message m stays under the cap.
FitsUnread(m) == TRUE                                            \* a mutant
Fits(m) == m \notin Big

\* apply_policy: the PUT landed.
LandedIfAnswered == answer # NoAnswer                            \* a mutant
Landed == answer.kind = "ok"

\* probe_origin: the webhook's host answers a connect.
ReachableUnprobed == TRUE                                        \* a mutant
Reachable == target = "up"

-----------------------------------------------------------------------------
(* run: the poll and what its outcome leads to.  An operator marked as a    *)
(* mutant is a wrong version of the one after it; a run's property has to   *)
(* fail when it takes that one's place, and it is used for nothing else.    *)

StartPoll ==
  /\ pc = "top"
  /\ ~shutdown
  /\ pc' = "poll"
  /\ Send(NextRequest(replay))
  /\ UNCHANGED <<hub, job, tries, after, replay, policyPending, reportVars,
                 shutdown, webVars, histVars, left>>

\* A mutant: shutdown does not cut the poll short.
ShutdownAfterPoll ==
  /\ pc = "top"
  /\ shutdown
  /\ Stop
  /\ Abandon
  /\ UNCHANGED <<hub, job, tries, after, replay, policyPending, counted,
                 shutdown, webVars, histVars, left>>

\* The while condition, or the shutdown branch of the biased select: a poll
\* that is out is dropped, and with it an answer that has just come in.
ShutdownBetweenClaims ==
  /\ pc \in {"top", "poll"}
  /\ shutdown
  /\ Stop
  /\ Abandon
  /\ UNCHANGED <<hub, job, tries, after, replay, policyPending, counted,
                 shutdown, webVars, histVars, left>>

PollReturns(kinds) ==
  /\ pc = "poll"
  /\ ~shutdown
  /\ answer.kind \in kinds

\* A mutant: the hub's failure makes the loop forget it owes a replay.
OnHubErrorForgets ==
  /\ PollReturns({"auth", "unreachable"})
  /\ Wait("hubWait", "hub-down")
  /\ replay' = FALSE
  /\ Quiet
  /\ UNCHANGED <<hub, job, tries, after, policyPending, counted, shutdown,
                 webVars, histVars, left>>

OnHubError ==
  /\ PollReturns({"auth", "unreachable"})
  /\ Wait("hubWait", IF answer.kind = "auth" THEN "auth-denied"
                                             ELSE "hub-down")
  /\ Quiet
  /\ UNCHANGED <<hub, job, tries, after, replay, policyPending, counted,
                 shutdown, webVars, histVars, left>>

OnTopicUnborn ==
  /\ PollReturns({"unborn"})
  /\ replay' = TRUE
  /\ unbornSeen' = "now"
  /\ Wait("unbornWait", "topic-unborn")
  /\ Quiet
  /\ UNCHANGED <<hub, job, tries, after, policyPending, counted, shutdown,
                 webVars, burnt, left>>

\* hubWait and unbornWait end: the delay is over, or shutdown cut it short.
WaitEnds ==
  /\ pc \in {"hubWait", "unbornWait"}
  /\ \/ pc' = "top" /\ UNCHANGED health
     \/ shutdown /\ Stop
  /\ UNCHANGED <<hub, job, tries, after, replay, policyPending, counted,
                 shutdown, wireVars, webVars, histVars, left>>

\* A mutant: an empty poll leaves the reported state as it was.
OnEmptyUnreported ==
  /\ PollReturns({"empty"})
  /\ replay' = FALSE
  /\ IF policyPending
       THEN pc' = "policy" /\ Send(PolicyRequest)
       ELSE pc' = "top" /\ Quiet
  /\ UNCHANGED <<hub, job, tries, after, policyPending, reportVars, shutdown,
                 webVars, histVars, left>>

OnEmpty ==
  /\ PollReturns({"empty"})
  /\ replay' = FALSE
  /\ IF policyPending
       THEN pc' = "policy" /\ Send(PolicyRequest) /\ UNCHANGED health
       ELSE pc' = "top" /\ Quiet /\ health' = "idle"
  /\ UNCHANGED <<hub, job, tries, after, policyPending, counted, shutdown,
                 webVars, histVars, left>>

\* A mutant: a hub that is reported as down is not asked to take it back.
OnOversizeUnlessDown ==
  /\ PollReturns({"claim"})
  /\ ~Fits(answer.msg)
  /\ LET claim == [msg |-> answer.msg, attempt |-> answer.attempt]
     IN  IF health = "hub-down"
           THEN pc' = "top" /\ Quiet /\ UNCHANGED <<job, after>>
           ELSE job' = claim /\ Nack(claim, "top")
  /\ UNCHANGED <<hub, tries, replay, policyPending, reportVars, shutdown,
                 webVars, histVars, left>>

\* A body over the cap: nacked unread.  Neither the replay flag nor the
\* reported state is touched.
OnOversize ==
  /\ PollReturns({"claim"})
  /\ ~Fits(answer.msg)
  /\ job' = [msg |-> answer.msg, attempt |-> answer.attempt]
  /\ Nack([msg |-> answer.msg, attempt |-> answer.attempt], "top")
  /\ UNCHANGED <<hub, tries, replay, policyPending, reportVars, shutdown,
                 webVars, histVars, left>>

OnMessage ==
  /\ PollReturns({"claim"})
  /\ Fits(answer.msg)
  /\ job' = [msg |-> answer.msg, attempt |-> answer.attempt]
  /\ replay' = FALSE
  /\ IF policyPending
       THEN /\ pc' = "policy"
            /\ Send(PolicyRequest)
            /\ UNCHANGED <<tries, health>>
       ELSE StartLadder /\ Quiet
  /\ UNCHANGED <<hub, after, policyPending, counted, shutdown, webVars,
                 histVars, left>>

\* apply_policy returns into on_empty (no job) or on_message.
PolicyReturns ==
  /\ pc = "policy"
  /\ answer # NoAnswer
  /\ policyPending' = ~Landed
  /\ IF job = NoJob
       THEN pc' = "top" /\ health' = "idle" /\ UNCHANGED tries
       ELSE StartLadder
  /\ Quiet
  /\ UNCHANGED <<hub, job, after, replay, counted, shutdown, webVars,
                 histVars, left>>

-----------------------------------------------------------------------------
(* deliver_with_budget: the ladder of POSTs on one claim.                   *)

PostAccepted ==
  /\ pc = "post"
  /\ target = "up"
  /\ received' = received \cup {job.msg}
  /\ Ack(1)
  /\ UNCHANGED <<hub, job, after, replay, policyPending, reportVars,
                 shutdown, target, histVars, left>>

\* What a POST that did not end in a 2xx means to the ladder: give the claim
\* back, or, while the lease budget allows, wait and try again.
PostFails(connectClass) ==
  \/ /\ Nack(job, IF connectClass THEN "circuit" ELSE "top")
     /\ burnt' = IF connectClass THEN burnt + 1 ELSE burnt
     /\ UNCHANGED tries
  \/ /\ tries < MaxPosts
     /\ ~shutdown
     /\ pc' = "retryWait"
     /\ UNCHANGED <<tries, after, burnt, wireVars>>
  \/ /\ tries < MaxPosts
     /\ shutdown
     /\ Nack(job, "stopped")
     /\ UNCHANGED <<tries, burnt>>

\* The connect is refused or times out: ConnectClass.
PostUnreachable ==
  /\ pc = "post"
  /\ target = "down"
  /\ PostFails(TRUE)
  /\ UNCHANGED <<hub, job, replay, policyPending, reportVars, shutdown,
                 webVars, unbornSeen, left>>

\* A mutant: any answer of the webhook counts as a delivery.
PostRejectedAcked ==
  /\ pc = "post"
  /\ target = "up"
  /\ received' \in {received, received \cup {job.msg}}
  /\ Ack(1)
  /\ UNCHANGED <<hub, job, after, replay, policyPending, reportVars,
                 shutdown, target, histVars, left>>

\* A non-2xx answer (Status), or a request that broke after the connect
\* (Failed), in which case the webhook may have processed the message.
PostRejected ==
  /\ pc = "post"
  /\ target = "up"
  /\ received' \in {received, received \cup {job.msg}}
  /\ PostFails(FALSE)
  /\ UNCHANGED <<hub, job, replay, policyPending, reportVars, shutdown,
                 target, unbornSeen, left>>

RetryWaitEnds ==
  /\ pc = "retryWait"
  /\ pc' = "post"
  /\ tries' = tries + 1
  /\ UNCHANGED <<hub, job, after, replay, policyPending, reportVars,
                 shutdown, wireVars, webVars, histVars, left>>

ShutdownInRetryWait ==
  /\ pc = "retryWait"
  /\ shutdown
  /\ Nack(job, "stopped")
  /\ UNCHANGED <<hub, job, tries, replay, policyPending, reportVars,
                 shutdown, webVars, histVars, left>>

-----------------------------------------------------------------------------
(* settle_ack, settle_nack and the circuit.                                 *)

\* A mutant: the claim is let go of before it is counted.
AckDoneUncounted ==
  /\ pc' = "top"
  /\ job' = NoJob
  /\ tries' = 0
  /\ counted' = counted \cup {job'.msg}
  /\ health' = "idle"

\* settle_ack is over, whatever came of it: count, and back to the poll.
AckDone ==
  /\ pc' = "top"
  /\ counted' = counted \cup {job.msg}
  /\ health' = "idle"
  /\ job' = NoJob
  /\ tries' = 0

AckReturns ==
  /\ pc = "ack"
  /\ answer # NoAnswer
  /\ IF answer.kind = "ok" \/ tries = SettleAttempts
       THEN AckDone
       ELSE pc' = "ackPause" /\ UNCHANGED <<job, tries, reportVars>>
  /\ Quiet
  /\ UNCHANGED <<hub, after, replay, policyPending, shutdown, webVars,
                 histVars, left>>

AckPauseEnds ==
  /\ pc = "ackPause"
  /\ Ack(tries + 1)
  /\ UNCHANGED <<hub, job, after, replay, policyPending, reportVars,
                 shutdown, webVars, histVars, left>>

\* The nack returned, well or not.  The loop polls again, waits out the
\* circuit, or ends.
NackReturns ==
  /\ pc = "nack"
  /\ answer # NoAnswer
  /\ CASE after = "top"     -> pc' = "top" /\ UNCHANGED health
       [] after = "circuit" -> Wait("circuit", "circuit-open")
       [] after = "stopped" -> Stop
  /\ job' = NoJob
  /\ tries' = 0
  /\ after' = "top"
  /\ Quiet
  /\ UNCHANGED <<hub, replay, policyPending, counted, shutdown, webVars,
                 histVars, left>>

\* probe_origin connects; one that does not leaves the loop in the circuit.
\* The reported state stays as it is.
ProbeConnects ==
  /\ pc = "circuit"
  /\ Reachable
  /\ pc' = "top"
  /\ UNCHANGED <<hub, job, tries, after, replay, policyPending, reportVars,
                 shutdown, wireVars, webVars, histVars, left>>

ShutdownInCircuit ==
  /\ pc = "circuit"
  /\ shutdown
  /\ Stop
  /\ UNCHANGED <<hub, job, tries, after, replay, policyPending, counted,
                 shutdown, wireVars, webVars, histVars, left>>

-----------------------------------------------------------------------------
(* supervise, and the process around it.                                    *)

Alive == pc \notin {"respawn", "stopped", "ended"}

\* The loop a history is about is gone.
LoopGone ==
  /\ unbornSeen' = IF unbornSeen = "now" THEN "before" ELSE unbornSeen
  /\ burnt' = 0

\* The loop dies; supervise respawns it after a pause unless shutdown is on.
Panic ==
  /\ Alive
  /\ Spend("panic")
  /\ pc' = IF shutdown THEN "ended" ELSE "respawn"
  /\ health' = "respawning"
  /\ job' = NoJob
  /\ tries' = 0
  /\ after' = "top"
  /\ Abandon
  /\ LoopGone
  /\ UNCHANGED <<hub, replay, policyPending, counted, shutdown, webVars>>

Respawn ==
  /\ pc = "respawn"
  /\ FreshLoop
  /\ UNCHANGED <<hub, reportVars, shutdown, wireVars, webVars, histVars, left>>

\* SIGTERM: on_flush sends true on the watch channel.
Shutdown ==
  /\ ~shutdown
  /\ Spend("stop")
  /\ shutdown' = TRUE
  /\ UNCHANGED <<hub, loopVars, reportVars, wireVars, webVars, histVars>>

\* The process is killed (or has exited) and a new one starts.
Restart ==
  /\ Spend("restart")
  /\ FreshLoop
  /\ health' = "starting"
  /\ counted' = {}
  /\ shutdown' = FALSE
  /\ Abandon
  /\ LoopGone
  /\ UNCHANGED <<hub, webVars>>

Loop ==
  \/ StartPoll \/ ShutdownBetweenClaims
  \/ OnHubError \/ OnTopicUnborn \/ WaitEnds
  \/ OnEmpty \/ OnOversize \/ OnMessage \/ PolicyReturns
  \/ PostAccepted \/ PostUnreachable \/ PostRejected
  \/ RetryWaitEnds \/ ShutdownInRetryWait
  \/ AckReturns \/ AckPauseEnds \/ NackReturns
  \/ ProbeConnects \/ ShutdownInCircuit
  \/ Respawn

-----------------------------------------------------------------------------
(* The network, the hub by itself, and the webhook's host.                  *)

others == <<loopVars, reportVars, shutdown, webVars, histVars>>

HubAnswers ==
  /\ call # NoRequest
  /\ answer = NoAnswer
  /\ HubServes(call, answer')
  /\ UNCHANGED <<others, call, orphans, left>>

\* The call fails for the loop: a 401 (the hub did nothing), or a connection
\* that broke or timed out.  The hub may have served the request already
\* (its answer is lost), may serve it later, or may never see it.
CallFails ==
  /\ call # NoRequest
  /\ answer.kind \notin {"auth", "unreachable"}
  /\ Spend("fault")
  /\ \/ /\ answer = NoAnswer
        /\ answer' = Plain("auth")
        /\ UNCHANGED orphans
     \/ /\ answer' = Plain("unreachable")
        /\ orphans' \in IF answer = NoAnswer
                          THEN {orphans, orphans \cup {call}}
                          ELSE {orphans}
  /\ UNCHANGED <<hub, others, call>>

HubServesOrphan ==
  \E r \in orphans :
    /\ \E a \in Offers : HubServes(r, a)
    /\ orphans' = orphans \ {r}
    /\ UNCHANGED <<others, call, answer, left>>

MessageArrives == Publish /\ UNCHANGED <<others, wireVars, left>>

\* The hub's clock: a lease or a retry delay of message m runs out.
HubTimer(m) ==
  /\ LeaseExpires(m) \/ BackoffEnds(m)
  /\ UNCHANGED <<others, wireVars, left>>

TargetGoesDown ==
  /\ target = "up"
  /\ Spend("outage")
  /\ target' = "down"
  /\ UNCHANGED <<hub, loopVars, reportVars, shutdown, wireVars, received,
                 histVars>>

TargetComesUp ==
  /\ target = "down"
  /\ target' = "up"
  /\ burnt' = 0
  /\ UNCHANGED <<hub, loopVars, reportVars, shutdown, wireVars, received,
                 unbornSeen, left>>

Next ==
  \/ Loop \/ Panic \/ Shutdown \/ Restart
  \/ HubAnswers \/ CallFails \/ HubServesOrphan
  \/ MessageArrives \/ (\E m \in Msg : HubTimer(m))
  \/ TargetGoesDown \/ TargetComesUp

Spec == Init /\ [][Next]_vars

\* The executor runs a loop that can run; the hub answers, and its timers
\* fire; an outage of the webhook's host ends.
Fairness ==
  /\ WF_vars(Loop)
  /\ WF_vars(HubAnswers)
  /\ \A m \in Msg : WF_vars(HubTimer(m))
  /\ WF_vars(TargetComesUp)

FairSpec == Spec /\ Fairness

-----------------------------------------------------------------------------
(* Safety.                                                                  *)

\* A message leaves the hub as acked, and is counted as delivered, only if
\* the webhook has processed it: whatever calls were lost, late or orphaned,
\* however often the loop panicked or the process was killed, and with a hub
\* that ignores the attempt number too (AR3, K5: nothing is lost).
SettledWasReceived ==
  /\ \A m \in Msg : status[m] = "acked" => m \in received
  /\ counted \subseteq received

\* While the loop is working on a claim it has not begun to settle, the claim
\* ends by the hub's lease only: no settle of an earlier claim that arrives
\* late (its caller timed out, was cancelled or was killed) settles it.
HeldClaimIsOwn ==
  [][\A m \in Msg :
       ( /\ job = [msg |-> m, attempt |-> attempt[m]]
         /\ pc \in {"policy", "post", "retryWait", "ackPause"}
         /\ status[m] = "claimed"
         /\ status'[m] # "claimed")
       => \/ HubTimer(m)
          \/ pc = "ackPause" /\ HubServesOrphan]_vars

\* The subscription exists and owes every message published since the topic
\* was born.
NothingSkipped == subscribed /\ \A m \in 1 .. published : status[m] # "absent"

\* AR16: a loop that has seen its topic missing owes it every message
\* published since.  A message the subscription skips (an earlier poll
\* without from=beginning can create it late) is still made good, because
\* the next poll carries from=beginning.
ReplayArmed == unbornSeen = "now" /\ ~replay => NothingSkipped

\* W3: the loop stops trying to push its policy only once the hub has it,
\* through lost answers, respawns and restarts.
PolicyLanded == (HasPolicy /\ ~policyPending) => policy

\* AR15: while the webhook's host is down a loop gives up one claim as
\* undeliverable and no more: the backlog waits unclaimed.
OutageBurnsOneAttempt == burnt <= 1

\* AR2: the route has one message in flight.  Each lost call, panic or
\* restart can leave one more claim open on the hub, until its lease ends.
ClaimsInFlight == Cardinality({m \in Msg : status[m] = "claimed"})
Spent(kind) == Budget[kind] - left[kind]
Mishaps == Spent("fault") + Spent("panic") + Spent("restart")
OneInFlight == ClaimsInFlight <= 1 + Mishaps

-----------------------------------------------------------------------------
(* What the safety properties rest on: the parts of the inductive           *)
(* invariants of RouteLoopProofs, RouteFlagProofs and RouteClaimProofs.     *)

\* The hub hands out no claim beyond MaxAttempts, and none of a message
\* that is not published.
AttemptsLeft ==
  \A m \in Msg :
    /\ status[m] \in {"absent", "ready", "backoff"} => attempt[m] < MaxAttempts
    /\ m > published => status[m] = "absent"

\* A settle names a message, and so does a claim.
SettleNamesMessage(r) == r.kind \in {"ack", "nack"} => r.msg \in Msg
WireWellFormed ==
  /\ SettleNamesMessage(call)
  /\ \A r \in orphans : SettleNamesMessage(r)
  /\ answer.kind = "claim" => answer.msg \in Msg

\* The loop has a message in hand wherever it delivers or settles one.
JobInHand ==
  /\ job = NoJob \/ job.msg \in Msg
  /\ pc \in {"post", "retryWait", "ack", "ackPause"} => job.msg \in Msg

\* An ack is sent, and may be under way, only for what was received.
AckedForReason(r) == r.kind = "ack" => r.msg \in received
AcksHaveReason ==
  /\ AckedForReason(call)
  /\ \A r \in orphans : AckedForReason(r)
  /\ pc \in {"ack", "ackPause"} => job.msg \in received

\* The poll that is out is the one the replay flag asks for, and its answer
\* means that the replay is made.
ReplayAnswered ==
  pc = "poll" =>
    /\ call = NextRequest(replay)
    /\ replay /\ answer.kind \in {"empty", "claim"} => NothingSkipped

\* The loop that saw the topic missing is not the one to be respawned.
RespawnOwesNothing == pc = "respawn" => unbornSeen # "now"

\* A policy call that is answered well has put the policy in force.
PolicyAnswered ==
  pc = "policy" => call = PolicyRequest /\ (answer.kind = "ok" => policy)

\* A loop that gave a claim up as unreachable does not claim again while the
\* host is down.
CircuitHolds ==
  \/ burnt = 0
  \/ /\ burnt = 1
     /\ target = "down"
     /\ \/ pc \in {"circuit", "stopped", "ended"}
        \/ pc = "nack" /\ after = "circuit"

\* The call that is out is the one the await is for, and its answer is one
\* that call can have.
CallFitsPc ==
  /\ pc = "poll" => call.kind = "next"
  /\ pc = "policy" => call = PolicyRequest
  /\ pc \in {"ack", "nack"} => call = SettleRequest(pc, job)
  /\ pc \notin {"poll", "policy", "ack", "nack"} => call = NoRequest
AnswerFitsPc ==
  \/ answer = NoAnswer
  \/ /\ pc = "poll"
     /\ answer.kind \in {"unborn", "empty", "claim", "auth", "unreachable"}
  \/ /\ pc \in {"policy", "ack", "nack"}
     /\ answer.kind \in {"ok", "refused", "auth", "unreachable"}

\* A claim is in hand from the poll's answer to the settle's, and no longer.
Busy == {"policy", "post", "retryWait", "ack", "ackPause", "nack"}
JobFitsPc == pc \notin Busy => job = NoJob

\* No claim the loop or a settle speaks of is later than the hub's latest.
ClaimedBefore(c) == 1 <= c.attempt /\ c.attempt <= attempt[c.msg]
SettlesClaimed(r) == r.kind \in {"ack", "nack"} => ClaimedBefore(r)
ClaimsWereMade ==
  /\ SettlesClaimed(call)
  /\ \A r \in orphans : SettlesClaimed(r)
  /\ answer.kind = "claim" => ClaimedBefore(answer)
  /\ job # NoJob => ClaimedBefore(job)

\* No settle of a claim is about while the loop has yet to finish its work
\* on it.
Unsettled(c) ==
  \A r \in orphans :
    r.kind \in {"ack", "nack"} => r.msg # c.msg \/ r.attempt # c.attempt
NoSettleAhead ==
  /\ answer.kind = "claim" => Unsettled(answer)
  /\ pc \in {"policy", "post", "retryWait"} => Unsettled(job)

\* The loop holds the claim its poll was answered with, and then its job,
\* until the last call that could settle it has failed.
GaveUpSettle ==
  /\ answer.kind \in {"auth", "unreachable"}
  /\ pc = "nack" \/ (pc = "ack" /\ tries = SettleAttempts)
IsCurrent(c, m) == c.msg = m /\ c.attempt = attempt[m]
Holds(m) ==
  \/ pc = "poll" /\ answer.kind = "claim" /\ IsCurrent(answer, m)
  \/ /\ pc \in Busy
     /\ ~GaveUpSettle
     /\ IsCurrent(job, m)

\* A claim that is open and not held, and a poll that nobody waits for and
\* that may still claim, has a mishap each that made it so; and there is one
\* claim more at most, as long as the loop may poll.
Loose == {m \in Msg : status[m] = "claimed" /\ ~Holds(m)}
LostPolls == {r \in orphans : r.kind = "next"}
Slot == IF pc \in {"stopped", "ended"} THEN 0 ELSE 1
ClaimsAccounted ==
  Cardinality(Loose) + Cardinality(LostPolls) + Slot <= 1 + Mishaps

\* A settle the hub has answered leaves nothing open of its claim.
SettleAnswered ==
  pc \in {"ack", "nack"} /\ answer.kind \in {"ok", "refused"} =>
    ~(status[job.msg] = "claimed" /\ IsCurrent(job, job.msg))

\* What the loop has in hand is owed to the subscription, and what it POSTs
\* is not over the cap.
WorkIsOwed ==
  /\ answer.kind = "claim" => status[answer.msg] # "absent"
  /\ job # NoJob => status[job.msg] # "absent"
  /\ pc \in {"policy", "post", "retryWait"} => job.msg \notin Big

-----------------------------------------------------------------------------
(* Liveness.                                                                *)

\* A shutdown ends the loop from every await, in bounded work: no wait, no
\* probe and no retry holds it up (AR9).
ShutdownStops == shutdown ~> (pc \in {"stopped", "ended"} \/ ~shutdown)

\* A failing state (503) clears once the hub and the target are back.
FailingClears == health \in FailingHealth ~> health \notin FailingHealth

\* What the route promises its publishers, as AtLeastOnce states it; in time,
\* as long as it is not told to stop.
HubState(m) ==
  IF status[m] = "absent" THEN "unowed"
  ELSE IF status[m] = "acked" THEN "done"
  ELSE IF status[m] = "dead" THEN "dead"
  ELSE "open"

Promise == INSTANCE AtLeastOnce WITH
  state <- [m \in Msg |-> HubState(m)], accepted <- received,
  running <- ~shutdown

ImplementsAtLeastOnce == Promise!FairSpec

-----------------------------------------------------------------------------
(* What the documents say and the code does not do.                         *)

\* AR16 and K5 together: whichever loop saw the topic missing, no message
\* falls between the topic's birth and the subscription.
NothingFallsInTheGap ==
  unbornSeen # "never" /\ subscribed /\ ~replay => NothingSkipped
=============================================================================
