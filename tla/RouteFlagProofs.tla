-------------------------- MODULE RouteFlagProofs --------------------------
(***************************************************************************)
(* Proofs about what a loop keeps between its polls: the replay it owes    *)
(* (AR16), the policy it has to push (W3), and the circuit it waits in     *)
(* (AR15).                                                                 *)
(***************************************************************************)
EXTENDS RouteLoopProofs

\* What the loop's code keeps of them, between the replay flag and the topic,
\* and between the pending policy and the one in force.
FlagsRight ==
  /\ ReplayArmed /\ ReplayAnswered /\ RespawnOwesNothing
  /\ PolicyLanded /\ PolicyAnswered

FlagInv == TypeInv /\ FlagsRight

\* What one step of the hub has to keep for the flags.
HubKeeps == (NothingSkipped => NothingSkipped') /\ (policy => policy')

\* What the poll and the policy PUT are, as requests.
LEMMA RequestKinds ==
  /\ \A f : NextRequest(f).kind = "next" /\ NextRequest(f).from = f
  /\ PolicyRequest.kind = "policy"
  BY DEF NextRequest, PolicyRequest

-----------------------------------------------------------------------------
(* The hub.                                                                 *)

\* No request makes the hub forget a message it owes or a policy, and a
\* policy answered "ok" is in force.
LEMMA ServedKeeps ==
  ASSUME HubInv, NEW r \in Request, SettleNamesMessage(r), NEW a,
         HubServes(r, a)
  PROVE  /\ HubKeeps
         /\ r.kind = "policy" /\ a.kind = "ok" => policy'
         /\ r.kind = "next" /\ r.from /\ a.kind \in {"empty", "claim"}
            => NothingSkipped'
<1> USE DEF HubInv, HubTypeOK, HubKeeps, NothingSkipped
<1>1. /\ r.from \in BOOLEAN /\ (r.kind \in {"ack", "nack"} => r.msg \in Msg)
      /\ 1 .. published \subseteq Msg
  BY MsgsAssumption DEF Request, SettleNamesMessage, Msg
<1>3. CASE r.kind = "next" /\ HubUnborn(a)
  BY <1>3 DEF HubUnborn, Plain, hubVars
<1>4. \A k \in 1 .. published :
        /\ status[k] # "absent" => Owed(r.from)[k] # "absent"
        /\ r.from => Owed(r.from)[k] # "absent"
  BY <1>1 DEF Owed
<1>5. Owed(r.from) \in [Msg -> Status]
  BY <1>1, OwedType
<1>6. ASSUME r.kind = "next", NEW m \in Msg, HubClaims(r.from, m, a)
      PROVE  HubKeeps /\ (r.from => NothingSkipped')
  BY <1>1, <1>4, <1>5, <1>6 DEF HubClaims
<1>7. ASSUME r.kind = "next", HubEmpty(r.from, a)
      PROVE  HubKeeps /\ (r.from => NothingSkipped')
  BY <1>1, <1>4, <1>7 DEF HubEmpty
<1>8. ASSUME r.kind \in {"ack", "nack"}, HubSettles(r, a)
      PROVE  HubKeeps
  BY <1>1, <1>8 DEF HubSettles, Returned
<1>9. CASE r.kind \in {"ack", "nack"} /\ HubRefusesSettle(r, a)
  BY <1>9 DEF HubRefusesSettle, hubVars
<1>10. CASE r.kind = "policy" /\ HubTakesPolicy(a)
  BY <1>10 DEF HubTakesPolicy
<1>11. CASE r.kind = "policy" /\ HubRefusesPolicy(a)
  BY <1>11 DEF HubRefusesPolicy, hubVars, Plain
<1>. QED
  BY <1>3, <1>6, <1>7, <1>8, <1>9, <1>10, <1>11 DEF HubServes

\* Nor do a publisher and the hub's timers.
LEMMA HubAloneKeeps ==
  ASSUME HubInv, Publish \/ (\E k \in Msg : LeaseExpires(k) \/ BackoffEnds(k))
  PROVE  HubKeeps
<1> USE DEF HubInv, HubTypeOK, HubKeeps, NothingSkipped, Msg
<1>1. CASE Publish
  BY <1>1, MsgsAssumption DEF Publish
<1>2. ASSUME NEW k \in Msg, LeaseExpires(k) \/ BackoffEnds(k)
      PROVE  HubKeeps
  BY <1>2, MsgsAssumption DEF LeaseExpires, BackoffEnds, Returned
<1>. QED  BY <1>1, <1>2

\* A step that is not the hub's keeps what the hub has.
LEMMA HubUnchangedKeeps == UNCHANGED hubVars => HubKeeps
  BY DEF hubVars, HubKeeps, NothingSkipped

-----------------------------------------------------------------------------
(* The loop.                                                                *)

\* A step that leaves the flags and the hub alone and ends at no await a flag
\* speaks of.
LEMMA FlagsLeftAlone ==
  ASSUME FlagInv, HubKeeps, UNCHANGED <<replay, policyPending>>,
         unbornSeen' = "now" => unbornSeen = "now",
         pc' \notin {"poll", "policy", "respawn"}
  PROVE  FlagsRight'
  BY DEF FlagInv, FlagsRight, HubKeeps, ReplayArmed, PolicyLanded,
         ReplayAnswered, RespawnOwesNothing, PolicyAnswered

\* Every step of the loop leaves the flags right.
LEMMA LoopKeepsFlags ==
  ASSUME FlagInv, Loop
  PROVE  FlagsRight'
<1>0. /\ ReplayArmed /\ ReplayAnswered /\ RespawnOwesNothing
      /\ PolicyLanded /\ PolicyAnswered /\ replay \in BOOLEAN
      /\ after \in {"top", "circuit", "stopped"}
  BY DEF FlagInv, FlagsRight, TypeInv, RouteInv, RouteTypeOK
<1>1. HubKeeps /\ UNCHANGED policy /\ (NothingSkipped => NothingSkipped')
  BY LoopLeavesHub, HubUnchangedKeeps DEF hubVars, HubKeeps
<1>a. ASSUME pc' # "respawn", ReplayArmed', PolicyLanded', ReplayAnswered',
             PolicyAnswered'
      PROVE  FlagsRight'
  BY <1>a DEF FlagsRight, RespawnOwesNothing
<1> USE <1>0, <1>1, <1>a DEF histVars
<1>2. CASE StartPoll
  BY <1>2 DEF StartPoll, Send, ReplayArmed, PolicyLanded, ReplayAnswered,
              PolicyAnswered, NoAnswer, Plain
<1>3. CASE ShutdownBetweenClaims \/ OnHubError \/ WaitEnds
  BY <1>3, FlagsLeftAlone
  DEF ShutdownBetweenClaims, OnHubError, WaitEnds, Wait, Stop
<1>4. CASE OnTopicUnborn
  BY <1>4 DEF OnTopicUnborn, Wait, Stop, ReplayArmed, PolicyLanded,
              ReplayAnswered, PolicyAnswered
<1>5. CASE OnEmpty \/ OnMessage
  <2>1. /\ unbornSeen = "now" => NothingSkipped
        /\ UNCHANGED <<unbornSeen, policyPending>>
    BY <1>5 DEF OnEmpty, OnMessage, PollReturns, ReplayArmed, ReplayAnswered
  <2>2. ReplayArmed' /\ PolicyLanded'
    BY <2>1 DEF ReplayArmed, PolicyLanded
  <2>3. ReplayAnswered' /\ PolicyAnswered'
    BY <1>5 DEF OnEmpty, OnMessage, StartLadder, Send, ReplayAnswered,
                PolicyAnswered, NoAnswer, Plain
  <2>. QED  BY <1>5, <2>2, <2>3 DEF OnEmpty, OnMessage, StartLadder
<1>6. CASE PolicyReturns
  <2>1. PolicyLanded'
    BY <1>6 DEF PolicyReturns, Landed, PolicyLanded, PolicyAnswered
  <2>2. ReplayArmed'
    BY <1>6 DEF PolicyReturns, ReplayArmed
  <2>3. ReplayAnswered' /\ PolicyAnswered'
    BY <1>6 DEF PolicyReturns, StartLadder, ReplayAnswered, PolicyAnswered
  <2>. QED  BY <1>6, <2>1, <2>2, <2>3 DEF PolicyReturns, StartLadder
<1>7. CASE Respawn
  BY <1>7 DEF Respawn, FreshLoop, RespawnOwesNothing, ReplayArmed,
              PolicyLanded, ReplayAnswered, PolicyAnswered
<1>8. CASE OnOversize \/ PostAccepted \/ PostUnreachable \/ PostRejected
           \/ RetryWaitEnds \/ ShutdownInRetryWait
  BY <1>8, FlagsLeftAlone
  DEF OnOversize, PostAccepted, PostUnreachable, PostRejected, PostFails,
      RetryWaitEnds, ShutdownInRetryWait, Ack, Nack
<1>9. CASE AckReturns \/ AckPauseEnds \/ NackReturns \/ ProbeConnects
           \/ ShutdownInCircuit
  BY <1>9, FlagsLeftAlone
  DEF AckReturns, AckDone, AckPauseEnds, Ack, NackReturns, Wait, Stop,
      ProbeConnects, ShutdownInCircuit
<1>. QED
  BY <1>2, <1>3, <1>4, <1>5, <1>6, <1>7, <1>8, <1>9 DEF Loop

-----------------------------------------------------------------------------
(* Everything else, and the theorems.                                       *)

\* So does every step of the system.
LEMMA FlagStep == FlagInv /\ [Next]_vars => FlagInv'
<1> SUFFICES ASSUME FlagInv, [Next]_vars PROVE FlagInv'
  OBVIOUS
<1>0. /\ TypeInv' /\ HubInv /\ WireWellFormed /\ call \in Request
      /\ orphans \subseteq Request
      /\ ReplayArmed /\ ReplayAnswered /\ RespawnOwesNothing
      /\ PolicyLanded /\ PolicyAnswered
  BY TypeStep DEF FlagInv, FlagsRight, TypeInv, RouteInv, RouteTypeOK
<1> USE DEF others, loopVars, reportVars, webVars, histVars, wireVars
<1>1. ASSUME HubKeeps, UNCHANGED <<pc, replay, policyPending, unbornSeen, call>>,
             \/ answer' = answer
             \/ answer'.kind \in {"auth", "unreachable"}
      PROVE  FlagInv'
  BY <1>0, <1>1
  DEF FlagInv, FlagsRight, HubKeeps, ReplayArmed, ReplayAnswered,
      RespawnOwesNothing, PolicyLanded, PolicyAnswered
<1>2. CASE Loop
  BY <1>0, <1>2, LoopKeepsFlags DEF FlagInv
<1>3. CASE Panic \/ Restart
  <2>1. /\ HubKeeps /\ unbornSeen' # "now" /\ pc' \notin {"poll", "policy"}
        /\ \/ UNCHANGED policyPending
           \/ policyPending' = HasPolicy
    BY <1>3, HubUnchangedKeeps DEF Panic, Restart, FreshLoop, LoopGone, hub
  <2>. QED
    BY <1>0, <2>1
    DEF FlagInv, FlagsRight, HubKeeps, ReplayArmed, ReplayAnswered,
        RespawnOwesNothing, PolicyLanded, PolicyAnswered
<1>4. CASE Shutdown \/ TargetGoesDown \/ TargetComesUp
  BY <1>1, <1>4, HubUnchangedKeeps
  DEF Shutdown, TargetGoesDown, TargetComesUp, hub
<1>5. CASE HubAnswers
  <2>1. /\ UNCHANGED <<pc, replay, policyPending, unbornSeen, call>>
        /\ HubServes(call, answer')
    BY <1>5 DEF HubAnswers
  <2>2. /\ HubKeeps
        /\ call.kind = "policy" /\ answer'.kind = "ok" => policy'
        /\ call.kind = "next" /\ call.from /\ answer'.kind \in {"empty", "claim"}
           => NothingSkipped'
    BY <1>0, <2>1, ServedKeeps DEF WireWellFormed
  <2>. QED
    BY <1>0, <2>1, <2>2, RequestKinds
    DEF FlagInv, FlagsRight, HubKeeps, ReplayArmed, ReplayAnswered,
        RespawnOwesNothing, PolicyLanded, PolicyAnswered
<1>6. CASE CallFails
  <2>1. answer'.kind \in {"auth", "unreachable"}
    BY <1>6, AnswerTypes DEF CallFails
  <2>. QED  BY <1>1, <1>6, <2>1, HubUnchangedKeeps DEF CallFails, hub
<1>7. CASE HubServesOrphan
  <2>1. PICK r \in orphans : /\ \E a \in Offers : HubServes(r, a)
                             /\ UNCHANGED <<others, call, answer, left>>
    BY <1>7 DEF HubServesOrphan
  <2>2. HubKeeps
    BY <1>0, <2>1, ServedKeeps DEF WireWellFormed
  <2>. QED  BY <1>1, <2>1, <2>2
<1>8. CASE MessageArrives \/ \E m \in Msg : HubTimer(m)
  <2>1. HubKeeps
    BY <1>0, <1>8, HubAloneKeeps DEF MessageArrives, HubTimer
  <2>. QED  BY <1>1, <1>8, <2>1 DEF MessageArrives, HubTimer
<1>9. CASE UNCHANGED vars
  BY <1>1, <1>9, HubUnchangedKeeps DEF vars
<1>. QED
  BY <1>2, <1>3, <1>4, <1>5, <1>6, <1>7, <1>8, <1>9 DEF Next

\* A route starts with nothing owed and its policy pending.
LEMMA FlagInit == Init => FlagInv
  BY TypeInit
  DEF Init, FlagInv, FlagsRight, ReplayArmed, ReplayAnswered,
      RespawnOwesNothing, PolicyLanded, PolicyAnswered

\* AR16: a loop that saw its topic missing and has put its flag down has had
\* every message published since made owed to it, whatever failed between.
THEOREM ReplayIsMade == Spec => []ReplayArmed
<1>1. FlagInv => ReplayArmed
  BY DEF FlagInv, FlagsRight
<1>. QED  BY <1>1, FlagInit, FlagStep, PTL DEF Spec

\* W3: a route stops pushing its policy only when the hub has it.
THEOREM PolicyIsMade == Spec => []PolicyLanded
<1>1. FlagInv => PolicyLanded
  BY DEF FlagInv, FlagsRight
<1>. QED  BY <1>1, FlagInit, FlagStep, PTL DEF Spec

-----------------------------------------------------------------------------
(* The gap of AR16.                                                         *)

\* Deaths of the loop so far: panics, and kills of the process.
Deaths == Spent("panic") + Spent("restart")

\* A loop that saw its topic missing belongs to the past only if a loop died.
PastTakesDeath ==
  /\ left["panic"] <= Budget["panic"] /\ left["restart"] <= Budget["restart"]
  /\ unbornSeen = "before" => Deaths > 0

\* Every step keeps that, for no step but a death ends a loop's sighting.
LEMMA PastStep ==
  ASSUME TypeInv, PastTakesDeath, [Next]_vars
  PROVE  PastTakesDeath'
<1>0. left \in [Mishap -> Nat] /\ Budget \in [Mishap -> Nat]
  BY BudgetAssumption DEF TypeInv, RouteInv, RouteTypeOK
<1> USE DEF PastTakesDeath, Deaths, Spent, histVars
<1>1. CASE Loop
  <2>1. UNCHANGED left /\ (unbornSeen' = "before" => unbornSeen = "before")
    BY <1>1
    DEF Loop, StartPoll, ShutdownBetweenClaims, OnHubError,
        OnTopicUnborn, WaitEnds, OnEmpty, OnOversize, OnMessage,
        PolicyReturns, PostAccepted, PostUnreachable, PostRejected,
        RetryWaitEnds, ShutdownInRetryWait, AckReturns, AckPauseEnds,
        NackReturns, ProbeConnects, ShutdownInCircuit, Respawn
  <2>. QED  BY <2>1
<1>2. ASSUME NEW k \in {"panic", "restart"}, Spend(k)
      PROVE  PastTakesDeath'
  BY <1>0, <1>2 DEF Spend, Mishap
<1>3. CASE Panic \/ Restart
  BY <1>2, <1>3 DEF Panic, Restart
<1>4. ASSUME NEW k \in {"fault", "stop", "outage"}, Spend(k),
             UNCHANGED unbornSeen
      PROVE  PastTakesDeath'
  BY <1>0, <1>4 DEF Spend, Mishap
<1>5. CASE Shutdown \/ CallFails \/ TargetGoesDown
  BY <1>4, <1>5 DEF Shutdown, CallFails, TargetGoesDown, others
<1>6. CASE \/ HubAnswers \/ HubServesOrphan \/ MessageArrives
           \/ (\E m \in Msg : HubTimer(m)) \/ TargetComesUp
           \/ UNCHANGED vars
  <2>1. UNCHANGED <<left, unbornSeen>>
    BY <1>6
    DEF HubAnswers, HubServesOrphan, MessageArrives, HubTimer, TargetComesUp,
        others, vars
  <2>. QED  BY <2>1
<1>. QED  BY <1>1, <1>3, <1>5, <1>6 DEF Next

\* AR16 and K5 together do not hold of the code, but only a death opens the
\* gap: whatever calls fail, messages published since the 404 are skipped by a
\* loop that was respawned or restarted and by no other.
THEOREM GapTakesDeath == Spec => [](~NothingFallsInTheGap => Deaths > 0)
<1>1. Init => FlagInv /\ PastTakesDeath
  BY FlagInit, BudgetAssumption
  DEF Init, PastTakesDeath, Deaths, Spent, Mishap
<1>2. FlagInv /\ PastTakesDeath /\ [Next]_vars => (FlagInv /\ PastTakesDeath)'
  BY FlagStep, PastStep DEF FlagInv
<1>3. FlagInv /\ PastTakesDeath => (~NothingFallsInTheGap => Deaths > 0)
  BY DEF FlagInv, FlagsRight, TypeInv, RouteInv, RouteTypeOK, ReplayArmed,
         NothingFallsInTheGap, PastTakesDeath
<1>. QED  BY <1>1, <1>2, <1>3, PTL DEF Spec

-----------------------------------------------------------------------------
(* The circuit.                                                             *)

\* A step of the loop keeps it from claiming while the host is down.
LEMMA CircuitStep ==
  ASSUME TypeInv, CircuitHolds, [Next]_vars
  PROVE  CircuitHolds'
<1> USE DEF CircuitHolds, webVars, histVars, loopVars, others
<1>0. burnt \in Nat
  BY DEF TypeInv, RouteInv, RouteTypeOK
<1>1. CASE PostUnreachable
  BY <1>1 DEF PostUnreachable, PostFails, Nack
<1>2. CASE PostRejected
  BY <1>2 DEF PostRejected, PostFails, Nack
<1>3. CASE StartPoll \/ ShutdownBetweenClaims \/ OnHubError \/ OnTopicUnborn
           \/ WaitEnds \/ OnEmpty \/ OnOversize \/ OnMessage
           \/ PolicyReturns
  BY <1>3 DEF StartPoll, ShutdownBetweenClaims, PollReturns, OnHubError,
              OnTopicUnborn, WaitEnds, OnEmpty, OnOversize, OnMessage,
              PolicyReturns
<1>4. CASE PostAccepted \/ RetryWaitEnds \/ ShutdownInRetryWait
           \/ AckReturns \/ AckPauseEnds \/ ProbeConnects \/ Respawn
  BY <1>4 DEF PostAccepted, RetryWaitEnds, ShutdownInRetryWait, AckReturns,
              AckPauseEnds, ProbeConnects, Reachable, Respawn
<1>5. CASE NackReturns
  BY <1>5 DEF NackReturns, Wait, Stop
<1>6. CASE ShutdownInCircuit
  BY <1>6 DEF ShutdownInCircuit, Stop
<1>7. CASE Panic \/ Restart
  BY <1>7 DEF Panic, Restart, LoopGone
<1>8. CASE Shutdown \/ HubAnswers \/ CallFails \/ HubServesOrphan
           \/ MessageArrives \/ \E m \in Msg : HubTimer(m)
  BY <1>8 DEF Shutdown, HubAnswers, CallFails, HubServesOrphan,
              MessageArrives, HubTimer
<1>9. CASE TargetGoesDown \/ TargetComesUp
  BY <1>9 DEF TargetGoesDown, TargetComesUp
<1>10. CASE UNCHANGED vars
  BY <1>10 DEF vars
<1>. QED
  BY <1>1, <1>2, <1>3, <1>4, <1>5, <1>6, <1>7, <1>8, <1>9, <1>10
  DEF Next, Loop

\* AR15: an outage of the webhook's host costs each loop one attempt of one
\* message, however long it lasts.
THEOREM OutageCostsOne == Spec => []OutageBurnsOneAttempt
<1>1. Init => TypeInv /\ CircuitHolds
  BY TypeInit DEF Init, CircuitHolds
<1>2. TypeInv /\ CircuitHolds /\ [Next]_vars => (TypeInv /\ CircuitHolds)'
  BY TypeStep, CircuitStep
<1>3. CircuitHolds => OutageBurnsOneAttempt
  BY DEF CircuitHolds, OutageBurnsOneAttempt
<1>. QED  BY <1>1, <1>2, <1>3, PTL DEF Spec

=============================================================================
