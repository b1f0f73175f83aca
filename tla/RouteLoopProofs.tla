-------------------------- MODULE RouteLoopProofs --------------------------
(***************************************************************************)
(* Proofs about RouteLoop, for every value of its constants.               *)
(***************************************************************************)
EXTENDS RouteLoop, TLAPS

-----------------------------------------------------------------------------
(* The requests and answers the actions build are well formed.              *)

LEMMA RequestTypes ==
  /\ NoRequest \in Request /\ SettleNamesMessage(NoRequest)
  /\ PolicyRequest \in Request /\ SettleNamesMessage(PolicyRequest)
  /\ \A f \in BOOLEAN : /\ NextRequest(f) \in Request
                        /\ SettleNamesMessage(NextRequest(f))
  /\ \A verb \in {"ack", "nack"}, claim \in Job :
       /\ SettleRequest(verb, claim) \in Request
       /\ claim.msg \in Msg => SettleNamesMessage(SettleRequest(verb, claim))
  BY MaxAttemptsAssumption
  DEF NoRequest, PolicyRequest, NextRequest, SettleRequest, Request, Job,
      SettleNamesMessage

\* So are the answers.
LEMMA AnswerTypes ==
  /\ NoAnswer \in Answer /\ NoAnswer.kind = "none"
  /\ \A k \in {"unborn", "empty", "ok", "refused", "auth", "unreachable"} :
       Plain(k) \in Answer /\ Plain(k).kind = k
  /\ \A m \in Msg, n \in 0 .. MaxAttempts :
       ClaimOf(m, n) \in Answer /\ ClaimOf(m, n).msg = m
  BY MaxAttemptsAssumption DEF NoAnswer, Plain, ClaimOf, Answer

\* So is the job of an idle loop.
LEMMA NoJobType == NoJob \in Job
  BY MaxAttemptsAssumption DEF NoJob, Job

-----------------------------------------------------------------------------
(* The hub by itself: every request it serves and every timer keeps its     *)
(* state well formed.                                                       *)

HubInv == HubTypeOK /\ AttemptsLeft

\* A replay makes messages ready that had no claim yet.
LEMMA OwedType ==
  ASSUME HubInv, NEW from \in BOOLEAN
  PROVE  /\ Owed(from) \in [Msg -> Status]
         /\ \A m \in Msg :
              /\ Owed(from)[m] \in {"absent", "ready", "backoff"}
                 => attempt[m] < MaxAttempts
              /\ m > published => Owed(from)[m] = "absent"
  BY MsgsAssumption DEF HubInv, HubTypeOK, AttemptsLeft, Owed, Status, Msg

\* Serving a request, whoever still waits for it, keeps the hub well formed
\* and answers well.
LEMMA HubServesType ==
  ASSUME HubInv, NEW r \in Request, SettleNamesMessage(r), NEW a,
         HubServes(r, a)
  PROVE  /\ HubInv'
         /\ a \in Answer
         /\ a.kind = "claim" => a.msg \in Msg
<1> USE DEF HubInv, HubTypeOK, AttemptsLeft
<1>1. r.from \in BOOLEAN /\ (r.kind \in {"ack", "nack"} => r.msg \in Msg)
  BY DEF Request, SettleNamesMessage
<1>2. CASE HubUnborn(a)
  BY <1>2, AnswerTypes DEF HubUnborn, hubVars
<1>3. ASSUME NEW m \in Msg, HubClaims(r.from, m, a)
      PROVE  HubInv' /\ a \in Answer /\ (a.kind = "claim" => a.msg \in Msg)
  <2>1. /\ Owed(r.from) \in [Msg -> Status]
        /\ \A k \in Msg :
             /\ Owed(r.from)[k] \in {"absent", "ready", "backoff"}
                => attempt[k] < MaxAttempts
             /\ k > published => Owed(r.from)[k] = "absent"
    BY <1>1, OwedType
  <2>2. attempt[m] + 1 \in 0 .. MaxAttempts
    BY <1>3, <2>1, MaxAttemptsAssumption DEF HubClaims, IsHead
  <2>3. a \in Answer /\ a.msg \in Msg
    BY <1>3, <2>2, AnswerTypes DEF HubClaims
  <2>4. HubTypeOK'
    BY <1>3, <2>1, <2>2 DEF HubClaims, Status
  <2>5. Owed(r.from)[m] = "ready" /\ ~(m > published)
    BY <1>3, <2>1 DEF HubClaims, IsHead
  <2>6. AttemptsLeft'
    BY <1>3, <2>1, <2>2, <2>5 DEF HubClaims, Status
  <2>. QED  BY <2>3, <2>4, <2>6
<1>4. CASE HubEmpty(r.from, a)
  <2>1. /\ Owed(r.from) \in [Msg -> Status]
        /\ \A k \in Msg :
             /\ Owed(r.from)[k] \in {"absent", "ready", "backoff"}
                => attempt[k] < MaxAttempts
             /\ k > published => Owed(r.from)[k] = "absent"
    BY <1>1, OwedType
  <2>. QED  BY <1>4, <2>1, AnswerTypes DEF HubEmpty
<1>5. CASE r.msg \in Msg /\ HubSettles(r, a)
  <2>1. status[r.msg] = "claimed" /\ a \in Answer /\ a.kind = "ok"
    BY <1>5, AnswerTypes DEF HubSettles, Settles
  <2>2. HubTypeOK'
    BY <1>5 DEF HubSettles, Returned, Status
  <2>3. AttemptsLeft'
    BY <1>5, <2>1 DEF HubSettles, Returned, Status
  <2>. QED  BY <2>1, <2>2, <2>3
<1>6. CASE HubRefusesSettle(r, a)
  BY <1>6, AnswerTypes DEF HubRefusesSettle, hubVars
<1>7. CASE HubTakesPolicy(a)
  BY <1>7, AnswerTypes DEF HubTakesPolicy
<1>8. CASE HubRefusesPolicy(a)
  BY <1>8, AnswerTypes DEF HubRefusesPolicy, hubVars
<1>. QED
  BY <1>1, <1>2, <1>3, <1>4, <1>5, <1>6, <1>7, <1>8 DEF HubServes

\* Publishing adds a message that has all its attempts.
LEMMA PublishType ==
  ASSUME HubInv, Publish
  PROVE  HubInv'
  BY MsgsAssumption, MaxAttemptsAssumption
  DEF HubInv, HubTypeOK, AttemptsLeft, Publish, Msg, Status

\* A timer returns a message, or buries it if its attempts are spent.
LEMMA HubTimerType ==
  ASSUME HubInv, NEW m \in Msg, LeaseExpires(m) \/ BackoffEnds(m)
  PROVE  HubInv'
  BY MaxAttemptsAssumption
  DEF HubInv, HubTypeOK, AttemptsLeft, LeaseExpires, BackoffEnds, Returned,
      Status

\* A step that is not the hub's keeps the hub well formed.
LEMMA HubUnchangedType ==
  ASSUME HubInv, UNCHANGED hubVars
  PROVE  HubInv'
  BY DEF HubInv, HubTypeOK, AttemptsLeft, hubVars

-----------------------------------------------------------------------------
(* Type correctness.  TypeOK alone is not inductive: that attempt numbers   *)
(* stay within MaxAttempts needs AttemptsLeft, and that counted and         *)
(* received hold messages needs JobInHand and WireWellFormed.               *)

\* TypeOK without the hub's part.
RouteTypeOK ==
  /\ pc \in Pc
  /\ job \in Job
  /\ tries \in Nat
  /\ after \in {"top", "circuit", "stopped"}
  /\ replay \in BOOLEAN
  /\ policyPending \in BOOLEAN
  /\ health \in Health
  /\ counted \subseteq Msg
  /\ shutdown \in BOOLEAN
  /\ call \in Request
  /\ answer \in Answer
  /\ orphans \subseteq Request
  /\ target \in {"up", "down"}
  /\ received \subseteq Msg
  /\ unbornSeen \in {"never", "now", "before"}
  /\ burnt \in Nat
  /\ left \in [Mishap -> Nat]

RouteInv == RouteTypeOK /\ WireWellFormed /\ JobInHand
TypeInv == HubInv /\ RouteInv

\* The initial states are well formed.
LEMMA TypeInit == Init => TypeInv
<1> SUFFICES ASSUME Init PROVE TypeInv
  OBVIOUS
<1>1. HubInv
  <2>1. HubTypeOK
    <3>1. status \in [Msg -> Status]
      BY DEF Init, HubInit, Status
    <3>2. attempt \in [Msg -> 0 .. MaxAttempts]
      BY MaxAttemptsAssumption DEF Init, HubInit
    <3>3. published \in 0 .. Msgs
      BY MsgsAssumption DEF Init, HubInit
    <3>. QED  BY <3>1, <3>2, <3>3 DEF Init, HubInit, HubTypeOK
  <2>2. AttemptsLeft
    BY MaxAttemptsAssumption DEF Init, HubInit, AttemptsLeft
  <2>. QED  BY <2>1, <2>2 DEF HubInv
<1>2. RouteInv
  BY RequestTypes, AnswerTypes, NoJobType, HasPolicyAssumption,
     BudgetAssumption
  DEF Init, RouteInv, RouteTypeOK, WireWellFormed, JobInHand, Pc, Health
<1>. QED  BY <1>1, <1>2 DEF TypeInv

\* The ways the loop treats its outstanding call.
LEMMA SendType ==
  ASSUME RouteInv, NEW r \in Request, SettleNamesMessage(r), Send(r)
  PROVE  call' \in Request /\ answer' \in Answer /\ orphans' \subseteq Request
         /\ WireWellFormed'
  BY AnswerTypes
  DEF RouteInv, RouteTypeOK, WireWellFormed, SettleNamesMessage, Send

\* Consuming an answer leaves the wire well formed.
LEMMA QuietType ==
  ASSUME RouteInv, Quiet
  PROVE  call' \in Request /\ answer' \in Answer /\ orphans' \subseteq Request
         /\ WireWellFormed'
  BY RequestTypes, AnswerTypes
  DEF RouteInv, RouteTypeOK, WireWellFormed, SettleNamesMessage, Quiet

\* So does abandoning a call.
LEMMA AbandonType ==
  ASSUME RouteInv, Abandon
  PROVE  call' \in Request /\ answer' \in Answer /\ orphans' \subseteq Request
         /\ WireWellFormed'
  BY RequestTypes, AnswerTypes
  DEF RouteInv, RouteTypeOK, WireWellFormed, SettleNamesMessage, Abandon

\* So does leaving it alone.
LEMMA WireUnchangedType ==
  ASSUME RouteInv, UNCHANGED wireVars
  PROVE  call' \in Request /\ answer' \in Answer /\ orphans' \subseteq Request
         /\ WireWellFormed'
  BY DEF RouteInv, RouteTypeOK, WireWellFormed, SettleNamesMessage, wireVars

\* A settle of the claim in hand, or of the claim that has just come in.
LEMMA SettleType ==
  ASSUME NEW verb \in {"ack", "nack"}, NEW claim \in Job, claim.msg \in Msg
  PROVE  /\ SettleRequest(verb, claim) \in Request
         /\ SettleNamesMessage(SettleRequest(verb, claim))
  BY RequestTypes

\* A claim the hub answered is a job the loop can take.
LEMMA ClaimedType ==
  ASSUME RouteInv, answer.kind = "claim"
  PROVE  /\ answer.msg \in Msg
         /\ [msg |-> answer.msg, attempt |-> answer.attempt] \in Job
  BY DEF RouteInv, RouteTypeOK, WireWellFormed, Answer, Job

\* Every step of the loop keeps the route well formed.
LEMMA LoopType ==
  ASSUME RouteInv, Loop
  PROVE  RouteInv'
<1> USE DEF RouteInv, RouteTypeOK, JobInHand, Pc, Health, reportVars,
            webVars, histVars
<1>1. CASE StartPoll
  BY <1>1, RequestTypes, SendType DEF StartPoll
<1>2. CASE ShutdownBetweenClaims
  BY <1>2, AbandonType DEF ShutdownBetweenClaims, Stop
<1>3. CASE OnHubError
  BY <1>3, QuietType DEF OnHubError, Wait, Stop
<1>4. CASE OnTopicUnborn
  BY <1>4, QuietType DEF OnTopicUnborn, Wait, Stop
<1>5. CASE WaitEnds
  BY <1>5, WireUnchangedType DEF WaitEnds, Stop
<1>6. CASE OnEmpty
  <2>1. CASE policyPending
    BY <1>6, <2>1, SendType, RequestTypes DEF OnEmpty
  <2>2. CASE ~policyPending
    BY <1>6, <2>2, QuietType DEF OnEmpty
  <2>. QED  BY <2>1, <2>2
<1>7. CASE OnOversize
  <2>1. /\ answer.msg \in Msg
        /\ [msg |-> answer.msg, attempt |-> answer.attempt] \in Job
    BY <1>7, ClaimedType DEF OnOversize, PollReturns
  <2>2. WireWellFormed' /\ call' \in Request /\ answer' \in Answer
        /\ orphans' \subseteq Request
    BY <1>7, <2>1, SendType, SettleType DEF OnOversize, Nack
  <2>. QED  BY <1>7, <2>1, <2>2 DEF OnOversize, Nack
<1>8. CASE OnMessage
  <2>1. /\ answer.msg \in Msg
        /\ [msg |-> answer.msg, attempt |-> answer.attempt] \in Job
    BY <1>8, ClaimedType DEF OnMessage, PollReturns
  <2>2. WireWellFormed' /\ call' \in Request /\ answer' \in Answer
        /\ orphans' \subseteq Request
    BY <1>8, QuietType, SendType, RequestTypes DEF OnMessage
  <2>3. job' \in Job /\ job'.msg \in Msg
    BY <1>8, <2>1 DEF OnMessage
  <2>4. /\ pc' \in {"policy", "post"} /\ tries' \in Nat
        /\ health' \in Health
    BY <1>8 DEF OnMessage, StartLadder
  <2>5. UNCHANGED <<after, policyPending, counted, shutdown, target, received,
                    unbornSeen, burnt, left>> /\ replay' = FALSE
    BY <1>8 DEF OnMessage
  <2>. QED  BY <2>2, <2>3, <2>4, <2>5
<1>9. CASE PolicyReturns
  BY <1>9, QuietType DEF PolicyReturns, StartLadder
<1>10. CASE PostAccepted
  <2>1. job.msg \in Msg
    BY <1>10 DEF PostAccepted
  <2>2. WireWellFormed' /\ call' \in Request /\ answer' \in Answer
        /\ orphans' \subseteq Request
    BY <1>10, <2>1, SendType, SettleType DEF PostAccepted, Ack
  <2>. QED  BY <1>10, <2>1, <2>2 DEF PostAccepted, Ack
<1>11. ASSUME NEW c \in BOOLEAN, pc = "post", PostFails(c)
       PROVE  /\ pc' \in {"nack", "retryWait"}
              /\ after' \in {"top", "circuit", "stopped"}
              /\ tries' \in Nat /\ burnt' \in Nat
              /\ WireWellFormed' /\ call' \in Request /\ answer' \in Answer
              /\ orphans' \subseteq Request
  <2>1. job \in Job /\ job.msg \in Msg
    BY <1>11
  <2>2. ASSUME NEW next \in {"top", "circuit", "stopped"}, Nack(job, next)
        PROVE  /\ pc' = "nack" /\ after' = next
               /\ WireWellFormed' /\ call' \in Request /\ answer' \in Answer
               /\ orphans' \subseteq Request
    BY <2>1, <2>2, SendType, SettleType DEF Nack
  <2>. QED  BY <1>11, <2>2, WireUnchangedType DEF PostFails
<1>12. CASE PostUnreachable
  BY <1>11, <1>12 DEF PostUnreachable
<1>13. CASE PostRejected
  <2>1. received' \subseteq Msg
    BY <1>13 DEF PostRejected
  <2>. QED  BY <1>11, <1>13, <2>1 DEF PostRejected
<1>14. CASE RetryWaitEnds
  BY <1>14, WireUnchangedType DEF RetryWaitEnds
<1>15. CASE ShutdownInRetryWait
  <2>1. job.msg \in Msg
    BY <1>15 DEF ShutdownInRetryWait
  <2>2. WireWellFormed' /\ call' \in Request /\ answer' \in Answer
        /\ orphans' \subseteq Request
    BY <1>15, <2>1, SendType, SettleType DEF ShutdownInRetryWait, Nack
  <2>. QED  BY <1>15, <2>1, <2>2 DEF ShutdownInRetryWait, Nack
<1>16. CASE AckReturns
  BY <1>16, QuietType, NoJobType DEF AckReturns, AckDone
<1>17. CASE AckPauseEnds
  <2>1. job.msg \in Msg
    BY <1>17 DEF AckPauseEnds
  <2>2. WireWellFormed' /\ call' \in Request /\ answer' \in Answer
        /\ orphans' \subseteq Request
    BY <1>17, <2>1, SendType, SettleType DEF AckPauseEnds, Ack
  <2>. QED  BY <1>17, <2>1, <2>2 DEF AckPauseEnds, Ack
<1>18. CASE NackReturns
  BY <1>18, QuietType, NoJobType DEF NackReturns, Wait, Stop
<1>19. CASE ProbeConnects
  BY <1>19, WireUnchangedType DEF ProbeConnects
<1>20. CASE ShutdownInCircuit
  BY <1>20, WireUnchangedType DEF ShutdownInCircuit, Stop
<1>21. CASE Respawn
  BY <1>21, WireUnchangedType, NoJobType, HasPolicyAssumption
  DEF Respawn, FreshLoop
<1>. QED
  BY <1>1, <1>2, <1>3, <1>4, <1>5, <1>6, <1>7, <1>8, <1>9, <1>10, <1>12,
     <1>13, <1>14, <1>15, <1>16, <1>17, <1>18, <1>19, <1>20, <1>21
  DEF Loop

\* What else can happen to the loop, and what happens around it.
LEMMA SpendType ==
  ASSUME RouteInv, NEW kind \in Mishap, Spend(kind)
  PROVE  left' \in [Mishap -> Nat]
  BY DEF RouteInv, RouteTypeOK, Spend, Mishap

\* So does every step of the supervisor, the process, the network, the hub
\* and the webhook's host.
LEMMA EnvironmentType ==
  ASSUME TypeInv,
         \/ Panic \/ Shutdown \/ Restart
         \/ HubAnswers \/ CallFails \/ HubServesOrphan
         \/ MessageArrives \/ (\E m \in Msg : HubTimer(m))
         \/ TargetGoesDown \/ TargetComesUp
  PROVE  TypeInv'
<1>0. HubInv /\ RouteInv
  BY DEF TypeInv
<1> USE <1>0 DEF RouteInv, RouteTypeOK, JobInHand, Pc, Health, loopVars,
                 reportVars, webVars, histVars, others
<1>1. CASE Panic
  <2>1. left' \in [Mishap -> Nat]
    BY <1>1, SpendType DEF Panic, Mishap
  <2>2. HubInv'
    BY <1>1, HubUnchangedType DEF Panic, hub
  <2>3. RouteInv'
    BY <1>1, <2>1, AbandonType, NoJobType DEF Panic, LoopGone
  <2>. QED  BY <2>2, <2>3 DEF TypeInv
<1>2. CASE Shutdown
  <2>1. left' \in [Mishap -> Nat]
    BY <1>2, SpendType DEF Shutdown, Mishap
  <2>2. HubInv'
    BY <1>2, HubUnchangedType DEF Shutdown, hub
  <2>3. RouteInv'
    BY <1>2, <2>1, WireUnchangedType DEF Shutdown
  <2>. QED  BY <2>2, <2>3 DEF TypeInv
<1>3. CASE Restart
  <2>1. left' \in [Mishap -> Nat]
    BY <1>3, SpendType DEF Restart, Mishap
  <2>2. HubInv'
    BY <1>3, HubUnchangedType DEF Restart, hub
  <2>3. RouteInv'
    BY <1>3, <2>1, AbandonType, NoJobType, HasPolicyAssumption
    DEF Restart, FreshLoop, LoopGone
  <2>. QED  BY <2>2, <2>3 DEF TypeInv
<1>4. CASE HubAnswers
  <2>1. /\ HubInv' /\ answer' \in Answer
        /\ answer'.kind = "claim" => answer'.msg \in Msg
    BY <1>4, HubServesType DEF HubAnswers, WireWellFormed
  <2>2. RouteInv'
    BY <1>4, <2>1 DEF HubAnswers, WireWellFormed, SettleNamesMessage
  <2>. QED  BY <2>1, <2>2 DEF TypeInv
<1>5. CASE CallFails
  <2>1. left' \in [Mishap -> Nat]
    BY <1>5, SpendType DEF CallFails, Mishap
  <2>2. HubInv'
    BY <1>5, HubUnchangedType DEF CallFails, hub
  <2>3. /\ answer' \in {Plain("auth"), Plain("unreachable")}
        /\ orphans' \in {orphans, orphans \cup {call}}
    BY <1>5 DEF CallFails
  <2>4. RouteInv'
    BY <1>5, <2>1, <2>3, AnswerTypes
    DEF CallFails, WireWellFormed, SettleNamesMessage
  <2>. QED  BY <2>2, <2>4 DEF TypeInv
<1>6. CASE HubServesOrphan
  <2>1. PICK r \in orphans : /\ \E a \in Offers : HubServes(r, a)
                             /\ orphans' = orphans \ {r}
                             /\ UNCHANGED <<others, call, answer, left>>
    BY <1>6 DEF HubServesOrphan
  <2>2. HubInv'
    BY <2>1, HubServesType DEF WireWellFormed
  <2>3. RouteInv'
    BY <2>1 DEF WireWellFormed, SettleNamesMessage
  <2>. QED  BY <2>2, <2>3 DEF TypeInv
<1>7. CASE MessageArrives
  BY <1>7, PublishType, WireUnchangedType DEF MessageArrives, TypeInv
<1>8. ASSUME NEW m \in Msg, HubTimer(m)
      PROVE  TypeInv'
  BY <1>8, HubTimerType, WireUnchangedType DEF HubTimer, TypeInv
<1>9. CASE TargetGoesDown
  <2>1. left' \in [Mishap -> Nat]
    BY <1>9, SpendType DEF TargetGoesDown, Mishap
  <2>2. HubInv'
    BY <1>9, HubUnchangedType DEF TargetGoesDown, hub
  <2>3. RouteInv'
    BY <1>9, <2>1, WireUnchangedType DEF TargetGoesDown
  <2>. QED  BY <2>2, <2>3 DEF TypeInv
<1>10. CASE TargetComesUp
  <2>1. HubInv'
    BY <1>10, HubUnchangedType DEF TargetComesUp, hub
  <2>2. RouteInv'
    BY <1>10, WireUnchangedType DEF TargetComesUp
  <2>. QED  BY <2>1, <2>2 DEF TypeInv
<1>. QED
  BY <1>1, <1>2, <1>3, <1>4, <1>5, <1>6, <1>7, <1>8, <1>9, <1>10

\* The loop changes the hub by its calls only.
LEMMA LoopLeavesHub == Loop => UNCHANGED hubVars
  BY DEF Loop, hub, StartPoll, ShutdownBetweenClaims, OnHubError,
         OnTopicUnborn, WaitEnds, OnEmpty, OnOversize, OnMessage,
         PolicyReturns, PostAccepted, PostUnreachable, PostRejected,
         RetryWaitEnds, ShutdownInRetryWait, AckReturns, AckPauseEnds,
         NackReturns, ProbeConnects, ShutdownInCircuit, Respawn

\* The inductive step of TypeCorrect.
LEMMA TypeStep == TypeInv /\ [Next]_vars => TypeInv'
<1> SUFFICES ASSUME TypeInv, [Next]_vars PROVE TypeInv'
  OBVIOUS
<1>1. CASE Loop
  BY <1>1, LoopType, LoopLeavesHub, HubUnchangedType DEF TypeInv
<1>2. CASE UNCHANGED vars
  <2>1. HubInv' /\ WireWellFormed'
    BY <1>2, HubUnchangedType, WireUnchangedType DEF vars, TypeInv
  <2>2. RouteInv'
    BY <1>2, <2>1
    DEF vars, loopVars, reportVars, wireVars, webVars, histVars, TypeInv,
        RouteInv, RouteTypeOK, JobInHand
  <2>. QED  BY <2>1, <2>2 DEF TypeInv
<1>. QED  BY <1>1, <1>2, EnvironmentType DEF Next

\* Every variable of a route, its hub and the wire between them stays in its
\* type; in particular no claim goes past MaxAttempts.
THEOREM TypeCorrect == Spec => []TypeOK
<1>1. TypeInv => TypeOK
  BY DEF TypeInv, HubInv, RouteInv, RouteTypeOK, TypeOK
<1>. QED  BY <1>1, TypeInit, TypeStep, PTL DEF Spec

-----------------------------------------------------------------------------
(* Nothing is settled, or counted, that the webhook did not receive.  An    *)
(* ack may outlive the loop that sent it, so the invariant says of every    *)
(* ack that could still be served that its message was received.            *)

SafeInv == TypeInv /\ SettledWasReceived /\ AcksHaveReason

\* The hub acknowledges a message only on a request to.
LEMMA HubAcksOnRequest ==
  ASSUME HubInv, NEW r \in Request, SettleNamesMessage(r), NEW a,
         HubServes(r, a), NEW m \in Msg, status'[m] = "acked"
  PROVE  status[m] = "acked" \/ (r.kind = "ack" /\ r.msg = m)
<1> USE DEF HubInv, HubTypeOK
<1>1. r.from \in BOOLEAN /\ (r.kind \in {"ack", "nack"} => r.msg \in Msg)
  BY DEF Request, SettleNamesMessage
<1>2. ASSUME UNCHANGED status PROVE status[m] = "acked"
  BY <1>2
<1>3. Owed(r.from)[m] = "acked" => status[m] = "acked"
  BY DEF Owed
<1>4. ASSUME NEW k \in Msg, HubClaims(r.from, k, a)
      PROVE  status[m] = "acked"
  <2>1. Owed(r.from) \in [Msg -> Status]
    BY <1>1, OwedType
  <2>. QED  BY <1>3, <1>4, <2>1 DEF HubClaims
<1>5. CASE HubEmpty(r.from, a)
  BY <1>3, <1>5 DEF HubEmpty
<1>6. CASE r.kind \in {"ack", "nack"} /\ HubSettles(r, a)
  BY <1>1, <1>6 DEF HubSettles, Returned
<1>. QED
  BY <1>2, <1>4, <1>5, <1>6
  DEF HubServes, HubUnborn, HubRefusesSettle, HubTakesPolicy,
      HubRefusesPolicy, hubVars

\* None of its own actions acknowledges anything.
LEMMA HubAloneAcksNothing ==
  ASSUME HubInv, Publish \/ (\E k \in Msg : LeaseExpires(k) \/ BackoffEnds(k)),
         NEW m \in Msg, status'[m] = "acked"
  PROVE  status[m] = "acked"
  BY DEF HubInv, HubTypeOK, Publish, LeaseExpires, BackoffEnds, Returned, Msg

\* What the loop may do to the acks that are out.
LEMMA AcksLeftAlone ==
  ASSUME AcksHaveReason, received \subseteq received',
         Quiet \/ Abandon \/ UNCHANGED wireVars
  PROVE  AckedForReason(call)' /\ \A r \in orphans' : AckedForReason(r)'
  BY DEF AcksHaveReason, AckedForReason, Quiet, Abandon, wireVars, NoRequest

\* Sending something that is no ack needs no reason.
LEMMA OtherRequestSent ==
  ASSUME AcksHaveReason, received \subseteq received',
         NEW r, r.kind # "ack", Send(r)
  PROVE  AckedForReason(call)' /\ \A q \in orphans' : AckedForReason(q)'
  BY DEF AcksHaveReason, AckedForReason, Send

\* Nor does a nack.
LEMMA NackSent ==
  ASSUME AcksHaveReason, received \subseteq received',
         NEW claim, NEW next, Nack(claim, next)
  PROVE  AcksHaveReason'
<1>1. SettleRequest("nack", claim).kind # "ack"
  BY DEF SettleRequest
<1>. QED  BY <1>1, OtherRequestSent DEF Nack, AcksHaveReason

\* An ack of what was received has its reason.
LEMMA AckSent ==
  ASSUME AcksHaveReason, received \subseteq received', job.msg \in received',
         UNCHANGED job, NEW n, Ack(n)
  PROVE  AcksHaveReason'
  BY DEF AcksHaveReason, AckedForReason, Ack, Send, SettleRequest

\* The loop acks and counts only what was received.
LEMMA LoopKeepsReasons ==
  ASSUME SafeInv, Loop
  PROVE  /\ received \subseteq received'
         /\ counted' \subseteq received'
         /\ AcksHaveReason'
<1>0. counted \subseteq received /\ AcksHaveReason
  BY DEF SafeInv, SettledWasReceived
<1>1. ASSUME UNCHANGED received, Quiet \/ Abandon \/ UNCHANGED wireVars,
             pc' \notin {"ack", "ackPause"}
      PROVE  AcksHaveReason'
  BY <1>0, <1>1, AcksLeftAlone DEF AcksHaveReason
<1>2. ASSUME UNCHANGED received, NEW r, r.kind # "ack", Send(r),
             pc' \notin {"ack", "ackPause"}
      PROVE  AcksHaveReason'
  BY <1>0, <1>2, OtherRequestSent DEF AcksHaveReason
<1>3. PolicyRequest.kind # "ack" /\ \A f : NextRequest(f).kind # "ack"
  BY DEF PolicyRequest, NextRequest
<1> USE <1>0 DEF reportVars, webVars
<1>4. CASE StartPoll
  BY <1>2, <1>3, <1>4 DEF StartPoll
<1>5. CASE ShutdownBetweenClaims \/ OnHubError \/ OnTopicUnborn \/ WaitEnds
  BY <1>1, <1>5
  DEF ShutdownBetweenClaims, OnHubError, OnTopicUnborn, WaitEnds, PollReturns,
      Wait, Stop
<1>6. CASE OnEmpty
  BY <1>1, <1>2, <1>3, <1>6 DEF OnEmpty
<1>7. CASE OnOversize
  BY <1>7, NackSent DEF OnOversize
<1>8. CASE OnMessage
  BY <1>1, <1>2, <1>3, <1>8 DEF OnMessage, StartLadder
<1>9. CASE PolicyReturns
  BY <1>1, <1>9 DEF PolicyReturns, StartLadder
<1>10. CASE PostAccepted
  BY <1>10, AckSent DEF PostAccepted
<1>11. ASSUME NEW c \in BOOLEAN, PostFails(c), received \subseteq received'
       PROVE  AcksHaveReason'
  <2>1. CASE \E next : Nack(job, next)
    BY <1>11, <2>1, NackSent
  <2>2. CASE pc' = "retryWait" /\ UNCHANGED wireVars
    BY <1>11, <2>2, AcksLeftAlone DEF AcksHaveReason
  <2>. QED  BY <1>11, <2>1, <2>2 DEF PostFails
<1>12. CASE PostUnreachable \/ PostRejected
  BY <1>11, <1>12 DEF PostUnreachable, PostRejected
<1>13. CASE RetryWaitEnds \/ ProbeConnects \/ ShutdownInCircuit
  BY <1>1, <1>13 DEF RetryWaitEnds, ProbeConnects, ShutdownInCircuit, Stop
<1>14. CASE ShutdownInRetryWait
  BY <1>14, NackSent DEF ShutdownInRetryWait
<1>15. CASE AckReturns
  <2>1. job.msg \in received
    BY <1>15 DEF AckReturns, AcksHaveReason
  <2>2. CASE AckDone
    BY <1>1, <1>15, <2>1, <2>2 DEF AckReturns, AckDone
  <2>3. CASE pc' = "ackPause" /\ UNCHANGED <<job, reportVars>>
    BY <1>15, <2>1, <2>3, AcksLeftAlone DEF AckReturns, AcksHaveReason
  <2>. QED  BY <1>15, <2>2, <2>3 DEF AckReturns
<1>16. CASE AckPauseEnds
  BY <1>16, AckSent DEF AckPauseEnds, AcksHaveReason
<1>17. CASE NackReturns
  BY <1>1, <1>17 DEF NackReturns, Wait, Stop, SafeInv, TypeInv, RouteInv,
                     RouteTypeOK
<1>18. CASE Respawn
  BY <1>1, <1>18 DEF Respawn, FreshLoop
<1>. QED
  BY <1>4, <1>5, <1>6, <1>7, <1>8, <1>9, <1>10, <1>12, <1>13, <1>14, <1>15,
     <1>16, <1>17, <1>18 DEF Loop

\* The inductive step of NothingLost.
LEMMA SafeStep == SafeInv /\ [Next]_vars => SafeInv'
<1> SUFFICES ASSUME SafeInv, [Next]_vars PROVE SafeInv'
  OBVIOUS
<1>0. /\ TypeInv' /\ HubInv /\ WireWellFormed /\ call \in Request
      /\ orphans \subseteq Request
      /\ SettledWasReceived /\ AcksHaveReason
  BY TypeStep DEF SafeInv, TypeInv, RouteInv, RouteTypeOK
<1>1. ASSUME UNCHANGED status, received \subseteq received',
             counted' \subseteq received', AcksHaveReason'
      PROVE  SafeInv'
  BY <1>0, <1>1 DEF SafeInv, SettledWasReceived
<1>2. CASE Loop
  BY <1>1, <1>2, LoopLeavesHub, LoopKeepsReasons DEF hubVars
<1> USE DEF others, loopVars, reportVars, webVars, histVars
<1>3. CASE Panic \/ Restart
  <2>1. /\ UNCHANGED <<status, received>> /\ Abandon
        /\ counted' \subseteq counted /\ pc' \notin {"ack", "ackPause"}
    BY <1>3 DEF Panic, Restart, FreshLoop, hub, hubVars
  <2>2. AcksHaveReason'
    BY <1>0, <2>1, AcksLeftAlone DEF AcksHaveReason
  <2>. QED  BY <1>0, <1>1, <2>1, <2>2 DEF SettledWasReceived
<1>4. CASE Shutdown \/ TargetGoesDown \/ TargetComesUp
  <2>1. UNCHANGED <<status, received, counted, pc, job>>
        /\ UNCHANGED wireVars
    BY <1>4 DEF Shutdown, TargetGoesDown, TargetComesUp, hub, hubVars
  <2>2. AcksHaveReason'
    BY <1>0, <2>1, AcksLeftAlone DEF AcksHaveReason
  <2>. QED  BY <1>0, <1>1, <2>1, <2>2 DEF SettledWasReceived
<1>5. CASE HubAnswers
  <2>1. /\ UNCHANGED <<received, counted, pc, job, call, orphans>>
        /\ HubServes(call, answer')
    BY <1>5 DEF HubAnswers
  <2>2. \A m \in Msg : status'[m] = "acked" => m \in received
    BY <1>0, <2>1, HubAcksOnRequest
    DEF WireWellFormed, AcksHaveReason, AckedForReason, SettledWasReceived
  <2>. QED
    BY <1>0, <2>1, <2>2
    DEF SafeInv, SettledWasReceived, AcksHaveReason, AckedForReason
<1>6. CASE CallFails
  <2>1. /\ UNCHANGED <<status, received, counted, pc, job, call>>
        /\ orphans' \subseteq orphans \cup {call}
    BY <1>6 DEF CallFails, hub, hubVars
  <2>2. AcksHaveReason'
    BY <1>0, <2>1 DEF AcksHaveReason, AckedForReason
  <2>. QED  BY <1>0, <1>1, <2>1, <2>2 DEF SettledWasReceived
<1>7. CASE HubServesOrphan
  <2>1. PICK r \in orphans : /\ \E a \in Offers : HubServes(r, a)
                             /\ orphans' = orphans \ {r}
                             /\ UNCHANGED <<others, call, answer, left>>
    BY <1>7 DEF HubServesOrphan
  <2>2. \A m \in Msg : status'[m] = "acked" => m \in received
    BY <1>0, <2>1, HubAcksOnRequest
    DEF WireWellFormed, AcksHaveReason, AckedForReason, SettledWasReceived
  <2>. QED
    BY <1>0, <2>1, <2>2
    DEF SafeInv, SettledWasReceived, AcksHaveReason, AckedForReason
<1>8. CASE MessageArrives \/ \E m \in Msg : HubTimer(m)
  <2>1. /\ UNCHANGED <<received, counted, pc, job, call, orphans>>
        /\ Publish \/ (\E k \in Msg : LeaseExpires(k) \/ BackoffEnds(k))
    BY <1>8 DEF MessageArrives, HubTimer, wireVars
  <2>2. \A m \in Msg : status'[m] = "acked" => m \in received
    BY <1>0, <2>1, HubAloneAcksNothing DEF SettledWasReceived
  <2>. QED
    BY <1>0, <2>1, <2>2
    DEF SafeInv, SettledWasReceived, AcksHaveReason, AckedForReason
<1>9. CASE UNCHANGED vars
  BY <1>0, <1>9
  DEF vars, hubVars, wireVars, SafeInv, SettledWasReceived, AcksHaveReason,
      AckedForReason
<1>. QED
  BY <1>2, <1>3, <1>4, <1>5, <1>6, <1>7, <1>8, <1>9 DEF Next

\* Nothing is lost: the hub drops a message as acked, and the route counts it
\* as delivered, only when the webhook has received it (AR3, K5).
THEOREM NothingLost == Spec => []SettledWasReceived
<1>1. Init => SafeInv
  BY TypeInit
  DEF Init, HubInit, SafeInv, SettledWasReceived, AcksHaveReason,
      AckedForReason, NoRequest
<1>2. SafeInv => SettledWasReceived
  BY DEF SafeInv
<1>. QED  BY <1>1, <1>2, SafeStep, PTL DEF Spec

=============================================================================
