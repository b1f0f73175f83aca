-------------------------- MODULE RouteClaimProofs --------------------------
(***************************************************************************)
(* Proofs about the claims of a route: whose settle ends a claim, how many *)
(* of them are open, and what becomes of a message (AtLeastOnce).          *)
(***************************************************************************)
EXTENDS RouteLoopProofs, FiniteSetTheorems

-----------------------------------------------------------------------------
(* The awaits.  Where the loop is says which call is out, which answers can *)
(* come back and whether there is a claim in hand.                          *)

AwaitsFit == CallFitsPc /\ AnswerFitsPc /\ JobFitsPc
AwaitInv == TypeInv /\ AwaitsFit

\* The kinds of the requests, and what they carry.
LEMMA RequestFields ==
  /\ NoRequest.kind = "none" /\ PolicyRequest.kind = "policy"
  /\ \A f : NextRequest(f).kind = "next"
  /\ \A verb, c : /\ SettleRequest(verb, c).kind = verb
                  /\ SettleRequest(verb, c).msg = c.msg
                  /\ SettleRequest(verb, c).attempt = c.attempt
  /\ NoAnswer.kind = "none" /\ NoJob.msg = 0
  /\ \A k : Plain(k).kind = k
  /\ \A m, n : /\ ClaimOf(m, n).kind = "claim"
               /\ ClaimOf(m, n).msg = m /\ ClaimOf(m, n).attempt = n
  BY DEF NoRequest, PolicyRequest, NextRequest, SettleRequest, NoAnswer,
         Plain, ClaimOf, NoJob

\* A wire at rest.
NothingOut == call' = NoRequest /\ answer' = NoAnswer

\* What a step of the loop does to the claim in hand and to the wire.  The
\* claim in hand is let go of only once it is settled, as far as the loop can
\* bring that about.
LetsGo ==
  \/ pc \notin Busy /\ answer.kind # "claim"
  \/ pc = "policy" /\ job = NoJob
  \/ pc \in {"ack", "nack"} /\ (answer.kind \in {"ok", "refused"} \/ GaveUpSettle)

Rests ==
  /\ pc \notin {"stopped", "ended"} /\ pc' \notin Busy \cup {"poll"}
  /\ job' = NoJob /\ NothingOut
  /\ UNCHANGED orphans /\ LetsGo

Drops ==
  /\ pc \in {"top", "poll"} /\ pc' = "stopped"
  /\ job' = NoJob /\ Abandon

Polls ==
  /\ pc = "top" /\ pc' = "poll"
  /\ job' = NoJob /\ call' = NextRequest(replay) /\ answer' = NoAnswer
  /\ UNCHANGED orphans

Takes ==
  /\ pc = "poll" /\ answer.kind = "claim"
  /\ pc' \in {"policy", "post", "nack"}
  /\ pc' # "nack" => answer.msg \notin Big
  /\ job' = [msg |-> answer.msg, attempt |-> answer.attempt]
  /\ answer' = NoAnswer
  /\ UNCHANGED orphans

PushesPolicy ==
  /\ pc = "poll" /\ answer.kind # "claim" /\ pc' = "policy"
  /\ job' = NoJob /\ answer' = NoAnswer
  /\ UNCHANGED orphans

Proceeds ==
  /\ pc \in Busy /\ pc' \in Busy
  /\ pc' \in {"policy", "post", "retryWait"}
     => pc \in {"policy", "post", "retryWait"}
  /\ job # NoJob /\ UNCHANGED job /\ answer' = NoAnswer
  /\ UNCHANGED orphans

\* The request a step of the loop leaves outstanding fits the await it ends at.
LoopMoves ==
  /\ Rests \/ Drops \/ Polls \/ Takes \/ PushesPolicy \/ Proceeds
  /\ CallFitsPc' /\ AnswerFitsPc'

\* Every step of the loop is one of these moves.
LEMMA LoopMovesSo ==
  ASSUME AwaitInv, Loop
  PROVE  LoopMoves
<1>0. /\ CallFitsPc /\ AnswerFitsPc /\ JobFitsPc /\ JobInHand
      /\ pc \in Pc /\ job \in Job /\ after \in {"top", "circuit", "stopped"}
      /\ NoJob.msg = 0 /\ 0 \notin Msg /\ tries \in Nat
      /\ answer.kind = "claim" => answer.msg \in Msg
  BY RequestFields, MsgsAssumption
  DEF AwaitInv, AwaitsFit, TypeInv, RouteInv, RouteTypeOK, WireWellFormed, Msg
<1> USE <1>0, RequestFields
    DEF LoopMoves, CallFitsPc, AnswerFitsPc, JobFitsPc, JobInHand, Busy,
        reportVars, webVars, histVars, wireVars, NothingOut
<1>1. CASE StartPoll
  BY <1>1 DEF StartPoll, Polls, Send
<1>2. CASE ShutdownBetweenClaims
  BY <1>2 DEF ShutdownBetweenClaims, Drops, Abandon, Stop
<1>3. CASE OnHubError \/ OnTopicUnborn
  BY <1>3
  DEF OnHubError, OnTopicUnborn, PollReturns, Wait, Stop, Quiet, Rests, LetsGo
<1>5. CASE WaitEnds \/ ProbeConnects \/ ShutdownInCircuit \/ Respawn
  BY <1>5
  DEF WaitEnds, ProbeConnects, ShutdownInCircuit, Respawn, FreshLoop, Stop,
      Rests, LetsGo
<1>6. CASE OnEmpty
  BY <1>6 DEF OnEmpty, PollReturns, Quiet, Send, Rests, LetsGo, PushesPolicy
<1>7. CASE OnOversize
  BY <1>7 DEF OnOversize, PollReturns, Nack, Send, Takes
<1>8. CASE OnMessage
  BY <1>8
  DEF OnMessage, PollReturns, StartLadder, Quiet, Send, Takes, Fits
<1>9. CASE PolicyReturns
  BY <1>9 DEF PolicyReturns, StartLadder, Quiet, Rests, LetsGo, Proceeds
<1>10. CASE PostAccepted
  BY <1>10 DEF PostAccepted, Ack, Send, Proceeds
<1>11. ASSUME NEW c \in BOOLEAN, pc = "post", UNCHANGED job, PostFails(c)
       PROVE  LoopMoves
  BY <1>11 DEF PostFails, Nack, Send, Proceeds
<1>12. CASE PostUnreachable \/ PostRejected
  BY <1>11, <1>12 DEF PostUnreachable, PostRejected
<1>14. CASE RetryWaitEnds \/ ShutdownInRetryWait
  BY <1>14 DEF RetryWaitEnds, ShutdownInRetryWait, Nack, Send, Proceeds
<1>16. CASE AckReturns
  BY <1>16 DEF AckReturns, AckDone, Quiet, Rests, LetsGo, GaveUpSettle,
               Proceeds
<1>17. CASE AckPauseEnds
  BY <1>17 DEF AckPauseEnds, Ack, Send, Proceeds
<1>18. CASE NackReturns
  BY <1>18 DEF NackReturns, Wait, Stop, Quiet, Rests, LetsGo, GaveUpSettle
<1>. QED
  BY <1>1, <1>2, <1>3, <1>5, <1>6, <1>7, <1>8, <1>9, <1>10, <1>12, <1>14,
     <1>16, <1>17, <1>18 DEF Loop

-----------------------------------------------------------------------------
(* What a request does to the claims of the hub.                            *)

Claimed(m) == status[m] = "claimed"

\* A poll is served without a claim.
ServesNoClaim(r, a) ==
  /\ r.kind = "next" /\ a.kind \in {"unborn", "empty"}
  /\ UNCHANGED attempt
  /\ \A k \in Msg : Claimed(k)' <=> Claimed(k)

\* Message m was not claimed, and is now, by its next attempt.
ServesClaim(r, m, a) ==
  /\ r.kind = "next" /\ a = ClaimOf(m, attempt[m] + 1)
  /\ ~Claimed(m) /\ Claimed(m)'
  /\ attempt' = [attempt EXCEPT ![m] = @ + 1]
  /\ \A k \in Msg \ {m} : Claimed(k)' <=> Claimed(k)

\* The claim a settle names is closed, or was not open; no other changes.
ServesSettle(r, a) ==
  /\ r.kind \in {"ack", "nack"} /\ r.msg \in Msg /\ a.kind \in {"ok", "refused"}
  /\ UNCHANGED attempt
  /\ \A k \in Msg \ {r.msg} : Claimed(k)' <=> Claimed(k)
  /\ Claimed(r.msg)' => Claimed(r.msg)
  /\ ClaimedBefore(r) /\ Claimed(r.msg)'
     => LateAckCheck /\ r.attempt # attempt[r.msg]
  /\ ClaimedBefore(r) /\ Claimed(r.msg) /\ ~Claimed(r.msg)'
     => (LateAckCheck => r.attempt = attempt[r.msg])

ServesPolicy(r, a) ==
  /\ r.kind = "policy" /\ a.kind \in {"ok", "refused"}
  /\ UNCHANGED <<status, attempt>>

\* Every request the hub serves is one of these.
LEMMA HubServesSo ==
  ASSUME HubInv, NEW r \in Request, SettleNamesMessage(r), NEW a,
         HubServes(r, a)
  PROVE  \/ ServesNoClaim(r, a)
         \/ \E m \in Msg : ServesClaim(r, m, a)
         \/ ServesSettle(r, a)
         \/ ServesPolicy(r, a)
<1> USE RequestFields DEF HubInv, HubTypeOK, Claimed
<1>1. r.from \in BOOLEAN /\ (r.kind \in {"ack", "nack"} => r.msg \in Msg)
  BY DEF Request, SettleNamesMessage
<1>2. /\ Owed(r.from) \in [Msg -> Status]
      /\ \A k \in Msg : Owed(r.from)[k] = "claimed" <=> status[k] = "claimed"
      /\ \A k \in Msg : Owed(r.from)[k] = "ready" => status[k] # "claimed"
  <2>1. Owed(r.from) \in [Msg -> Status]
    BY <1>1, OwedType
  <2>. QED  BY <2>1 DEF Owed
<1>3. CASE r.kind = "next" /\ HubUnborn(a)
  BY <1>3 DEF HubUnborn, hubVars, ServesNoClaim
<1>4. ASSUME r.kind = "next", NEW m \in Msg, HubClaims(r.from, m, a)
      PROVE  ServesClaim(r, m, a)
  BY <1>2, <1>4 DEF HubClaims, IsHead, ServesClaim
<1>5. CASE r.kind = "next" /\ HubEmpty(r.from, a)
  BY <1>2, <1>5 DEF HubEmpty, ServesNoClaim
<1>6. CASE r.kind \in {"ack", "nack"} /\ HubSettles(r, a)
  <2>1. /\ status' = [status EXCEPT ![r.msg] = IF r.kind = "ack" THEN "acked"
                                      ELSE Returned(r.msg, "backoff")]
        /\ Settles(r) /\ a.kind = "ok" /\ UNCHANGED attempt
    BY <1>6 DEF HubSettles
  <2>2. ~(status'[r.msg] = "claimed")
    BY <1>1, <1>6, <2>1 DEF Returned
  <2>. QED
    BY <1>1, <1>6, <2>1, <2>2 DEF ServesSettle, Settles, ClaimedBefore
<1>7. CASE r.kind \in {"ack", "nack"} /\ HubRefusesSettle(r, a)
  BY <1>1, <1>7, LateAckCheckAssumption
  DEF HubRefusesSettle, hubVars, ServesSettle, Settles, ClaimedBefore
<1>8. CASE r.kind = "policy" /\ HubTakesPolicy(a)
  BY <1>8 DEF HubTakesPolicy, ServesPolicy
<1>9. CASE r.kind = "policy" /\ HubRefusesPolicy(a)
  BY <1>9 DEF HubRefusesPolicy, hubVars, ServesPolicy
<1>. QED
  BY <1>3, <1>4, <1>5, <1>6, <1>7, <1>8, <1>9 DEF HubServes

\* By itself the hub makes no claim; only a lease that expires ends one.
LEMMA HubAloneClaimsNothing ==
  ASSUME HubInv, Publish \/ (\E k \in Msg : LeaseExpires(k) \/ BackoffEnds(k))
  PROVE  UNCHANGED attempt /\ \A m \in Msg : Claimed(m)' => Claimed(m)
  BY DEF HubInv, HubTypeOK, Publish, LeaseExpires, BackoffEnds, Returned, Msg,
         Claimed

-----------------------------------------------------------------------------
(* The invariant of the awaits, and that no settle names a claim still to   *)
(* be made.                                                                 *)

\* What a step outside the loop and the hub does to the claim in hand.
Dies ==
  /\ pc' \in {"respawn", "ended", "top"} /\ job' = NoJob /\ Abandon

\* The loop's half of a step of the world around it.
LEMMA AroundMovesSo ==
  ASSUME AwaitInv, Panic \/ Restart \/ Shutdown \/ TargetGoesDown
                   \/ TargetComesUp
  PROVE  /\ UNCHANGED hubVars
         /\ Dies \/ UNCHANGED <<pc, job, tries, wireVars>>
  BY DEF Panic, Restart, FreshLoop, Shutdown, TargetGoesDown, TargetComesUp,
         Dies, loopVars, reportVars, hub

\* An answer fits the await whose call it answers.
LEMMA AnswerFits ==
  ASSUME AwaitInv, HubAnswers
  PROVE  /\ answer = NoAnswer /\ HubServes(call, answer')
         /\ pc \in {"poll", "policy", "ack", "nack"}
         /\ UNCHANGED <<pc, job, tries, call, orphans>>
         /\ AwaitsFit'
<1>0. /\ HubInv /\ call \in Request /\ SettleNamesMessage(call)
      /\ CallFitsPc /\ AnswerFitsPc /\ JobFitsPc
  BY DEF AwaitInv, AwaitsFit, TypeInv, RouteInv, RouteTypeOK, WireWellFormed
<1>1. /\ answer = NoAnswer /\ HubServes(call, answer') /\ call # NoRequest
      /\ UNCHANGED <<pc, job, tries, call, orphans>>
  BY DEF HubAnswers, others, loopVars
<1>2. pc \in {"poll", "policy", "ack", "nack"}
  BY <1>0, <1>1 DEF CallFitsPc
<1>3. AnswerFitsPc'
  BY <1>0, <1>1, <1>2, HubServesSo, RequestFields
  DEF AnswerFitsPc, CallFitsPc, ServesNoClaim, ServesClaim, ServesSettle,
      ServesPolicy
<1>. QED
  BY <1>0, <1>1, <1>2, <1>3 DEF AwaitsFit, CallFitsPc, JobFitsPc

\* A call that fails.
LEMMA FailureFits ==
  ASSUME AwaitInv, CallFails
  PROVE  /\ answer'.kind \in {"auth", "unreachable"}
         /\ UNCHANGED <<pc, job, tries, call, hubVars>>
         /\ \/ UNCHANGED orphans
            \/ answer = NoAnswer /\ orphans' = orphans \cup {call}
         /\ AwaitsFit'
<1>0. CallFitsPc /\ AnswerFitsPc /\ JobFitsPc
  BY DEF AwaitInv, AwaitsFit
<1>1. /\ answer'.kind \in {"auth", "unreachable"} /\ call # NoRequest
      /\ UNCHANGED <<pc, job, tries, call, hubVars>>
      /\ \/ UNCHANGED orphans
         \/ answer = NoAnswer /\ orphans' = orphans \cup {call}
  BY RequestFields DEF CallFails, others, loopVars, hub
<1>. QED
  BY <1>0, <1>1 DEF AwaitsFit, AnswerFitsPc, CallFitsPc, JobFitsPc

\* The inductive step of the awaits.
LEMMA AwaitStep == AwaitInv /\ [Next]_vars => AwaitInv'
<1> SUFFICES ASSUME AwaitInv, [Next]_vars PROVE AwaitInv'
  OBVIOUS
<1>0. TypeInv' /\ CallFitsPc /\ AnswerFitsPc /\ JobFitsPc
  BY TypeStep DEF AwaitInv, AwaitsFit
<1> USE <1>0 DEF AwaitInv, AwaitsFit
<1>1. ASSUME UNCHANGED <<pc, job, call, answer>> PROVE AwaitsFit'
  BY <1>1 DEF CallFitsPc, AnswerFitsPc, JobFitsPc
<1>2. CASE Loop
  BY <1>2, LoopMovesSo
  DEF LoopMoves, Rests, Drops, Polls, Takes, PushesPolicy, Proceeds,
      JobFitsPc, Busy
<1>3. CASE Panic \/ Restart \/ Shutdown \/ TargetGoesDown \/ TargetComesUp
  <2>1. CASE Dies
    BY <2>1
    DEF Dies, Abandon, CallFitsPc, AnswerFitsPc, JobFitsPc
  <2>2. CASE UNCHANGED <<pc, job, tries, wireVars>>
    BY <1>1, <2>2 DEF wireVars
  <2>. QED  BY <1>3, <2>1, <2>2, AroundMovesSo
<1>4. CASE HubAnswers \/ CallFails
  BY <1>4, AnswerFits, FailureFits
<1>5. CASE HubServesOrphan \/ MessageArrives \/ \E m \in Msg : HubTimer(m)
  BY <1>1, <1>5
  DEF HubServesOrphan, MessageArrives, HubTimer, others, loopVars, wireVars
<1>6. CASE UNCHANGED vars
  BY <1>1, <1>6 DEF vars, loopVars, wireVars
<1>. QED  BY <1>2, <1>3, <1>4, <1>5, <1>6 DEF Next

\* The initial states fit.
LEMMA AwaitInit == Init => AwaitInv
  BY TypeInit
  DEF Init, AwaitInv, AwaitsFit, CallFitsPc, AnswerFitsPc, JobFitsPc

ClaimInv == AwaitInv /\ ClaimsWereMade

\* What TypeInv says of the records the claims are in.
LEMMA ClaimTypes ==
  ASSUME TypeInv
  PROVE  /\ attempt \in [Msg -> Nat] /\ 0 \notin Msg /\ NoJob.msg = 0
         /\ job # NoJob => job.msg \in Msg /\ job.attempt \in Nat
         /\ answer.kind = "claim" => answer.msg \in Msg /\ answer.attempt \in Nat
         /\ \A r \in orphans \cup {call} :
              r \in Request /\ SettleNamesMessage(r) /\ r.attempt \in Nat
  BY MaxAttemptsAssumption, MsgsAssumption, RequestFields
  DEF TypeInv, HubInv, HubTypeOK, RouteInv, RouteTypeOK, WireWellFormed,
      JobInHand, Msg, Job, Answer, Request

\* Every claim that is named was made: the numbers of the attempts only grow.
LEMMA ClaimStep == ClaimInv /\ [Next]_vars => ClaimInv'
<1> SUFFICES ASSUME ClaimInv, [Next]_vars PROVE ClaimsWereMade'
  BY AwaitStep DEF ClaimInv
<1>0. AwaitInv /\ AwaitInv' /\ TypeInv /\ ClaimsWereMade
  BY AwaitStep DEF ClaimInv, AwaitInv
<1>1. /\ attempt \in [Msg -> Nat] /\ 0 \notin Msg /\ NoJob.msg = 0
      /\ job # NoJob => job.msg \in Msg /\ job.attempt \in Nat
      /\ answer.kind = "claim" => answer.msg \in Msg /\ answer.attempt \in Nat
      /\ \A r \in orphans \cup {call} :
           r \in Request /\ SettleNamesMessage(r) /\ r.attempt \in Nat
  BY <1>0, ClaimTypes
<1>2. ASSUME \A m \in Msg : attempt'[m] \in Nat /\ attempt[m] <= attempt'[m],
             orphans' \subseteq orphans \cup {call},
             call' = call \/ call'.kind \notin {"ack", "nack"},
             answer' = answer \/ answer'.kind # "claim",
             job' = job \/ job' = NoJob
      PROVE  ClaimsWereMade'
  BY <1>0, <1>1, <1>2
  DEF ClaimsWereMade, SettlesClaimed, ClaimedBefore, SettleNamesMessage
<1>3. CASE Loop
  <2>1. LoopMoves /\ UNCHANGED attempt
    BY <1>0, <1>3, LoopMovesSo, LoopLeavesHub DEF hubVars
  <2>2. CASE Rests \/ Drops \/ Polls
    <3>1. orphans' \subseteq orphans \cup {call}
      BY <2>2 DEF Rests, Drops, Polls, Abandon
    <3>2. /\ call'.kind \notin {"ack", "nack"} /\ answer'.kind # "claim"
          /\ job' = NoJob
      BY <2>2, RequestFields DEF Rests, Drops, Polls, Abandon, NothingOut
    <3>. QED  BY <1>1, <1>2, <2>1, <3>1, <3>2
  <2>3. CASE Takes \/ PushesPolicy \/ Proceeds
    <3>1. /\ UNCHANGED orphans /\ answer'.kind # "claim"
          /\ job' # NoJob => ClaimedBefore(job)'
      BY <1>0, <1>1, <2>1, <2>3, RequestFields
      DEF Takes, PushesPolicy, Proceeds, ClaimsWereMade, ClaimedBefore
    <3>2. /\ pc' \in Busy
          /\ pc' \in {"ack", "nack"} => job' # NoJob
      BY <1>1, <2>3 DEF Takes, PushesPolicy, Proceeds, Busy
    <3>3. SettlesClaimed(call)'
      BY <2>1, <3>1, <3>2, RequestFields
      DEF LoopMoves, CallFitsPc, SettlesClaimed, ClaimedBefore, Busy
    <3>. QED
      BY <1>0, <2>1, <3>1, <3>3
      DEF ClaimsWereMade, SettlesClaimed, ClaimedBefore
  <2>. QED  BY <2>1, <2>2, <2>3 DEF LoopMoves
<1>4. CASE Panic \/ Restart \/ Shutdown \/ TargetGoesDown \/ TargetComesUp
  <2>1. UNCHANGED attempt
    BY <1>0, <1>4, AroundMovesSo DEF hubVars
  <2>2. CASE Dies
    BY <1>1, <1>2, <2>1, <2>2, RequestFields DEF Dies, Abandon
  <2>3. CASE UNCHANGED <<pc, job, tries, wireVars>>
    BY <1>1, <1>2, <2>1, <2>3 DEF wireVars
  <2>. QED  BY <1>0, <1>4, <2>2, <2>3, AroundMovesSo
<1>5. CASE HubAnswers
  <2>1. /\ HubServes(call, answer') /\ UNCHANGED <<job, call, orphans>>
        /\ HubInv
    BY <1>0, <1>5, AnswerFits DEF TypeInv
  <2>2. \/ ServesNoClaim(call, answer') \/ ServesSettle(call, answer')
        \/ ServesPolicy(call, answer')
        \/ \E m \in Msg : ServesClaim(call, m, answer')
    BY <1>1, <2>1, HubServesSo
  <2>3. CASE ServesNoClaim(call, answer') \/ ServesSettle(call, answer')
             \/ ServesPolicy(call, answer')
    BY <1>1, <1>2, <2>1, <2>3
    DEF ServesNoClaim, ServesSettle, ServesPolicy
  <2>4. ASSUME NEW m \in Msg, ServesClaim(call, m, answer')
        PROVE  ClaimsWereMade'
    <3>1. /\ \A k \in Msg : attempt'[k] \in Nat /\ attempt[k] <= attempt'[k]
          /\ attempt'[m] = attempt[m] + 1
          /\ answer'.msg = m /\ answer'.attempt = attempt[m] + 1
      BY <1>1, <2>4, RequestFields DEF ServesClaim
    <3>. QED
      BY <1>0, <1>1, <2>1, <3>1
      DEF ClaimsWereMade, SettlesClaimed, ClaimedBefore, SettleNamesMessage
  <2>. QED  BY <2>2, <2>3, <2>4
<1>6. CASE CallFails
  BY <1>0, <1>1, <1>2, <1>6, FailureFits DEF hubVars
<1>7. CASE HubServesOrphan
  <2>1. PICK r \in orphans : /\ \E a \in Offers : HubServes(r, a)
                             /\ orphans' = orphans \ {r}
                             /\ UNCHANGED <<others, call, answer, left>>
    BY <1>7 DEF HubServesOrphan
  <2>2. \A m \in Msg : attempt'[m] \in Nat /\ attempt[m] <= attempt'[m]
    BY <1>0, <1>1, <2>1, HubServesSo
    DEF TypeInv, ServesNoClaim, ServesSettle, ServesPolicy, ServesClaim
  <2>. QED  BY <1>2, <2>1, <2>2 DEF others, loopVars
<1>8. CASE MessageArrives \/ (\E m \in Msg : HubTimer(m)) \/ UNCHANGED vars
  <2>1. UNCHANGED <<attempt, job, wireVars>>
    BY <1>8
    DEF MessageArrives, HubTimer, Publish, LeaseExpires, BackoffEnds, vars,
        hubVars, others, loopVars
  <2>. QED  BY <1>1, <1>2, <2>1 DEF wireVars
<1>. QED
  BY <1>3, <1>4, <1>5, <1>6, <1>7, <1>8 DEF Next

\* Nothing was claimed when the route started.
LEMMA ClaimInit == Init => ClaimInv
  BY AwaitInit, RequestFields
  DEF Init, ClaimInv, ClaimsWereMade, SettlesClaimed

-----------------------------------------------------------------------------
(* Whose settle ends a claim.  A claim is settled by its own loop or runs   *)
(* out: what could arrive late is about earlier claims, and the hub checks. *)

OwnInv == ClaimInv /\ NoSettleAhead

\* No settle overtakes the work on its claim.
LEMMA OwnStep == OwnInv /\ [Next]_vars => OwnInv'
<1> SUFFICES ASSUME OwnInv, [Next]_vars PROVE NoSettleAhead'
  BY ClaimStep DEF OwnInv
<1>0. AwaitInv /\ TypeInv /\ ClaimsWereMade /\ NoSettleAhead /\ CallFitsPc
  BY DEF OwnInv, ClaimInv, AwaitInv, AwaitsFit
<1>1. /\ attempt \in [Msg -> Nat] /\ 0 \notin Msg /\ NoJob.msg = 0
      /\ job # NoJob => job.msg \in Msg /\ job.attempt \in Nat
      /\ answer.kind = "claim" => answer.msg \in Msg /\ answer.attempt \in Nat
      /\ \A r \in orphans \cup {call} :
           r \in Request /\ SettleNamesMessage(r) /\ r.attempt \in Nat
  BY <1>0, ClaimTypes
<1>2. ASSUME UNCHANGED <<pc, job>>, orphans' \subseteq orphans,
             answer' = answer \/ answer'.kind # "claim"
      PROVE  NoSettleAhead'
  BY <1>0, <1>2 DEF NoSettleAhead, Unsettled
<1>3. CASE Loop
  <2>1. LoopMoves
    BY <1>0, <1>3, LoopMovesSo
  <2>2. CASE Rests \/ Drops \/ Polls
    BY <2>2, RequestFields
    DEF Rests, Drops, Polls, Abandon, NothingOut, NoSettleAhead, Busy
  <2>3. CASE Takes
    BY <1>0, <2>3, RequestFields DEF Takes, NoSettleAhead, Unsettled
  <2>4. CASE PushesPolicy
    BY <1>1, <2>4, RequestFields
    DEF PushesPolicy, NoSettleAhead, Unsettled, SettleNamesMessage
  <2>5. CASE Proceeds
    BY <1>0, <2>5, RequestFields DEF Proceeds, NoSettleAhead, Unsettled
  <2>. QED  BY <2>1, <2>2, <2>3, <2>4, <2>5 DEF LoopMoves
<1>4. CASE Panic \/ Restart \/ Shutdown \/ TargetGoesDown \/ TargetComesUp
  <2>1. CASE Dies
    BY <2>1, RequestFields DEF Dies, Abandon, NoSettleAhead
  <2>2. CASE UNCHANGED <<pc, job, tries, wireVars>>
    BY <1>2, <2>2 DEF wireVars
  <2>. QED  BY <1>0, <1>4, <2>1, <2>2, AroundMovesSo
<1>5. CASE HubAnswers
  <2>1. /\ HubServes(call, answer') /\ UNCHANGED <<pc, job, call, orphans>>
        /\ HubInv
    BY <1>0, <1>5, AnswerFits DEF TypeInv
  <2>2. ASSUME answer'.kind = "claim" PROVE Unsettled(answer)'
    <3>1. PICK m \in Msg : ServesClaim(call, m, answer')
      BY <1>1, <2>1, <2>2, HubServesSo
      DEF ServesNoClaim, ServesSettle, ServesPolicy
    <3>2. answer'.msg = m /\ answer'.attempt = attempt[m] + 1
      BY <3>1, RequestFields DEF ServesClaim
    <3>. QED
      BY <1>0, <1>1, <2>1, <3>2
      DEF ClaimsWereMade, SettlesClaimed, ClaimedBefore, Unsettled
  <2>. QED  BY <1>0, <2>1, <2>2 DEF NoSettleAhead, Unsettled
<1>6. CASE CallFails
  <2>1. /\ UNCHANGED <<pc, job>> /\ answer'.kind # "claim"
        /\ orphans' \subseteq orphans \cup {call}
    BY <1>0, <1>6, FailureFits
  <2>2. pc \in {"policy", "post", "retryWait"} => call.kind \notin {"ack", "nack"}
    BY <1>0, RequestFields DEF CallFitsPc
  <2>. QED  BY <1>0, <2>1, <2>2 DEF NoSettleAhead, Unsettled
<1>7. CASE HubServesOrphan
  BY <1>2, <1>7 DEF HubServesOrphan, others, loopVars
<1>8. CASE MessageArrives \/ (\E m \in Msg : HubTimer(m)) \/ UNCHANGED vars
  BY <1>2, <1>8
  DEF MessageArrives, HubTimer, vars, others, loopVars, wireVars
<1>. QED
  BY <1>3, <1>4, <1>5, <1>6, <1>7, <1>8 DEF Next

\* AR2, K5: on a hub that checks the attempt a settle names, nothing but its
\* lease ends a claim that the loop is working on, or has to settle again;
\* but for the settle already sent, which may still arrive.
THEOREM HeldClaimStaysOwn ==
  ASSUME LateAckCheck
  PROVE  Spec => HeldClaimIsOwn
<1>1. Init => OwnInv
  BY ClaimInit, RequestFields DEF Init, OwnInv, NoSettleAhead
<1>2. ASSUME OwnInv, Next, NEW m \in Msg,
             job = [msg |-> m, attempt |-> attempt[m]],
             pc \in {"policy", "post", "retryWait", "ackPause"},
             status[m] = "claimed", status'[m] # "claimed"
      PROVE  HubTimer(m) \/ (pc = "ackPause" /\ HubServesOrphan)
  <2>0. /\ AwaitInv /\ TypeInv /\ HubInv /\ ClaimsWereMade /\ NoSettleAhead
        /\ CallFitsPc /\ job.msg = m /\ job.attempt = attempt[m]
    BY <1>2 DEF OwnInv, ClaimInv, AwaitInv, AwaitsFit, TypeInv
  <2>1. \A r \in orphans \cup {call} : r \in Request /\ SettleNamesMessage(r)
    BY <2>0, ClaimTypes
  <2>2. status' # status
    BY <1>2
  <2>3. ~(Loop \/ CallFails \/ Panic \/ Restart \/ Shutdown \/ TargetGoesDown
          \/ TargetComesUp)
    BY <2>0, <2>2, LoopLeavesHub, AroundMovesSo, FailureFits DEF hubVars
  <2>4. ~HubAnswers
    <3>1. SUFFICES ASSUME HubAnswers PROVE FALSE
      OBVIOUS
    <3>2. pc = "policy" /\ HubServes(call, answer')
      BY <1>2, <2>0, <3>1, AnswerFits
    <3>3. call.kind = "policy"
      BY <2>0, <3>2, RequestFields DEF CallFitsPc
    <3>. QED
      BY <2>0, <2>1, <2>2, <3>2, <3>3, HubServesSo
      DEF ServesNoClaim, ServesClaim, ServesSettle, ServesPolicy
  <2>5. CASE HubServesOrphan /\ pc # "ackPause"
    <3>1. PICK r \in orphans, a \in Offers : HubServes(r, a)
      BY <2>5 DEF HubServesOrphan
    <3>2. r.kind \in {"ack", "nack"} => ClaimedBefore(r) /\ Unsettled(job)
      BY <1>2, <2>0, <2>5 DEF ClaimsWereMade, SettlesClaimed, NoSettleAhead
    <3>3. ~ServesNoClaim(r, a) /\ ~ServesPolicy(r, a)
      BY <1>2, <2>2 DEF ServesNoClaim, ServesPolicy, Claimed
    <3>4. ASSUME NEW k \in Msg, ServesClaim(r, k, a) PROVE FALSE
      BY <1>2, <3>4 DEF ServesClaim, Claimed
    <3>5. ServesSettle(r, a)
      BY <2>0, <2>1, <3>1, <3>3, <3>4, HubServesSo
    <3>6. r.msg = m
      BY <1>2, <3>5 DEF ServesSettle, Claimed
    <3>7. r.attempt = attempt[m]
      BY <1>2, <3>2, <3>5, <3>6 DEF ServesSettle, Claimed
    <3>. QED
      BY <2>0, <3>1, <3>2, <3>5, <3>6, <3>7 DEF ServesSettle, Unsettled
  <2>6. ~MessageArrives
    <3>1. /\ published \in Nat /\ status \in [Msg -> Status] /\ m \in Nat
          /\ m <= published
      BY <1>2, <2>0, MsgsAssumption DEF HubInv, HubTypeOK, AttemptsLeft, Msg
    <3>2. status'[m] = status[m] \/ ~Publish
      BY <3>1 DEF Publish
    <3>. QED  BY <1>2, <3>2 DEF MessageArrives
  <2>7. ASSUME NEW k \in Msg, HubTimer(k) PROVE HubTimer(m)
    BY <1>2, <2>0, <2>7
    DEF HubTimer, LeaseExpires, BackoffEnds, HubInv, HubTypeOK
  <2>. QED  BY <1>2, <2>3, <2>4, <2>5, <2>6, <2>7 DEF Next
<1>3. OwnInv /\ [Next]_vars
      => [\A m \in Msg :
            ( /\ job = [msg |-> m, attempt |-> attempt[m]]
              /\ pc \in {"policy", "post", "retryWait", "ackPause"}
              /\ status[m] = "claimed"
              /\ status'[m] # "claimed")
            => \/ HubTimer(m)
               \/ pc = "ackPause" /\ HubServesOrphan]_vars
  BY <1>2
<1>. QED  BY <1>1, <1>3, OwnStep, PTL DEF Spec, HeldClaimIsOwn

-----------------------------------------------------------------------------
(* How many claims are open.  Each one that nobody is at work on, and each  *)
(* poll that nobody waits for, is paid for by a mishap or by the end of the *)
(* loop.                                                                    *)

Room == 1 + Mishaps - Slot

CountInv ==
  ClaimInv /\ SettleAnswered /\ IsFiniteSet(LostPolls) /\ ClaimsAccounted

\* What a mishap adds to the account.
LEMMA SpendCounts ==
  ASSUME TypeInv, NEW kind \in Mishap, Spend(kind)
  PROVE  /\ Mishaps \in Int
         /\ Mishaps' = IF kind \in {"fault", "panic", "restart"}
                        THEN Mishaps + 1 ELSE Mishaps
<1>1. left \in [Mishap -> Nat] /\ Budget \in [Mishap -> Nat]
  BY BudgetAssumption DEF TypeInv, RouteInv, RouteTypeOK
<1>. QED  BY <1>1 DEF Spend, Mishaps, Spent, Mishap

\* The account of a route that no mishap has hit since.
LEMMA MishapsType == TypeInv => Mishaps \in Int /\ Slot \in {0, 1}
  BY BudgetAssumption
  DEF TypeInv, RouteInv, RouteTypeOK, Mishaps, Spent, Mishap, Slot

\* The loop itself spends nothing.
LEMMA LoopSpendsNothing == Loop => UNCHANGED left
  BY DEF Loop, StartPoll, ShutdownBetweenClaims, OnHubError,
         OnTopicUnborn, WaitEnds, OnEmpty, OnOversize, OnMessage,
         PolicyReturns, PostAccepted, PostUnreachable, PostRejected,
         RetryWaitEnds, ShutdownInRetryWait, AckReturns, AckPauseEnds,
         NackReturns, ProbeConnects, ShutdownInCircuit, Respawn

\* Loose claims are messages, so finitely many.
LEMMA CountTypes ==
  ASSUME CountInv
  PROVE  /\ IsFiniteSet(Loose) /\ Cardinality(Loose) \in Nat
         /\ Cardinality(LostPolls) \in Nat
<1>1. IsFiniteSet(Msg)
  BY MsgsAssumption, FS_Interval DEF Msg
<1>2. IsFiniteSet(Loose)
  BY <1>1, FS_Subset DEF Loose
<1>. QED  BY <1>2, FS_CardinalityType DEF CountInv

\* An element more is one more at most.
LEMMA OneMore ==
  ASSUME NEW S, NEW x, IsFiniteSet(S)
  PROVE  /\ IsFiniteSet(S \cup {x})
         /\ Cardinality(S \cup {x}) <= Cardinality(S) + 1
         /\ Cardinality(S \cup {x}) \in Nat
<1>1. /\ IsFiniteSet(S \cup {x})
      /\ Cardinality(S \cup {x}) \in {Cardinality(S), Cardinality(S) + 1}
  BY FS_AddElement
<1>2. Cardinality(S) \in Nat /\ Cardinality(S \cup {x}) \in Nat
  BY <1>1, FS_CardinalityType
<1>. QED  BY <1>1, <1>2

\* The ways a step may change what is loose and lost.
NothingNew == Loose' \subseteq Loose /\ LostPolls' \subseteq LostPolls
OneLoose ==
  \E x : Loose' \subseteq Loose \cup {x} /\ LostPolls' \subseteq LostPolls
OneLost ==
  \E r : Loose' \subseteq Loose /\ LostPolls' \subseteq LostPolls \cup {r}
LostBecomesLoose ==
  \E x : \E r \in LostPolls :
    Loose' \subseteq Loose \cup {x} /\ LostPolls' \subseteq LostPolls \ {r}

\* Each of them keeps the account if the room for it is there.
LEMMA AccountKept ==
  ASSUME CountInv, TypeInv',
         \/ Room' >= Room /\ (NothingNew \/ LostBecomesLoose)
         \/ Room' >= Room + 1 /\ (OneLoose \/ OneLost)
  PROVE  IsFiniteSet(LostPolls)' /\ ClaimsAccounted'
<1>1. /\ IsFiniteSet(Loose) /\ IsFiniteSet(LostPolls)
      /\ Cardinality(Loose) \in Nat /\ Cardinality(LostPolls) \in Nat
      /\ Mishaps \in Int /\ Slot \in {0, 1}
      /\ Mishaps' \in Int /\ Slot' \in {0, 1}
      /\ Cardinality(Loose) + Cardinality(LostPolls) <= Room
  <2>1. TypeInv /\ ClaimsAccounted /\ IsFiniteSet(LostPolls)
    BY DEF CountInv, ClaimInv, AwaitInv
  <2>2. Mishaps \in Int /\ Slot \in {0, 1}
    BY <2>1, MishapsType
  <2>3. Mishaps' \in Int /\ Slot' \in {0, 1}
    BY BudgetAssumption
    DEF TypeInv, RouteInv, RouteTypeOK, Mishaps, Spent, Mishap, Slot
  <2>4. /\ IsFiniteSet(Loose)
        /\ Cardinality(Loose) \in Nat /\ Cardinality(LostPolls) \in Nat
    BY CountTypes
  <2>. QED  BY <2>1, <2>2, <2>3, <2>4 DEF Room, ClaimsAccounted
<1>2. ASSUME IsFiniteSet(Loose'), IsFiniteSet(LostPolls'),
             Cardinality(Loose') \in Nat, Cardinality(LostPolls') \in Nat,
             Cardinality(Loose') + Cardinality(LostPolls') <= Room'
      PROVE  IsFiniteSet(LostPolls)' /\ ClaimsAccounted'
  <2>1. Cardinality(Loose') + Cardinality(LostPolls') + Slot' <= 1 + Mishaps'
    BY <1>1, <1>2 DEF Room
  <2>. QED  BY <1>2, <2>1 DEF ClaimsAccounted
<1>3. ASSUME NEW S, NEW T, IsFiniteSet(S), IsFiniteSet(T),
             Loose' \subseteq S, LostPolls' \subseteq T,
             Cardinality(S) + Cardinality(T) <= Room'
      PROVE  IsFiniteSet(LostPolls)' /\ ClaimsAccounted'
  <2>1. /\ IsFiniteSet(Loose') /\ Cardinality(Loose') <= Cardinality(S)
        /\ IsFiniteSet(LostPolls') /\ Cardinality(LostPolls') <= Cardinality(T)
    BY <1>3, FS_Subset
  <2>2. /\ Cardinality(Loose') \in Nat /\ Cardinality(LostPolls') \in Nat
        /\ Cardinality(S) \in Nat /\ Cardinality(T) \in Nat
    BY <1>3, <2>1, FS_CardinalityType
  <2>3. Room' \in Int
    BY <1>1 DEF Room
  <2>. QED  BY <1>2, <1>3, <2>1, <2>2, <2>3
<1>4. Room \in Int /\ Room' \in Int
  BY <1>1 DEF Room
<1>5. CASE Room' >= Room /\ NothingNew
  BY <1>1, <1>3, <1>4, <1>5 DEF NothingNew
<1>6. CASE Room' >= Room /\ LostBecomesLoose
  <2>0. PICK x : \E r \in LostPolls :
          Loose' \subseteq Loose \cup {x} /\ LostPolls' \subseteq LostPolls \ {r}
    BY <1>6 DEF LostBecomesLoose
  <2>1. PICK r \in LostPolls : /\ Loose' \subseteq Loose \cup {x}
                              /\ LostPolls' \subseteq LostPolls \ {r}
    BY <2>0
  <2>2. /\ IsFiniteSet(Loose \cup {x})
        /\ Cardinality(Loose \cup {x}) <= Cardinality(Loose) + 1
        /\ Cardinality(Loose \cup {x}) \in Nat
    BY <1>1, OneMore
  <2>3. /\ IsFiniteSet(LostPolls \ {r})
        /\ Cardinality(LostPolls \ {r}) = Cardinality(LostPolls) - 1
    BY <1>1, FS_RemoveElement
  <2>4. Cardinality(Loose \cup {x}) + Cardinality(LostPolls \ {r}) <= Room'
    BY <1>1, <1>4, <1>6, <2>2, <2>3
  <2>. QED  BY <1>3, <2>1, <2>2, <2>3, <2>4
<1>7. CASE Room' >= Room + 1 /\ OneLoose
  <2>1. PICK x : /\ Loose' \subseteq Loose \cup {x}
                 /\ LostPolls' \subseteq LostPolls
    BY <1>7 DEF OneLoose
  <2>2. /\ IsFiniteSet(Loose \cup {x})
        /\ Cardinality(Loose \cup {x}) <= Cardinality(Loose) + 1
        /\ Cardinality(Loose \cup {x}) \in Nat
    BY <1>1, OneMore
  <2>3. Cardinality(Loose \cup {x}) + Cardinality(LostPolls) <= Room'
    BY <1>1, <1>4, <1>7, <2>2
  <2>. QED  BY <1>1, <1>3, <2>1, <2>2, <2>3
<1>8. CASE Room' >= Room + 1 /\ OneLost
  <2>1. PICK r : /\ Loose' \subseteq Loose
                 /\ LostPolls' \subseteq LostPolls \cup {r}
    BY <1>8 DEF OneLost
  <2>2. /\ IsFiniteSet(LostPolls \cup {r})
        /\ Cardinality(LostPolls \cup {r}) <= Cardinality(LostPolls) + 1
        /\ Cardinality(LostPolls \cup {r}) \in Nat
    BY <1>1, OneMore
  <2>3. Cardinality(Loose) + Cardinality(LostPolls \cup {r}) <= Room'
    BY <1>1, <1>4, <1>8, <2>2
  <2>. QED  BY <1>1, <1>3, <2>1, <2>2, <2>3
<1>. QED  BY <1>5, <1>6, <1>7, <1>8

\* What the steps that follow need of the invariants.
LEMMA CountFacts ==
  ASSUME CountInv
  PROVE  /\ AwaitInv /\ TypeInv /\ HubInv /\ ClaimsWereMade /\ SettleAnswered
         /\ CallFitsPc /\ AnswerFitsPc /\ JobFitsPc
         /\ Mishaps \in Int /\ Slot \in {0, 1}
         /\ pc \in {"ack", "nack"} => /\ call = SettleRequest(pc, job)
                                     /\ job.msg \in Msg /\ ClaimedBefore(call)
                                     /\ ClaimedBefore(job)
<1>1. /\ AwaitInv /\ TypeInv /\ HubInv /\ ClaimsWereMade /\ SettleAnswered
      /\ CallFitsPc /\ AnswerFitsPc /\ JobFitsPc
      /\ Mishaps \in Int /\ Slot \in {0, 1}
  BY MishapsType DEF CountInv, ClaimInv, AwaitInv, AwaitsFit, TypeInv
<1>2. ASSUME pc \in {"ack", "nack"}
      PROVE  /\ call = SettleRequest(pc, job)
             /\ job.msg \in Msg /\ ClaimedBefore(call) /\ ClaimedBefore(job)
  <2>1. call = SettleRequest(pc, job) /\ SettleNamesMessage(call)
    BY <1>1, <1>2, ClaimTypes DEF CallFitsPc
  <2>2. call.kind \in {"ack", "nack"} /\ call.msg = job.msg
    BY <1>2, <2>1, RequestFields
  <2>3. job.msg \in Msg /\ job # NoJob
    BY <1>1, <2>1, <2>2, ClaimTypes DEF SettleNamesMessage
  <2>. QED
    BY <1>1, <2>1, <2>2, <2>3 DEF ClaimsWereMade, SettlesClaimed
<1>. QED  BY <1>1, <1>2

\* Whatever becomes of the loop, it leaves one thing behind: the claim it
\* had in hand, or its poll.
LEMMA LeavesOneBehind ==
  ASSUME CountInv, UNCHANGED <<status, attempt>>,
         \/ UNCHANGED orphans
         \/ orphans' = orphans \cup {call} /\ answer = NoAnswer
  PROVE  OneLoose \/ OneLost
<1>0. /\ CallFitsPc /\ AnswerFitsPc /\ JobFitsPc
      /\ answer = NoAnswer => answer.kind # "claim"
  BY CountFacts, RequestFields
<1>1. CASE pc = "poll" /\ answer.kind = "claim"
  <2>1. Loose' \subseteq Loose \cup {answer.msg}
    BY <1>1 DEF Loose, Holds, IsCurrent, Busy
  <2>2. LostPolls' \subseteq LostPolls
    BY <1>0, <1>1 DEF LostPolls
  <2>. QED  BY <2>1, <2>2 DEF OneLoose
<1>2. CASE pc = "poll" /\ answer.kind # "claim"
  <2>1. Loose' \subseteq Loose
    BY <1>2 DEF Loose, Holds, Busy
  <2>2. LostPolls' \subseteq LostPolls \cup {call}
    BY DEF LostPolls
  <2>. QED  BY <2>1, <2>2 DEF OneLost
<1>3. CASE pc # "poll"
  <2>1. Loose' \subseteq Loose \cup {job.msg}
    BY <1>3 DEF Loose, Holds, IsCurrent
  <2>2. call.kind # "next"
    BY <1>0, <1>3, RequestFields DEF CallFitsPc
  <2>3. LostPolls' \subseteq LostPolls
    BY <2>2 DEF LostPolls
  <2>. QED  BY <2>1, <2>3 DEF OneLoose
<1>. QED  BY <1>1, <1>2, <1>3

\* The loop keeps the account: what it lets go of is settled.
LEMMA LoopKeepsAccount ==
  ASSUME CountInv, Loop
  PROVE  \/ Room' >= Room /\ NothingNew
         \/ Room' >= Room + 1 /\ (OneLoose \/ OneLost)
<1>0. /\ LoopMoves /\ UNCHANGED <<status, attempt>> /\ Mishaps' = Mishaps
      /\ SettleAnswered /\ Mishaps \in Int /\ CallFitsPc
      /\ 0 \notin Msg /\ NoJob.msg = 0
      /\ pc \in {"ack", "nack"} => job.msg \in Msg
  BY CountFacts, ClaimTypes, LoopMovesSo, LoopLeavesHub, LoopSpendsNothing
  DEF hubVars, Mishaps, Spent
<1>1. CASE Rests
  <2>1. \A m \in Msg : status[m] = "claimed" => ~Holds(m)
    BY <1>0, <1>1 DEF Rests, LetsGo, Holds, IsCurrent, SettleAnswered, Busy
  <2>2. NothingNew
    BY <1>0, <1>1, <2>1 DEF Rests, NothingNew, Loose, LostPolls
  <2>3. Room' >= Room
    BY <1>0, <1>1 DEF Rests, Room, Slot
  <2>. QED  BY <2>2, <2>3
<1>2. CASE Drops
  <2>1. OneLoose \/ OneLost
    BY <1>0, <1>2, LeavesOneBehind DEF Drops, Abandon
  <2>2. Room' >= Room + 1
    BY <1>0, <1>2 DEF Drops, Room, Slot
  <2>. QED  BY <2>1, <2>2
<1>3. CASE Polls \/ Takes \/ PushesPolicy \/ Proceeds
  <2>1. ASSUME NEW m \in Msg, Holds(m) PROVE Holds(m)'
    BY <1>0, <1>3, <2>1, RequestFields
    DEF Polls, Takes, PushesPolicy, Proceeds, Holds, IsCurrent, Busy,
        GaveUpSettle
  <2>2. NothingNew
    BY <1>0, <1>3, <2>1
    DEF Polls, Takes, PushesPolicy, Proceeds, NothingNew, Loose, LostPolls
  <2>3. Room' = Room /\ Room \in Int
    BY <1>0, <1>3
    DEF Polls, Takes, PushesPolicy, Proceeds, Busy, Room, Slot
  <2>. QED  BY <2>2, <2>3
<1>. QED  BY <1>0, <1>1, <1>2, <1>3 DEF LoopMoves

\* A panic and a restart pay for what the loop leaves behind; one that had
\* ended left nothing.
LEMMA DeathKeepsAccount ==
  ASSUME CountInv, Panic \/ Restart
  PROVE  \/ Room' >= Room /\ NothingNew
         \/ Room' >= Room + 1 /\ (OneLoose \/ OneLost)
<1>0. /\ Dies /\ UNCHANGED <<status, attempt>> /\ Mishaps' = Mishaps + 1
      /\ Mishaps \in Int /\ Slot \in {0, 1} /\ Slot' \in {0, 1}
      /\ CallFitsPc /\ JobFitsPc
  <2>1. Dies /\ UNCHANGED <<status, attempt>>
    BY DEF Panic, Restart, FreshLoop, Dies, hub, hubVars
  <2>2. Mishaps' = Mishaps + 1
    BY CountFacts, SpendCounts DEF Panic, Restart, Mishap
  <2>. QED  BY <2>1, <2>2, CountFacts DEF Slot
<1>1. OneLoose \/ OneLost
  BY <1>0, LeavesOneBehind DEF Dies, Abandon
<1>2. CASE Slot = 1
  <2>1. /\ Mishaps \in Int /\ Mishaps' = Mishaps + 1 /\ Slot = 1
        /\ Slot' = 0 \/ Slot' = 1
    BY <1>0, <1>2
  <2>2. 1 + Mishaps' - Slot' >= (1 + Mishaps - Slot) + 1
    BY <2>1
  <2>. QED  BY <1>1, <2>2 DEF Room
<1>3. CASE Slot = 0
  <2>1. pc \in {"stopped", "ended"} /\ Restart
    BY <1>3 DEF Slot, Panic, Alive
  <2>2. call = NoRequest /\ \A m : ~Holds(m)
    BY <1>0, <2>1 DEF CallFitsPc, Holds, Busy
  <2>3. NothingNew
    BY <1>0, <2>2 DEF Dies, Abandon, NothingNew, Loose, LostPolls
  <2>4. /\ Mishaps \in Int /\ Mishaps' = Mishaps + 1 /\ Slot = 0
        /\ Slot' = 0 \/ Slot' = 1
    BY <1>0, <1>3
  <2>5. 1 + Mishaps' - Slot' >= 1 + Mishaps - Slot
    BY <2>4
  <2>. QED  BY <2>3, <2>5 DEF Room
<1>. QED  BY <1>0, <1>2, <1>3

\* The hub's answer opens no claim that the loop does not hold.
LEMMA AnswerKeepsAccount ==
  ASSUME CountInv, HubAnswers
  PROVE  NothingNew /\ SettleAnswered' /\ UNCHANGED <<pc, left>>
<1>0. /\ HubInv /\ CallFitsPc /\ answer = NoAnswer /\ HubServes(call, answer')
      /\ UNCHANGED <<pc, job, tries, call, orphans, left>>
      /\ NoAnswer.kind = "none"
      /\ call \in Request /\ SettleNamesMessage(call)
      /\ attempt \in [Msg -> Nat]
  BY CountFacts, AnswerFits, ClaimTypes, RequestFields DEF HubAnswers
<1>1. /\ \A f : NextRequest(f).kind = "next"
      /\ PolicyRequest.kind = "policy" /\ NoRequest.kind = "none"
      /\ \A verb, c : SettleRequest(verb, c).kind = verb
  BY RequestFields
<1>2. CASE ServesNoClaim(call, answer')
  <2>1. pc = "poll"
    BY <1>0, <1>1, <1>2 DEF ServesNoClaim, CallFitsPc
  <2>. QED
    BY <1>0, <1>2, <2>1
    DEF ServesNoClaim, Claimed, NothingNew, Loose, LostPolls, Holds, Busy,
        SettleAnswered
<1>3. ASSUME NEW m \in Msg, ServesClaim(call, m, answer')
      PROVE  NothingNew /\ SettleAnswered'
  <2>1. pc = "poll"
    BY <1>0, <1>1, <1>3 DEF ServesClaim, CallFitsPc
  <2>2. /\ answer'.kind = "claim" /\ answer'.msg = m
        /\ answer'.attempt = attempt'[m]
    BY <1>0, <1>3, RequestFields DEF ServesClaim
  <2>. QED
    BY <1>0, <1>3, <2>1, <2>2
    DEF ServesClaim, Claimed, NothingNew, Loose, LostPolls, Holds, Busy,
        IsCurrent, SettleAnswered
<1>4. CASE ServesSettle(call, answer')
  <2>1. /\ pc \in {"ack", "nack"} /\ job.msg \in Msg /\ ClaimedBefore(call)
        /\ call.msg = job.msg /\ call.attempt = job.attempt
    BY <1>0, <1>1, <1>4, CountFacts, RequestFields
    DEF ServesSettle, CallFitsPc
  <2>2. NothingNew
    BY <1>0, <1>4, <2>1
    DEF ServesSettle, Claimed, NothingNew, Loose, LostPolls, Holds, Busy,
        IsCurrent, GaveUpSettle
  <2>3. SettleAnswered'
    BY <1>0, <1>4, <2>1 DEF ServesSettle, Claimed, IsCurrent, SettleAnswered
  <2>. QED  BY <1>0, <2>2, <2>3
<1>5. CASE ServesPolicy(call, answer')
  <2>1. pc = "policy"
    BY <1>0, <1>1, <1>5 DEF ServesPolicy, CallFitsPc
  <2>. QED
    BY <1>0, <1>5, <2>1
    DEF ServesPolicy, NothingNew, Loose, LostPolls, Holds, Busy, IsCurrent,
        GaveUpSettle, SettleAnswered
<1>. QED  BY <1>0, <1>2, <1>3, <1>4, <1>5, HubServesSo

\* A request served late: a poll leaves the wire as its claim is opened.
LEMMA OrphanKeepsAccount ==
  ASSUME CountInv, HubServesOrphan
  PROVE  /\ NothingNew \/ LostBecomesLoose
         /\ SettleAnswered' /\ UNCHANGED <<pc, left>>
<1>1. PICK r \in orphans : /\ \E a \in Offers : HubServes(r, a)
                           /\ orphans' = orphans \ {r}
                           /\ UNCHANGED <<others, call, answer, left>>
  BY DEF HubServesOrphan
<1>2. PICK a \in Offers : HubServes(r, a)
  BY <1>1
<1>0. /\ HubInv /\ r \in Request /\ SettleNamesMessage(r)
      /\ attempt \in [Msg -> Nat] /\ SettleAnswered
      /\ UNCHANGED <<pc, job, tries, answer, left>>
      /\ pc \in {"ack", "nack"} => /\ job.msg \in Msg /\ job.attempt \in Nat
                                  /\ job.attempt <= attempt[job.msg]
  <2>1. HubInv /\ SettleAnswered /\ TypeInv
    BY CountFacts
  <2>2. /\ UNCHANGED <<pc, job, tries, answer, left>>
        /\ r \in Request /\ SettleNamesMessage(r) /\ attempt \in [Msg -> Nat]
    BY <1>1, <2>1, ClaimTypes DEF others, loopVars
  <2>3. pc \in {"ack", "nack"} => /\ job.msg \in Msg /\ job.attempt \in Nat
                                 /\ job.attempt <= attempt[job.msg]
    BY <2>1, ClaimTypes, CountFacts DEF ClaimedBefore
  <2>. QED  BY <2>1, <2>2, <2>3
<1>3. ASSUME UNCHANGED attempt, \A m \in Msg : Claimed(m)' => Claimed(m)
      PROVE  NothingNew /\ SettleAnswered'
  BY <1>0, <1>1, <1>3
  DEF Claimed, NothingNew, Loose, LostPolls, Holds, IsCurrent, GaveUpSettle,
      SettleAnswered
<1>4. ASSUME NEW m \in Msg, ServesClaim(r, m, a)
      PROVE  LostBecomesLoose /\ SettleAnswered'
  <2>1. r \in LostPolls /\ LostPolls' \subseteq LostPolls \ {r}
    BY <1>1, <1>4 DEF ServesClaim, LostPolls
  <2>2. Loose' \subseteq Loose \cup {m}
    BY <1>0, <1>4
    DEF ServesClaim, Claimed, Loose, Holds, IsCurrent, GaveUpSettle
  <2>3. SettleAnswered'
    BY <1>0, <1>4 DEF ServesClaim, Claimed, SettleAnswered, IsCurrent
  <2>. QED  BY <2>1, <2>2, <2>3 DEF LostBecomesLoose
<1>5. ASSUME ServesNoClaim(r, a) \/ ServesSettle(r, a) \/ ServesPolicy(r, a)
      PROVE  UNCHANGED attempt /\ \A m \in Msg : Claimed(m)' => Claimed(m)
  BY <1>5 DEF ServesNoClaim, ServesSettle, ServesPolicy, Claimed
<1>. QED  BY <1>0, <1>2, <1>3, <1>4, <1>5, HubServesSo

\* The inductive step of the account.
LEMMA CountStep == CountInv /\ [Next]_vars => CountInv'
<1> SUFFICES ASSUME CountInv, [Next]_vars PROVE CountInv'
  OBVIOUS
<1>0. /\ ClaimInv' /\ TypeInv' /\ AwaitInv /\ TypeInv /\ HubInv
      /\ SettleAnswered /\ Mishaps \in Int /\ Slot \in {0, 1}
      /\ pc \in {"ack", "nack"} => job.msg \in Msg
  BY CountFacts, ClaimStep DEF CountInv, ClaimInv, AwaitInv
<1>1. ASSUME SettleAnswered',
             \/ Room' >= Room /\ (NothingNew \/ LostBecomesLoose)
             \/ Room' >= Room + 1 /\ (OneLoose \/ OneLost)
      PROVE  CountInv'
  BY <1>0, <1>1, AccountKept DEF CountInv
<1>2. CASE Loop
  <2>1. SettleAnswered'
    BY <1>0, <1>2, LoopMovesSo, RequestFields
    DEF LoopMoves, Rests, Drops, Polls, Takes, PushesPolicy, Proceeds, Busy,
        SettleAnswered
  <2>. QED  BY <1>1, <1>2, <2>1, LoopKeepsAccount
<1>3. CASE Panic \/ Restart
  <2>1. SettleAnswered'
    BY <1>3 DEF Panic, Restart, FreshLoop, SettleAnswered
  <2>. QED  BY <1>1, <1>3, <2>1, DeathKeepsAccount
<1>4. ASSUME UNCHANGED <<pc, job, tries, answer, orphans, attempt>>,
             \A m \in Msg : Claimed(m)' => Claimed(m), Mishaps' = Mishaps
      PROVE  CountInv'
  <2>1. NothingNew /\ SettleAnswered'
    BY <1>0, <1>4
    DEF Claimed, NothingNew, Loose, LostPolls, Holds, IsCurrent, GaveUpSettle,
        SettleAnswered
  <2>2. Room' >= Room
    BY <1>0, <1>4 DEF Room, Slot
  <2>. QED  BY <1>1, <2>1, <2>2
<1>5. CASE Shutdown \/ TargetGoesDown \/ TargetComesUp
  <2>1. UNCHANGED <<pc, job, tries, wireVars, status, attempt>>
    BY <1>5
    DEF Shutdown, TargetGoesDown, TargetComesUp, loopVars, hub, hubVars
  <2>2. Mishaps' = Mishaps
    BY <1>0, <1>5, SpendCounts
    DEF Shutdown, TargetGoesDown, TargetComesUp, Mishap, Mishaps, Spent
  <2>. QED  BY <1>4, <2>1, <2>2 DEF wireVars, Claimed
<1>6. CASE HubAnswers
  <2>1. NothingNew /\ SettleAnswered' /\ UNCHANGED <<pc, left>>
    BY <1>6, AnswerKeepsAccount
  <2>2. Room' >= Room
    BY <1>0, <2>1 DEF Room, Slot, Mishaps, Spent
  <2>. QED  BY <1>1, <2>1, <2>2
<1>7. CASE CallFails
  <2>1. /\ UNCHANGED <<pc, status, attempt>> /\ SettleAnswered'
        /\ \/ UNCHANGED orphans
           \/ answer = NoAnswer /\ orphans' = orphans \cup {call}
    BY <1>0, <1>7, FailureFits DEF hubVars, SettleAnswered
  <2>2. Mishaps' = Mishaps + 1
    BY <1>0, <1>7, SpendCounts DEF CallFails, Mishap
  <2>3. Room' >= Room + 1
    BY <1>0, <2>1, <2>2 DEF Room, Slot
  <2>. QED  BY <1>1, <2>1, <2>3, LeavesOneBehind
<1>8. CASE HubServesOrphan
  <2>1. /\ NothingNew \/ LostBecomesLoose
        /\ SettleAnswered' /\ UNCHANGED <<pc, left>>
    BY <1>8, OrphanKeepsAccount
  <2>2. Room' >= Room
    BY <1>0, <2>1 DEF Room, Slot, Mishaps, Spent
  <2>. QED  BY <1>1, <2>1, <2>2
<1>9. CASE MessageArrives \/ (\E m \in Msg : HubTimer(m)) \/ UNCHANGED vars
  <2>1. UNCHANGED <<pc, job, tries, wireVars, left>>
    BY <1>9 DEF MessageArrives, HubTimer, vars, others, loopVars, wireVars
  <2>2. UNCHANGED attempt /\ \A m \in Msg : Claimed(m)' => Claimed(m)
    <3>1. CASE UNCHANGED vars
      BY <3>1 DEF vars, hubVars, Claimed
    <3>. QED
      BY <1>0, <1>9, <3>1, HubAloneClaimsNothing DEF MessageArrives, HubTimer
  <2>. QED  BY <1>4, <2>1, <2>2 DEF wireVars, Mishaps, Spent
<1>. QED
  BY <1>2, <1>3, <1>5, <1>6, <1>7, <1>8, <1>9 DEF Next

\* At the start nothing is open, nothing is lost and nothing is spent.
LEMMA CountInit == Init => CountInv
<1> SUFFICES ASSUME Init PROVE CountInv
  OBVIOUS
<1>1. ClaimInv /\ SettleAnswered /\ TypeInv
  BY ClaimInit DEF Init, SettleAnswered, ClaimInv, AwaitInv
<1>2. Loose = {} /\ LostPolls = {}
  BY DEF Init, HubInit, Loose, LostPolls
<1>3. Mishaps = 0
  BY BudgetAssumption DEF Init, Mishaps, Spent, Mishap
<1>4. Slot \in {0, 1}
  BY DEF Slot
<1>. QED
  BY <1>1, <1>2, <1>3, <1>4, FS_EmptySet DEF CountInv, ClaimsAccounted

\* AR2: at any time the hub holds one open claim of the route at most, and
\* one more for each lost call, panic and restart that there has been.
THEOREM OneClaimInFlight == Spec => []OneInFlight
<1>1. CountInv => OneInFlight
  <2> SUFFICES ASSUME CountInv PROVE OneInFlight
    OBVIOUS
  <2>0. /\ CallFitsPc /\ AnswerFitsPc /\ JobFitsPc /\ ClaimsAccounted
        /\ Mishaps \in Int /\ Slot \in {0, 1} /\ IsFiniteSet(Loose)
        /\ Cardinality(Loose) \in Nat /\ Cardinality(LostPolls) \in Nat
    BY CountFacts, CountTypes DEF CountInv
  <2> DEFINE InFlight == {m \in Msg : status[m] = "claimed"}
             inHand == IF pc = "poll" THEN answer.msg ELSE job.msg
  <2>1. InFlight \subseteq Loose \cup {inHand}
    BY DEF Loose, Holds, IsCurrent, Busy
  <2>2. /\ IsFiniteSet(Loose \cup {inHand})
        /\ Cardinality(Loose \cup {inHand}) <= Cardinality(Loose) + 1
        /\ Cardinality(Loose \cup {inHand}) \in Nat
    BY <2>0, OneMore
  <2>3. /\ Cardinality(InFlight) <= Cardinality(Loose) + 1
        /\ Cardinality(InFlight) \in Nat
    BY <2>1, <2>2, FS_Subset, FS_CardinalityType
  <2>4. Cardinality(Loose) + Cardinality(LostPolls) + Slot <= 1 + Mishaps
    BY <2>0 DEF ClaimsAccounted
  <2>5. CASE Slot = 1
    BY <2>0, <2>3, <2>5, <2>4 DEF OneInFlight, ClaimsInFlight
  <2>6. CASE Slot = 0
    <3>1. pc \in {"stopped", "ended"}
      BY <2>6 DEF Slot
    <3>2. InFlight = Loose
      BY <3>1 DEF Loose, Holds, Busy
    <3> HIDE DEF InFlight
    <3>3. Cardinality(InFlight) <= 1 + Mishaps
      BY <2>0, <2>6, <2>4, <3>2
    <3>. QED  BY <3>3 DEF InFlight, OneInFlight, ClaimsInFlight
  <2>. QED  BY <2>0, <2>5, <2>6
<1>. QED  BY <1>1, CountInit, CountStep, PTL DEF Spec

-----------------------------------------------------------------------------
(* What becomes of a message.  Every step of the route, its hub and the wire *)
(* is a step that AtLeastOnce allows, or none that it sees.                 *)

\* Messages become owed that were not, perhaps none.
Owes ==
  \E S \in SUBSET Msg :
    /\ \A m \in S : HubState(m) = "unowed"
    /\ \A m \in Msg : HubState(m)' = IF m \in S THEN "open" ELSE HubState(m)

\* One message that was open is so no longer.
Ends(m, how) ==
  /\ HubState(m) = "open" /\ HubState(m)' = how
  /\ \A k \in Msg \ {m} : HubState(k)' = HubState(k)

\* A step that ends no message and makes none owed is such a step too.
LEMMA NoneOwed ==
  ASSUME \A m \in Msg : HubState(m)' = HubState(m)
  PROVE  Owes
<1>1. /\ \A m \in {} : HubState(m) = "unowed"
      /\ \A m \in Msg : HubState(m)' = IF m \in {} THEN "open" ELSE HubState(m)
  OBVIOUS
<1>2. {} \in SUBSET Msg
  OBVIOUS
<1>. QED  BY <1>1, <1>2, Zenon DEF Owes

\* A request ends a message only as acked on an ack, or as dead.
LEMMA ServedAsPromised ==
  ASSUME HubInv, NEW r \in Request, SettleNamesMessage(r), NEW a,
         HubServes(r, a)
  PROVE  /\ \/ Owes
            \/ \E m \in Msg : Ends(m, "dead")
            \/ r.kind = "ack" /\ r.msg \in Msg /\ Ends(r.msg, "done")
         /\ a.kind = "claim" => status'[a.msg] # "absent"
<1> USE RequestFields DEF HubInv, HubTypeOK, HubState
<1>1. r.from \in BOOLEAN /\ (r.kind \in {"ack", "nack"} => r.msg \in Msg)
  BY DEF Request, SettleNamesMessage
<1>2. ASSUME UNCHANGED status PROVE Owes
  BY <1>2, NoneOwed
<1> DEFINE New == {m \in Msg : r.from /\ m <= published /\ status[m] = "absent"}
<1>3. /\ Owed(r.from) \in [Msg -> Status]
      /\ \A m \in Msg : Owed(r.from)[m] = IF m \in New THEN "ready"
                                                     ELSE status[m]
  <2>1. Owed(r.from) \in [Msg -> Status]
    BY <1>1, OwedType
  <2>. QED  BY <2>1 DEF Owed
<1>4. \A m \in New : HubState(m) = "unowed"
  OBVIOUS
<1>5. ASSUME NEW m \in Msg, HubClaims(r.from, m, a)
      PROVE  Owes /\ status'[a.msg] # "absent"
  <2>1. a.msg = m /\ status' = [Owed(r.from) EXCEPT ![m] = "claimed"]
        /\ Owed(r.from)[m] = "ready"
    BY <1>5 DEF HubClaims, IsHead
  <2>2. \A k \in Msg : HubState(k)' = IF k \in New THEN "open" ELSE HubState(k)
    BY <1>3, <2>1
  <2>3. New \in SUBSET Msg
    OBVIOUS
  <2>4. Owes
    BY <1>4, <2>2, <2>3 DEF Owes
  <2>. QED  BY <1>3, <2>1, <2>4
<1>6. CASE HubEmpty(r.from, a)
  <2>1. status' = Owed(r.from) /\ a.kind # "claim"
    BY <1>6 DEF HubEmpty
  <2>2. \A k \in Msg : HubState(k)' = IF k \in New THEN "open" ELSE HubState(k)
    BY <1>3, <2>1
  <2>3. New \in SUBSET Msg
    OBVIOUS
  <2>. QED  BY <1>4, <2>1, <2>2, <2>3 DEF Owes
<1>7. CASE r.kind \in {"ack", "nack"} /\ HubSettles(r, a)
  <2>1. /\ status' = [status EXCEPT ![r.msg] = IF r.kind = "ack" THEN "acked"
                                      ELSE Returned(r.msg, "backoff")]
        /\ status[r.msg] = "claimed" /\ a.kind # "claim" /\ r.msg \in Msg
    BY <1>1, <1>7 DEF HubSettles, Settles
  <2>2. CASE r.kind = "ack"
    BY <2>1, <2>2 DEF Ends
  <2>3. CASE r.kind = "nack" /\ attempt[r.msg] < MaxAttempts
    <3>1. status' = [status EXCEPT ![r.msg] = "backoff"]
      BY <2>1, <2>3 DEF Returned
    <3>. QED  BY <2>1, <3>1, NoneOwed
  <2>4. CASE r.kind = "nack" /\ ~(attempt[r.msg] < MaxAttempts)
    <3>1. status' = [status EXCEPT ![r.msg] = "dead"]
      BY <2>1, <2>4 DEF Returned
    <3>. QED  BY <2>1, <3>1 DEF Ends
  <2>. QED  BY <1>7, <2>2, <2>3, <2>4
<1>8. CASE /\ UNCHANGED status
           /\ a \in {Plain(k) : k \in {"unborn", "refused", "ok"}}
  BY <1>2, <1>8
<1>. QED
  BY <1>5, <1>6, <1>7, <1>8
  DEF HubServes, HubUnborn, HubRefusesSettle, HubTakesPolicy,
      HubRefusesPolicy, hubVars

\* Left alone, the hub makes a new message owed, or a spent one dead.
LEMMA AloneAsPromised ==
  ASSUME HubInv, Publish \/ (\E k \in Msg : LeaseExpires(k) \/ BackoffEnds(k))
  PROVE  Owes \/ \E m \in Msg : Ends(m, "dead")
<1> USE DEF HubInv, HubTypeOK, HubState
<1>1. CASE Publish
  <2>1. CASE subscribed
    <3>1. /\ published + 1 \in Msg /\ status[published + 1] = "absent"
          /\ status' = [status EXCEPT ![published + 1] = "ready"]
      BY <1>1, <2>1, MsgsAssumption DEF Publish, AttemptsLeft, Msg
    <3>2. \A m \in Msg : HubState(m)' = IF m \in {published + 1} THEN "open"
                                                             ELSE HubState(m)
      BY <3>1
    <3>3. {published + 1} \in SUBSET Msg
      BY <3>1
    <3>. QED  BY <3>1, <3>2, <3>3 DEF Owes
  <2>2. CASE ~subscribed
    BY NoneOwed, <1>1, <2>2 DEF Publish
  <2>. QED  BY <2>1, <2>2
<1>2. ASSUME NEW m \in Msg, LeaseExpires(m)
      PROVE  Owes \/ Ends(m, "dead")
  <2>1. CASE attempt[m] < MaxAttempts
    BY NoneOwed, <1>2, <2>1 DEF LeaseExpires, Returned
  <2>2. CASE ~(attempt[m] < MaxAttempts)
    BY <1>2, <2>2 DEF LeaseExpires, Returned, Ends
  <2>. QED  BY <2>1, <2>2
<1>3. ASSUME NEW m \in Msg, BackoffEnds(m) PROVE Owes
  BY NoneOwed, <1>3 DEF BackoffEnds
<1>. QED  BY <1>1, <1>2, <1>3

\* What was owed stays so.
LEMMA OwedStaysOwed ==
  ASSUME Owes \/ (\E m \in Msg : Ends(m, "dead") \/ Ends(m, "done"))
  PROVE  \A m \in Msg : status[m] # "absent" => status'[m] # "absent"
<1>1. \A m \in Msg : HubState(m) # "unowed" => HubState(m)' # "unowed"
  BY DEF Owes, Ends
<1>. QED  BY <1>1 DEF HubState

PromiseInv == SafeInv /\ AwaitInv /\ WorkIsOwed

\* The loop gives the webhook nothing but the claim it has in hand.
LEMMA LoopReceives ==
  Loop => /\ UNCHANGED shutdown
          /\ \/ UNCHANGED received
             \/ pc = "post" /\ received' = received \cup {job.msg}
  BY DEF Loop, webVars, StartPoll, ShutdownBetweenClaims, OnHubError,
         OnTopicUnborn, WaitEnds, OnEmpty, OnOversize, OnMessage,
         PolicyReturns, PostAccepted, PostUnreachable, PostRejected,
         RetryWaitEnds, ShutdownInRetryWait, AckReturns, AckPauseEnds,
         NackReturns, ProbeConnects, ShutdownInCircuit, Respawn

\* The hub's half of a step that is no step of the loop.
LEMMA OutsideAsPromised ==
  ASSUME PromiseInv, HubAnswers \/ HubServesOrphan \/ MessageArrives
                     \/ \E m \in Msg : HubTimer(m)
  PROVE  /\ \/ Owes
            \/ \E m \in Msg : Ends(m, "dead")
            \/ \E m \in received \cap Msg : Ends(m, "done")
         /\ UNCHANGED <<pc, job, received, shutdown>>
         /\ answer' # answer /\ answer'.kind = "claim"
            => status'[answer'.msg] # "absent"
<1>0. /\ HubInv /\ AcksHaveReason
      /\ \A r \in orphans \cup {call} : r \in Request /\ SettleNamesMessage(r)
      /\ \A r \in orphans \cup {call} : r.kind = "ack" => r.msg \in received
  BY ClaimTypes
  DEF PromiseInv, SafeInv, TypeInv, AcksHaveReason, AckedForReason
<1>1. UNCHANGED <<pc, job, received, shutdown>>
  BY DEF HubAnswers, HubServesOrphan, MessageArrives, HubTimer, others,
         loopVars, webVars
<1>2. CASE HubAnswers
  <2>1. HubServes(call, answer')
    BY <1>2 DEF HubAnswers
  <2>. QED  BY <1>0, <1>1, <2>1, ServedAsPromised
<1>3. CASE HubServesOrphan
  <2>1. PICK r \in orphans, a \in Offers : HubServes(r, a) /\ UNCHANGED answer
    BY <1>3 DEF HubServesOrphan
  <2>. QED  BY <1>0, <1>1, <2>1, ServedAsPromised
<1>4. CASE MessageArrives \/ \E m \in Msg : HubTimer(m)
  <2>1. /\ UNCHANGED answer
        /\ Publish \/ (\E k \in Msg : LeaseExpires(k) \/ BackoffEnds(k))
    BY <1>4 DEF MessageArrives, HubTimer, wireVars
  <2>. QED  BY <1>0, <1>1, <2>1, AloneAsPromised
<1>. QED  BY <1>2, <1>3, <1>4

\* The inductive step of the invariant the steps below rest on.
LEMMA PromiseStep == PromiseInv /\ [Next]_vars => PromiseInv'
<1> SUFFICES ASSUME PromiseInv, [Next]_vars PROVE WorkIsOwed'
  BY SafeStep, AwaitStep DEF PromiseInv
<1>0. /\ AwaitInv /\ TypeInv /\ WorkIsOwed
      /\ 0 \notin Big /\ NoJob.msg = 0 /\ NoAnswer.kind = "none"
      /\ job # NoJob => job.msg \in Msg
      /\ answer.kind = "claim" => answer.msg \in Msg
  BY BigAssumption, ClaimTypes, RequestFields DEF PromiseInv, AwaitInv
<1>1. ASSUME UNCHANGED status,
             Dies \/ UNCHANGED <<pc, job, wireVars>>
      PROVE  WorkIsOwed'
  BY <1>0, <1>1 DEF WorkIsOwed, Dies, Abandon, wireVars
<1>2. CASE Loop
  <2>1. LoopMoves /\ UNCHANGED status
    BY <1>0, <1>2, LoopMovesSo, LoopLeavesHub DEF hubVars
  <2>2. CASE Rests \/ Drops \/ Polls \/ PushesPolicy
    BY <1>0, <2>2
    DEF Rests, NothingOut, Drops, Abandon, Polls, PushesPolicy, WorkIsOwed,
        Busy
  <2>3. CASE Takes
    BY <1>0, <2>1, <2>3 DEF Takes, WorkIsOwed
  <2>4. CASE Proceeds
    BY <1>0, <2>1, <2>4 DEF Proceeds, WorkIsOwed
  <2>. QED  BY <2>1, <2>2, <2>3, <2>4 DEF LoopMoves
<1>3. CASE Panic \/ Restart \/ Shutdown \/ TargetGoesDown \/ TargetComesUp
  BY <1>0, <1>1, <1>3, AroundMovesSo DEF hubVars
<1>4. CASE HubAnswers \/ HubServesOrphan \/ MessageArrives
           \/ \E m \in Msg : HubTimer(m)
  <2>1. \A m \in Msg : status[m] # "absent" => status'[m] # "absent"
    BY <1>4, OutsideAsPromised, OwedStaysOwed
  <2>2. /\ UNCHANGED <<pc, job>>
        /\ answer' # answer /\ answer'.kind = "claim"
           => status'[answer'.msg] # "absent"
    BY <1>4, OutsideAsPromised
  <2>. QED  BY <1>0, <2>1, <2>2 DEF WorkIsOwed
<1>5. CASE CallFails
  BY <1>0, <1>5, FailureFits DEF WorkIsOwed, hubVars
<1>6. CASE UNCHANGED vars
  BY <1>1, <1>6 DEF vars, hubVars, loopVars
<1>. QED
  BY <1>2, <1>3, <1>4, <1>5, <1>6 DEF Next

\* The steps of AtLeastOnce, in the words of this module.
LEMMA PromiseMoves ==
  ASSUME UNCHANGED received, UNCHANGED shutdown,
         \/ Owes
         \/ \E m \in Msg : Ends(m, "dead")
         \/ \E m \in received \cap Msg : Ends(m, "done")
  PROVE  [Promise!Next]_Promise!vars
<1> DEFINE stands == [m \in Msg |-> HubState(m)]
<1>1. CASE Owes
  <2>1. PICK S \in SUBSET Msg :
          /\ \A m \in S : HubState(m) = "unowed"
          /\ \A m \in Msg : HubState(m)' = IF m \in S THEN "open" ELSE HubState(m)
    BY <1>1 DEF Owes
  <2>2. CASE S = {}
    BY <2>1, <2>2 DEF Promise!vars
  <2>3. CASE S # {}
    <3>1. Promise!Owe(S)
      BY <2>1, <2>3 DEF Promise!Owe
    <3>. QED  BY <3>1 DEF Promise!Next
  <2>. QED  BY <2>2, <2>3
<1>2. ASSUME NEW m \in Msg, Ends(m, "dead") PROVE Promise!Next
  <2>1. Promise!DeadLetter(m)
    BY <1>2 DEF Ends, Promise!DeadLetter
  <2>. QED  BY <2>1 DEF Promise!Next
<1>3. ASSUME NEW m \in received \cap Msg, Ends(m, "done") PROVE Promise!Next
  <2>1. Promise!Settle(m)
    BY <1>3 DEF Ends, Promise!Settle
  <2>. QED  BY <2>1 DEF Promise!Next
<1>. QED  BY <1>1, <1>2, <1>3

\* K5, AR3: the route is safe the way AtLeastOnce says.  A message the
\* subscription is owed is never lost: it is open until it is settled after
\* the webhook has accepted it, or dead; and none that is too large, or not
\* owed, is ever given to the webhook.
THEOREM RouteKeepsItsPromise == Spec => Promise!Spec
<1>1. Init => PromiseInv /\ Promise!Init
  BY TypeInit, AwaitInit, RequestFields
  DEF Init, HubInit, PromiseInv, SafeInv, SettledWasReceived, AcksHaveReason,
      AckedForReason, WorkIsOwed, HubState, Promise!Init
<1>2. PromiseInv /\ [Next]_vars => [Promise!Next]_Promise!vars
  <2> SUFFICES ASSUME PromiseInv, [Next]_vars
               PROVE  [Promise!Next]_Promise!vars
    OBVIOUS
  <2>1. ASSUME UNCHANGED <<status, received, shutdown>>
        PROVE  [Promise!Next]_Promise!vars
    BY <2>1 DEF HubState, Promise!vars
  <2>2. CASE Loop
    <3>1. UNCHANGED <<status, shutdown>>
      BY <2>2, LoopLeavesHub, LoopReceives DEF hubVars
    <3>2. CASE UNCHANGED received
      BY <2>1, <3>1, <3>2
    <3>3. CASE pc = "post" /\ received' = received \cup {job.msg}
      <4>1. job.msg \in Msg /\ HubState(job.msg) # "unowed" /\ job.msg \notin Big
        BY <3>3, ClaimTypes
        DEF PromiseInv, SafeInv, TypeInv, RouteInv, JobInHand, WorkIsOwed,
            HubState, NoJob
      <4>2. Promise!Accept(job.msg)
        BY <3>1, <3>3, <4>1 DEF HubState, Promise!Accept
      <4>. QED  BY <4>1, <4>2 DEF Promise!Next
    <3>. QED  BY <2>2, <3>2, <3>3, LoopReceives
  <2>3. CASE Panic \/ TargetGoesDown \/ TargetComesUp \/ CallFails
    BY <2>1, <2>3
    DEF Panic, TargetGoesDown, TargetComesUp, CallFails, hub, hubVars,
        others, webVars
  <2>4. CASE Shutdown \/ Restart
    <3>1. UNCHANGED <<status, received>>
      BY <2>4 DEF Shutdown, Restart, hub, hubVars, webVars
    <3>2. (~shutdown)' = ~(~shutdown) \/ UNCHANGED shutdown
      <4>1. shutdown \in BOOLEAN /\ shutdown' \in BOOLEAN
        BY <2>4
        DEF PromiseInv, SafeInv, TypeInv, RouteInv, RouteTypeOK, Shutdown,
            Restart
      <4>. QED  BY <4>1
    <3>3. CASE UNCHANGED shutdown
      BY <2>1, <3>1, <3>3
    <3>4. CASE (~shutdown)' = ~(~shutdown)
      <4>1. Promise!StopOrStart
        BY <3>1, <3>4 DEF HubState, Promise!StopOrStart
      <4>. QED  BY <4>1 DEF Promise!Next
    <3>. QED  BY <3>2, <3>3, <3>4
  <2>5. CASE HubAnswers \/ HubServesOrphan \/ MessageArrives
             \/ \E m \in Msg : HubTimer(m)
    BY <2>5, OutsideAsPromised, PromiseMoves
  <2>6. CASE UNCHANGED vars
    BY <2>1, <2>6 DEF vars, hubVars, webVars
  <2>. QED
    BY <2>2, <2>3, <2>4, <2>5, <2>6 DEF Next
<1>. QED  BY <1>1, <1>2, PromiseStep, PTL DEF Spec, Promise!Spec
=============================================================================
