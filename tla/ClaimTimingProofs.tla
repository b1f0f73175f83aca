------------------------- MODULE ClaimTimingProofs -------------------------
(***************************************************************************)
(* Proofs about ClaimTiming, for every lease, timeout and pause that the   *)
(* configuration check lets through.                                       *)
(***************************************************************************)
EXTENDS ClaimTiming, TLAPS

\* The budget is a number no larger than the lease.
LEMMA BudgetType == LeaseBudget \in Nat /\ LeaseBudget <= Lease
  BY TimesAssumption DEF LeaseBudget

\* Every clock reading, lease and flag stays in its type.
THEOREM TimingTypeCorrect == Spec => []TypeOK
<1>1. Init => TypeOK
  <2>1. ASSUME Init PROVE /\ now \in Nat /\ start \in Nat /\ delay \in Nat
                          /\ lease \in Nat /\ shutAt \in Nat
                          /\ claims \in Nat /\ pc \in Pc
    BY <2>1, TimesAssumption DEF Init, Pc
  <2>2. ASSUME Init PROVE /\ policyPending \in BOOLEAN /\ putFirst \in BOOLEAN
                          /\ connectClass \in BOOLEAN
    BY <2>2, HasPolicyAssumption DEF Init
  <2>. QED  BY <2>1, <2>2 DEF TypeOK
<1>2. TypeOK /\ [Next]_vars => TypeOK'
  <2> SUFFICES ASSUME TypeOK, [Next]_vars PROVE TypeOK'
    OBVIOUS
  <2> USE DEF TypeOK, ladder, claim
  <2>1. /\ now' \in Nat /\ start' \in Nat /\ delay' \in Nat
        /\ lease' \in Nat /\ shutAt' \in Nat /\ claims' \in Nat
        /\ pc' \in Pc
    <3> USE TimesAssumption DEF Pc, Takes, LoopTop
    <3>1. CASE ClaimArrives \/ BodyRead \/ BodyTooLarge \/ BodyBreaks
      BY <3>1 DEF ClaimArrives, BodyRead, BodyTooLarge, BodyBreaks
    <3>2. CASE PollEmpty \/ PollShutdown \/ PolicyReturns
      BY <3>2 DEF PollEmpty, PollShutdown, PolicyReturns
    <3>3. CASE PostSucceeds \/ PostFails
      BY <3>3 DEF PostSucceeds, PostFails
    <3>4. CASE RetryWaitEnds
      BY <3>4 DEF RetryWaitEnds
    <3>5. CASE AckReturns \/ AckPauseEnds \/ LastSettleReturns \/ Settled
      BY <3>5 DEF AckReturns, AckPauseEnds, LastSettleReturns, Settled
    <3>6. CASE CircuitWaitEnds \/ ProbeReturns \/ UNCHANGED vars
      BY <3>6 DEF CircuitWaitEnds, ProbeReturns, vars
    <3>. QED  BY <3>1, <3>2, <3>3, <3>4, <3>5, <3>6 DEF Next
  <2>2. /\ policyPending' \in BOOLEAN /\ putFirst' \in BOOLEAN
        /\ connectClass' \in BOOLEAN
    <3>1. CASE ClaimArrives \/ BodyRead \/ BodyTooLarge \/ BodyBreaks
      BY <3>1, Zenon DEF ClaimArrives, BodyRead, BodyTooLarge, BodyBreaks
    <3>2. CASE PollEmpty \/ PollShutdown \/ PolicyReturns
      BY <3>2, Zenon DEF PollEmpty, PollShutdown, PolicyReturns
    <3>3. CASE PostSucceeds \/ PostFails \/ RetryWaitEnds \/ AckReturns
               \/ AckPauseEnds \/ LastSettleReturns
      BY <3>3, Zenon DEF PostSucceeds, PostFails, RetryWaitEnds, AckReturns,
                         AckPauseEnds, LastSettleReturns
    <3>4. CASE Settled \/ CircuitWaitEnds \/ ProbeReturns \/ UNCHANGED vars
      BY <3>4, Zenon DEF Settled, CircuitWaitEnds, ProbeReturns, vars
    <3>. QED  BY <3>1, <3>2, <3>3, <3>4 DEF Next
  <2>. QED  BY <2>1, <2>2
<1>. QED  BY <1>1, <1>2, PTL DEF Spec

-----------------------------------------------------------------------------
(* The lease.                                                               *)

\* The test before a pause makes the POST after it fit the budget, and each
\* await adds at most its timeout.
LEMMA TimeSpentStep ==
  TypeOK /\ TimeSpent /\ [Next]_vars => TimeSpent'
<1> SUFFICES ASSUME TypeOK, TimeSpent, [Next]_vars PROVE TimeSpent'
  OBVIOUS
<1> USE TimesAssumption, ValidatedAssumption, BudgetType
        DEF TypeOK, TimeSpent, PutTime, FitsBudget, Takes, ladder, claim
<1>1. CASE ClaimArrives
  BY <1>1 DEF ClaimArrives
<1>2. CASE BodyRead
  BY <1>2 DEF BodyRead
<1>3. CASE BodyTooLarge
  BY <1>3 DEF BodyTooLarge
<1>4. CASE BodyBreaks \/ PollEmpty \/ PollShutdown
  BY <1>4 DEF BodyBreaks, PollEmpty, PollShutdown, LoopTop
<1>5. CASE PolicyReturns
  BY <1>5 DEF PolicyReturns
<1>6. CASE PostSucceeds
  BY <1>6 DEF PostSucceeds
<1>7. CASE PostFails
  BY <1>7 DEF PostFails
<1>8. CASE RetryWaitEnds
  <2>1. CASE now' = now + delay /\ pc' = "post"
    BY <1>8, <2>1 DEF RetryWaitEnds
  <2>2. CASE shutAt <= now + delay /\ now' = shutAt /\ pc' = "nack"
    BY <1>8, <2>2 DEF RetryWaitEnds
  <2>. QED  BY <1>8, <2>1, <2>2 DEF RetryWaitEnds
<1>9. CASE AckReturns \/ AckPauseEnds \/ LastSettleReturns
  BY <1>9 DEF AckReturns, AckPauseEnds, LastSettleReturns
<1>10. CASE Settled \/ CircuitWaitEnds \/ ProbeReturns \/ UNCHANGED vars
  BY <1>10 DEF Settled, CircuitWaitEnds, ProbeReturns, LoopTop, vars
<1>. QED
  BY <1>1, <1>2, <1>3, <1>4, <1>5, <1>6, <1>7, <1>8, <1>9, <1>10 DEF Next

\* So it is in every behaviour.
LEMMA TimeSpentAlways == Spec => []TimeSpent
<1>1. Init => TimeSpent
  BY TimesAssumption DEF Init, TimeSpent, PutTime
<1>. QED  BY <1>1, TimeSpentStep, TimingTypeCorrect, PTL DEF Spec

\* AR5: however the POSTs end, the ladder has handed its claim on to the
\* settle within the lease budget.
THEOREM LadderFits == Spec => []LadderInBudget
<1>1. TypeOK /\ TimeSpent => LadderInBudget
  BY TimesAssumption, BudgetType
  DEF TypeOK, TimeSpent, LadderInBudget, FitsBudget
<1>. QED  BY <1>1, TimeSpentAlways, TimingTypeCorrect, PTL

\* The age of a claim when its last settle call goes out is bounded by the
\* poll's timeout, the PUT, the budget and one failed ack.
THEOREM SettleAgeBounded == Spec => []SettleAge
<1>1. TypeOK /\ TimeSpent => SettleAge
  BY TimesAssumption, BudgetType DEF TypeOK, TimeSpent, SettleAge, PutTime
<1>. QED  BY <1>1, TimeSpentAlways, TimingTypeCorrect, PTL

\* The lease is the configured one unless a policy was still to be put.
LEMMA LeaseGrantedAlways == Spec => []LeaseGranted
<1>1. Init => LeaseGranted
  BY DEF Init, LeaseGranted
<1>2. TimeSpent /\ LeaseGranted /\ [Next]_vars => LeaseGranted'
  <2> SUFFICES ASSUME TimeSpent, LeaseGranted, [Next]_vars
               PROVE  LeaseGranted'
    OBVIOUS
  <2> USE DEF LeaseGranted, LoopTop, ladder, claim
  <2>1. CASE ClaimArrives
    BY <2>1 DEF ClaimArrives
  <2>2. CASE BodyRead
    <3>1. ~putFirst
      BY <2>2 DEF BodyRead, TimeSpent
    <3>2. /\ lease \in {HubDefaultLease, Lease}
          /\ policyPending \/ lease = Lease
      BY <2>2, <3>1 DEF BodyRead
    <3>. QED  BY <2>2, <3>2, Zenon DEF BodyRead
  <2>3. CASE BodyTooLarge
    BY <2>3 DEF BodyTooLarge
  <2>4. CASE BodyBreaks \/ PollEmpty \/ PollShutdown
    BY <2>4 DEF BodyBreaks, PollEmpty, PollShutdown
  <2>5. CASE PolicyReturns
    <3>1. putFirst
      BY <2>5 DEF PolicyReturns, TimeSpent
    <3>. QED  BY <2>5, <3>1, Zenon DEF PolicyReturns
  <2>6. CASE PostSucceeds \/ PostFails
    BY <2>6 DEF PostSucceeds, PostFails
  <2>7. CASE RetryWaitEnds
    BY <2>7 DEF RetryWaitEnds
  <2>8. CASE AckReturns \/ AckPauseEnds \/ LastSettleReturns \/ Settled
    BY <2>8 DEF AckReturns, AckPauseEnds, LastSettleReturns, Settled
  <2>9. CASE CircuitWaitEnds \/ ProbeReturns \/ UNCHANGED vars
    BY <2>9 DEF CircuitWaitEnds, ProbeReturns, vars
  <2>. QED
    BY <2>1, <2>2, <2>3, <2>4, <2>5, <2>6, <2>7, <2>8, <2>9 DEF Next
<1>. QED  BY <1>1, <1>2, TimeSpentAlways, PTL DEF Spec

\* The words "always settled by its owner" hold of every ladder that is
\* begun early enough, on a claim taken with the policy in force.
THEOREM EarlyLadderSettles == Spec => []SettledWithinLease
<1>1. TypeOK /\ TimeSpent /\ LeaseGranted => SettledWithinLease
  BY TimesAssumption, BudgetType
  DEF TypeOK, TimeSpent, LeaseGranted, SettledWithinLease, BeforePolicy
<1>. QED
  BY <1>1, TimeSpentAlways, LeaseGrantedAlways, TimingTypeCorrect, PTL

-----------------------------------------------------------------------------
(* The shutdown.                                                            *)

\* The grace and the time to stop are numbers.
LEMMA StopTimeType ==
  /\ ShutdownGrace \in Nat /\ StopTime \in Nat
  /\ ShutdownGrace + SettleTimeout <= StopTime /\ ProbeTimeout <= StopTime
  BY TimesAssumption DEF ShutdownGrace, StopTime

\* Each await adds at most its timeout to how late the route is.
LEMMA BehindShutdownStep ==
  TypeOK /\ TimeSpent /\ BehindShutdown /\ [Next]_vars => BehindShutdown'
<1> SUFFICES ASSUME TypeOK, TimeSpent, BehindShutdown, [Next]_vars
             PROVE  BehindShutdown'
  OBVIOUS
<1> USE TimesAssumption, StopTimeType
        DEF TypeOK, TimeSpent, BehindShutdown, Overrun, Takes, ladder, claim
<1>1. CASE ClaimArrives
  BY <1>1 DEF ClaimArrives
<1>2. CASE BodyRead \/ BodyTooLarge \/ BodyBreaks
  BY <1>2 DEF BodyRead, BodyTooLarge, BodyBreaks
<1>3. CASE PollEmpty \/ PollShutdown
  BY <1>3 DEF PollEmpty, PollShutdown, LoopTop, ShutdownGrace
<1>4. CASE PolicyReturns
  BY <1>4 DEF PolicyReturns
<1>5. CASE PostSucceeds
  BY <1>5 DEF PostSucceeds
<1>6. CASE PostFails
  BY <1>6 DEF PostFails
<1>7. CASE RetryWaitEnds
  BY <1>7 DEF RetryWaitEnds
<1>8. CASE AckReturns \/ AckPauseEnds
  BY <1>8 DEF AckReturns, AckPauseEnds, ShutdownGrace
<1>9. CASE LastSettleReturns
  BY <1>9 DEF LastSettleReturns, ShutdownGrace
<1>10. CASE Settled
  BY <1>10 DEF Settled, LoopTop
<1>11. CASE CircuitWaitEnds \/ ProbeReturns
  BY <1>11 DEF CircuitWaitEnds, ProbeReturns, LoopTop
<1>12. CASE UNCHANGED vars
  BY <1>12 DEF vars
<1>. QED
  BY <1>1, <1>2, <1>3, <1>4, <1>5, <1>6, <1>7, <1>8, <1>9, <1>10, <1>11,
     <1>12 DEF Next

\* So it is in every behaviour.
LEMMA BehindShutdownAlways == Spec => []BehindShutdown
<1>1. Init => BehindShutdown
  BY TimesAssumption DEF Init, BehindShutdown
<1>. QED
  BY <1>1, BehindShutdownStep, TimeSpentAlways, TimingTypeCorrect, PTL
  DEF Spec

\* AR9: a shutdown that comes once the ladder has begun finds the claim
\* settled within the grace that shutdown_grace derives.
THEOREM GraceFits == Spec => []SettledWithinGrace
<1>1. TypeOK /\ BehindShutdown => SettledWithinGrace
  BY TimesAssumption, StopTimeType
  DEF TypeOK, BehindShutdown, SettledWithinGrace, Overrun
<1>. QED  BY <1>1, BehindShutdownAlways, TimingTypeCorrect, PTL

\* AR9: a claim can be settled after the grace only if it waited for a policy
\* PUT, which needs a route with a policy.
THEOREM DrainFitsWithoutPut ==
  Spec => [](DrainAlwaysFits \/ (putFirst /\ HasPolicy))
<1>1. TypeOK /\ BehindShutdown /\ LeaseGranted
      => DrainAlwaysFits \/ (putFirst /\ HasPolicy)
  BY TimesAssumption, StopTimeType
  DEF TypeOK, BehindShutdown, LeaseGranted, DrainAlwaysFits, Overrun
<1>. QED
  BY <1>1, BehindShutdownAlways, LeaseGrantedAlways, TimingTypeCorrect, PTL

\* Wherever a shutdown finds the route, it has stopped after the grace and
\* one policy PUT, or after the probe it was in.
THEOREM RouteStopsInTime == Spec => []StopsInTime
<1>1. BehindShutdown => StopsInTime
  BY DEF BehindShutdown, StopsInTime
<1>. QED  BY <1>1, BehindShutdownAlways, PTL
=============================================================================
