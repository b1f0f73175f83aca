------------------------- MODULE SupervisionProofs -------------------------
(***************************************************************************)
(* Proofs about Supervision, for any number of routes and any times.       *)
(***************************************************************************)
EXTENDS Supervision, TLAPS

\* Every variable keeps its type.
THEOREM SupervisionTypeCorrect == Spec => []TypeOK
<1>1. Init => TypeOK
  BY SupervisionAssumption DEF Init, TypeOK, Route
<1>2. TypeOK /\ [Next]_vars => TypeOK'
  <2> SUFFICES ASSUME TypeOK, [Next]_vars PROVE TypeOK'
    OBVIOUS
  <2> USE DEF TypeOK, drainVars
  <2>1. CASE PumpStarts \/ PumpFails \/ Flush
    BY <2>1, SupervisionAssumption
    DEF PumpStarts, PumpFails, Flush, Remaining, drainVars
  <2>2. CASE Drain
    <3>. sup' \in [Route -> {"none", "await", "pause", "done", "aborted"}]
      BY <2>2 DEF Drain, HandleDone, HandleTimesOut, DrainReturns, KitGivesUp
    <3>. awaited' \in 1 .. N + 1 /\ waitUntil' \in Nat
      BY <2>2, SupervisionAssumption
      DEF Drain, HandleDone, HandleTimesOut, DrainReturns, KitGivesUp,
          NextHandle, Remaining, drainVars
    <3>. QED
      BY <2>2 DEF Drain, HandleDone, HandleTimesOut, DrainReturns, KitGivesUp,
                  NextHandle, drainVars
  <2>3. CASE Tick
    <3>. left' \in [Route -> Nat] /\ elapsed' \in Nat
      BY <2>3 DEF Tick
    <3>. QED  BY <2>3 DEF Tick
  <2>4. ASSUME NEW r \in Route, Report(r) \/ Panics(r)
        PROVE  TypeOK'
    BY <2>4 DEF Report, Panics
  <2>5. ASSUME NEW r \in Route, Claim(r)
        PROVE  TypeOK'
    <3>1. PICK w \in 1 .. MaxWork : left' = [left EXCEPT ![r] = w]
      BY <2>5 DEF Claim
    <3>2. left' \in [Route -> Nat]
      BY <3>1, SupervisionAssumption
    <3>. QED  BY <2>5, <3>2 DEF Claim
  <2>6. ASSUME NEW r \in Route, Settle(r) \/ LoopStops(r) \/ Respawn(r)
        PROVE  TypeOK'
    BY <2>6 DEF Settle, LoopStops, Respawn
  <2>7. ASSUME NEW r \in Route, SuperviseReturns(r) \/ SupervisePanic(r)
        PROVE  TypeOK'
    BY <2>7, SupervisionAssumption DEF SuperviseReturns, SupervisePanic
  <2>8. CASE UNCHANGED vars
    BY <2>8 DEF vars
  <2>. QED  BY <2>1, <2>2, <2>3, <2>4, <2>5, <2>6, <2>7, <2>8
            DEF Next, Runtime
<1>. QED  BY <1>1, <1>2, PTL DEF Spec

\* Nothing the drain does lets a route it waits for out of the count.
LEMMA DrainInvStep == TypeOK /\ DrainInv /\ [Next]_vars => DrainInv'
<1> SUFFICES ASSUME TypeOK, DrainInv, [Next]_vars PROVE DrainInv'
  OBVIOUS
<1> USE DEF drainVars
<1>0. /\ phase' \in {"starting", "serving"} => elapsed' = 0
      /\ phase' = "draining" => waitUntil' = Grace
      /\ elapsed' <= Grace
  <2> USE SupervisionAssumption DEF DrainInv, TypeOK
  <2>1. CASE Tick
    BY <2>1 DEF Tick, Alive, DrainDue, TimeoutFires
  <2>2. CASE Flush \/ HandleDone \/ HandleTimesOut
    BY <2>2 DEF Flush, HandleDone, HandleTimesOut, NextHandle, Remaining
  <2>3. CASE ~Tick /\ ~Flush /\ ~HandleDone /\ ~HandleTimesOut
    <3>. /\ elapsed' = elapsed /\ waitUntil' = waitUntil
         /\ phase' = phase \/ (phase = "starting" /\ phase' = "serving")
              \/ phase' = "exited"
      BY <2>3 DEF Next, vars, PumpStarts, PumpFails, Drain, DrainReturns,
         KitGivesUp, Report, Claim, Panics, Runtime, Settle, LoopStops,
         SuperviseReturns, SupervisePanic, Respawn
    <3>. QED  OBVIOUS
  <2>. QED  BY <2>1, <2>2, <2>3
<1> SUFFICES ASSUME NEW q \in Route
             PROVE  SupMatchesLoop(q)' /\ HandlesPassed(q)' /\ CountsDown(q)'
  BY <1>0 DEF DrainInv
<1>q. /\ phase \in {"starting", "serving"} => elapsed = 0
      /\ phase = "draining" => waitUntil = Grace
      /\ elapsed <= Grace
      /\ SupMatchesLoop(q) /\ HandlesPassed(q) /\ CountsDown(q)
      /\ q \in Nat /\ awaited \in Nat /\ elapsed \in Nat /\ Grace \in Nat
      /\ N \in Nat /\ left[q] \in Nat /\ owed[q] \in Nat
      /\ q >= 1 /\ q <= N
  BY SupervisionAssumption DEF DrainInv, TypeOK, Route
<1>f. /\ DOMAIN sup = Route /\ DOMAIN loop = Route /\ DOMAIN left = Route
  BY DEF TypeOK
<1> USE <1>q, <1>f DEF SupMatchesLoop, HandlesPassed, CountsDown
<1>1. CASE PumpStarts \/ PumpFails
  BY <1>1 DEF PumpStarts, PumpFails
<1>2. CASE Flush
  BY <1>2 DEF Flush
<1>3. CASE HandleDone
  BY <1>3 DEF HandleDone, NextHandle
<1>4. CASE HandleTimesOut
  BY <1>4 DEF HandleTimesOut, NextHandle, TimeoutFires
<1>5. CASE DrainReturns \/ KitGivesUp
  BY <1>5 DEF DrainReturns, KitGivesUp
<1>6. CASE Tick
  <2>. ~WorkOver(q) /\ ~PauseOver(q)
    BY <1>6 DEF Tick, RouteDue
  <2>. phase = "draining" => elapsed' = elapsed + 1
    BY <1>6 DEF Tick
  <2>. phase # "draining" => phase = "serving" /\ elapsed' = 0
    BY <1>6 DEF Tick, Alive
  <2>. left[q] > 0 => left'[q] = left[q] - 1
    BY <1>6 DEF Tick
  <2>. phase = "draining" => elapsed < Grace
    BY <1>6 DEF Tick, DrainDue, TimeoutFires
  <2>. UNCHANGED <<phase, sup, loop, owed, awaited>>
    BY <1>6 DEF Tick
  <2>. QED  BY DEF WorkOver, PauseOver
<1>7. ASSUME NEW r \in Route, Report(r) \/ Claim(r) \/ Panics(r)
      PROVE  SupMatchesLoop(q)' /\ HandlesPassed(q)' /\ CountsDown(q)'
  <2>. SupMatchesLoop(r)
    BY DEF DrainInv
  <2>1. CASE r = q
    BY <1>7, <2>1 DEF Report, Claim, Panics, Alive
  <2>2. CASE r # q
    BY <1>7, <2>2 DEF Report, Claim, Panics, Alive
  <2>. QED  BY <2>1, <2>2
<1>8. ASSUME NEW r \in Route, Settle(r) \/ LoopStops(r) \/ Respawn(r)
      PROVE  SupMatchesLoop(q)' /\ HandlesPassed(q)' /\ CountsDown(q)'
  <2>1. CASE r = q
    BY <1>8, <2>1 DEF Settle, LoopStops, Respawn, Alive, WorkOver, SeesStop,
                      PauseOver
  <2>2. CASE r # q
    BY <1>8, <2>2 DEF Settle, LoopStops, Respawn, Alive
  <2>. QED  BY <2>1, <2>2
<1>9. ASSUME NEW r \in Route, SuperviseReturns(r) \/ SupervisePanic(r)
      PROVE  SupMatchesLoop(q)' /\ HandlesPassed(q)' /\ CountsDown(q)'
  <2>1. CASE r = q
    BY <1>9, <2>1 DEF SuperviseReturns, SupervisePanic, Alive, Joined
  <2>2. CASE r # q
    BY <1>9, <2>2 DEF SuperviseReturns, SupervisePanic, Alive
  <2>. QED  BY <2>1, <2>2
<1>10. CASE UNCHANGED vars
  BY <1>10 DEF vars
<1>. QED
  BY <1>1, <1>2, <1>3, <1>4, <1>5, <1>6, <1>7, <1>8, <1>9, <1>10
  DEF Next, Drain, Runtime

LEMMA DrainInvAlways == Spec => []DrainInv
<1>1. Init => DrainInv
  BY SupervisionAssumption
  DEF Init, DrainInv, Route, SupMatchesLoop, HandlesPassed, CountsDown
<1>. QED  BY <1>1, DrainInvStep, SupervisionTypeCorrect, PTL DEF Spec

\* AR9: the timeouts on the handles all fire at the one deadline, so the drain
\* has passed the last handle by then, and left no supervise task running.
THEOREM DrainIsBounded == Spec => []DrainWithinGrace
<1>1. Init => DrainWithinGrace
  BY SupervisionAssumption DEF Init, DrainWithinGrace
<1>2. TypeOK /\ DrainInv /\ DrainWithinGrace /\ [Next]_vars
      => DrainWithinGrace'
  <2> SUFFICES ASSUME TypeOK, DrainInv, DrainWithinGrace, [Next]_vars
               PROVE  DrainWithinGrace'
    OBVIOUS
  <2>1. elapsed' <= Grace
    BY DrainInvStep DEF DrainInv
  <2> SUFFICES ASSUME phase' = "exited", elapsed' < kitBound', NEW r \in Route
               PROVE  sup'[r] \in {"none", "done", "aborted"}
    BY <2>1 DEF DrainWithinGrace
  <2> USE SupervisionAssumption DEF TypeOK, drainVars
  <2>2. CASE DrainReturns
    <3>1. r < awaited /\ HandlesPassed(r)
      BY <2>2 DEF DrainReturns, DrainInv, Route
    <3>. QED  BY <2>2, <3>1 DEF DrainReturns, HandlesPassed
  <2>3. CASE KitGivesUp
    BY <2>3 DEF KitGivesUp
  <2>4. CASE ~DrainReturns /\ ~KitGivesUp
    <3>. UNCHANGED <<phase, sup, elapsed, kitBound>>
      BY <2>4 DEF Next, vars, PumpStarts, PumpFails, Flush, Drain, HandleDone,
         HandleTimesOut, NextHandle, Report, Claim, Panics, Tick, Runtime,
         Settle, Alive, LoopStops, SeesStop, SuperviseReturns, SupervisePanic,
         Respawn
    <3>. QED  BY DEF DrainWithinGrace
  <2>. QED  BY <2>2, <2>3, <2>4
<1>. QED
  BY <1>1, <1>2, DrainInvAlways, SupervisionTypeCorrect, PTL DEF Spec

\* While the drain waits, the route whose handle it waits for is one that
\* still owes the time that passes.
THEOREM DrainIsNotIdle == Spec => []DrainNoLongerThanOwed
<1>1. Init => DrainNoLongerThanOwed
  BY DEF Init, DrainNoLongerThanOwed
<1>2. TypeOK /\ DrainInv /\ DrainNoLongerThanOwed /\ [Next]_vars
      => DrainNoLongerThanOwed'
  <2> SUFFICES ASSUME TypeOK, DrainInv, DrainNoLongerThanOwed, [Next]_vars
               PROVE  DrainNoLongerThanOwed'
    OBVIOUS
  <2> USE DEF drainVars
  <2>1. CASE Tick /\ phase = "draining"
    <3>1. awaited \in Route /\ sup[awaited] # "done" /\ ~RouteDue(awaited)
      BY <2>1, SupervisionAssumption DEF Tick, DrainDue, TypeOK, Route
    <3>2. elapsed < Grace
      BY <2>1, SupervisionAssumption DEF Tick, DrainDue, TimeoutFires, DrainInv, TypeOK
    <3>3. sup[awaited] \in {"await", "pause"}
      BY <2>1, <3>1, <3>2, SupervisionAssumption
      DEF DrainInv, HandlesPassed, TypeOK, Route
    <3>4. loop[awaited] = "work" \/ sup[awaited] = "pause"
      BY <2>1, <3>1, <3>3
      DEF DrainInv, SupMatchesLoop, RouteDue, SeesStop, Joined, TypeOK
    <3>5. left[awaited] > 0
      BY <3>1, <3>4 DEF RouteDue, WorkOver, PauseOver, TypeOK
    <3>6. elapsed + 1 <= owed[awaited]
      BY <2>1, <3>1, <3>4, <3>5 DEF DrainInv, CountsDown, TypeOK
    <3>. QED  BY <2>1, <3>1, <3>6 DEF Tick, DrainNoLongerThanOwed
  <2>2. CASE Tick /\ phase = "serving"
    BY <2>2 DEF Tick, DrainNoLongerThanOwed
  <2>3. CASE Flush
    BY <2>3 DEF Flush, DrainInv, DrainNoLongerThanOwed
  <2>4. CASE ~Tick /\ ~Flush
    <3>. elapsed' = elapsed /\ owed' = owed
      BY <2>4 DEF Next, vars, PumpStarts, PumpFails, Drain, HandleDone,
         HandleTimesOut, NextHandle, DrainReturns, KitGivesUp, Report, Claim,
         Panics, Runtime, Settle, LoopStops, SuperviseReturns, SupervisePanic, Respawn
    <3>. QED  BY DEF DrainNoLongerThanOwed
  <2>. QED  BY <2>1, <2>2, <2>3, <2>4 DEF Tick, Alive
<1>. QED
  BY <1>1, <1>2, DrainInvAlways, SupervisionTypeCorrect, PTL DEF Spec

\* W1: a delivery that fits both bounds is over before the process goes.
THEOREM DeliveryNotCut == Spec => []CutOnlyPastBound
<1>1. Init => CutOnlyPastBound
  BY DEF Init, CutOnlyPastBound
<1>2. TypeOK /\ DrainInv /\ CutOnlyPastBound /\ [Next]_vars
      => CutOnlyPastBound'
  <2> SUFFICES ASSUME TypeOK, DrainInv, CutOnlyPastBound, [Next]_vars
               PROVE  CutOnlyPastBound'
    OBVIOUS
  <2> USE SupervisionAssumption DEF CutOnlyPastBound, Least, drainVars
  <2>1. CASE DrainReturns
    <3> SUFFICES ASSUME NEW r \in Route, loop[r] = "work"
                 PROVE  owed[r] >= Grace
      BY <2>1 DEF DrainReturns, TypeOK
    <3>1. sup[r] = "aborted"
      <4>1. r < awaited /\ SupMatchesLoop(r) /\ HandlesPassed(r)
        BY <2>1 DEF DrainReturns, DrainInv, TypeOK, Route
      <4>. QED  BY <4>1 DEF SupMatchesLoop, HandlesPassed
    <3>. QED  BY <2>1, <3>1
              DEF DrainReturns, DrainInv, HandlesPassed, CountsDown, TypeOK
  <2>2. CASE KitGivesUp
    BY <2>2 DEF KitGivesUp, DrainInv, CountsDown, TypeOK
  <2>3. CASE ~DrainReturns /\ ~KitGivesUp
    <3>. \/ phase' # "exited"
         \/ UNCHANGED <<phase, loop, owed, kitBound>>
      BY <2>3 DEF Next, vars, PumpStarts, PumpFails, Flush, Drain, HandleDone,
         HandleTimesOut, NextHandle, Report, Claim, Panics, Tick, Runtime,
         Settle, Alive, LoopStops, SeesStop, SuperviseReturns, SupervisePanic, Respawn
    <3>. QED  OBVIOUS
  <2>. QED  BY <2>1, <2>2, <2>3
<1>. QED
  BY <1>1, <1>2, DrainInvAlways, SupervisionTypeCorrect, PTL DEF Spec
=============================================================================
