------------------------ MODULE WebhookCircuitProofs ------------------------
(***************************************************************************)
(* Proofs about WebhookCircuit, for any routes and any number of tries.    *)
(***************************************************************************)
EXTENDS WebhookCircuit, FiniteSetTheorems, TLAPS

\* Every variable keeps its type.
THEOREM CircuitTypeCorrect == Spec => []TypeOK
<1>1. Init => TypeOK
  BY CircuitAssumption DEF Init, TypeOK, Host
<1>2. TypeOK /\ [Next]_vars => TypeOK'
  <2> SUFFICES ASSUME TypeOK, [Next]_vars PROVE TypeOK'
    OBVIOUS
  <2> USE CircuitAssumption DEF TypeOK, clientVars, poolVars, burntVars
  <2>1. ASSUME NEW r \in Route, StartTry(r) PROVE TypeOK'
    BY <2>1 DEF StartTry
  <2>2. ASSUME NEW r \in Route,
               Connects(r) \/ Reconnects(r) \/ CircuitCloses(r)
        PROVE  TypeOK'
    BY <2>2 DEF Connects, Reconnects, CircuitCloses
  <2>3. ASSUME NEW r \in Route, Delivered(r) PROVE TypeOK'
    BY <2>3 DEF Delivered
  <2>4. ASSUME NEW r \in Route,
               StatusError(r) \/ RequestFails(r) \/ ConnectFails(r)
        PROVE  TypeOK'
    BY <2>4 DEF StatusError, RequestFails, ConnectFails, TryIsOver
  <2>5. CASE HostDies
    <3>. InUse \subseteq Route
      BY DEF InUse
    <3>. Cardinality(InUse) \in Nat
      BY FS_Subset, FS_CardinalityType
    <3>. QED  BY <2>5 DEF HostDies, Host, Down
  <2>6. CASE HostChanges \/ HostHangs
    BY <2>6 DEF HostChanges, HostHangs, Host
  <2>7. CASE UNCHANGED vars
    BY <2>7 DEF vars
  <2>. QED  BY <2>1, <2>2, <2>3, <2>4, <2>5, <2>6, <2>7 DEF Next, RouteStep
<1>. QED  BY <1>1, <1>2, PTL DEF Spec

\* The tries on dead connections can be counted.
LEMMA StaleCount ==
  /\ IsFiniteSet(StaleInUse) /\ Cardinality(StaleInUse) \in Nat
  /\ IsFiniteSet(StaleInUse') /\ Cardinality(StaleInUse') \in Nat
<1>1. StaleInUse \subseteq Route /\ StaleInUse' \subseteq Route
  BY DEF StaleInUse
<1>. QED  BY <1>1, CircuitAssumption, FS_Subset, FS_CardinalityType

\* A try on a dead connection that ends makes one less.
LEMMA StaleLeaves ==
  ASSUME TypeOK, NEW r \in Route, NEW c \in {"none", "connecting", "live"},
         conn[r] = "stale", conn' = [conn EXCEPT ![r] = c]
  PROVE  Cardinality(StaleInUse') = Cardinality(StaleInUse) - 1
<1>1. StaleInUse' = StaleInUse \ {r} /\ r \in StaleInUse
  BY DEF StaleInUse, TypeOK
<1>. QED  BY <1>1, StaleCount, FS_RemoveElement

\* A try that takes a dead connection out of the pool makes one more.
LEMMA StaleEnters ==
  ASSUME TypeOK, NEW r \in Route, conn[r] # "stale",
         conn' = [conn EXCEPT ![r] = "stale"]
  PROVE  Cardinality(StaleInUse') = Cardinality(StaleInUse) + 1
<1>1. StaleInUse' = StaleInUse \cup {r} /\ r \notin StaleInUse
  BY DEF StaleInUse, TypeOK
<1>. QED  BY <1>1, StaleCount, FS_AddElement

\* Any other end or beginning of a try leaves their number as it was.
LEMMA StaleStays ==
  ASSUME TypeOK, NEW r \in Route, NEW c \in {"none", "connecting", "live"},
         conn[r] # "stale", conn' = [conn EXCEPT ![r] = c]
  PROVE  StaleInUse' = StaleInUse
BY DEF StaleInUse, TypeOK

\* A patient route uses up nothing but a connection there was before while the
\* host is down, and an impatient one leaves the count alone.
LEMMA CostStep == TypeOK /\ CostInv /\ [Next]_vars => CostInv'
<1> SUFFICES ASSUME TypeOK, CostInv, [Next]_vars PROVE CostInv'
  OBVIOUS
<1>t. /\ idle \in Nat /\ stale \in Nat /\ conns \in Nat /\ burntFailed \in Nat
      /\ ConnectTimeout \in Nat /\ WebhookTimeout \in [Route -> Nat]
  BY CircuitAssumption DEF TypeOK
<1> USE <1>t, StaleCount DEF clientVars, poolVars, burntVars
<1>1. ASSUME NEW r \in Route, StartTry(r) PROVE CostInv'
  <2>0. conn[r] = "none"
    BY <1>1 DEF StartTry, CostInv, TypeOK
  <2>1. CASE conn' = [conn EXCEPT ![r] = "stale"]
    <3>. Cardinality(StaleInUse') = Cardinality(StaleInUse) + 1
      BY <2>0, <2>1, StaleEnters
    <3>. stale' = stale - 1 /\ UNCHANGED <<idle, host, burntVars>>
      BY <1>1, <2>1 DEF StartTry, TypeOK
    <3>. QED  BY <1>1, <2>0, <2>1 DEF StartTry, CostInv, TypeOK
  <2>2. CASE conn' # [conn EXCEPT ![r] = "stale"]
    <3>1. PICK c \in {"live", "connecting"} :
            /\ conn' = [conn EXCEPT ![r] = c]
            /\ c = "live" => idle > 0 /\ idle' = idle - 1
            /\ c = "connecting" => idle' = idle
            /\ stale' = stale
      BY <1>1, <2>2 DEF StartTry
    <3>2. StaleInUse' = StaleInUse
      BY <2>0, <3>1, StaleStays
    <3>. QED  BY <1>1, <2>0, <3>1, <3>2 DEF StartTry, CostInv, TypeOK
  <2>. QED  BY <2>1, <2>2
<1>2. ASSUME NEW r \in Route, Connects(r) PROVE CostInv'
  BY <1>2 DEF Connects, CostInv, TypeOK
<1>3. ASSUME NEW r \in Route, Reconnects(r) PROVE CostInv'
  <2>. Cardinality(StaleInUse') = Cardinality(StaleInUse) - 1
    BY <1>3, StaleLeaves DEF Reconnects
  <2>. QED  BY <1>3 DEF Reconnects, CostInv, TypeOK
<1>4. ASSUME NEW r \in Route, Delivered(r) \/ StatusError(r) PROVE CostInv'
  <2>1. host \notin Down /\ host' = host
    BY <1>4 DEF Delivered, StatusError, Down
  <2>2. pc'[r] # "try" /\ conn'[r] = "none"
        /\ \A q \in Route : q # r => pc'[q] = pc[q] /\ conn'[q] = conn[q]
    BY <1>4 DEF Delivered, StatusError, TryIsOver, TypeOK
  <2>. QED  BY <2>1, <2>2 DEF CostInv
<1>5. ASSUME NEW r \in Route, RequestFails(r) PROVE CostInv'
  <2>1. conn[r] \in {"connecting", "live", "stale"} /\ host' = host
    BY <1>5 DEF RequestFails, RequestTimesOut
  <2>2. pc'[r] # "try" /\ conn'[r] = "none"
        /\ \A q \in Route : q # r => pc'[q] = pc[q] /\ conn'[q] = conn[q]
    BY <1>5 DEF RequestFails, TryIsOver, TypeOK
  <2>3. CASE host \in Down
    <3>1. burntConnect[r] = 0 /\ pc[r] = "try" /\ conn[r] # "live"
      BY <2>1, <2>3 DEF CostInv, TypeOK
    <3>2. /\ idle' = idle /\ stale' = stale /\ conns' = conns
          /\ burntFailed' \in {burntFailed, burntFailed + 1}
          /\ burntConnect' = burntConnect
      BY <1>5 DEF RequestFails, TryIsOver
    <3>5. r \notin Patient => burntFailed' = burntFailed
      BY <1>5 DEF RequestFails, TryIsOver
    <3>3. CASE conn[r] = "stale"
      <4>1. Cardinality(StaleInUse') = Cardinality(StaleInUse) - 1
        BY <1>5, <3>3, StaleLeaves DEF RequestFails, TryIsOver
      <4>. QED  BY <2>1, <2>2, <2>3, <3>1, <3>2, <4>1 DEF CostInv
    <3>4. CASE conn[r] = "connecting"
      <4>1. r \notin Patient
        BY <1>5, <3>4 DEF RequestFails, RequestTimesOut, Patient
      <4>2. StaleInUse' = StaleInUse
        BY <1>5, <3>4, StaleStays DEF RequestFails, TryIsOver
      <4>. QED  BY <2>1, <2>2, <2>3, <3>1, <3>2, <3>5, <4>1, <4>2 DEF CostInv
    <3>. QED  BY <2>1, <3>1, <3>3, <3>4
  <2>4. CASE host \notin Down
    BY <2>1, <2>2, <2>4 DEF CostInv
  <2>. QED  BY <2>3, <2>4
<1>6. ASSUME NEW r \in Route, ConnectFails(r) PROVE CostInv'
  <2>1. conn[r] = "connecting" /\ host' = host /\ host \in Down
    BY <1>6 DEF ConnectFails, Down
  <2>2. burntConnect[r] = 0 /\ StaleInUse' = StaleInUse
    BY <1>6, <2>1, StaleStays DEF CostInv, ConnectFails, TryIsOver, TypeOK
  <2>3. /\ pc'[r] \in {"retry", "circuit"} /\ conn'[r] = "none"
        /\ pc'[r] = "retry" => burntConnect' = burntConnect
        /\ burntConnect'[r] \in {0, 1}
        /\ burntConnect'[r] = 1 => pc'[r] = "circuit"
        /\ \A q \in Route : q # r => /\ pc'[q] = pc[q] /\ conn'[q] = conn[q]
                                     /\ burntConnect'[q] = burntConnect[q]
        /\ UNCHANGED <<idle, stale, conns, burntFailed>>
    BY <1>6, <2>2 DEF ConnectFails, TryIsOver, TypeOK
  <2>. QED  BY <2>1, <2>2, <2>3 DEF CostInv
<1>7. ASSUME NEW r \in Route, CircuitCloses(r) PROVE CostInv'
  BY <1>7 DEF CircuitCloses, ProbeConnects, CostInv, TypeOK
<1>8. CASE HostDies
  <2>1. StaleInUse' = InUse
    BY <1>8 DEF HostDies, StaleInUse, InUse, TypeOK
  <2>2. /\ idle' = 0 /\ \A r \in Route : conn'[r] # "live"
        /\ burntFailed' = 0 /\ stale' <= stale + idle
        /\ conns' = idle + stale + Cardinality(InUse)
        /\ \A r \in Route : burntConnect'[r] = 0
    BY <1>8 DEF HostDies, TypeOK
  <2>3. \A r \in Route : pc'[r] = pc[r] /\ (conn'[r] = "none" <=> conn[r] = "none")
    BY <1>8 DEF HostDies, TypeOK
  <2>4. stale' \in Nat
    BY <1>8 DEF HostDies
  <2>. QED  BY <2>1, <2>2, <2>3, <2>4 DEF CostInv
<1>9. CASE HostChanges
  BY <1>9 DEF HostChanges, CostInv, StaleInUse, Down, Host
<1>10. CASE HostHangs
  BY <1>10 DEF HostHangs, CostInv, Down
<1>11. CASE UNCHANGED vars
  BY <1>11 DEF vars, CostInv, StaleInUse
<1>. QED
  BY <1>1, <1>2, <1>3, <1>4, <1>5, <1>6, <1>7, <1>8, <1>9, <1>10, <1>11
  DEF Next, RouteStep

\* AR15: however often and in whatever way the host goes down, an outage costs
\* each route at most one claim that could not connect, and the routes whose
\* POST outlasts the connect timeout at most one more for each connection
\* there was, whatever timeouts the configuration gives the others.
THEOREM OutageIsCheap == Spec => []OutageCost
<1>1. Init => CostInv
  BY DEF Init, CostInv, Down
<1>2. TypeOK /\ CostInv => OutageCost
  BY StaleCount DEF TypeOK, CostInv, OutageCost
<1>. QED  BY <1>1, <1>2, CostStep, CircuitTypeCorrect, PTL DEF Spec
=============================================================================
