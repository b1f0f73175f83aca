---------------------------- MODULE Supervision ----------------------------
(***************************************************************************)
(* The routes of one process side by side: spawn_pump, the supervise task  *)
(* of each route (pump.rs), and the drain at a stop (main.rs).  What a     *)
(* loop does is left to RouteLoop; here it waits, or works on a claim for  *)
(* a known time in which it does not look at the stop signal.  A pause of  *)
(* the ladder that the signal cuts short is a shorter work.                *)
(*                                                                         *)
(* Time is counted in ticks.  Tick is held up while a step is due that the *)
(* runtime takes at once (a task that can be polled), so the counts are    *)
(* those of an idle machine.                                               *)
(***************************************************************************)
EXTENDS Naturals

CONSTANTS
  N,             \* number of routes, in the order of the config file
  MaxWork,       \* the longest a claim can keep a loop from the signal
  RespawnAfter,  \* route_respawn_ms
  Grace,         \* shutdown_grace
  KitBounds      \* the kit's shutdown_timeout_ms: the settings tried

ASSUME SupervisionAssumption ==
  /\ N \in Nat /\ MaxWork \in Nat /\ RespawnAfter \in Nat /\ Grace \in Nat
  /\ KitBounds \subseteq Nat

Route == 1 .. N

VARIABLES
  phase,     \* the process: on_start, serving, on_flush, gone
  sup,       \* the supervise task of each route
  loop,      \* the inner task supervise has spawned, until it is joined
  left,      \* time left of the loop's work, or of the respawn pause
  health,    \* HealthState: the reported state of each route
  awaited,   \* drain_tasks: the handle it waits for
  elapsed,   \* time since the stop was signalled
  owed,      \* what each route had left when the stop was signalled
  waitUntil, \* drain_tasks: when the timeout on that handle fires
  kitBound   \* the kit's bound on the flush hook

drainVars == <<awaited, waitUntil, elapsed, owed, kitBound>>
vars == <<phase, sup, loop, left, health, drainVars>>

Least(m, n) == IF m <= n THEN m ELSE n

TypeOK ==
  /\ phase \in {"starting", "serving", "draining", "exited"}
  /\ sup \in [Route -> {"none", "await", "pause", "done", "aborted"}]
  /\ loop \in [Route -> {"none", "wait", "work", "panicked", "ended"}]
  /\ left \in [Route -> Nat]
  /\ health \in [Route -> {"starting", "idle", "hub-down", "delivering",
                           "respawning", "stopped"}]
  /\ awaited \in 1 .. N + 1
  /\ elapsed \in Nat
  /\ owed \in [Route -> Nat]
  /\ waitUntil \in Nat
  /\ kitBound \in KitBounds

Init ==
  /\ phase = "starting"
  /\ sup = [r \in Route |-> "none"]
  /\ loop = [r \in Route |-> "none"]
  /\ left = [r \in Route |-> 0]
  /\ health = [r \in Route |-> "starting"]
  /\ awaited = 1
  /\ elapsed = 0
  /\ owed = [r \in Route |-> 0]
  /\ waitUntil = 0
  /\ kitBound \in KitBounds

Alive == phase \in {"serving", "draining"}

-----------------------------------------------------------------------------
(* on_start.                                                               *)

PumpStarts ==
  /\ phase = "starting"
  /\ phase' = "serving"
  /\ sup' = [r \in Route |-> "await"]
  /\ loop' = [r \in Route |-> "wait"]
  /\ UNCHANGED <<left, health, drainVars>>

\* build_clients failed: an error line, and no handles to wait for.
PumpFails ==
  /\ phase = "starting"
  /\ phase' = "serving"
  /\ awaited' = N + 1
  /\ UNCHANGED <<sup, loop, left, health, waitUntil, elapsed, owed, kitBound>>

-----------------------------------------------------------------------------
(* The loop of route r, as the supervisor sees it.                         *)

Report(r) ==
  /\ phase = "serving" /\ loop[r] = "wait"
  /\ \E h \in {"idle", "hub-down"} : health' = [health EXCEPT ![r] = h]
  /\ UNCHANGED <<phase, sup, loop, left, drainVars>>

Claim(r) ==
  /\ phase = "serving" /\ loop[r] = "wait"
  /\ loop' = [loop EXCEPT ![r] = "work"]
  /\ \E w \in 1 .. MaxWork : left' = [left EXCEPT ![r] = w]
  /\ health' = [health EXCEPT ![r] = "delivering"]
  /\ UNCHANGED <<phase, sup, drainVars>>

WorkOver(r) == loop[r] = "work" /\ left[r] = 0

Settle(r) ==
  /\ Alive /\ WorkOver(r)
  /\ loop' = [loop EXCEPT ![r] = "wait"]
  /\ health' = [health EXCEPT ![r] = "idle"]
  /\ UNCHANGED <<phase, sup, left, drainVars>>

SeesStop(r) == phase = "draining" /\ loop[r] = "wait"

LoopStops(r) ==
  /\ SeesStop(r)
  /\ loop' = [loop EXCEPT ![r] = "ended"]
  /\ health' = [health EXCEPT ![r] = "stopped"]
  /\ UNCHANGED <<phase, sup, left, drainVars>>

Panics(r) ==
  /\ Alive /\ loop[r] \in {"wait", "work"}
  /\ loop' = [loop EXCEPT ![r] = "panicked"]
  /\ left' = [left EXCEPT ![r] = 0]
  /\ UNCHANGED <<phase, sup, health, drainVars>>

-----------------------------------------------------------------------------
(* supervise(r).                                                           *)

Joined(r) == sup[r] = "await" /\ loop[r] \in {"panicked", "ended"}

SuperviseReturns(r) ==
  /\ Alive /\ Joined(r) /\ loop[r] = "ended"
  /\ sup' = [sup EXCEPT ![r] = "done"]
  /\ UNCHANGED <<phase, loop, left, health, drainVars>>

\* A mutant: the pause is begun without a look at the shutdown signal.
SupervisePanicPauses(r) ==
  /\ Alive /\ Joined(r) /\ loop[r] = "panicked"
  /\ health' = [health EXCEPT ![r] = "respawning"]
  /\ sup' = [sup EXCEPT ![r] = "pause"]
  /\ left' = [left EXCEPT ![r] = RespawnAfter]
  /\ UNCHANGED <<phase, loop, drainVars>>

\* A mutant: a panic ends the supervisor too.
SupervisePanicGivesUp(r) ==
  /\ Alive /\ Joined(r) /\ loop[r] = "panicked"
  /\ health' = [health EXCEPT ![r] = "respawning"]
  /\ sup' = [sup EXCEPT ![r] = "done"]
  /\ UNCHANGED <<phase, loop, left, drainVars>>

SupervisePanic(r) ==
  /\ Alive /\ Joined(r) /\ loop[r] = "panicked"
  /\ health' = [health EXCEPT ![r] = "respawning"]
  /\ \/ /\ phase = "draining"
        /\ sup' = [sup EXCEPT ![r] = "done"]
        /\ UNCHANGED left
     \/ /\ phase = "serving"
        /\ sup' = [sup EXCEPT ![r] = "pause"]
        /\ left' = [left EXCEPT ![r] = RespawnAfter]
  /\ UNCHANGED <<phase, loop, drainVars>>

PauseOver(r) == sup[r] = "pause" /\ left[r] = 0

\* The pause does not listen to the signal; the fresh loop does, at once.
Respawn(r) ==
  /\ Alive /\ PauseOver(r)
  /\ sup' = [sup EXCEPT ![r] = "await"]
  /\ loop' = [loop EXCEPT ![r] = "wait"]
  /\ UNCHANGED <<phase, left, health, drainVars>>

-----------------------------------------------------------------------------
(* on_flush: the signal, then the handles one after the other.             *)

\* A mutant: every handle gets the grace anew.
RemainingPerTask == Grace

\* A mutant: only the first handle is waited for.
RemainingForFirst == IF phase = "serving" THEN Grace ELSE 0

\* What is left until the deadline that all handles share, which is set when
\* the drain begins: the timeout on the handle now waited for.
Remaining == IF elapsed <= Grace THEN Grace - elapsed ELSE 0

Flush ==
  /\ phase = "serving"
  /\ phase' = "draining"
  /\ owed' = left
  /\ waitUntil' = elapsed + Remaining
  /\ UNCHANGED <<sup, loop, left, health, awaited, elapsed, kitBound>>

\* The drain goes on to the next handle.
NextHandle ==
  /\ awaited' = awaited + 1
  /\ waitUntil' = elapsed + Remaining
  /\ UNCHANGED <<phase, loop, left, health, elapsed, owed, kitBound>>

TimeoutFires == elapsed >= waitUntil

HandleDone ==
  /\ phase = "draining" /\ awaited <= N /\ sup[awaited] = "done"
  /\ NextHandle
  /\ UNCHANGED sup

\* timeout polls the handle first.  The abort ends supervise at its await
\* or in its pause; the loop it had spawned is a task of its own.
HandleTimesOut ==
  /\ phase = "draining" /\ awaited <= N /\ sup[awaited] # "done"
  /\ TimeoutFires
  /\ sup' = [sup EXCEPT ![awaited] = "aborted"]
  /\ NextHandle

DrainReturns ==
  /\ phase = "draining" /\ awaited > N
  /\ phase' = "exited"
  /\ UNCHANGED <<sup, loop, left, health, drainVars>>

\* External: the kit waits for a flush hook for shutdown_timeout_ms.
KitGivesUp ==
  /\ phase = "draining" /\ elapsed >= kitBound
  /\ phase' = "exited"
  /\ UNCHANGED <<sup, loop, left, health, drainVars>>

-----------------------------------------------------------------------------
RouteDue(r) == WorkOver(r) \/ SeesStop(r) \/ Joined(r) \/ PauseOver(r)

DrainDue ==
  /\ phase = "draining"
  /\ awaited > N \/ TimeoutFires \/ elapsed >= kitBound
     \/ (awaited <= N /\ sup[awaited] = "done")

Tick ==
  /\ Alive /\ ~DrainDue /\ \A r \in Route : ~RouteDue(r)
  /\ left' = [r \in Route |-> IF left[r] > 0 THEN left[r] - 1 ELSE 0]
  /\ elapsed' = IF phase = "draining" THEN elapsed + 1 ELSE 0
  /\ UNCHANGED <<phase, sup, loop, health, awaited, waitUntil, owed, kitBound>>

Runtime(r) == \/ Settle(r) \/ LoopStops(r) \/ SuperviseReturns(r)
              \/ SupervisePanic(r) \/ Respawn(r)

Drain == HandleDone \/ HandleTimesOut \/ DrainReturns \/ KitGivesUp

Next ==
  \/ PumpStarts \/ PumpFails \/ Flush \/ Drain \/ Tick
  \/ \E r \in Route : Report(r) \/ Claim(r) \/ Panics(r) \/ Runtime(r)

Spec == Init /\ [][Next]_vars

\* The runtime polls what is ready, and time passes.
FairSpec ==
  /\ Spec
  /\ WF_vars(Tick) /\ WF_vars(Drain)
  /\ \A r \in Route : WF_vars(Runtime(r))

-----------------------------------------------------------------------------
(* What the properties rest on, for SupervisionProofs.                      *)

\* What the supervisor's place says of the loop it has spawned.
SupMatchesLoop(r) ==
  /\ sup[r] = "none" => loop[r] = "none"
  /\ sup[r] = "await" => loop[r] # "none"
  /\ sup[r] = "pause" => loop[r] = "panicked"
  /\ sup[r] = "done" => loop[r] \in {"panicked", "ended"}

\* Handles are passed over when done, or from the deadline on.
HandlesPassed(r) ==
  /\ phase = "starting" => sup[r] = "none" /\ awaited = 1
  /\ r < awaited => sup[r] \in {"none", "done", "aborted"}
  /\ sup[r] = "aborted" => elapsed >= Grace
  /\ phase # "starting" /\ awaited <= N => sup[r] # "none"

\* A stopping process counts down what each route owed.
CountsDown(r) ==
  phase \in {"draining", "exited"} /\ (loop[r] = "work" \/ sup[r] = "pause")
  => elapsed + left[r] = owed[r]

DrainInv ==
  /\ phase \in {"starting", "serving"} => elapsed = 0
  /\ phase = "draining" => waitUntil = Grace
  /\ elapsed <= Grace
  /\ \A r \in Route : SupMatchesLoop(r) /\ HandlesPassed(r) /\ CountsDown(r)

-----------------------------------------------------------------------------
\* AR9: however many handles time out one after the other, drain_tasks has
\* passed the last of them when the one shared grace is over, and unless the
\* kit ended it first no supervise task is left that could respawn a loop.
DrainWithinGrace ==
  /\ elapsed <= Grace
  /\ phase = "exited" /\ elapsed < kitBound =>
       \A r \in Route : sup[r] \in {"none", "done", "aborted"}

\* The drain lasts no longer than the route that had most left to do, be it
\* a claim or a respawn pause: a panic on the way out adds no pause, and
\* waiting for the handles in turn adds nothing.
DrainNoLongerThanOwed ==
  elapsed > 0 => \E r \in Route : elapsed <= owed[r]

\* W1: a delivery is cut short by the exit only if it needed all of the
\* grace, or all the kit gives the hook.
CutOnlyPastBound ==
  phase = "exited" =>
    \A r \in Route : loop[r] = "work" => owed[r] >= Least(Grace, kitBound)

\* AR1: a route whose loop died runs again, unless a stop comes first.
DeadRouteReturns ==
  \A r \in Route :
    loop[r] = "panicked" ~> loop[r] = "wait" \/ ~(phase = "serving")

-----------------------------------------------------------------------------
\* main.rs: a pump that could not start leaves "/healthz ... degraded": some
\* route reports a state that RouteSubsystem::check counts as failing.
NoPumpIsDegraded ==
  phase = "serving" /\ (\A r \in Route : sup[r] = "none")
  => \E r \in Route : health[r] = "hub-down"
=============================================================================
