---------------------------- MODULE HubBackoff -----------------------------
(***************************************************************************)
(* What RouteLoop leaves out of LoopState: the two Backoffs of a loop      *)
(* (route/backoff.rs), hub_backoff and circuit_backoff, and the flags that *)
(* only decide whether a handler logs: AR6 wants transitions in the log,   *)
(* not polls.  Here a loop is the sequence of its poll outcomes, in any    *)
(* order, and delays are in milliseconds.                                  *)
(***************************************************************************)
EXTENDS Naturals

CONSTANTS
  Base, Cap,   \* of each backoff: hub_backoff, circuit_backoff
  HasPolicy,   \* the route has a [routes.policy] block
  MaxRow       \* bound: failures in a row

Backoffs == {"hub", "circuit"}
Lines == {"unreachable", "denied", "unborn", "policy"}

\* BACKOFF_RANGE and validate_pair.
ASSUME BackoffAssumption ==
  /\ Base \in [Backoffs -> Nat] /\ Cap \in [Backoffs -> Nat]
  /\ \A b \in Backoffs : Base[b] <= Cap[b]
  /\ MaxRow \in Nat
ASSUME HasPolicyAssumption == HasPolicy \in BOOLEAN

VARIABLES
  hubDown, authDenied, unbornLogged, policyPending, policyWarned,
  circuitOpen,  \* the loop is in wait_out_circuit
  nextMs,       \* Backoff.next_ms, of each backoff
  delay,        \* the delay each backoff last gave out
  row,          \* failures in a row that each backoff has waited for
  lines,        \* warnings of each kind since their cause was last gone
  told          \* the last poll outcome logged the recovery

flags == <<hubDown, authDenied, unbornLogged, policyPending, policyWarned>>
backoffs == <<nextMs, delay, row>>
vars == <<flags, circuitOpen, backoffs, lines, told>>

TypeOK ==
  /\ hubDown \in BOOLEAN /\ authDenied \in BOOLEAN /\ unbornLogged \in BOOLEAN
  /\ policyPending \in BOOLEAN /\ policyWarned \in BOOLEAN
  /\ circuitOpen \in BOOLEAN /\ told \in BOOLEAN
  /\ nextMs \in [Backoffs -> Nat] /\ delay \in [Backoffs -> Nat]
  /\ row \in [Backoffs -> Nat]
  /\ lines \in [Lines -> Nat]

\* LoopState::new.
Init ==
  /\ hubDown = FALSE /\ authDenied = FALSE /\ unbornLogged = FALSE
  /\ policyPending = HasPolicy /\ policyWarned = FALSE
  /\ circuitOpen = FALSE
  /\ nextMs = Base
  /\ delay = [b \in Backoffs |-> 0]
  /\ row = [b \in Backoffs |-> 0]
  /\ lines = [k \in Lines |-> 0]
  /\ told = FALSE

-----------------------------------------------------------------------------
(* Backoff.                                                                *)

Least(m, n) == IF m <= n THEN m ELSE n

Doubled(b) == Least(2 * nextMs[b], Cap[b])

\* Backoff::next: the step, and up to an eighth of it on top.
Waits(b) ==
  /\ row[b] < MaxRow
  /\ \E jitter \in 0 .. nextMs[b] \div 8 :
       delay' = [delay EXCEPT ![b] = nextMs[b] + jitter]
  /\ nextMs' = [nextMs EXCEPT ![b] = Doubled(b)]
  /\ row' = [row EXCEPT ![b] = @ + 1]

\* A mutant: the next failure goes on where the last outage ended.
ResetForgotten(b) ==
  /\ row' = [row EXCEPT ![b] = 0]
  /\ UNCHANGED <<nextMs, delay>>

\* Backoff::reset.
Reset(b) ==
  /\ nextMs' = [nextMs EXCEPT ![b] = Base[b]]
  /\ row' = [row EXCEPT ![b] = 0]
  /\ UNCHANGED delay

Logged(l, kind) == [l EXCEPT ![kind] = @ + 1]

-----------------------------------------------------------------------------
(* The poll outcomes.                                                      *)

\* A mutant: an error of one kind takes back the flag of the other.
HubErrorForgets(denied) ==
  /\ ~circuitOpen
  /\ IF denied
     THEN /\ lines' = IF authDenied THEN lines ELSE Logged(lines, "denied")
          /\ authDenied' = TRUE /\ hubDown' = FALSE
     ELSE /\ lines' = IF hubDown THEN lines ELSE Logged(lines, "unreachable")
          /\ hubDown' = TRUE /\ authDenied' = FALSE
  /\ Waits("hub")
  /\ told' = FALSE
  /\ UNCHANGED <<unbornLogged, policyPending, policyWarned, circuitOpen>>

\* on_hub_error, for a 401 and for every other error.
HubError(denied) ==
  /\ ~circuitOpen
  /\ IF denied
     THEN /\ lines' = IF authDenied THEN lines ELSE Logged(lines, "denied")
          /\ authDenied' = TRUE /\ UNCHANGED hubDown
     ELSE /\ lines' = IF hubDown THEN lines ELSE Logged(lines, "unreachable")
          /\ hubDown' = TRUE /\ UNCHANGED authDenied
  /\ Waits("hub")
  /\ told' = FALSE
  /\ UNCHANGED <<unbornLogged, policyPending, policyWarned, circuitOpen>>

\* A mutant: only an outage is told to be over, not a denied token.
NoteRecoveryOfOutage ==
  /\ ~circuitOpen
  /\ told' = hubDown
  /\ hubDown' = FALSE /\ authDenied' = FALSE

\* note_recovery, without the reset that its callers' steps add.
NoteRecovery ==
  /\ ~circuitOpen
  /\ told' = (hubDown \/ authDenied)
  /\ hubDown' = FALSE /\ authDenied' = FALSE

Recovered == [lines EXCEPT !["unreachable"] = 0, !["denied"] = 0]

OnTopicUnborn ==
  /\ NoteRecovery /\ Reset("hub")
  /\ lines' = IF unbornLogged THEN Recovered ELSE Logged(Recovered, "unborn")
  /\ unbornLogged' = TRUE
  /\ UNCHANGED <<policyPending, policyWarned, circuitOpen>>

OnOversize ==
  /\ NoteRecovery /\ Reset("hub")
  /\ lines' = Recovered
  /\ UNCHANGED <<unbornLogged, policyPending, policyWarned, circuitOpen>>

\* note_topic_alive and apply_policy, of on_empty and on_message.
TopicAlive ==
  LET alive == [Recovered EXCEPT !["unborn"] = 0]
  IN  /\ unbornLogged' = FALSE
      /\ \/ /\ ~policyPending
            /\ lines' = alive
            /\ UNCHANGED <<policyPending, policyWarned>>
         \/ /\ policyPending
            /\ policyPending' = FALSE
            /\ lines' = alive
            /\ UNCHANGED policyWarned
         \/ /\ policyPending
            /\ lines' = IF policyWarned THEN alive ELSE Logged(alive, "policy")
            /\ policyWarned' = TRUE
            /\ UNCHANGED policyPending

OnEmpty ==
  /\ NoteRecovery /\ Reset("hub") /\ TopicAlive
  /\ UNCHANGED circuitOpen

\* on_message; a ladder that gave up on an unreachable host opens the
\* circuit, whose backoff begins anew.
OnMessage ==
  /\ NoteRecovery /\ TopicAlive
  /\ \/ /\ Reset("hub")
        /\ UNCHANGED circuitOpen
     \/ /\ circuitOpen' = TRUE
        /\ nextMs' = Base
        /\ row' = [b \in Backoffs |-> 0]
        /\ UNCHANGED delay

\* wait_out_circuit: the wait, then the probe.
Probe ==
  /\ circuitOpen
  /\ Waits("circuit")
  /\ circuitOpen' \in BOOLEAN
  /\ told' = FALSE
  /\ UNCHANGED <<flags, lines>>

\* A panic: the loop that supervise spawns has a LoopState of its own.
Respawn ==
  /\ hubDown' = FALSE /\ authDenied' = FALSE /\ unbornLogged' = FALSE
  /\ policyPending' = HasPolicy /\ policyWarned' = FALSE
  /\ circuitOpen' = FALSE
  /\ nextMs' = Base
  /\ delay' = [b \in Backoffs |-> 0]
  /\ row' = [b \in Backoffs |-> 0]
  /\ lines' = [k \in Lines |-> 0]
  /\ told' = FALSE

NormalAnswer == OnTopicUnborn \/ OnOversize \/ OnEmpty \/ OnMessage

Next == \/ \E denied \in BOOLEAN : HubError(denied)
        \/ NormalAnswer \/ Probe \/ Respawn

Spec == Init /\ [][Next]_vars

-----------------------------------------------------------------------------
(* What the properties rest on, for HubPollsProofs.                         *)

FlagsCount ==
  /\ lines["unreachable"] = IF hubDown THEN 1 ELSE 0
  /\ lines["denied"] = IF authDenied THEN 1 ELSE 0
  /\ lines["unborn"] = IF unbornLogged THEN 1 ELSE 0
  /\ lines["policy"] = IF policyWarned THEN 1 ELSE 0

\* The step the next failure will be waited out for.
PowerOfTwo[n \in Nat] == IF n = 0 THEN 1 ELSE 2 * PowerOfTwo[n - 1]
StepAfter(b, failures) == Least(Base[b] * PowerOfTwo[failures], Cap[b])
StepFollowsRow == \A b \in Backoffs : nextMs[b] = StepAfter(b, row[b])

-----------------------------------------------------------------------------
\* AR6: the n-th failure in a row is waited out for the base doubled n - 1
\* times, but no longer than the cap, plus an eighth: whatever outages of
\* the hub and of the webhook's host came before, in any order.
DelayFollowsFailures ==
  \A b \in Backoffs : row[b] > 0 =>
    LET step == StepAfter(b, row[b] - 1)
    IN  step <= delay[b] /\ delay[b] <= step + step \div 8

\* AR6: however the errors alternate, a loop warns once of each cause until
\* a poll shows it gone, and once of a policy that does not land.
OneLinePerCause == \A k \in Lines : lines[k] <= 1

\* The log says that the hub is back exactly when it had said it was gone.
RecoveryIsTold ==
  [][NormalAnswer =>
       (told' <=> lines["unreachable"] + lines["denied"] > 0)]_vars
=============================================================================
