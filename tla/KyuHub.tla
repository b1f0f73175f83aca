------------------------------- MODULE KyuHub -------------------------------
(***************************************************************************)
(* The kyu hub as one route of kyu-runner sees it: one topic, one          *)
(* subscription.  The hub is another program; everything here is derived   *)
(* from the calls the runner makes (src/hub) and from what it does with    *)
(* the answers.  Messages are numbered in publish order, so message m is   *)
(* the m-th one published on the topic.                                    *)
(*                                                                         *)
(* A request is a record whose unused fields are 0 / FALSE; so is an       *)
(* answer.  HubServes(r, a) is the hub processing request r and answering  *)
(* a; what happens to r and a on the wire is the business of RouteLoop.    *)
(***************************************************************************)
EXTENDS Naturals, FiniteSets

CONSTANTS
  Msgs,            \* how many messages are ever published
  MaxAttempts,     \* claims the hub grants a message before it is dead
  LateAckCheck     \* the hub refuses a settle that names another attempt

ASSUME MsgsAssumption == Msgs \in Nat \ {0}
ASSUME MaxAttemptsAssumption == MaxAttempts \in Nat \ {0}
ASSUME LateAckCheckAssumption == LateAckCheck \in BOOLEAN

VARIABLES
  published,       \* messages published so far: 1 .. published
  subscribed,      \* the subscription exists
  status,          \* where the subscription stands with each message
  attempt,         \* how often each message was claimed
  policy           \* the route's policy is in force

hubVars == <<published, subscribed, status, attempt, policy>>

Msg == 1 .. Msgs

\* "absent": not owed to the subscription (unpublished, or skipped when the
\* subscription was created); "backoff": nacked, not claimable yet.
Status == {"absent", "ready", "backoff", "claimed", "acked", "dead"}

HubTypeOK ==
  /\ published \in 0 .. Msgs
  /\ subscribed \in BOOLEAN
  /\ status \in [Msg -> Status]
  /\ attempt \in [Msg -> 0 .. MaxAttempts]
  /\ policy \in BOOLEAN

HubInit ==
  /\ published = 0
  /\ subscribed = FALSE
  /\ status = [m \in Msg |-> "absent"]
  /\ attempt = [m \in Msg |-> 0]
  /\ policy = FALSE

-----------------------------------------------------------------------------
(* Requests and answers.                                                    *)

Request ==
  [kind : {"none", "next", "ack", "nack", "policy"},
   msg : Msg \cup {0}, attempt : 0 .. MaxAttempts, from : BOOLEAN]

\* GET /t/{topic}/next, with from=beginning or without.
NextRequest(from) ==
  [kind |-> "next", msg |-> 0, attempt |-> 0, from |-> from]

\* A mutant: the settle does not say which attempt it settles.
SettleRequestUnnumbered(verb, claim) ==
  [kind |-> verb, msg |-> claim.msg, attempt |-> 0, from |-> FALSE]

\* POST /t/{topic}/ack or nack of one claim, naming the claim's attempt.
SettleRequest(verb, claim) ==
  [kind |-> verb, msg |-> claim.msg, attempt |-> claim.attempt, from |-> FALSE]

PolicyRequest == [kind |-> "policy", msg |-> 0, attempt |-> 0, from |-> FALSE]

NoRequest == [kind |-> "none", msg |-> 0, attempt |-> 0, from |-> FALSE]

Answer ==
  [kind : {"none", "unborn", "empty", "claim", "ok", "refused", "auth",
           "unreachable"},
   msg : Msg \cup {0}, attempt : 0 .. MaxAttempts]

Plain(kind) == [kind |-> kind, msg |-> 0, attempt |-> 0]
ClaimOf(m, n) == [kind |-> "claim", msg |-> m, attempt |-> n]
NoAnswer == Plain("none")

-----------------------------------------------------------------------------
(* What the hub does with a request.                                        *)

\* A poll creates the subscription.  from=beginning makes every message
\* published so far owed to it; repeating it changes nothing more.
Owed(from) ==
  [m \in Msg |-> IF from /\ m <= published /\ status[m] = "absent"
                   THEN "ready" ELSE status[m]]

\* The oldest claimable message is the one a poll gets.
IsHead(st, m) ==
  /\ st[m] = "ready"
  /\ \A k \in 1 .. (m - 1) : st[k] # "ready"

HubUnborn(a) ==
  /\ published = 0
  /\ a = Plain("unborn")
  /\ UNCHANGED hubVars

HubClaims(from, m, a) ==
  /\ published > 0
  /\ IsHead(Owed(from), m)
  /\ subscribed' = TRUE
  /\ status' = [Owed(from) EXCEPT ![m] = "claimed"]
  /\ attempt' = [attempt EXCEPT ![m] = @ + 1]
  /\ a = ClaimOf(m, attempt[m] + 1)
  /\ UNCHANGED <<published, policy>>

\* The long poll ran out its wait with nothing to claim.
HubEmpty(from, a) ==
  /\ published > 0
  /\ \A m \in Msg : Owed(from)[m] # "ready"
  /\ subscribed' = TRUE
  /\ status' = Owed(from)
  /\ a = Plain("empty")
  /\ UNCHANGED <<published, attempt, policy>>

\* A settle applies to a claim that is still open; a hub with the late-ack
\* check also wants it to be the claim of the attempt the settle names, if
\* it names one (0: it does not).
Settles(r) ==
  /\ status[r.msg] = "claimed"
  /\ LateAckCheck => r.attempt \in {0, attempt[r.msg]}

\* A message whose claim came to nothing: claimable again, at once or after
\* the hub's retry delay, or dead once its attempts are spent.
Returned(m, how) == IF attempt[m] < MaxAttempts THEN how ELSE "dead"

HubSettles(r, a) ==
  /\ Settles(r)
  /\ status' = [status EXCEPT ![r.msg] = IF r.kind = "ack" THEN "acked"
                                         ELSE Returned(r.msg, "backoff")]
  /\ a = Plain("ok")
  /\ UNCHANGED <<published, subscribed, attempt, policy>>

HubRefusesSettle(r, a) ==
  /\ ~Settles(r)
  /\ a = Plain("refused")
  /\ UNCHANGED hubVars

\* The policy PUT lands on an existing subscription; the hub validates the
\* block and may refuse it.
HubTakesPolicy(a) ==
  /\ subscribed
  /\ policy' = TRUE
  /\ a = Plain("ok")
  /\ UNCHANGED <<published, subscribed, status, attempt>>

HubRefusesPolicy(a) ==
  /\ a = Plain("refused")
  /\ UNCHANGED hubVars

HubServes(r, a) ==
  \/ /\ r.kind = "next"
     /\ \/ HubUnborn(a)
        \/ \E m \in Msg : HubClaims(r.from, m, a)
        \/ HubEmpty(r.from, a)
  \/ /\ r.kind \in {"ack", "nack"}
     /\ \/ HubSettles(r, a)
        \/ HubRefusesSettle(r, a)
  \/ /\ r.kind = "policy"
     /\ \/ HubTakesPolicy(a)
        \/ HubRefusesPolicy(a)

\* What the hub can answer to some request now: HubServes(r, a) => a \in Offers.
Offers ==
  {Plain(k) : k \in {"unborn", "empty", "ok", "refused"}}
  \cup {ClaimOf(m, attempt[m] + 1) : m \in Msg}

-----------------------------------------------------------------------------
(* What the hub does by itself.                                             *)

Publish ==
  /\ published < Msgs
  /\ published' = published + 1
  /\ status' = IF subscribed
                 THEN [status EXCEPT ![published + 1] = "ready"]
                 ELSE status
  /\ UNCHANGED <<subscribed, attempt, policy>>

LeaseExpires(m) ==
  /\ status[m] = "claimed"
  /\ status' = [status EXCEPT ![m] = Returned(m, "ready")]
  /\ UNCHANGED <<published, subscribed, attempt, policy>>

BackoffEnds(m) ==
  /\ status[m] = "backoff"
  /\ status' = [status EXCEPT ![m] = "ready"]
  /\ UNCHANGED <<published, subscribed, attempt, policy>>

=============================================================================
