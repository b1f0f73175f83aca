---------------------------- MODULE ClaimReader ----------------------------
(***************************************************************************)
(* The long polls of a loop as HubClient::next reads them, one after the   *)
(* other: the status, the claim's headers, and the body chunk by chunk     *)
(* under the cap (hub/claim.rs).  What the hub sends is fixed when the     *)
(* poll goes out; where its stream is cut into chunks, and whether it      *)
(* breaks, is not.  RouteLoop takes the verdict (its Fits) as exact.       *)
(***************************************************************************)
EXTENDS Naturals

CONSTANTS
  MaxBody,    \* defaults.max_body_bytes
  MaxTotal    \* bound: the longest body the hub sends

ASSUME ReaderAssumption == MaxBody \in Nat /\ MaxTotal \in Nat

VARIABLES
  response,   \* external: what the hub sends
  arrived,    \* bytes the stream has delivered so far
  kept,       \* body.len()
  atLeast,    \* PollOutcome::Oversize.at_least
  outcome     \* what next() returns, or how far it is

readVars == <<response, arrived, kept, atLeast, outcome>>

\* A 200: whether kyu-id is there and of the plain charset, whether there is
\* a content-length, and the body's length, which only a 200 is read for.
Status == {"200", "204", "404", "401", "other"}
Response ==
  {r \in [status : Status, idPlain : BOOLEAN, declared : BOOLEAN,
          total : 0 .. MaxTotal] :
     r.status # "200" => r.idPlain /\ r.declared /\ r.total = 0}

Errors == {"Unreachable", "Auth", "Status", "Protocol"}
Outcomes == {"Message", "Oversize", "Empty", "TopicUnborn"} \cup Errors

ReadTypeOK ==
  /\ response \in Response
  /\ arrived \in Nat /\ kept \in Nat /\ atLeast \in Nat
  /\ outcome \in {"polling", "headers", "reading"} \cup Outcomes

ReadInit ==
  /\ response \in Response
  /\ arrived = 0 /\ kept = 0 /\ atLeast = 0
  /\ outcome = "polling"

\* next() is called again, after an outcome or by a loop that was respawned.
NextPoll ==
  /\ response' \in Response
  /\ arrived' = 0 /\ kept' = 0 /\ atLeast' = 0
  /\ outcome' = "polling"

Verdict(o) == outcome' = o /\ UNCHANGED <<response, arrived, kept, atLeast>>

\* send() fails, or a chunk does: connection lost, or the poll's timeout.
Breaks == outcome \in {"polling", "reading"} /\ Verdict("Unreachable")

StatusArrives ==
  /\ outcome = "polling"
  /\ Verdict(CASE response.status = "204" -> "Empty"
               [] response.status = "404" -> "TopicUnborn"
               [] response.status = "401" -> "Auth"
               [] response.status = "200" -> "headers"
               [] OTHER -> "Status")

IdRefused ==
  /\ outcome = "headers" /\ ~response.idPlain
  /\ Verdict("Protocol")

\* A mutant: a body of exactly the cap is refused too.
TooLongAtCap == response.declared /\ response.total >= MaxBody

\* The content-length, where there is one, is over the cap.
TooLong == response.declared /\ response.total > MaxBody

Oversized(n) ==
  /\ outcome' = "Oversize"
  /\ atLeast' = n
  /\ UNCHANGED <<response, kept>>

\* Nothing of the body is read.
LengthRefused ==
  /\ outcome = "headers" /\ response.idPlain /\ TooLong
  /\ Oversized(response.total)
  /\ UNCHANGED arrived

BodyBegins ==
  /\ outcome = "headers" /\ response.idPlain /\ ~TooLong
  /\ Verdict("reading")

\* A mutant: each chunk is held against the cap by itself.
OverCapAlone(chunk) == chunk > MaxBody

OverCap(chunk) == kept + chunk > MaxBody

\* The next chunk, of any length, kept if it fits.
Chunk ==
  /\ outcome = "reading"
  /\ \E n \in 1 .. response.total - arrived :
       /\ arrived' = arrived + n
       /\ IF OverCap(n)
          THEN Oversized(kept + n)
          ELSE kept' = kept + n /\ UNCHANGED <<response, atLeast, outcome>>

BodyEnds ==
  /\ outcome = "reading"
  /\ arrived = response.total
  /\ Verdict("Message")

ReadStep ==
  \/ Breaks \/ StatusArrives \/ IdRefused \/ LengthRefused \/ BodyBegins
  \/ Chunk \/ BodyEnds

ReadNext == ReadStep \/ NextPoll

ReadSpec == ReadInit /\ [][ReadNext]_readVars

-----------------------------------------------------------------------------
(* What the properties rest on, for HubPollsProofs.                         *)

ReadInv ==
  /\ kept <= MaxBody
  /\ outcome \in {"polling", "headers"} => kept = 0 /\ arrived = 0
  /\ outcome = "reading" => kept = arrived /\ arrived <= response.total

-----------------------------------------------------------------------------
\* Security F1: whatever the hub sends, with or without a content-length and
\* in whatever chunks, no more than the cap is ever kept of it.
BufferBounded == kept <= MaxBody

\* A message is handed on only with the whole of its body, and an oversized
\* claim is one: a body of exactly the cap is not, and at_least, for the log,
\* is above the cap and no more than what there is.
VerdictExact ==
  /\ outcome = "Message" => kept = response.total /\ response.total <= MaxBody
  /\ outcome = "Oversize" => MaxBody < atLeast /\ atLeast <= response.total
=============================================================================
