----------------------------- MODULE MCHubPolls -----------------------------
(***************************************************************************)
(* An instance of HubPolls for TLC: a cap that is a power of two of the    *)
(* base and one that is not, both with room for jitter.                    *)
(***************************************************************************)
EXTENDS HubPolls

SmallBase == [b \in Backoffs |-> IF b = "hub" THEN 4 ELSE 8]
SmallCap == [b \in Backoffs |-> IF b = "hub" THEN 20 ELSE 32]
=============================================================================
