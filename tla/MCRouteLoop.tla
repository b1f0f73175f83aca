---------------------------- MODULE MCRouteLoop ----------------------------
(***************************************************************************)
(* Small instances of RouteLoop for TLC: the budgets of mishaps each run   *)
(* allows.                                                                 *)
(***************************************************************************)
EXTENDS RouteLoop

BudgetOf(fault, panic, restart, outage, stop, any) ==
  [k \in Mishap |-> CASE k = "fault"   -> fault
                      [] k = "panic"   -> panic
                      [] k = "restart" -> restart
                      [] k = "outage"  -> outage
                      [] k = "stop"    -> stop
                      [] k = "any"     -> any]

\* Any two mishaps, in either order.
AnyTwo == BudgetOf(2, 2, 2, 2, 1, 2)

\* Any two of a lost call, a panic, a kill, an outage and an order to stop.
AnyTwoOfEach == BudgetOf(1, 1, 1, 1, 1, 2)

\* Any two of what leaves a claim open, and an order to stop.
TwoLeaveClaims == BudgetOf(2, 2, 2, 0, 1, 2)

\* One kill, all the counterexample needs.
OneKill == BudgetOf(0, 0, 1, 0, 0, 1)
=============================================================================
