--------------------------- MODULE MCOrchestrator ---------------------------
(* Small instances of Orchestrator for TLC: a1 has a subscription, a2      *)
(* none, a3 is blocked.                                                    *)
EXTENDS Orchestrator

CONSTANTS a1, a2, a3

MCPriced == Accounts \intersect {a1}
MCStatus == [a \in Accounts |-> IF a = a3 THEN "blocked" ELSE "active"]
MCOpening == [a \in Accounts |-> IF a = a1 THEN [real |-> 2, prepaid |-> 1]
                                           ELSE [real |-> 1, prepaid |-> 0]]
=============================================================================
