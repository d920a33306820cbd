------------------------------ MODULE MCBilling ------------------------------
(* Small instances of Overdraft for TLC: a1 has a subscription, a2 none.   *)
EXTENDS Overdraft, TLC

CONSTANTS a1, a2

MCPriced == Accounts \intersect {a1}
MCStatus == [a \in Accounts |-> "active"]
MCOpening == [a \in Accounts |-> IF a = a1 THEN [real |-> 1, prepaid |-> 1]
                                           ELSE [real |-> 1, prepaid |-> 0]]
Symmetry == Permutations(Requests) \union Permutations(Calls)

(* Which answer a call gave makes no difference to what comes after, nor to *)
(* any property.                                                            *)
Told ==
  <<database, strained,
    [c \in Calls |-> IF pc[c] \in Answers THEN <<"answered">>
                     ELSE <<pc[c], account[c], request[c], seen[c], hold[c]>>]>>
=============================================================================
