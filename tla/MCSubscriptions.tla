--------------------------- MODULE MCSubscriptions ---------------------------
(* A small instance of Subscriptions for TLC: a tariff with a price and a  *)
(* package, like pro, and one with neither, like free and basic.           *)
EXTENDS Subscriptions, TLC

CONSTANTS free, pro

MCBasePrice == [t \in Tariffs |-> IF t = pro THEN 2 ELSE 0]
MCPackage == [t \in Tariffs |-> IF t = pro THEN 1 ELSE 0]
Symmetry == Permutations(Calls)
=============================================================================
