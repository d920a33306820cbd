------------------------------ MODULE MCGateway ------------------------------
(* Small instances of Gateway, and with it of Cabinet, for TLC.            *)
EXTENDS Gateway, TLC

Symmetry == Permutations(Emails) \union Permutations(Calls)
=============================================================================
