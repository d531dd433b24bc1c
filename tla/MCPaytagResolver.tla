-------------------------- MODULE MCPaytagResolver --------------------------
(* A small instance of the two contracts: two accounts, one Bitcoin-like   *)
(* coin next to ETH, and enough events for a name to be registered,        *)
(* written, handed over and written again.                                 *)
EXTENDS PaytagResolver, TLC

CONSTANTS a1, a2, n1, n2

MCNodeOf == [name \in Name |-> IF name = "alice" THEN n1 ELSE n2]

Accounts == Permutations({a1, a2})
=============================================================================
