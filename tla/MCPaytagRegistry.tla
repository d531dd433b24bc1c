-------------------------- MODULE MCPaytagRegistry --------------------------
(* A small instance of the registry: one free and one reserved name.       *)
EXTENDS PaytagRegistry, TLC

CONSTANTS a1, a2, n1, nReserved

(* Two spellings of one name, a reserved name and an invalid one.          *)
MCNodeOf ==
  [name \in Name |->
     CASE name \in {"alice", "Alice"} -> n1
       [] name = "admin" -> nReserved
       [] OTHER -> NoNode]

Accounts == Permutations({a1, a2})
=============================================================================
