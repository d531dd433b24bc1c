---------------------------- MODULE MCNamePages -----------------------------
(* Two accounts in one wallet after one name; one record edited twice,     *)
(* another device of the owner's writing it too; two chains, one of them   *)
(* verifiable, whose address is not the wallet's, and two addresses; a name*)
(* to claim, a reserved one, drafts of each other kind, two wallets and    *)
(* two requests at a time.                                                 *)
EXTENDS NamePages, TLC
CONSTANTS A, B, a, b, unset, evm, btc
Pair == {a, b}
Chains == {evm, btc}
OwnWallet == {<<evm, b>>}
Unverified ==
  [c \in Chains |-> [address |-> IF c = evm THEN a ELSE None, verified |-> FALSE]]

Accounts == Permutations({A, B})
=============================================================================
