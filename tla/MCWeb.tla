-------------------------------- MODULE MCWeb -------------------------------
(* Two tabs of one browser, a wallet with a name and one without; two names*)
(* to pay, a chain that waits for its receipt and one that does not; two   *)
(* payees, one with an Ethereum address, one with two others, and wallets  *)
(* with two accounts on two networks and one Paytag does not know; two     *)
(* flows that share a price; a name and two wallets of one user.           *)
EXTENDS Web, TLC
CONSTANTS one, two, alice, bob, evm, btc, little, much, none
Pair == {one, two}
MCWallet == {alice, bob}
MCHolder == {alice}
Chains == {evm, btc}
Waiting == {evm}
Amounts == {little, much}
Payees == {{"ethereum"}, {"solana", "bitcoin"}}
Unknown == {little}

Alike == Permutations(Pair)
=============================================================================
