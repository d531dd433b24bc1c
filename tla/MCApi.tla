-------------------------------- MODULE MCApi -------------------------------
(* A small instance of every part of the API:                              *)
(*   sessions   one wallet, two requests, up to three revokes              *)
(*   accounts   two wallets, two names, two registrations in progress      *)
(*   addresses  the owner's wallet, another address of the owner's, one of *)
(*              somebody else, two challenges, two requests                *)
(*   resolve    one machine with two requests, a write and a registry      *)
(*              change: other machines reach it through the database only  *)
(*   pages      every way three logs or fewer per block fall over pages of *)
(*              three                                                      *)
(*   limits     a house with two IPv6 addresses and a phone known by an    *)
(*              IPv4 address written two ways, behind one edge server      *)
(*   http       every request, with every fault of the database            *)
(*   records    every coin type with texts and bytes of two fills and the  *)
(*              lengths at which a program or a key is told apart          *)
EXTENDS Api, TLC

CONSTANTS m1, r1, r2, n1, n2, w1, w2, w3, mine, theirs

IPv4(bytes) == [v4 |-> bytes, head |-> <<>>, tail |-> <<>>, short |-> FALSE]
IPv6(head, tail) == [v4 |-> <<>>, head |-> head, tail |-> tail, short |-> TRUE]
Visitors ==
  {[who |-> "house", ip |-> IPv6(<< <<1>>, <<2>> >>, << <<5>> >>)],
   [who |-> "house",
    ip |-> IPv6(<< <<1>>, <<2>>, <<0>>, <<0>>, <<7>> >>, <<>>)],
   [who |-> "phone", ip |-> IPv4(<<1, 2, 3, 4>>)],
   [who |-> "phone", ip |-> IPv6(<<>>, << <<65535>>, <<1, 2, 3, 4>> >>)]}
Edge == [who |-> "edge", ip |-> IPv4(<<9, 9, 9, 9>>)]

Alike ==
  Permutations({r1, r2}) \cup Permutations({n1, n2}) \cup Permutations({w2, w3})
=============================================================================
