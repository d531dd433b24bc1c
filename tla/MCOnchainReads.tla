---------------------------- MODULE MCOnchainReads --------------------------
(* Small readers:                                                          *)
(*   reads  a request about one name, while the chain grows and is         *)
(*          reorganised and syncs store what is below the margin. Requests *)
(*          of one machine share only the cache, which may hold any        *)
(*          earlier answer or none                                         *)
(*   sdk    two calls of one client, while the name changes twice          *)
EXTENDS Readers

CONSTANTS r1, me, other, c1, c2
=============================================================================
