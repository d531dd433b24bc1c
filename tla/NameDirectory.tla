---------------------------- MODULE NameDirectory ----------------------------
(***************************************************************************)
(* What a caller of the two contracts may rely on, without epochs,         *)
(* commitments or events: a flat directory of owned names.  An unowned,    *)
(* unreserved name may be taken by anyone, a handover erases every record, *)
(* and reverse answers only for a claim the current record agrees with.    *)
(***************************************************************************)
CONSTANTS Account, ZeroAddress, Node, NoNode, Reserved, Coin, ETH, Blob, Empty

VARIABLES
  holder,  \* node -> owner, ZeroAddress when free
  record,  \* node -> coin type -> value, Empty when unset
  claim    \* account -> claimed node, NoNode when none

dirVars == <<holder, record, claim>>

Address == Account \cup {ZeroAddress}
NoRecords == [c \in Coin |-> Empty]

Init ==
  /\ holder = [n \in Node |-> ZeroAddress]
  /\ record = [n \in Node |-> NoRecords]
  /\ claim = [a \in Account |-> NoNode]

Register(a, n) ==
  /\ n \notin Reserved
  /\ holder[n] = ZeroAddress
  /\ record[n] = NoRecords
  /\ holder' = [holder EXCEPT ![n] = a]
  /\ UNCHANGED <<record, claim>>

HandOver(a, n, to) ==
  /\ holder[n] = a
  /\ to # a
  /\ holder' = [holder EXCEPT ![n] = to]
  /\ record' = [record EXCEPT ![n] = NoRecords]
  /\ UNCHANGED claim

SetRecord(a, n, c, v) ==
  /\ holder[n] = a
  /\ c = ETH => v \in Account \cup {Empty}
  /\ record' = [record EXCEPT ![n][c] = v]
  /\ UNCHANGED <<holder, claim>>

Claim(a, n) ==
  /\ record[n][ETH] = a
  /\ claim' = [claim EXCEPT ![a] = n]
  /\ UNCHANGED <<holder, record>>

Unclaim(a) ==
  /\ claim' = [claim EXCEPT ![a] = NoNode]
  /\ UNCHANGED <<holder, record>>

Next ==
  \E a \in Account :
    \/ \E n \in Node : Register(a, n) \/ Claim(a, n)
    \/ \E n \in Node, to \in Account : HandOver(a, n, to)
    \/ \E n \in Node, c \in Coin, v \in Address \cup Blob \cup {Empty} :
         SetRecord(a, n, c, v)
    \/ Unclaim(a)

Spec == Init /\ [][Next]_dirVars
=============================================================================
