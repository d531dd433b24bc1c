--------------------------- MODULE PaytagResolver ---------------------------
(***************************************************************************)
(* The records and reverse claims of contracts/src/PaytagResolver.sol,     *)
(* next to the registry whose owners and epochs they read.  Records live   *)
(* under (node, epoch), so that a transfer hides all of them at once.      *)
(***************************************************************************)
EXTENDS PaytagRegistry

CONSTANTS
  Coin,  \* coin types
  ETH,   \* COIN_TYPE_ETH
  Blob,  \* record values that are neither empty nor 20 bytes long
  Empty  \* the empty value

ASSUME ResolverConstants ==
  /\ ETH \in Coin
  /\ Blob \cap Address = {}
  /\ Empty \notin Blob \cup Address

(* transfer's comment: a uint96 epoch can't overflow in practice.          *)
ASSUME EpochsNeverReused == MaxEvents < EpochSpan

VARIABLES
  ethRecords,  \* node -> epoch -> address, address(0) when unset
  records,     \* node -> epoch -> coin type (not ETH) -> bytes
  claims       \* account -> node it claims (_reverse), NoNode when unset

resolverVars == <<ethRecords, records, claims>>
vars == <<clock, names, commitments, events, caller, ethRecords, records, claims>>

(* A value is bytes: 20 of them are an address.                            *)
Value == Address \cup Blob \cup {Empty}
OtherCoin == Coin \ {ETH}

ResolverEvent ==
  [event : {"RecordSet"}, node : Node, coin : Coin, value : Value]
    \cup [event : {"ReverseSet"}, account : Account, node : Node \cup {NoNode}]

RecordSet(n, coin, v) ==
  [event |-> "RecordSet", node |-> n, coin |-> coin, value |-> v]
ReverseSet(a, n) == [event |-> "ReverseSet", account |-> a, node |-> n]

TypeOK ==
  /\ RegistryTypeOK
  /\ events \in Seq(RegistryEvent \cup ResolverEvent)
  /\ ethRecords \in [Node -> [Epoch -> Address]]
  /\ records \in [Node -> [Epoch -> [OtherCoin -> Value]]]
  /\ claims \in [Account -> Node \cup {NoNode}]

Init ==
  /\ RegistryInit
  /\ ethRecords = [n \in Node |-> [e \in Epoch |-> ZeroAddress]]
  /\ records = [n \in Node |-> [e \in Epoch |-> [c \in OtherCoin |-> Empty]]]
  /\ claims = [a \in Account |-> NoNode]

-----------------------------------------------------------------------------
(* Views                                                                   *)

ethRecord(n) == ethRecords[n][epoch(n)]

(* The record at the node's current epoch.                                 *)
addr(n, coin) ==
  IF coin = ETH
  THEN IF ethRecord(n) = ZeroAddress THEN Empty ELSE ethRecord(n)
  ELSE records[n][epoch(n)][coin]

UnverifiedReverse(a) == claims[a]
reverse(a) ==
  IF claims[a] = NoNode THEN NoNode
  ELSE IF ethRecord(claims[a]) = a THEN claims[a] ELSE NoNode

-----------------------------------------------------------------------------
(* Transactions                                                            *)

MayWriteAny(a, n) == owner(n) # ZeroAddress
MayWrite(a, n) == owner(n) # ZeroAddress /\ owner(n) = a

ValidEthValue(v) == v \notin Blob \cup {ZeroAddress}

RawEth(v) == v
EthOf(v) == IF v = Empty THEN ZeroAddress ELSE v

FirstEpoch(n) == 0
FollowingEpoch(n) == NextEpoch(epoch(n))
RecordEpoch(n) == epoch(n)

setRecord(a, n, coin, v) ==
  /\ Len(events) + 1 <= MaxEvents
  /\ MayWrite(a, n)
  /\ \/ /\ coin = ETH
        /\ ValidEthValue(v)
        /\ ethRecords' = [ethRecords EXCEPT ![n][RecordEpoch(n)] = EthOf(v)]
        /\ UNCHANGED records
     \/ /\ coin # ETH
        /\ records' = [records EXCEPT ![n][RecordEpoch(n)][coin] = v]
        /\ UNCHANGED ethRecords
  /\ events' = Append(events, RecordSet(n, coin, v))
  /\ caller' = a
  /\ UNCHANGED <<clock, names, commitments, claims>>

MayClaimAny(a, n) == TRUE
MayClaim(a, n) == n # NoNode => ethRecord(n) = a

setReverse(a, n) ==
  /\ Len(events) + 1 <= MaxEvents
  /\ MayClaim(a, n)
  /\ claims' = [claims EXCEPT ![a] = n]
  /\ events' = Append(events, ReverseSet(a, n))
  /\ caller' = a
  /\ UNCHANGED <<clock, names, commitments, ethRecords, records>>

ResolverTx ==
  \E a \in Account :
    \/ \E n \in Node, coin \in Coin, v \in Value : setRecord(a, n, coin, v)
    \/ \E n \in Node \cup {NoNode} : setReverse(a, n)

Next == (RegistryNext /\ UNCHANGED resolverVars) \/ ResolverTx

Spec == Init /\ [][Next]_vars

-----------------------------------------------------------------------------
(* Properties                                                              *)

RecordSetAt(i, n, coin) ==
  events[i].event = "RecordSet" /\ events[i].node = n /\ events[i].coin = coin

(* The resolver's rule for indexers: a record is current while neither a   *)
(* transfer to a different owner nor another write has followed it.        *)
CurrentAt(i, n, coin) ==
  /\ RecordSetAt(i, n, coin)
  /\ \A j \in DOMAIN events :
       Handover(j, n) \/ RecordSetAt(j, n, coin) => j <= i

(* addr never returns a record set before the name last changed hands, and *)
(* returns exactly what the last RecordSet since then carried: replaying   *)
(* the log gives every record there is.                                    *)
RecordsMatchLog ==
  \A n \in Node, coin \in Coin :
    /\ \A i \in DOMAIN events :
         CurrentAt(i, n, coin) => addr(n, coin) = events[i].value
    /\ addr(n, coin) # Empty => \E i \in DOMAIN events : CurrentAt(i, n, coin)

ClaimAt(i, a) ==
  /\ events[i].event = "ReverseSet"
  /\ events[i].account = a
  /\ \A j \in DOMAIN events :
       events[j].event = "ReverseSet" /\ events[j].account = a => j <= i

(* reverse(a) is a's last ReverseSet, as long as the log's current ETH     *)
(* record of that node is a: what the resolver tells indexers to compute.  *)
ReverseMatchesLog ==
  \A a \in Account, n \in Node :
    reverse(a) = n <=>
      /\ \E i \in DOMAIN events : ClaimAt(i, a) /\ events[i].node = n
      /\ \E i \in DOMAIN events : CurrentAt(i, n, ETH) /\ events[i].value = a

(* A name's records change only in a transaction of its owner: nobody else *)
(* can write one, and no transaction of the registry alters one without    *)
(* the owner handing the name over.                                        *)
OnlyOwnerChangesRecords ==
  [][\A n \in Node, coin \in Coin :
       addr(n, coin)' # addr(n, coin) => caller' = owner(n)]_vars

(* A handover hides every record of the name in the step that makes it.    *)
HandoverHidesRecords ==
  [][\A n \in Node, coin \in Coin :
       owner(n)' # owner(n) => addr(n, coin)' = Empty]_vars

(* The inductive part of the above: an epoch not reached yet is empty, and *)
(* a node's epoch is not above the number of events so far.                *)
FutureEpochsEmpty ==
  \A n \in Node :
    /\ epoch(n) <= Len(events)
    /\ \A e \in Epoch :
         e > epoch(n) \/ owner(n) = ZeroAddress =>
           /\ ethRecords[n][e] = ZeroAddress
           /\ \A c \in OtherCoin : records[n][e][c] = Empty

(* The directory the two contracts promise together: no epochs, no log, no *)
(* commitments; a handover erases the records.                             *)
Directory ==
  INSTANCE NameDirectory WITH
    holder <- [n \in Node |-> owner(n)],
    record <- [n \in Node |-> [c \in Coin |-> addr(n, c)]],
    claim  <- claims

(* Every step of the contracts is a step of the directory, or none.        *)
ImplementsDirectory == Directory!Spec
=============================================================================
