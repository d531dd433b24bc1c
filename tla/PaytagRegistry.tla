--------------------------- MODULE PaytagRegistry ---------------------------
(***************************************************************************)
(* The ownership registry of contracts/src/PaytagRegistry.sol: commit,     *)
(* register and transfer, the block clock they read, and the events they   *)
(* emit.  A transaction that reverts changes nothing, so a revert is a     *)
(* step that is not taken.                                                 *)
(***************************************************************************)
EXTENDS Naturals, Sequences, FiniteSets

CONSTANTS
  Account,      \* the addresses that send transactions (never address(0))
  ZeroAddress,  \* address(0): "no owner", "no record"
  Node,         \* the name hashes
  NoNode,       \* bytes32(0); also what an invalid name normalizes to
  Reserved,     \* the nodes isReserved() lists
  Name,         \* spellings a caller may pass
  NodeOf,       \* spelling -> keccak256(normalize(spelling)), or NoNode: it reverts
  Secret,       \* commitment salts
  MinAge,       \* MIN_COMMITMENT_AGE
  MaxAge,       \* MAX_COMMITMENT_AGE
  EpochSpan,    \* 2^96: the epochs a uint96 tells apart
  MaxTime,      \* bound: the last block timestamp explored
  MaxEvents     \* bound: the events a behaviour emits

ASSUME RegistryConstants ==
  /\ ZeroAddress \notin Account
  /\ NoNode \notin Node
  /\ Reserved \subseteq Node
  /\ NodeOf \in [Name -> Node \cup {NoNode}]
  /\ MinAge \in Nat /\ MaxAge \in Nat
  /\ EpochSpan \in Nat \ {0}
  /\ MaxTime \in Nat /\ MaxEvents \in Nat

VARIABLES
  clock,        \* block.timestamp of the block being built
  names,        \* node -> NameRecord{owner, epoch}
  commitments,  \* committer -> commitment -> committedAt, 0 when there is none
  events,       \* the contracts' event log, oldest first
  caller        \* msg.sender of the last transaction (a history variable)

registryVars == <<clock, names, commitments, events, caller>>

Address == Account \cup {ZeroAddress}
Epoch   == 0 .. EpochSpan - 1

(* The three values a commitment hashes; the hash is collision free.       *)
Commitment == [node : Node, owner : Account, secret : Secret]

RegistryEvent ==
  [event : {"NameRegistered"}, node : Node, owner : Account]
    \cup [event : {"Transfer"}, node : Node, from : Address, to : Account]

NameRegistered(n, a) == [event |-> "NameRegistered", node |-> n, owner |-> a]
TransferBackwards(n, from, to) ==
  [event |-> "Transfer", node |-> n, from |-> to, to |-> from]
Transfer(n, from, to) ==
  [event |-> "Transfer", node |-> n, from |-> from, to |-> to]

Unowned == [owner |-> ZeroAddress, epoch |-> 0]

owner(n) == names[n].owner
epoch(n) == names[n].epoch

RegistryTypeOK ==
  /\ clock \in Nat
  /\ names \in [Node -> [owner : Address, epoch : Epoch]]
  /\ commitments \in [Account -> [Commitment -> Nat]]
  /\ caller \in Address

RegistryInit ==
  /\ clock = 1
  /\ names = [n \in Node |-> Unowned]
  /\ commitments = [a \in Account |-> [c \in Commitment |-> 0]]
  /\ events = <<>>
  /\ caller = ZeroAddress

-----------------------------------------------------------------------------
(* Transactions                                                            *)

SharedCommitted(a, c) ==
  [b \in Account |-> [commitments[b] EXCEPT ![c] = clock]]
Committed(a, c) == [commitments EXCEPT ![a][c] = clock]

(* Anyone may commit any hash, someone else's included; committing again   *)
(* restarts the clock.                                                     *)
commit(a, c) ==
  /\ commitments' = Committed(a, c)
  /\ caller' = a
  /\ UNCHANGED <<clock, names, events>>

RevealableAtOnce(committedAt) ==
  committedAt # 0 /\ clock <= committedAt + MaxAge
Revealable(committedAt) ==
  /\ committedAt # 0
  /\ clock >= committedAt + MinAge
  /\ clock <= committedAt + MaxAge

AnyUnreserved(n) == n \notin Reserved
Available(n) == n \notin Reserved /\ owner(n) = ZeroAddress

register(a, name, secret) ==
  LET n == NodeOf[name]
      c == [node |-> n, owner |-> a, secret |-> secret]
  IN /\ Len(events) + 2 <= MaxEvents
     /\ n # NoNode
     /\ Available(n)
     /\ Revealable(commitments[a][c])
     /\ commitments' = [commitments EXCEPT ![a][c] = 0]
     /\ names' = [names EXCEPT ![n].owner = a]
     /\ events' = events \o <<NameRegistered(n, a), Transfer(n, ZeroAddress, a)>>
     /\ caller' = a
     /\ UNCHANGED clock

UnwrappedEpoch(e) == e + 1
NextEpoch(e) == IF e = EpochSpan - 1 THEN 0 ELSE e + 1   \* unchecked uint96

MayTransferAny(a, n) == owner(n) # ZeroAddress
MayTransfer(a, n) == owner(n) # ZeroAddress /\ owner(n) = a

TransferredSameEpoch(n, to) == [names EXCEPT ![n].owner = to]
EpochAlwaysBumped(n, to) ==
  [names EXCEPT ![n] = [owner |-> to, epoch |-> NextEpoch(epoch(n))]]
Transferred(n, to) ==
  IF to = owner(n) THEN names
  ELSE [names EXCEPT ![n] = [owner |-> to, epoch |-> NextEpoch(epoch(n))]]

(* A transfer to the owner itself still emits its event.                   *)
transfer(a, n, to) ==
  /\ Len(events) + 1 <= MaxEvents
  /\ MayTransfer(a, n)
  /\ to # ZeroAddress
  /\ names' = Transferred(n, to)
  /\ events' = Append(events, Transfer(n, owner(n), to))
  /\ caller' = a
  /\ UNCHANGED <<clock, commitments>>

(* The next block's timestamp is greater.                                  *)
Tick ==
  /\ clock < MaxTime
  /\ clock' = clock + 1
  /\ UNCHANGED <<names, commitments, events, caller>>

RegistryTx ==
  \E a \in Account :
    \/ \E c \in Commitment : commit(a, c)
    \/ \E name \in Name, s \in Secret : register(a, name, s)
    \/ \E n \in Node, to \in Address : transfer(a, n, to)

RegistryNext == RegistryTx \/ Tick

RegistrySpec == RegistryInit /\ [][RegistryNext]_registryVars

-----------------------------------------------------------------------------
(* Properties                                                              *)

TransferAt(i, n) == events[i].event = "Transfer" /\ events[i].node = n
Handover(i, n) == TransferAt(i, n) /\ events[i].from # events[i].to

(* A node's owner is the `to` of its last Transfer event, and a node with  *)
(* no Transfer event has no owner.  namesByOwner finds its candidates this *)
(* way: an owner who was never a Transfer's `to` would be missed.          *)
OwnerMatchesLog ==
  \A n \in Node, a \in Account :
    owner(n) = a <=>
      \E i \in DOMAIN events :
        /\ TransferAt(i, n)
        /\ events[i].to = a
        /\ \A j \in DOMAIN events : TransferAt(j, n) => j <= i

(* A node is registered at most once, ever, however it is transferred      *)
(* afterwards, and never a reserved one.  onchainEventsService keeps the   *)
(* registration it has seen "for good" because of this.                    *)
RegisteredOnce ==
  \A i \in DOMAIN events :
    events[i].event = "NameRegistered" =>
      /\ events[i].node \notin Reserved
      /\ \A j \in DOMAIN events :
           /\ events[j].event = "NameRegistered"
           /\ events[j].node = events[i].node
           => i = j

(* What is read from the log alone is what the registry holds.             *)
LogTellsOwners == OwnerMatchesLog /\ RegisteredOnce

(* A node's epoch is the number of its transfers to a different owner, up  *)
(* to the wrap of a uint96 (the registry's doc of epoch()).                *)
EpochCountsHandovers ==
  \A n \in Node :
    LET handovers ==
          Cardinality({i \in DOMAIN events :
                         Handover(i, n) /\ events[i].from # ZeroAddress})
    IN epoch(n) = handovers % EpochSpan

(* An owned name is never given up, and it changes hands only in a         *)
(* transaction of its owner.                                               *)
OnlyOwnerHandsOver ==
  [][\A n \in Node :
       owner(n) # ZeroAddress /\ owner(n)' # owner(n) =>
         caller' = owner(n) /\ owner(n)' # ZeroAddress]_registryVars

CanReveal(a, n, s) ==
  /\ Available(n)
  /\ Revealable(commitments[a][[node |-> n, owner |-> a, secret |-> s]])

(* Nobody else's transaction takes away a reveal I could make now, except  *)
(* by registering the name first: a commitment hash is public, so another  *)
(* account may commit the same hash, and it must not restart my clock.     *)
RevealsAreIndependent ==
  [][\A a \in Account, n \in Node, s \in Secret :
       CanReveal(a, n, s) /\ caller' # a /\ clock' = clock =>
         CanReveal(a, n, s)' \/ owner(n)' # ZeroAddress]_registryVars

(* Whoever registers a name spends a commitment of their own to that name, *)
(* at least MinAge and at most MaxAge old.  A competitor who learns of the *)
(* name from a reveal seen pending has no such commitment for the next     *)
(* MinAge seconds, which is why a pending reveal can't be raced.           *)
OnlyRipeCommitmentsWin ==
  [][\A n \in Node :
       owner(n) = ZeroAddress /\ owner(n)' # ZeroAddress =>
         \E s \in Secret :
           LET c == [node |-> n, owner |-> owner(n)', secret |-> s]
               committedAt == commitments[owner(n)'][c]
           IN /\ committedAt > 0
              /\ clock - committedAt >= MinAge
              /\ clock - committedAt <= MaxAge
              /\ commitments'[owner(n)'][c] = 0]_registryVars
=============================================================================
