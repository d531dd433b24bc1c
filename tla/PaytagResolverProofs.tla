------------------------ MODULE PaytagResolverProofs ------------------------
(***************************************************************************)
(* Proofs about the two contracts together, for every set of accounts,     *)
(* names, coins and values: their types, that epochs hide a previous       *)
(* owner's records, and that they implement the epoch-free NameDirectory.  *)
(***************************************************************************)
EXTENDS PaytagResolver, PaytagRegistryProofs

USE RegistryConstants, ResolverConstants

LogEvent == RegistryEvent \cup ResolverEvent

LEMMA InitTypeOK == Init => TypeOK
<1>1. 0 \in Epoch /\ ZeroAddress \in Address /\ Empty \in Value
  BY DEF Epoch, Address, Value
<1>2. Init => events \in Seq(RegistryEvent \cup ResolverEvent)
  BY DEF Init, RegistryInit
<1>3. QED
  BY <1>1, <1>2, InitTypes DEF Init, TypeOK

LEMMA RegistryKeepsTypes ==
  ASSUME TypeOK, RegistryNext, UNCHANGED resolverVars
  PROVE  TypeOK'
<1>1. RegistryTypeOK'
  BY RegistryStepTypes DEF TypeOK
<1>2. events' \in Seq(LogEvent)
  <2>1. RegistryEvent \subseteq LogEvent /\ events \in Seq(LogEvent)
    BY DEF TypeOK, LogEvent
  <2>2. CASE Tick
    BY <2>1, <2>2 DEF Tick
  <2>3. ASSUME NEW a \in Account, NEW c \in Commitment, commit(a, c)
        PROVE  events' \in Seq(LogEvent)
    BY <2>1, <2>3 DEF commit
  <2>4. ASSUME NEW a \in Account, NEW name \in Name, NEW s \in Secret,
               register(a, name, s)
        PROVE  events' \in Seq(LogEvent)
    BY <2>1, <2>4, RegisterLog DEF TypeOK
  <2>5. ASSUME NEW a \in Account, NEW n \in Node, NEW to \in Address,
               transfer(a, n, to)
        PROVE  events' \in Seq(LogEvent)
    BY <2>1, <2>5, TransferLog DEF TypeOK
  <2>6. QED
    BY <2>2, <2>3, <2>4, <2>5 DEF RegistryNext, RegistryTx
<1>3. QED
  BY <1>1, <1>2 DEF TypeOK, resolverVars, LogEvent

(* What a write does, in terms of the log and the two record mappings.     *)
LEMMA SetRecordStep ==
  ASSUME TypeOK, NEW a \in Account, NEW n \in Node, NEW coin \in Coin,
         NEW v \in Value, setRecord(a, n, coin, v)
  PROVE  /\ owner(n) = a /\ epoch(n) \in Epoch
         /\ names' = names
         /\ events' \in Seq(LogEvent)
         /\ Extends(1)
         /\ events'[Len(events) + 1] = RecordSet(n, coin, v)
         /\ ethRecords' \in [Node -> [Epoch -> Address]]
         /\ records' \in [Node -> [Epoch -> [OtherCoin -> Value]]]
         /\ coin = ETH => v \in Account \cup {Empty} /\ UNCHANGED records
         /\ coin # ETH => UNCHANGED ethRecords
         /\ \A m \in Node, e \in Epoch :
              ethRecords'[m][e] =
                IF coin = ETH /\ m = n /\ e = epoch(n) THEN EthOf(v)
                ELSE ethRecords[m][e]
         /\ \A m \in Node, e \in Epoch, c \in OtherCoin :
              records'[m][e][c] =
                IF c = coin /\ m = n /\ e = epoch(n) THEN v
                ELSE records[m][e][c]
<1>1. owner(n) = a /\ names' = names
  BY DEF setRecord, MayWrite
<1>2. epoch(n) \in Epoch
  BY DEF TypeOK, RegistryTypeOK, epoch
<1>3. RecordSet(n, coin, v) \in LogEvent
  BY DEF RecordSet, LogEvent, ResolverEvent
<1>4. events' = Append(events, RecordSet(n, coin, v)) /\ events \in Seq(LogEvent)
  BY DEF setRecord, TypeOK, LogEvent
<1>5. /\ events' \in Seq(LogEvent) /\ Extends(1)
      /\ events'[Len(events) + 1] = RecordSet(n, coin, v)
  BY <1>3, <1>4 DEF Extends
<1>6. CASE coin = ETH
  <2>1. /\ v \in Account \cup {Empty}
        /\ ethRecords' = [ethRecords EXCEPT ![n][epoch(n)] = EthOf(v)]
        /\ UNCHANGED records
    BY <1>6 DEF setRecord, ValidEthValue, Value, Address, RecordEpoch
  <2>2. EthOf(v) \in Address
    BY <2>1 DEF EthOf, Address
  <2>3. /\ ethRecords' \in [Node -> [Epoch -> Address]]
        /\ \A m \in Node, e \in Epoch :
             ethRecords'[m][e] = IF m = n /\ e = epoch(n) THEN EthOf(v)
                                 ELSE ethRecords[m][e]
    BY <1>2, <2>1, <2>2 DEF TypeOK
  <2>4. QED
    BY <1>1, <1>2, <1>5, <1>6, <2>1, <2>3 DEF TypeOK, OtherCoin
<1>7. CASE coin # ETH
  <2>1. /\ coin \in OtherCoin
        /\ records' = [records EXCEPT ![n][epoch(n)][coin] = v]
        /\ UNCHANGED ethRecords
    BY <1>7 DEF setRecord, OtherCoin, RecordEpoch
  <2>2. /\ records' \in [Node -> [Epoch -> [OtherCoin -> Value]]]
        /\ \A m \in Node, e \in Epoch, c \in OtherCoin :
             records'[m][e][c] = IF c = coin /\ m = n /\ e = epoch(n) THEN v
                                 ELSE records[m][e][c]
    BY <1>2, <2>1 DEF TypeOK
  <2>3. QED
    BY <1>1, <1>2, <1>5, <1>7, <2>1, <2>2 DEF TypeOK
<1>8. QED
  BY <1>6, <1>7

LEMMA SetReverseStep ==
  ASSUME TypeOK, NEW a \in Account, NEW n \in Node \cup {NoNode}, setReverse(a, n)
  PROVE  /\ events' \in Seq(LogEvent)
         /\ Extends(1)
         /\ events'[Len(events) + 1] = ReverseSet(a, n)
         /\ TypeOK'
<1>1. ReverseSet(a, n) \in LogEvent
  BY DEF ReverseSet, LogEvent, ResolverEvent
<1>2. events' = Append(events, ReverseSet(a, n)) /\ events \in Seq(LogEvent)
  BY DEF setReverse, TypeOK, LogEvent
<1>3. /\ events' \in Seq(LogEvent) /\ Extends(1)
      /\ events'[Len(events) + 1] = ReverseSet(a, n)
  BY <1>1, <1>2 DEF Extends
<1>4. QED
  BY <1>3 DEF setReverse, TypeOK, RegistryTypeOK, Address, LogEvent

LEMMA StepTypeOK == TypeOK /\ [Next]_vars => TypeOK'
<1> SUFFICES ASSUME TypeOK, [Next]_vars PROVE TypeOK'
  OBVIOUS
<1>1. CASE UNCHANGED vars
  BY <1>1 DEF vars, TypeOK, RegistryTypeOK
<1>2. CASE RegistryNext /\ UNCHANGED resolverVars
  BY <1>2, RegistryKeepsTypes
<1>3. ASSUME NEW a \in Account, NEW n \in Node, NEW coin \in Coin, NEW v \in Value,
             setRecord(a, n, coin, v)
      PROVE  TypeOK'
  <2>1. /\ events' \in Seq(LogEvent)
        /\ ethRecords' \in [Node -> [Epoch -> Address]]
        /\ records' \in [Node -> [Epoch -> [OtherCoin -> Value]]]
    BY <1>3, SetRecordStep
  <2>2. QED
    BY <1>3, <2>1 DEF setRecord, TypeOK, RegistryTypeOK, Address, LogEvent
<1>4. ASSUME NEW a \in Account, NEW n \in Node \cup {NoNode}, setReverse(a, n)
      PROVE  TypeOK'
  BY <1>4, SetReverseStep
<1>5. QED
  BY <1>1, <1>2, <1>3, <1>4 DEF Next, ResolverTx

(* Every variable of the two contracts stays in its type, for every        *)
(* instance.                                                               *)
THEOREM TypeCorrect == Spec => []TypeOK
  BY InitTypeOK, StepTypeOK, PTL DEF Spec

-----------------------------------------------------------------------------
(* Epochs.  The invariant carries the two facts FutureEpochsEmpty is made  *)
(* of; with EpochsNeverReused, a handover then moves to an epoch that is   *)
(* above the old one and was never written.                                *)

EpochInv == TypeOK /\ FutureEpochsEmpty

LEMMA HandoverEpoch ==
  ASSUME EpochInv, NEW n \in Node, Len(events) + 1 <= MaxEvents
  PROVE  NextEpoch(epoch(n)) = epoch(n) + 1 /\ epoch(n) + 1 \in Epoch
<1>1. epoch(n) \in Nat /\ epoch(n) <= Len(events) /\ Len(events) \in Nat
  BY DEF EpochInv, TypeOK, RegistryTypeOK, FutureEpochsEmpty, epoch, Epoch
<1>2. QED
  BY <1>1, EpochsNeverReused DEF NextEpoch, Epoch

LEMMA RegisterEpochs ==
  ASSUME EpochInv, NEW a \in Account, NEW name \in Name, NEW s \in Secret,
         register(a, name, s), UNCHANGED resolverVars
  PROVE  FutureEpochsEmpty'
<1> DEFINE n == NodeOf[name]
<1>1. /\ n \in Node /\ owner(n) = ZeroAddress
      /\ names' = [names EXCEPT ![n].owner = a]
      /\ Len(events') = Len(events) + 2
      /\ Len(events) \in Nat
  <2>1. RegistryEvent \subseteq LogEvent /\ events \in Seq(LogEvent) /\ RegistryTypeOK
    BY DEF LogEvent, EpochInv, TypeOK
  <2>2. QED
    BY <2>1, RegisterLog DEF Extends
<1> HIDE DEF n
<1>2. \A m \in Node : /\ epoch(m)' = epoch(m) /\ epoch(m) \in Nat
                      /\ owner(m)' = ZeroAddress => owner(m) = ZeroAddress
  BY <1>1 DEF epoch, owner, EpochInv, TypeOK, RegistryTypeOK, Epoch
<1>3. QED
  BY <1>1, <1>2 DEF EpochInv, FutureEpochsEmpty, resolverVars

LEMMA TransferEpochs ==
  ASSUME EpochInv, NEW a \in Account, NEW n \in Node, NEW to \in Address,
         transfer(a, n, to), UNCHANGED resolverVars
  PROVE  FutureEpochsEmpty'
<1>1. /\ owner(n) = a /\ to \in Account
      /\ names' = Transferred(n, to)
      /\ Len(events') = Len(events) + 1
      /\ Len(events) \in Nat
  <2>1. RegistryEvent \subseteq LogEvent /\ events \in Seq(LogEvent) /\ RegistryTypeOK
    BY DEF LogEvent, EpochInv, TypeOK
  <2>2. QED
    BY <2>1, TransferLog DEF Extends
<1>2. NextEpoch(epoch(n)) = epoch(n) + 1
  BY HandoverEpoch DEF transfer
<1>3. \A m \in Node : /\ epoch(m) \in Nat
                      /\ epoch(m)' = epoch(m) \/ (m = n /\ epoch(m)' = epoch(m) + 1)
                      /\ owner(m)' = ZeroAddress => owner(m) = ZeroAddress
  BY <1>1, <1>2 DEF epoch, owner, EpochInv, TypeOK, RegistryTypeOK, Epoch, Transferred
<1>4. QED
  <2> SUFFICES ASSUME NEW m \in Node
               PROVE  /\ epoch(m)' <= Len(events')
                      /\ \A e \in Epoch : 
                           e > epoch(m)' \/ owner(m)' = ZeroAddress =>
                             /\ ethRecords[m][e] = ZeroAddress
                             /\ \A c \in OtherCoin : records[m][e][c] = Empty
    BY DEF FutureEpochsEmpty, resolverVars
  <2>1. epoch(m) <= Len(events) /\ epoch(m)' <= Len(events')
    BY <1>1, <1>3 DEF EpochInv, FutureEpochsEmpty
  <2>2. \A e \in Epoch : e \in Nat /\ (e > epoch(m)' => e > epoch(m))
    BY <1>3 DEF Epoch
  <2>3. QED
    BY <1>3, <2>1, <2>2 DEF EpochInv, FutureEpochsEmpty

LEMMA SetRecordEpochs ==
  ASSUME EpochInv, NEW a \in Account, NEW n \in Node, NEW coin \in Coin,
         NEW v \in Value, setRecord(a, n, coin, v)
  PROVE  FutureEpochsEmpty'
<1>1. /\ owner(n) = a
      /\ names' = names
      /\ Len(events') = Len(events) + 1
      /\ \A m \in Node, e \in Epoch :
           ethRecords'[m][e] =
             IF coin = ETH /\ m = n /\ e = epoch(n) THEN EthOf(v)
             ELSE ethRecords[m][e]
      /\ \A m \in Node, e \in Epoch, c \in OtherCoin :
           records'[m][e][c] =
             IF c = coin /\ m = n /\ e = epoch(n) THEN v
             ELSE records[m][e][c]
  BY SetRecordStep DEF EpochInv, Extends
<1>2. \A m \in Node : epoch(m)' = epoch(m) /\ owner(m)' = owner(m) /\ epoch(m) \in Nat
  BY <1>1 DEF epoch, owner, EpochInv, TypeOK, RegistryTypeOK, Epoch
<1>3. \A e \in Epoch : e \in Nat
  BY DEF Epoch
<1>4. Len(events) \in Nat /\ a # ZeroAddress
  BY DEF EpochInv, TypeOK
<1>5. QED
  <2> SUFFICES ASSUME NEW m \in Node
               PROVE  /\ epoch(m)' <= Len(events')
                      /\ \A e \in Epoch : 
                           e > epoch(m)' \/ owner(m)' = ZeroAddress =>
                             /\ ethRecords'[m][e] = ZeroAddress
                             /\ \A c \in OtherCoin : records'[m][e][c] = Empty
    BY DEF FutureEpochsEmpty
  <2>1. epoch(m) <= Len(events)
    BY DEF EpochInv, FutureEpochsEmpty
  <2>2. epoch(m)' <= Len(events')
    BY <1>1, <1>2, <1>4, <2>1
  <2>3. ASSUME NEW e \in Epoch, e > epoch(m) \/ owner(m) = ZeroAddress
        PROVE  /\ ~ (m = n /\ e = epoch(n))
               /\ ethRecords[m][e] = ZeroAddress
               /\ \A c \in OtherCoin : records[m][e][c] = Empty
    BY <1>1, <1>2, <1>3, <1>4, <2>3 DEF EpochInv, FutureEpochsEmpty
  <2>4. QED
    BY <1>1, <1>2, <2>2, <2>3

LEMMA QuietEpochs ==
  ASSUME EpochInv, UNCHANGED <<names, ethRecords, records>>,
         Len(events') \in Nat, Len(events) <= Len(events')
  PROVE  FutureEpochsEmpty'
<1>1. Len(events) \in Nat /\ \A m \in Node : epoch(m) \in Nat /\ epoch(m)' = epoch(m)
  BY DEF EpochInv, TypeOK, RegistryTypeOK, epoch, Epoch
<1>2. QED
  BY <1>1 DEF EpochInv, FutureEpochsEmpty, epoch, owner

LEMMA StepEpochs == EpochInv /\ [Next]_vars => EpochInv'
<1> SUFFICES ASSUME EpochInv, [Next]_vars PROVE FutureEpochsEmpty'
  BY StepTypeOK DEF EpochInv
<1>1. Len(events) \in Nat
  BY DEF EpochInv, TypeOK
<1>2. CASE UNCHANGED vars
  BY <1>1, <1>2, QuietEpochs DEF vars
<1>3. CASE Tick /\ UNCHANGED resolverVars
  BY <1>1, <1>3, QuietEpochs DEF Tick, resolverVars
<1>4. ASSUME NEW a \in Account, NEW c \in Commitment, commit(a, c),
             UNCHANGED resolverVars
      PROVE  FutureEpochsEmpty'
  BY <1>1, <1>4, QuietEpochs DEF commit, resolverVars
<1>5. ASSUME NEW a \in Account, NEW n \in Node \cup {NoNode}, setReverse(a, n)
      PROVE  FutureEpochsEmpty'
  <2>1. Len(events') = Len(events) + 1
    BY <1>5, SetReverseStep DEF EpochInv, Extends
  <2>2. QED
    BY <1>1, <1>5, <2>1, QuietEpochs DEF setReverse
<1>6. QED
  BY <1>2, <1>3, <1>4, <1>5, RegisterEpochs, TransferEpochs, SetRecordEpochs
     DEF Next, RegistryNext, RegistryTx, ResolverTx

LEMMA EpochInvCorrect == Spec => []EpochInv
<1>1. Init => EpochInv
  BY InitTypeOK DEF Init, RegistryInit, EpochInv, FutureEpochsEmpty, Unowned, epoch, owner
<1>2. QED
  BY <1>1, StepEpochs, PTL DEF Spec

(* No epoch above a name's current one, and no epoch of a free name, has   *)
(* ever been written: a new owner starts from empty records.  It holds     *)
(* while a behaviour has fewer events than there are epochs.               *)
THEOREM FutureEpochsCorrect == Spec => []FutureEpochsEmpty
<1>1. EpochInv => FutureEpochsEmpty
  BY DEF EpochInv
<1>2. QED
  BY <1>1, EpochInvCorrect, PTL

-----------------------------------------------------------------------------
(* What each transaction does to the directory: owners and visible records.*)

LEMMA RegisterView ==
  ASSUME EpochInv, NEW a \in Account, NEW name \in Name, NEW s \in Secret,
         register(a, name, s), UNCHANGED resolverVars
  PROVE  LET n == NodeOf[name]
         IN /\ n \in Node /\ n \notin Reserved /\ owner(n) = ZeroAddress
            /\ \A m \in Node : owner(m)' = IF m = n THEN a ELSE owner(m)
            /\ \A m \in Node, c \in Coin : addr(m, c)' = addr(m, c)
            /\ \A c \in Coin : addr(n, c) = Empty
<1> DEFINE n == NodeOf[name]
<1>1. /\ n \in Node /\ n \notin Reserved /\ owner(n) = ZeroAddress
      /\ names' = [names EXCEPT ![n].owner = a]
  <2>1. RegistryEvent \subseteq LogEvent /\ events \in Seq(LogEvent) /\ RegistryTypeOK
    BY DEF LogEvent, EpochInv, TypeOK
  <2>2. QED
    BY <2>1, RegisterLog
<1> HIDE DEF n
<1>2. \A m \in Node : /\ epoch(m)' = epoch(m) /\ epoch(m) \in Epoch
                      /\ owner(m)' = IF m = n THEN a ELSE owner(m)
  BY <1>1 DEF epoch, owner, EpochInv, TypeOK, RegistryTypeOK
<1>3. \A m \in Node, c \in Coin : addr(m, c)' = addr(m, c)
  BY <1>2 DEF addr, ethRecord, resolverVars
<1>4. \A c \in Coin : addr(n, c) = Empty
  BY <1>1, <1>2 DEF addr, ethRecord, EpochInv, FutureEpochsEmpty, OtherCoin
<1>5. QED
  BY <1>1, <1>2, <1>3, <1>4 DEF n

LEMMA TransferView ==
  ASSUME EpochInv, NEW a \in Account, NEW n \in Node, NEW to \in Address,
         transfer(a, n, to), UNCHANGED resolverVars
  PROVE  /\ owner(n) = a /\ to \in Account
         /\ \A m \in Node : owner(m)' = IF m = n THEN to ELSE owner(m)
         /\ \A m \in Node, c \in Coin :
              addr(m, c)' = IF m = n /\ to # a THEN Empty ELSE addr(m, c)
<1>1. owner(n) = a /\ to \in Account /\ names' = Transferred(n, to)
  <2>1. RegistryEvent \subseteq LogEvent /\ events \in Seq(LogEvent) /\ RegistryTypeOK
    BY DEF LogEvent, EpochInv, TypeOK
  <2>2. QED
    BY <2>1, TransferLog
<1>2. NextEpoch(epoch(n)) = epoch(n) + 1 /\ epoch(n) + 1 \in Epoch
  BY HandoverEpoch DEF transfer
<1>3. \A m \in Node :
        /\ epoch(m) \in Nat
        /\ owner(m)' = IF m = n THEN to ELSE owner(m)
        /\ epoch(m)' = IF m = n /\ to # a THEN epoch(m) + 1 ELSE epoch(m)
  BY <1>1, <1>2 DEF epoch, owner, EpochInv, TypeOK, RegistryTypeOK, Epoch, Transferred
<1>4. ASSUME NEW c \in Coin, to # a
      PROVE  addr(n, c)' = Empty
  <2>1. epoch(n)' = epoch(n) + 1 /\ epoch(n) + 1 > epoch(n)
    BY <1>3, <1>4
  <2>2. /\ ethRecords[n][epoch(n) + 1] = ZeroAddress
        /\ \A d \in OtherCoin : records[n][epoch(n) + 1][d] = Empty
    BY <1>2, <2>1 DEF EpochInv, FutureEpochsEmpty
  <2>3. QED
    BY <2>1, <2>2 DEF addr, ethRecord, resolverVars, OtherCoin
<1>5. ASSUME NEW m \in Node, NEW c \in Coin, ~ (m = n /\ to # a)
      PROVE  addr(m, c)' = addr(m, c)
  BY <1>3, <1>5 DEF addr, ethRecord, resolverVars
<1>6. QED
  BY <1>1, <1>3, <1>4, <1>5

LEMMA SetRecordView ==
  ASSUME EpochInv, NEW a \in Account, NEW n \in Node, NEW coin \in Coin,
         NEW v \in Value, setRecord(a, n, coin, v)
  PROVE  /\ owner(n) = a
         /\ coin = ETH => v \in Account \cup {Empty}
         /\ \A m \in Node : owner(m)' = owner(m)
         /\ \A m \in Node, c \in Coin :
              addr(m, c)' = IF m = n /\ c = coin THEN v ELSE addr(m, c)
<1>1. /\ owner(n) = a /\ names' = names
      /\ coin = ETH => v \in Account \cup {Empty}
      /\ \A m \in Node, e \in Epoch :
           ethRecords'[m][e] =
             IF coin = ETH /\ m = n /\ e = epoch(n) THEN EthOf(v)
             ELSE ethRecords[m][e]
      /\ \A m \in Node, e \in Epoch, c \in OtherCoin :
           records'[m][e][c] =
             IF c = coin /\ m = n /\ e = epoch(n) THEN v
             ELSE records[m][e][c]
  BY SetRecordStep DEF EpochInv
<1>2. \A m \in Node : /\ epoch(m)' = epoch(m) /\ epoch(m) \in Epoch
                      /\ owner(m)' = owner(m)
  BY <1>1 DEF epoch, owner, EpochInv, TypeOK, RegistryTypeOK
<1>3. ASSUME NEW m \in Node
      PROVE  addr(m, ETH)' = IF m = n /\ ETH = coin THEN v ELSE addr(m, ETH)
  <2>1. ethRecord(m)' = IF coin = ETH /\ m = n THEN EthOf(v) ELSE ethRecord(m)
    BY <1>1, <1>2 DEF ethRecord
  <2>2. coin = ETH =>
          (IF EthOf(v) = ZeroAddress THEN Empty ELSE EthOf(v)) = v
    BY <1>1 DEF EthOf, Address
  <2>3. QED
    BY <2>1, <2>2 DEF addr
<1>4. ASSUME NEW m \in Node, NEW c \in OtherCoin
      PROVE  addr(m, c)' = IF m = n /\ c = coin THEN v ELSE addr(m, c)
  BY <1>1, <1>2 DEF addr, OtherCoin
<1>5. QED
  BY <1>1, <1>2, <1>3, <1>4 DEF OtherCoin

LEMMA QuietView ==
  ASSUME UNCHANGED <<names, ethRecords, records>>
  PROVE  /\ \A m \in Node : owner(m)' = owner(m)
         /\ \A m \in Node, c \in Coin : addr(m, c)' = addr(m, c)
  BY DEF owner, addr, ethRecord, epoch

(* The steps that leave the directory's owners and records alone.          *)
LEMMA OtherSteps ==
  ASSUME [Next]_vars
  PROVE  \/ \E a \in Account, name \in Name, s \in Secret :
              register(a, name, s) /\ UNCHANGED resolverVars
         \/ \E a \in Account, n \in Node, to \in Address :
              transfer(a, n, to) /\ UNCHANGED resolverVars
         \/ \E a \in Account, n \in Node, coin \in Coin, v \in Value :
              setRecord(a, n, coin, v)
         \/ \E a \in Account, n \in Node \cup {NoNode} : setReverse(a, n)
         \/ UNCHANGED <<names, ethRecords, records, claims, events>>
<1>1. CASE UNCHANGED vars
  BY <1>1 DEF vars
<1>2. CASE RegistryNext /\ UNCHANGED resolverVars
  BY <1>2 DEF RegistryNext, RegistryTx, Tick, commit, resolverVars
<1>3. CASE ResolverTx
  BY <1>3 DEF ResolverTx
<1>4. QED
  BY <1>1, <1>2, <1>3 DEF Next

LEMMA StepOwnership ==
  EpochInv /\ [Next]_vars =>
    \A n \in Node, coin \in Coin :
      /\ owner(n)' # owner(n) => addr(n, coin)' = Empty
      /\ addr(n, coin)' # addr(n, coin) => caller' = owner(n)
<1> SUFFICES ASSUME EpochInv, [Next]_vars, NEW n \in Node, NEW coin \in Coin
             PROVE  /\ owner(n)' # owner(n) => addr(n, coin)' = Empty
                    /\ addr(n, coin)' # addr(n, coin) => caller' = owner(n)
  OBVIOUS
<1>1. ASSUME NEW a \in Account, NEW name \in Name, NEW s \in Secret,
             register(a, name, s), UNCHANGED resolverVars
      PROVE  /\ owner(n)' # owner(n) => addr(n, coin)' = Empty
             /\ addr(n, coin)' # addr(n, coin) => caller' = owner(n)
  BY <1>1, RegisterView
<1>2. ASSUME NEW a \in Account, NEW m \in Node, NEW to \in Address,
             transfer(a, m, to), UNCHANGED resolverVars
      PROVE  /\ owner(n)' # owner(n) => addr(n, coin)' = Empty
             /\ addr(n, coin)' # addr(n, coin) => caller' = owner(n)
  BY <1>2, TransferView DEF transfer
<1>3. ASSUME NEW a \in Account, NEW m \in Node, NEW c \in Coin, NEW v \in Value,
             setRecord(a, m, c, v)
      PROVE  /\ owner(n)' # owner(n) => addr(n, coin)' = Empty
             /\ addr(n, coin)' # addr(n, coin) => caller' = owner(n)
  BY <1>3, SetRecordView DEF setRecord
<1>4. ASSUME NEW a \in Account, NEW m \in Node \cup {NoNode}, setReverse(a, m)
      PROVE  UNCHANGED <<names, ethRecords, records>>
  BY <1>4 DEF setReverse
<1>5. QED
  BY <1>1, <1>2, <1>3, <1>4, OtherSteps, QuietView

(* A step that changes a name's owner leaves the name without any record,  *)
(* for every instance: no record survives a transfer.                      *)
THEOREM HandoverHidesCorrect == Spec => HandoverHidesRecords
<1>1. EpochInv /\ [Next]_vars =>
        [\A n \in Node, coin \in Coin :
           owner(n)' # owner(n) => addr(n, coin)' = Empty]_vars
  BY StepOwnership
<1>2. QED
  BY <1>1, EpochInvCorrect, PTL DEF Spec, HandoverHidesRecords

(* A visible record changes only in a transaction of the name's owner.     *)
THEOREM OnlyOwnerChangesCorrect == Spec => OnlyOwnerChangesRecords
<1>1. EpochInv /\ [Next]_vars =>
        [\A n \in Node, coin \in Coin :
           addr(n, coin)' # addr(n, coin) => caller' = owner(n)]_vars
  BY StepOwnership
<1>2. QED
  BY <1>1, EpochInvCorrect, PTL DEF Spec, OnlyOwnerChangesRecords

-----------------------------------------------------------------------------
(* Refinement: every step of the contracts is a step of the directory.     *)

LEMMA DirectoryInit == Init => Directory!Init
<1> SUFFICES ASSUME Init PROVE Directory!Init
  OBVIOUS
<1>1. \A n \in Node : owner(n) = ZeroAddress /\ epoch(n) = 0
  BY DEF Init, RegistryInit, Unowned, owner, epoch
<1>2. 0 \in Epoch
  BY DEF Epoch
<1>3. \A n \in Node, c \in Coin : addr(n, c) = Empty
  BY <1>1, <1>2 DEF Init, addr, ethRecord, OtherCoin
<1>4. QED
  BY <1>1, <1>3 DEF Init, Directory!Init, Directory!NoRecords

LEMMA DirectoryRegister ==
  ASSUME EpochInv, NEW a \in Account, NEW name \in Name, NEW s \in Secret,
         register(a, name, s), UNCHANGED resolverVars
  PROVE  Directory!Next
<1> DEFINE n == NodeOf[name]
<1>1. /\ n \in Node /\ n \notin Reserved /\ owner(n) = ZeroAddress
      /\ \A m \in Node : owner(m)' = IF m = n THEN a ELSE owner(m)
      /\ \A m \in Node, c \in Coin : addr(m, c)' = addr(m, c)
      /\ \A c \in Coin : addr(n, c) = Empty
  BY RegisterView
<1> HIDE DEF n
<1>2. Directory!Register(a, n)
  BY <1>1 DEF Directory!Register, Directory!NoRecords, resolverVars
<1>3. QED
  BY <1>1, <1>2 DEF Directory!Next

LEMMA DirectoryTransfer ==
  ASSUME EpochInv, NEW a \in Account, NEW n \in Node, NEW to \in Address,
         transfer(a, n, to), UNCHANGED resolverVars
  PROVE  [Directory!Next]_(Directory!dirVars)
<1>1. /\ owner(n) = a /\ to \in Account
      /\ \A m \in Node : owner(m)' = IF m = n THEN to ELSE owner(m)
      /\ \A m \in Node, c \in Coin :
           addr(m, c)' = IF m = n /\ to # a THEN Empty ELSE addr(m, c)
  BY TransferView
<1>2. CASE to = a
  BY <1>1, <1>2 DEF Directory!dirVars, resolverVars
<1>3. CASE to # a
  <2>1. Directory!HandOver(a, n, to)
    BY <1>1, <1>3 DEF Directory!HandOver, Directory!NoRecords, resolverVars
  <2>2. QED
    BY <1>1, <2>1 DEF Directory!Next
<1>4. QED
  BY <1>2, <1>3

LEMMA DirectorySetRecord ==
  ASSUME EpochInv, NEW a \in Account, NEW n \in Node, NEW coin \in Coin,
         NEW v \in Value, setRecord(a, n, coin, v)
  PROVE  Directory!Next
<1>1. /\ owner(n) = a
      /\ coin = ETH => v \in Account \cup {Empty}
      /\ \A m \in Node : owner(m)' = owner(m)
      /\ \A m \in Node, c \in Coin :
           addr(m, c)' = IF m = n /\ c = coin THEN v ELSE addr(m, c)
  BY SetRecordView
<1>2. UNCHANGED claims
  BY DEF setRecord
<1>3. Directory!SetRecord(a, n, coin, v)
  BY <1>1, <1>2 DEF Directory!SetRecord
<1>4. QED
  BY <1>3 DEF Directory!Next, Directory!Address, Value, Address

LEMMA DirectoryClaim ==
  ASSUME EpochInv, NEW a \in Account, NEW n \in Node \cup {NoNode}, setReverse(a, n)
  PROVE  Directory!Next
<1>1. /\ \A m \in Node : owner(m)' = owner(m)
      /\ \A m \in Node, c \in Coin : addr(m, c)' = addr(m, c)
      /\ claims' = [claims EXCEPT ![a] = n]
      /\ n # NoNode => ethRecord(n) = a
  BY QuietView DEF setReverse, MayClaim
<1>2. CASE n = NoNode
  <2>1. Directory!Unclaim(a)
    BY <1>1, <1>2 DEF Directory!Unclaim
  <2>2. QED
    BY <2>1 DEF Directory!Next
<1>3. CASE n # NoNode
  <2>1. n \in Node /\ addr(n, ETH) = a
    BY <1>1, <1>3 DEF addr
  <2>2. Directory!Claim(a, n)
    BY <1>1, <2>1 DEF Directory!Claim
  <2>3. QED
    BY <2>1, <2>2 DEF Directory!Next
<1>4. QED
  BY <1>2, <1>3

LEMMA DirectoryStep ==
  EpochInv /\ [Next]_vars => [Directory!Next]_(Directory!dirVars)
<1> SUFFICES ASSUME EpochInv, [Next]_vars
             PROVE  [Directory!Next]_(Directory!dirVars)
  OBVIOUS
<1>1. CASE UNCHANGED <<names, ethRecords, records, claims, events>>
  BY <1>1, QuietView DEF Directory!dirVars
<1>2. QED
  BY <1>1, OtherSteps, DirectoryRegister, DirectoryTransfer, DirectorySetRecord,
     DirectoryClaim

(* The two contracts implement the epoch-free directory: to a caller, a    *)
(* handover erases records, and nothing else about epochs, commitments or  *)
(* events is visible.                                                      *)
THEOREM DirectoryImplemented == Spec => ImplementsDirectory
  BY DirectoryInit, DirectoryStep, EpochInvCorrect, PTL
     DEF Spec, ImplementsDirectory, Directory!Spec

-----------------------------------------------------------------------------
(* The log and the records.                                                *)

RecordLogInv == EpochInv /\ RecordsMatchLog

(* Events that are neither a handover of n nor a write of (n, coin) leave  *)
(* the log's record of (n, coin) as it was.                                *)
LEMMA LogUntouched ==
  ASSUME RecordLogInv, NEW k \in Nat, Extends(k), events' \in Seq(LogEvent),
         NEW n \in Node, NEW coin \in Coin,
         \A i \in Len(events) + 1 .. Len(events) + k :
           ~ Handover(i, n)' /\ ~ RecordSetAt(i, n, coin)',
         addr(n, coin)' = addr(n, coin)
  PROVE  /\ \A i \in DOMAIN events' :
              CurrentAt(i, n, coin)' => addr(n, coin)' = events'[i].value
         /\ addr(n, coin)' # Empty =>
              \E i \in DOMAIN events' : CurrentAt(i, n, coin)'
<1> DEFINE L == Len(events)
<1>1. /\ L \in Nat /\ DOMAIN events = 1 .. L /\ DOMAIN events' = 1 .. L + k
      /\ \A i \in 1 .. L : events'[i] = events[i]
      /\ \A i \in 1 .. L : i \in 1 .. L + k
      /\ \A i \in 1 .. L + k : i \in 1 .. L \/ i \in L + 1 .. L + k
  BY DEF Extends, RecordLogInv, EpochInv, TypeOK
<1>2. \A i \in L + 1 .. L + k : ~ Handover(i, n)' /\ ~ RecordSetAt(i, n, coin)'
  OBVIOUS
<1> HIDE DEF L
<1>3. \A i \in 1 .. L + k : CurrentAt(i, n, coin)' <=>
                            i \in 1 .. L /\ CurrentAt(i, n, coin)
  <2>1. ASSUME NEW j \in 1 .. L + k
        PROVE  /\ Handover(j, n)' <=> j \in 1 .. L /\ Handover(j, n)
               /\ RecordSetAt(j, n, coin)' <=> j \in 1 .. L /\ RecordSetAt(j, n, coin)
    <3>1. CASE j \in 1 .. L
      BY <1>1, <3>1 DEF Handover, TransferAt, RecordSetAt
    <3>2. CASE j \notin 1 .. L
      <4>1. j \in L + 1 .. L + k
        BY <1>1, <3>2
      <4>2. QED
        BY <1>2, <3>2, <4>1
    <3>3. QED
      BY <3>1, <3>2
  <2>2. ASSUME NEW i \in 1 .. L + k
        PROVE  CurrentAt(i, n, coin)' <=> i \in 1 .. L /\ CurrentAt(i, n, coin)
    <3>1. CASE i \in 1 .. L
      <4>1. CurrentAt(i, n, coin)' <=>
              /\ RecordSetAt(i, n, coin)'
              /\ \A j \in 1 .. L + k :
                   Handover(j, n)' \/ RecordSetAt(j, n, coin)' => j <= i
        BY <1>1 DEF CurrentAt
      <4>2. CurrentAt(i, n, coin) <=>
              /\ RecordSetAt(i, n, coin)
              /\ \A j \in 1 .. L :
                   Handover(j, n) \/ RecordSetAt(j, n, coin) => j <= i
        BY <1>1 DEF CurrentAt
      <4>3. QED
        BY <1>1, <2>1, <3>1, <4>1, <4>2
    <3>2. CASE i \notin 1 .. L
      BY <2>1, <3>2 DEF CurrentAt
    <3>3. QED
      BY <3>1, <3>2
  <2>3. QED
    BY <2>2
<1>4. QED
  BY <1>1, <1>3 DEF RecordLogInv, RecordsMatchLog

LEMMA RegisterRecordLog ==
  ASSUME RecordLogInv, NEW a \in Account, NEW name \in Name, NEW s \in Secret,
         register(a, name, s), UNCHANGED resolverVars
  PROVE  RecordsMatchLog'
<1> DEFINE n == NodeOf[name]
           L == Len(events)
<1>1. /\ n \in Node
      /\ events' \in Seq(LogEvent) /\ Extends(2)
      /\ events'[L + 1] = NameRegistered(n, a)
      /\ events'[L + 2] = Transfer(n, ZeroAddress, a)
  <2>1. RegistryEvent \subseteq LogEvent /\ events \in Seq(LogEvent) /\ RegistryTypeOK
    BY DEF LogEvent, RecordLogInv, EpochInv, TypeOK
  <2>2. QED
    BY <2>1, RegisterLog
<1>2. /\ \A m \in Node, c \in Coin : addr(m, c)' = addr(m, c)
      /\ \A c \in Coin : addr(n, c) = Empty
  BY RegisterView DEF RecordLogInv
<1>3. L \in Nat /\ DOMAIN events' = 1 .. L + 2
  BY <1>1 DEF Extends, RecordLogInv, EpochInv, TypeOK
<1>4. \A i \in L + 1 .. L + 2 : i = L + 1 \/ i = L + 2
  BY <1>3
<1>5. /\ \A i : i = L + 2 => Handover(i, n)'
      /\ \A m \in Node, c \in Coin : \A i \in L + 1 .. L + 2 :
           ~ RecordSetAt(i, m, c)' /\ (m # n => ~ Handover(i, m)')
  BY <1>1, <1>4 DEF Handover, TransferAt, RecordSetAt, NameRegistered, Transfer
<1> HIDE DEF n
<1> SUFFICES ASSUME NEW m \in Node, NEW c \in Coin
             PROVE  /\ \A i \in DOMAIN events' :
                         CurrentAt(i, m, c)' => addr(m, c)' = events'[i].value
                    /\ addr(m, c)' # Empty =>
                         \E i \in DOMAIN events' : CurrentAt(i, m, c)'
  BY DEF RecordsMatchLog
<1>6. CASE m # n
  BY <1>1, <1>2, <1>5, <1>6, LogUntouched
<1>7. CASE m = n
  <2>1. \A i \in DOMAIN events' : ~ CurrentAt(i, m, c)'
    <3> SUFFICES ASSUME NEW i \in DOMAIN events', CurrentAt(i, m, c)' PROVE FALSE
      OBVIOUS
    <3>1. L + 2 <= i
      BY <1>3, <1>5, <1>7 DEF CurrentAt
    <3>2. i \in L + 1 .. L + 2
      BY <1>3, <3>1
    <3>3. QED
      BY <1>5, <3>2 DEF CurrentAt
  <2>2. QED
    BY <1>2, <1>7, <2>1
<1>8. QED
  BY <1>6, <1>7

LEMMA TransferRecordLog ==
  ASSUME RecordLogInv, NEW a \in Account, NEW n \in Node, NEW to \in Address,
         transfer(a, n, to), UNCHANGED resolverVars
  PROVE  RecordsMatchLog'
<1> DEFINE L == Len(events)
<1>1. /\ events' \in Seq(LogEvent) /\ Extends(1)
      /\ events'[L + 1] = Transfer(n, a, to)
  <2>1. RegistryEvent \subseteq LogEvent /\ events \in Seq(LogEvent) /\ RegistryTypeOK
    BY DEF LogEvent, RecordLogInv, EpochInv, TypeOK
  <2>2. QED
    BY <2>1, TransferLog
<1>2. \A m \in Node, c \in Coin :
        addr(m, c)' = IF m = n /\ to # a THEN Empty ELSE addr(m, c)
  BY TransferView DEF RecordLogInv
<1>3. L \in Nat /\ DOMAIN events' = 1 .. L + 1
  BY <1>1 DEF Extends, RecordLogInv, EpochInv, TypeOK
<1>4. \A i \in L + 1 .. L + 1 : i = L + 1
  BY <1>3
<1>5. /\ \A i : i = L + 1 => (Handover(i, n)' <=> to # a)
      /\ \A m \in Node, c \in Coin : \A i \in L + 1 .. L + 1 :
           ~ RecordSetAt(i, m, c)' /\ (m # n \/ to = a => ~ Handover(i, m)')
  BY <1>1, <1>4 DEF Handover, TransferAt, RecordSetAt, Transfer
<1> SUFFICES ASSUME NEW m \in Node, NEW c \in Coin
             PROVE  /\ \A i \in DOMAIN events' :
                         CurrentAt(i, m, c)' => addr(m, c)' = events'[i].value
                    /\ addr(m, c)' # Empty =>
                         \E i \in DOMAIN events' : CurrentAt(i, m, c)'
  BY DEF RecordsMatchLog
<1>6. CASE ~ (m = n /\ to # a)
  BY <1>1, <1>2, <1>5, <1>6, LogUntouched
<1>7. CASE m = n /\ to # a
  <2>1. \A i \in DOMAIN events' : ~ CurrentAt(i, m, c)'
    <3> SUFFICES ASSUME NEW i \in DOMAIN events', CurrentAt(i, m, c)' PROVE FALSE
      OBVIOUS
    <3>1. L + 1 <= i
      BY <1>3, <1>5, <1>7 DEF CurrentAt
    <3>2. i \in L + 1 .. L + 1
      BY <1>3, <3>1
    <3>3. QED
      BY <1>5, <3>2 DEF CurrentAt
  <2>2. QED
    BY <1>2, <1>7, <2>1
<1>8. QED
  BY <1>6, <1>7

LEMMA SetRecordRecordLog ==
  ASSUME RecordLogInv, NEW a \in Account, NEW n \in Node, NEW coin \in Coin,
         NEW v \in Value, setRecord(a, n, coin, v)
  PROVE  RecordsMatchLog'
<1> DEFINE L == Len(events)
<1>1. /\ events' \in Seq(LogEvent) /\ Extends(1)
      /\ events'[L + 1] = RecordSet(n, coin, v)
  BY SetRecordStep DEF RecordLogInv, EpochInv
<1>2. \A m \in Node, c \in Coin :
        addr(m, c)' = IF m = n /\ c = coin THEN v ELSE addr(m, c)
  BY SetRecordView DEF RecordLogInv
<1>3. L \in Nat /\ DOMAIN events' = 1 .. L + 1
  BY <1>1 DEF Extends, RecordLogInv, EpochInv, TypeOK
<1>4. \A i \in L + 1 .. L + 1 : i = L + 1
  BY <1>3
<1>5. /\ \A i : i = L + 1 => RecordSetAt(i, n, coin)' /\ events'[i].value = v
      /\ \A m \in Node, c \in Coin : \A i \in L + 1 .. L + 1 :
           ~ Handover(i, m)' /\ (~ (m = n /\ c = coin) => ~ RecordSetAt(i, m, c)')
  BY <1>1, <1>4 DEF Handover, TransferAt, RecordSetAt, RecordSet
<1> SUFFICES ASSUME NEW m \in Node, NEW c \in Coin
             PROVE  /\ \A i \in DOMAIN events' :
                         CurrentAt(i, m, c)' => addr(m, c)' = events'[i].value
                    /\ addr(m, c)' # Empty =>
                         \E i \in DOMAIN events' : CurrentAt(i, m, c)'
  BY DEF RecordsMatchLog
<1>6. CASE ~ (m = n /\ c = coin)
  BY <1>1, <1>2, <1>5, <1>6, LogUntouched
<1>7. CASE m = n /\ c = coin
  <2>1. \A i \in DOMAIN events' : CurrentAt(i, m, c)' <=> i = L + 1
    <3>1. \A i \in 1 .. L + 1 : i <= L + 1 /\ (L + 1 <= i => i = L + 1)
      BY <1>3
    <3>2. QED
      BY <1>3, <1>5, <1>7, <3>1 DEF CurrentAt
  <2>2. L + 1 \in DOMAIN events'
    BY <1>3
  <2>3. QED
    BY <1>2, <1>5, <1>7, <2>1, <2>2
<1>8. QED
  BY <1>6, <1>7

LEMMA SetReverseRecordLog ==
  ASSUME RecordLogInv, NEW a \in Account, NEW n \in Node \cup {NoNode},
         setReverse(a, n)
  PROVE  RecordsMatchLog'
<1> DEFINE L == Len(events)
<1>1. /\ events' \in Seq(LogEvent) /\ Extends(1)
      /\ events'[L + 1] = ReverseSet(a, n)
  BY SetReverseStep DEF RecordLogInv, EpochInv
<1>2. \A m \in Node, c \in Coin : addr(m, c)' = addr(m, c)
  BY QuietView DEF setReverse
<1>3. L \in Nat
  BY DEF RecordLogInv, EpochInv, TypeOK
<1>4. \A i \in L + 1 .. L + 1 : i = L + 1
  BY <1>3
<1>5. \A m \in Node, c \in Coin : \A i \in L + 1 .. L + 1 :
        ~ Handover(i, m)' /\ ~ RecordSetAt(i, m, c)'
  BY <1>1, <1>4 DEF Handover, TransferAt, RecordSetAt, ReverseSet
<1>6. QED
  BY <1>1, <1>2, <1>5, LogUntouched DEF RecordsMatchLog

(* For every instance, addr is what replaying the log gives: the last      *)
(* RecordSet that no transfer to a different owner has followed.  So addr  *)
(* never returns a record from before the name last changed hands, and an  *)
(* indexer following the resolver's rule agrees with the contract.         *)
THEOREM RecordLogCorrect == Spec => []RecordsMatchLog
<1>1. Init => RecordsMatchLog
  <2> SUFFICES ASSUME Init PROVE RecordsMatchLog
    OBVIOUS
  <2>1. \A n \in Node : epoch(n) = 0 /\ 0 \in Epoch
    BY DEF Init, RegistryInit, Unowned, epoch, Epoch
  <2>2. \A n \in Node, c \in Coin : addr(n, c) = Empty
    BY <2>1 DEF Init, addr, ethRecord, OtherCoin
  <2>3. DOMAIN events = {}
    BY DEF Init, RegistryInit
  <2>4. QED
    BY <2>2, <2>3 DEF RecordsMatchLog
<1>2. RecordLogInv /\ [Next]_vars => RecordsMatchLog'
  <2> SUFFICES ASSUME RecordLogInv, [Next]_vars PROVE RecordsMatchLog'
    OBVIOUS
  <2>1. CASE UNCHANGED <<names, ethRecords, records, claims, events>>
    BY <2>1, QuietView DEF RecordLogInv, RecordsMatchLog, CurrentAt, RecordSetAt,
                           Handover, TransferAt
  <2>2. QED
    BY <2>1, OtherSteps, RegisterRecordLog, TransferRecordLog, SetRecordRecordLog,
       SetReverseRecordLog
<1>3. QED
  BY <1>1, <1>2, EpochInvCorrect, PTL DEF Spec, RecordLogInv

-----------------------------------------------------------------------------
(* The log and the reverse claims.                                         *)

ClaimsMatchLog ==
  \A a \in Account, n \in Node :
    claims[a] = n <=> \E i \in DOMAIN events : ClaimAt(i, a) /\ events[i].node = n

ClaimInv == RecordLogInv /\ ClaimsMatchLog

IsClaim(i, a) == events[i].event = "ReverseSet" /\ events[i].account = a

(* Events that are no claim of a leave the log's claim of a as it was.     *)
LEMMA ClaimUntouched ==
  ASSUME TypeOK, NEW k \in Nat, Extends(k), events' \in Seq(LogEvent),
         NEW a \in Account,
         \A i \in Len(events) + 1 .. Len(events) + k : ~ IsClaim(i, a)',
         NEW n \in Node
  PROVE  (\E i \in DOMAIN events' : ClaimAt(i, a)' /\ events'[i].node = n)
           <=> \E i \in DOMAIN events : ClaimAt(i, a) /\ events[i].node = n
<1> DEFINE L == Len(events)
<1>1. /\ L \in Nat /\ DOMAIN events = 1 .. L /\ DOMAIN events' = 1 .. L + k
      /\ \A i \in 1 .. L : events'[i] = events[i]
      /\ \A i \in 1 .. L : i \in 1 .. L + k
      /\ \A i \in 1 .. L + k : i \in 1 .. L \/ i \in L + 1 .. L + k
  BY DEF Extends, TypeOK
<1>2. \A i \in L + 1 .. L + k : ~ IsClaim(i, a)'
  OBVIOUS
<1> HIDE DEF L
<1>3. \A j \in 1 .. L + k : IsClaim(j, a)' <=> j \in 1 .. L /\ IsClaim(j, a)
  <2> SUFFICES ASSUME NEW j \in 1 .. L + k
               PROVE  IsClaim(j, a)' <=> j \in 1 .. L /\ IsClaim(j, a)
    OBVIOUS
  <2>1. CASE j \in 1 .. L
    BY <1>1, <2>1 DEF IsClaim
  <2>2. CASE j \notin 1 .. L
    <3>1. j \in L + 1 .. L + k
      BY <1>1, <2>2
    <3>2. QED
      BY <1>2, <2>2, <3>1
  <2>3. QED
    BY <2>1, <2>2
<1>4. \A i : ClaimAt(i, a) <=>
               IsClaim(i, a) /\ \A j \in 1 .. L : IsClaim(j, a) => j <= i
  BY <1>1 DEF ClaimAt, IsClaim
<1>5. \A i : ClaimAt(i, a)' <=>
               IsClaim(i, a)' /\ \A j \in 1 .. L + k : IsClaim(j, a)' => j <= i
  BY <1>1 DEF ClaimAt, IsClaim
<1>6. \A i \in 1 .. L + k : ClaimAt(i, a)' <=> i \in 1 .. L /\ ClaimAt(i, a)
  BY <1>1, <1>3, <1>4, <1>5
<1>7. QED
  BY <1>1, <1>6

LEMMA RegisterClaims ==
  ASSUME ClaimInv, NEW b \in Account, NEW name \in Name, NEW s \in Secret,
         register(b, name, s), UNCHANGED resolverVars
  PROVE  ClaimsMatchLog'
<1> DEFINE n == NodeOf[name]
           L == Len(events)
<1>1. /\ events' \in Seq(LogEvent) /\ Extends(2)
      /\ events'[L + 1] = NameRegistered(n, b)
      /\ events'[L + 2] = Transfer(n, ZeroAddress, b)
  <2>1. RegistryEvent \subseteq LogEvent /\ events \in Seq(LogEvent) /\ RegistryTypeOK
    BY DEF LogEvent, ClaimInv, RecordLogInv, EpochInv, TypeOK
  <2>2. QED
    BY <2>1, RegisterLog
<1>2. \A i \in L + 1 .. L + 2 : i = L + 1 \/ i = L + 2
  BY DEF ClaimInv, RecordLogInv, EpochInv, TypeOK
<1>3. \A a \in Account : \A i \in L + 1 .. L + 2 : ~ IsClaim(i, a)'
  BY <1>1, <1>2 DEF IsClaim, NameRegistered, Transfer
<1>4. QED
  BY <1>1, <1>3, ClaimUntouched
  DEF ClaimsMatchLog, ClaimInv, RecordLogInv, EpochInv, resolverVars

LEMMA OtherClaims ==
  ASSUME ClaimInv, NEW e \in LogEvent, e.event # "ReverseSet",
         events' \in Seq(LogEvent), Extends(1), events'[Len(events) + 1] = e,
         UNCHANGED claims
  PROVE  ClaimsMatchLog'
<1> DEFINE L == Len(events)
<1>1. \A i \in L + 1 .. L + 1 : i = L + 1
  BY DEF ClaimInv, RecordLogInv, EpochInv, TypeOK
<1>2. \A a \in Account : \A i \in L + 1 .. L + 1 : ~ IsClaim(i, a)'
  BY <1>1 DEF IsClaim
<1>3. QED
  BY <1>2, ClaimUntouched DEF ClaimsMatchLog, ClaimInv, RecordLogInv, EpochInv

LEMMA SetReverseClaims ==
  ASSUME ClaimInv, NEW b \in Account, NEW m \in Node \cup {NoNode}, setReverse(b, m)
  PROVE  ClaimsMatchLog'
<1> DEFINE L == Len(events)
<1>1. /\ events' \in Seq(LogEvent) /\ Extends(1)
      /\ events'[L + 1] = ReverseSet(b, m)
      /\ claims' = [claims EXCEPT ![b] = m]
  BY SetReverseStep DEF ClaimInv, RecordLogInv, EpochInv, setReverse
<1>2. L \in Nat /\ DOMAIN events' = 1 .. L + 1
  BY <1>1 DEF Extends, ClaimInv, RecordLogInv, EpochInv, TypeOK
<1>3. \A i \in L + 1 .. L + 1 : i = L + 1
  BY <1>2
<1>4. \A a \in Account : \A i : i = L + 1 => (IsClaim(i, a)' <=> a = b)
  BY <1>1 DEF IsClaim, ReverseSet
<1> SUFFICES ASSUME NEW a \in Account, NEW n \in Node
             PROVE  claims'[a] = n <=>
                      \E i \in DOMAIN events' : ClaimAt(i, a)' /\ events'[i].node = n
  BY DEF ClaimsMatchLog
<1>5. CASE a # b
  <2>1. claims'[a] = claims[a]
    BY <1>1, <1>5 DEF ClaimInv, RecordLogInv, EpochInv, TypeOK
  <2>2. \A i \in L + 1 .. L + 1 : ~ IsClaim(i, a)'
    BY <1>3, <1>4, <1>5
  <2>3. QED
    BY <1>1, <2>1, <2>2, ClaimUntouched
    DEF ClaimsMatchLog, ClaimInv, RecordLogInv, EpochInv
<1>6. CASE a = b
  <2>1. claims'[a] = m
    BY <1>1, <1>6 DEF ClaimInv, RecordLogInv, EpochInv, TypeOK
  <2>2. \A i \in 1 .. L + 1 : i <= L + 1 /\ (L + 1 <= i => i = L + 1)
    BY <1>2
  <2>3. L + 1 \in 1 .. L + 1
    BY <1>2
  <2>4. \A i \in 1 .. L + 1 : ClaimAt(i, a)' <=> i = L + 1
    <3>1. \A i : ClaimAt(i, a)' <=>
                   IsClaim(i, a)' /\ \A j \in 1 .. L + 1 : IsClaim(j, a)' => j <= i
      BY <1>2 DEF ClaimAt, IsClaim
    <3>2. QED
      BY <1>4, <1>6, <2>2, <2>3, <3>1
  <2>5. events'[L + 1].node = m
    BY <1>1 DEF ReverseSet
  <2>6. QED
    BY <1>2, <2>1, <2>3, <2>4, <2>5
<1>7. QED
  BY <1>5, <1>6

LEMMA StepClaims == ClaimInv /\ [Next]_vars => ClaimsMatchLog'
<1> SUFFICES ASSUME ClaimInv, [Next]_vars PROVE ClaimsMatchLog'
  OBVIOUS
<1>1. CASE UNCHANGED <<names, ethRecords, records, claims, events>>
  BY <1>1 DEF ClaimInv, ClaimsMatchLog, ClaimAt
<1>2. ASSUME NEW a \in Account, NEW n \in Node, NEW to \in Address,
             transfer(a, n, to), UNCHANGED resolverVars
      PROVE  ClaimsMatchLog'
  <2>1. RegistryEvent \subseteq LogEvent /\ events \in Seq(LogEvent) /\ RegistryTypeOK
    BY DEF LogEvent, ClaimInv, RecordLogInv, EpochInv, TypeOK
  <2>2. /\ events' \in Seq(LogEvent) /\ Extends(1) /\ to \in Account
        /\ events'[Len(events) + 1] = Transfer(n, a, to)
    BY <1>2, <2>1, TransferLog
  <2>3. Transfer(n, a, to) \in LogEvent /\ Transfer(n, a, to).event # "ReverseSet"
    BY <2>2 DEF Transfer, LogEvent, RegistryEvent, Address
  <2>4. QED
    BY <1>2, <2>2, <2>3, OtherClaims DEF resolverVars
<1>3. ASSUME NEW a \in Account, NEW n \in Node, NEW coin \in Coin, NEW v \in Value,
             setRecord(a, n, coin, v)
      PROVE  ClaimsMatchLog'
  <2>1. /\ events' \in Seq(LogEvent) /\ Extends(1)
        /\ events'[Len(events) + 1] = RecordSet(n, coin, v)
    BY <1>3, SetRecordStep DEF ClaimInv, RecordLogInv, EpochInv
  <2>2. /\ RecordSet(n, coin, v) \in LogEvent
        /\ RecordSet(n, coin, v).event # "ReverseSet"
    BY DEF RecordSet, LogEvent, ResolverEvent
  <2>3. UNCHANGED claims
    BY <1>3 DEF setRecord
  <2>4. QED
    BY <2>1, <2>2, <2>3, OtherClaims
<1>4. QED
  BY <1>1, <1>2, <1>3, OtherSteps, RegisterClaims, SetReverseClaims

(* What the log says of a name's ETH record, once records match the log.   *)
LEMMA ReverseFromLog == ClaimInv => ReverseMatchesLog
<1> SUFFICES ASSUME ClaimInv, NEW a \in Account, NEW n \in Node
             PROVE  reverse(a) = n <=>
                      /\ \E i \in DOMAIN events : ClaimAt(i, a) /\ events[i].node = n
                      /\ \E i \in DOMAIN events :
                           CurrentAt(i, n, ETH) /\ events[i].value = a
  BY DEF ReverseMatchesLog
<1>1. a # Empty /\ a # ZeroAddress /\ n # NoNode
  BY DEF Address
<1>2. (\E i \in DOMAIN events : CurrentAt(i, n, ETH) /\ events[i].value = a)
        <=> addr(n, ETH) = a
  BY <1>1 DEF ClaimInv, RecordLogInv, RecordsMatchLog
<1>3. addr(n, ETH) = a <=> ethRecord(n) = a
  BY <1>1 DEF addr
<1>4. reverse(a) = n <=> claims[a] = n /\ ethRecord(n) = a
  BY <1>1 DEF reverse
<1>5. QED
  BY <1>2, <1>3, <1>4 DEF ClaimInv, ClaimsMatchLog

(* For every instance, reverse(a) is what the log gives an indexer that    *)
(* follows the resolver's rule: a's last claim, while the name's current   *)
(* ETH record is a.                                                        *)
THEOREM ReverseLogCorrect == Spec => []ReverseMatchesLog
<1>1. Init => ClaimsMatchLog
  BY DEF Init, RegistryInit, ClaimsMatchLog
<1>2. RecordLogInv /\ ClaimsMatchLog /\ [Next]_vars => ClaimsMatchLog'
  BY StepClaims DEF ClaimInv
<1>3. RecordLogInv /\ ClaimsMatchLog => ReverseMatchesLog
  BY ReverseFromLog DEF ClaimInv
<1>4. Spec => []RecordLogInv
  BY EpochInvCorrect, RecordLogCorrect, PTL DEF RecordLogInv
<1>5. QED
  BY <1>1, <1>2, <1>3, <1>4, PTL DEF Spec
=============================================================================
