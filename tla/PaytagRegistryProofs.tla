------------------------ MODULE PaytagRegistryProofs ------------------------
(***************************************************************************)
(* Proofs about the registry: its types, and what its event log says of    *)
(* its owners, for every set of accounts and names.                        *)
(***************************************************************************)
EXTENDS PaytagRegistry, SequenceTheorems, FiniteSetTheorems, TLAPS

USE RegistryConstants

LEMMA NextEpochType == \A e \in Epoch : NextEpoch(e) \in Epoch
  BY DEF NextEpoch, Epoch

LEMMA InitTypes == RegistryInit => RegistryTypeOK
  BY DEF RegistryInit, RegistryTypeOK, Unowned, Address, Epoch

LEMMA CommitTypes ==
  ASSUME RegistryTypeOK, NEW a \in Account, NEW c \in Commitment, commit(a, c)
  PROVE  RegistryTypeOK'
  BY DEF RegistryTypeOK, commit, Committed, Address

LEMMA RegisterTypes ==
  ASSUME RegistryTypeOK, NEW a \in Account, NEW name \in Name,
         NEW s \in Secret, register(a, name, s)
  PROVE  RegistryTypeOK'
<1> DEFINE n == NodeOf[name]
<1> DEFINE c == [node |-> n, owner |-> a, secret |-> s]
<1>1. n \in Node
  BY DEF register
<1>2. c \in Commitment
  BY <1>1 DEF Commitment
<1>3. names' = [names EXCEPT ![n].owner = a]
  BY DEF register
<1>4. names' \in [Node -> [owner : Address, epoch : Epoch]]
  BY <1>1, <1>3 DEF RegistryTypeOK, Address
<1>5. commitments' = [commitments EXCEPT ![a][c] = 0]
  BY DEF register
<1>6. commitments' \in [Account -> [Commitment -> Nat]]
  BY <1>2, <1>5 DEF RegistryTypeOK
<1>7. QED
  BY <1>4, <1>6 DEF RegistryTypeOK, register, Address

LEMMA TransferTypes ==
  ASSUME RegistryTypeOK, NEW a \in Account, NEW n \in Node,
         NEW to \in Address, transfer(a, n, to)
  PROVE  RegistryTypeOK'
<1>1. epoch(n) \in Epoch
  BY DEF RegistryTypeOK, epoch
<1>2. Transferred(n, to) \in [Node -> [owner : Address, epoch : Epoch]]
  BY <1>1, NextEpochType DEF Transferred, RegistryTypeOK
<1>3. QED
  BY <1>2 DEF transfer, RegistryTypeOK, Address

LEMMA RegistryStepTypes ==
  ASSUME RegistryTypeOK, RegistryNext PROVE RegistryTypeOK'
<1>1. CASE Tick
  BY <1>1 DEF Tick, RegistryTypeOK
<1>2. CASE RegistryTx
  BY <1>2, CommitTypes, RegisterTypes, TransferTypes DEF RegistryTx
<1>3. QED
  BY <1>1, <1>2 DEF RegistryNext

(* The registry's variables stay in their types, for every instance.       *)
THEOREM RegistryTypeCorrect == RegistrySpec => []RegistryTypeOK
<1>1. RegistryTypeOK /\ UNCHANGED registryVars => RegistryTypeOK'
  BY DEF RegistryTypeOK, registryVars
<1>2. QED
  BY <1>1, InitTypes, RegistryStepTypes, PTL DEF RegistrySpec

-----------------------------------------------------------------------------
(* The log.  These lemmas are about a log of any kind of event E that      *)
(* includes the registry's, so that the resolver's can share it.           *)

Extends(k) == Len(events') = Len(events) + k
  /\ \A i \in 1 .. Len(events) : events'[i] = events[i]

LEMMA RegisterLog ==
  ASSUME RegistryTypeOK, NEW E, RegistryEvent \subseteq E, events \in Seq(E),
         NEW a \in Account, NEW name \in Name, NEW s \in Secret,
         register(a, name, s)
  PROVE  LET n == NodeOf[name]
         IN /\ n \in Node /\ n \notin Reserved
            /\ owner(n) = ZeroAddress
            /\ names' = [names EXCEPT ![n].owner = a]
            /\ events' \in Seq(E)
            /\ Extends(2)
            /\ events'[Len(events) + 1] = NameRegistered(n, a)
            /\ events'[Len(events) + 2] = Transfer(n, ZeroAddress, a)
<1> DEFINE n == NodeOf[name]
<1>1. n \in Node /\ n \notin Reserved /\ owner(n) = ZeroAddress
  BY DEF register, Available
<1>2. names' = [names EXCEPT ![n].owner = a]
  BY DEF register
<1>3. NameRegistered(n, a) \in E /\ Transfer(n, ZeroAddress, a) \in E
  BY <1>1 DEF NameRegistered, Transfer, RegistryEvent, Address
<1>4. events' = events \o <<NameRegistered(n, a), Transfer(n, ZeroAddress, a)>>
  BY DEF register
<1> HIDE DEF n
<1>5. events' \in Seq(E) /\ Extends(2)
  BY <1>3, <1>4 DEF Extends
<1>6. /\ events'[Len(events) + 1] = NameRegistered(n, a)
      /\ events'[Len(events) + 2] = Transfer(n, ZeroAddress, a)
  BY <1>3, <1>4
<1>7. QED
  BY <1>1, <1>2, <1>5, <1>6 DEF n

LEMMA TransferLog ==
  ASSUME RegistryTypeOK, NEW E, RegistryEvent \subseteq E, events \in Seq(E),
         NEW a \in Account, NEW n \in Node, NEW to \in Address,
         transfer(a, n, to)
  PROVE  /\ owner(n) = a
         /\ to \in Account
         /\ names' = Transferred(n, to)
         /\ events' \in Seq(E)
         /\ Extends(1)
         /\ events'[Len(events) + 1] = Transfer(n, a, to)
<1>1. owner(n) = a /\ to \in Account
  BY DEF transfer, MayTransfer, Address
<1>2. Transfer(n, a, to) \in E
  BY <1>1 DEF Transfer, RegistryEvent, Address
<1>3. events' = Append(events, Transfer(n, a, to))
  BY <1>1 DEF transfer
<1>4. QED
  BY <1>1, <1>2, <1>3 DEF transfer, Extends

-----------------------------------------------------------------------------
(* What the log says of the owners.                                        *)

AboutName(i, n) ==
  events[i].event \in {"NameRegistered", "Transfer"} /\ events[i].node = n

(* A free name has never appeared in the log: the part of the invariant    *)
(* that makes a registration the first event about its name.               *)
FreeNamesUnlogged ==
  \A n \in Node : owner(n) = ZeroAddress =>
    \A i \in DOMAIN events : ~ AboutName(i, n)

LogInv ==
  /\ RegistryTypeOK
  /\ FreeNamesUnlogged
  /\ OwnerMatchesLog
  /\ RegisteredOnce

LEMMA RegisterLogInv ==
  ASSUME LogInv, NEW E, RegistryEvent \subseteq E, events \in Seq(E),
         NEW a \in Account, NEW name \in Name, NEW s \in Secret,
         register(a, name, s)
  PROVE  FreeNamesUnlogged' /\ OwnerMatchesLog' /\ RegisteredOnce'
<1> DEFINE n == NodeOf[name]
           L == Len(events)
<1>1. /\ n \in Node /\ n \notin Reserved
      /\ owner(n) = ZeroAddress
      /\ names' = [names EXCEPT ![n].owner = a]
      /\ Extends(2)
      /\ events' \in Seq(E)
      /\ events'[L + 1] = NameRegistered(n, a)
      /\ events'[L + 2] = Transfer(n, ZeroAddress, a)
  BY RegisterLog DEF LogInv
<1> HIDE DEF n
<1>2. L \in Nat /\ DOMAIN events = 1 .. L /\ DOMAIN events' = 1 .. L + 2
  BY <1>1 DEF Extends
<1>3. \A m \in Node : owner(m)' = IF m = n THEN a ELSE owner(m)
  BY <1>1 DEF owner, LogInv, RegistryTypeOK
<1>4. \A i \in 1 .. L : ~ AboutName(i, n)
  BY <1>1, <1>2 DEF LogInv, FreeNamesUnlogged
<1>5. \A i \in 1 .. L + 2 : i \in 1 .. L \/ i = L + 1 \/ i = L + 2
  BY <1>2
<1>6. \A i \in 1 .. L : events'[i] = events[i]
  BY <1>1 DEF Extends
<1>7. /\ events'[L + 1].event = "NameRegistered" /\ events'[L + 1].node = n
      /\ events'[L + 2].event = "Transfer" /\ events'[L + 2].node = n
      /\ events'[L + 2].to = a
  BY <1>1 DEF NameRegistered, Transfer
<1> HIDE DEF L
<1>8. FreeNamesUnlogged'
  <2> SUFFICES ASSUME NEW m \in Node, owner(m)' = ZeroAddress,
                      NEW i \in 1 .. L + 2, AboutName(i, m)'
               PROVE  FALSE
    BY <1>2 DEF FreeNamesUnlogged
  <2>1. m # n /\ owner(m) = ZeroAddress
    BY <1>3
  <2>2. i \in 1 .. L
    BY <1>5, <1>7, <2>1 DEF AboutName
  <2>3. AboutName(i, m)
    BY <1>6, <2>2 DEF AboutName
  <2>4. QED
    BY <1>2, <2>1, <2>2, <2>3 DEF LogInv, FreeNamesUnlogged
<1>9. OwnerMatchesLog'
  <2> SUFFICES ASSUME NEW m \in Node, NEW x \in Account
               PROVE  owner(m)' = x <=>
                        \E i \in 1 .. L + 2 :
                          /\ TransferAt(i, m)' /\ events'[i].to = x
                          /\ \A j \in 1 .. L + 2 : TransferAt(j, m)' => j <= i
    BY <1>2 DEF OwnerMatchesLog
  <2>1. CASE m = n
    <3>1. \A i : i = L + 2 => TransferAt(i, m)' /\ i \in 1 .. L + 2
      BY <1>2, <1>7, <2>1 DEF TransferAt
    <3>2. \A j \in 1 .. L + 2 : TransferAt(j, m)' => j = L + 2
      BY <1>4, <1>5, <1>6, <1>7, <2>1 DEF TransferAt, AboutName
    <3>3. QED
      BY <1>2, <1>3, <1>7, <2>1, <3>1, <3>2
  <2>2. CASE m # n
    <3>1. \A i \in 1 .. L + 2 :
            TransferAt(i, m)' <=> i \in 1 .. L /\ TransferAt(i, m)
      BY <1>2, <1>5, <1>6, <1>7, <2>2 DEF TransferAt
    <3>2. \A i \in 1 .. L : i \in 1 .. L + 2
      BY <1>2
    <3>3. owner(m)' = owner(m)
      BY <1>3, <2>2
    <3>4. owner(m) = x <=>
            \E i \in 1 .. L : /\ TransferAt(i, m) /\ events[i].to = x
                            /\ \A j \in 1 .. L : TransferAt(j, m) => j <= i
      BY <1>2 DEF LogInv, OwnerMatchesLog
    <3>5. QED
      BY <1>6, <3>1, <3>2, <3>3, <3>4
  <2>3. QED
    BY <2>1, <2>2
<1>10. RegisteredOnce'
  <2> SUFFICES ASSUME NEW i \in 1 .. L + 2, events'[i].event = "NameRegistered"
               PROVE  /\ events'[i].node \notin Reserved
                      /\ \A j \in 1 .. L + 2 :
                           /\ events'[j].event = "NameRegistered"
                           /\ events'[j].node = events'[i].node
                           => i = j
    BY <1>2 DEF RegisteredOnce
  <2>1. i \in 1 .. L \/ i = L + 1
    BY <1>5, <1>7
  <2>2. CASE i = L + 1
    BY <1>1, <1>4, <1>5, <1>6, <1>7, <2>2 DEF AboutName
  <2>3. CASE i \in 1 .. L
    <3>1. events[i].event = "NameRegistered" /\ events'[i] = events[i]
      BY <1>6, <2>3
    <3>2. events[i].node # n
      BY <1>4, <2>3, <3>1 DEF AboutName
    <3>3. QED
      BY <1>2, <1>5, <1>6, <1>7, <2>3, <3>1, <3>2 DEF LogInv, RegisteredOnce
  <2>4. QED
    BY <2>1, <2>2, <2>3
<1>11. QED
  BY <1>8, <1>9, <1>10

LEMMA TransferLogInv ==
  ASSUME LogInv, NEW E, RegistryEvent \subseteq E, events \in Seq(E),
         NEW a \in Account, NEW n \in Node, NEW to \in Address,
         transfer(a, n, to)
  PROVE  FreeNamesUnlogged' /\ OwnerMatchesLog' /\ RegisteredOnce'
<1> DEFINE L == Len(events)
<1>1. /\ owner(n) = a /\ to \in Account
      /\ names' = Transferred(n, to)
      /\ events' \in Seq(E)
      /\ Extends(1)
      /\ events'[L + 1] = Transfer(n, a, to)
  BY TransferLog DEF LogInv
<1>2. L \in Nat /\ DOMAIN events = 1 .. L /\ DOMAIN events' = 1 .. L + 1
  BY <1>1 DEF Extends
<1>3. \A m \in Node : owner(m)' = IF m = n THEN to ELSE owner(m)
  BY <1>1 DEF Transferred, owner, LogInv, RegistryTypeOK
<1>4. \A i \in 1 .. L : events'[i] = events[i]
  BY <1>1 DEF Extends
<1>5. /\ events'[L + 1].event = "Transfer" /\ events'[L + 1].node = n
      /\ events'[L + 1].to = to
  BY <1>1 DEF Transfer
<1>6. \A i \in 1 .. L + 1 : i \in 1 .. L \/ i = L + 1
  BY <1>2
<1> HIDE DEF L
<1>7. FreeNamesUnlogged'
  <2> SUFFICES ASSUME NEW m \in Node, owner(m)' = ZeroAddress,
                      NEW i \in 1 .. L + 1, AboutName(i, m)'
               PROVE  FALSE
    BY <1>2 DEF FreeNamesUnlogged
  <2>1. m # n /\ owner(m) = ZeroAddress
    BY <1>1, <1>3
  <2>2. i \in 1 .. L
    BY <1>5, <1>6, <2>1 DEF AboutName
  <2>3. AboutName(i, m)
    BY <1>4, <2>2 DEF AboutName
  <2>4. QED
    BY <1>2, <2>1, <2>2, <2>3 DEF LogInv, FreeNamesUnlogged
<1>8. OwnerMatchesLog'
  <2> SUFFICES ASSUME NEW m \in Node, NEW x \in Account
               PROVE  owner(m)' = x <=>
                        \E i \in 1 .. L + 1 :
                          /\ TransferAt(i, m)' /\ events'[i].to = x
                          /\ \A j \in 1 .. L + 1 : TransferAt(j, m)' => j <= i
    BY <1>2 DEF OwnerMatchesLog
  <2>1. CASE m = n
    <3>1. \A i : i = L + 1 => TransferAt(i, m)' /\ i \in 1 .. L + 1
      BY <1>2, <1>5, <2>1 DEF TransferAt
    <3>2. \A j \in 1 .. L + 1 : j <= L + 1
      BY <1>2
    <3>3. \A i \in 1 .. L + 1 : L + 1 <= i => i = L + 1
      BY <1>2
    <3>4. QED
      BY <1>3, <1>5, <2>1, <3>1, <3>2, <3>3
  <2>2. CASE m # n
    <3>1. \A i \in 1 .. L + 1 :
            TransferAt(i, m)' <=> i \in 1 .. L /\ TransferAt(i, m)
      BY <1>2, <1>4, <1>5, <1>6, <2>2 DEF TransferAt
    <3>2. \A i \in 1 .. L : i \in 1 .. L + 1
      BY <1>2
    <3>3. owner(m) = x <=>
            \E i \in 1 .. L : /\ TransferAt(i, m) /\ events[i].to = x
                            /\ \A j \in 1 .. L : TransferAt(j, m) => j <= i
      BY <1>2 DEF LogInv, OwnerMatchesLog
    <3>4. QED
      BY <1>3, <1>4, <2>2, <3>1, <3>2, <3>3
  <2>3. QED
    BY <2>1, <2>2
<1>9. RegisteredOnce'
  BY <1>2, <1>4, <1>5, <1>6 DEF LogInv, RegisteredOnce
<1>10. QED
  BY <1>7, <1>8, <1>9

LEMMA QuietLogInv ==
  ASSUME LogInv, UNCHANGED <<names, events>>
  PROVE  FreeNamesUnlogged' /\ OwnerMatchesLog' /\ RegisteredOnce'
  BY DEF LogInv, FreeNamesUnlogged, OwnerMatchesLog, RegisteredOnce, AboutName,
         TransferAt, owner

(* For every instance of the registry, a name's owner is the `to` of its   *)
(* last Transfer, and a name is registered at most once and never when     *)
(* reserved: what the API's lists and its remembered registrations rely on.*)
THEOREM RegistryLogCorrect ==
  RegistrySpec => []LogTellsOwners
<1> DEFINE Inv == LogInv /\ events \in Seq(RegistryEvent)
<1>1. RegistryInit => Inv
  BY InitTypes DEF RegistryInit, LogInv, FreeNamesUnlogged, OwnerMatchesLog,
                   RegisteredOnce, owner, Unowned
<1>2. Inv /\ [RegistryNext]_registryVars => Inv'
  <2> SUFFICES ASSUME Inv, [RegistryNext]_registryVars PROVE Inv'
    OBVIOUS
  <2>1. CASE UNCHANGED registryVars
    BY <2>1, QuietLogInv DEF registryVars, LogInv, RegistryTypeOK
  <2>2. CASE Tick
    BY <2>2, QuietLogInv, RegistryStepTypes DEF Tick, LogInv, RegistryNext
  <2>3. ASSUME NEW a \in Account, NEW c \in Commitment, commit(a, c)
        PROVE  Inv'
    BY <2>3, QuietLogInv, CommitTypes DEF commit, LogInv
  <2>4. ASSUME NEW a \in Account, NEW name \in Name, NEW s \in Secret,
               register(a, name, s)
        PROVE  Inv'
    BY <2>4, RegisterLogInv, RegisterLog, RegisterTypes DEF LogInv
  <2>5. ASSUME NEW a \in Account, NEW n \in Node, NEW to \in Address,
               transfer(a, n, to)
        PROVE  Inv'
    BY <2>5, TransferLogInv, TransferLog, TransferTypes DEF LogInv
  <2>6. QED
    BY <2>1, <2>2, <2>3, <2>4, <2>5 DEF RegistryNext, RegistryTx
<1>3. Inv => LogTellsOwners
  BY DEF LogInv, LogTellsOwners
<1>4. QED
  BY <1>1, <1>2, <1>3, PTL DEF RegistrySpec

-----------------------------------------------------------------------------
(* Who may change what, in one step.                                       *)

LEMMA StepHandsOver ==
  ASSUME RegistryTypeOK, [RegistryNext]_registryVars, NEW n \in Node,
         owner(n) # ZeroAddress, owner(n)' # owner(n)
  PROVE  caller' = owner(n) /\ owner(n)' # ZeroAddress
<1>1. ~ UNCHANGED names
  BY DEF owner
<1>2. ASSUME NEW a \in Account, NEW name \in Name, NEW s \in Secret,
             register(a, name, s)
      PROVE  FALSE
  BY <1>2 DEF register, Available, owner, RegistryTypeOK
<1>3. ASSUME NEW a \in Account, NEW m \in Node, NEW to \in Address,
             transfer(a, m, to)
      PROVE  caller' = owner(n) /\ owner(n)' # ZeroAddress
  <2>1. m = n /\ owner(n)' = to
    BY <1>3 DEF transfer, Transferred, owner, RegistryTypeOK
  <2>2. QED
    BY <1>3, <2>1 DEF transfer, MayTransfer
<1>4. QED
  BY <1>1, <1>2, <1>3 DEF RegistryNext, RegistryTx, Tick, commit, registryVars

(* An owned name changes hands only in a transaction of its owner, and is  *)
(* never given up: transfer's two checks are enough for every instance.    *)
THEOREM HandoversAreTheOwners == RegistrySpec => OnlyOwnerHandsOver
<1>1. RegistryTypeOK /\ [RegistryNext]_registryVars =>
        [\A n \in Node :
           owner(n) # ZeroAddress /\ owner(n)' # owner(n) =>
             caller' = owner(n) /\ owner(n)' # ZeroAddress]_registryVars
  BY StepHandsOver
<1>2. QED
  BY <1>1, RegistryTypeCorrect, PTL DEF RegistrySpec, OnlyOwnerHandsOver

LEMMA StepReveals ==
  ASSUME RegistryTypeOK, [RegistryNext]_registryVars, NEW a \in Account,
         NEW n \in Node, NEW s \in Secret,
         CanReveal(a, n, s), caller' # a, clock' = clock
  PROVE  CanReveal(a, n, s)' \/ owner(n)' # ZeroAddress
<1> DEFINE c == [node |-> n, owner |-> a, secret |-> s]
<1>1. c \in Commitment
  BY DEF Commitment
<1> SUFFICES commitments'[a][c] = commitments[a][c]
  BY DEF CanReveal, Available, Revealable
<1>2. CASE UNCHANGED commitments
  BY <1>2
<1>3. ASSUME NEW b \in Account, NEW d \in Commitment, commit(b, d)
      PROVE  commitments'[a][c] = commitments[a][c]
  BY <1>1, <1>3 DEF commit, Committed, RegistryTypeOK
<1>4. ASSUME NEW b \in Account, NEW name \in Name, NEW t \in Secret,
             register(b, name, t)
      PROVE  commitments'[a][c] = commitments[a][c]
  BY <1>1, <1>4 DEF register, RegistryTypeOK
<1>5. QED
  BY <1>2, <1>3, <1>4 DEF RegistryNext, RegistryTx, Tick, transfer, registryVars

(* A reveal that is possible stays possible whatever anyone else sends in  *)
(* the same block, unless the name is registered first: commitments are    *)
(* kept per committer.                                                     *)
THEOREM RevealsStayPossible == RegistrySpec => RevealsAreIndependent
<1>1. RegistryTypeOK /\ [RegistryNext]_registryVars =>
        [\A a \in Account, n \in Node, s \in Secret :
           CanReveal(a, n, s) /\ caller' # a /\ clock' = clock =>
             CanReveal(a, n, s)' \/ owner(n)' # ZeroAddress]_registryVars
  BY StepReveals
<1>2. QED
  BY <1>1, RegistryTypeCorrect, PTL DEF RegistrySpec, RevealsAreIndependent

LEMMA StepWins ==
  ASSUME RegistryTypeOK, [RegistryNext]_registryVars, NEW n \in Node,
         owner(n) = ZeroAddress, owner(n)' # ZeroAddress
  PROVE  \E s \in Secret :
           LET c == [node |-> n, owner |-> owner(n)', secret |-> s]
               committedAt == commitments[owner(n)'][c]
           IN /\ committedAt > 0
              /\ clock - committedAt >= MinAge
              /\ clock - committedAt <= MaxAge
              /\ commitments'[owner(n)'][c] = 0
<1>1. ~ UNCHANGED names
  BY DEF owner
<1>2. ASSUME NEW a \in Account, NEW m \in Node, NEW to \in Address,
             transfer(a, m, to)
      PROVE  FALSE
  BY <1>2 DEF transfer, MayTransfer, Transferred, owner, RegistryTypeOK
<1>3. PICK a \in Account, name \in Name, s \in Secret : register(a, name, s)
  BY <1>1, <1>2 DEF RegistryNext, RegistryTx, Tick, commit, registryVars
<1> DEFINE c == [node |-> n, owner |-> a, secret |-> s]
<1>4. NodeOf[name] = n /\ owner(n)' = a
  BY <1>3 DEF register, owner, RegistryTypeOK
<1>5. c \in Commitment /\ commitments[a][c] \in Nat /\ clock \in Nat
  BY DEF Commitment, RegistryTypeOK
<1>6. Revealable(commitments[a][c]) /\ commitments' = [commitments EXCEPT ![a][c] = 0]
  BY <1>3, <1>4 DEF register
<1>7. commitments'[a][c] = 0
  BY <1>5, <1>6 DEF RegistryTypeOK
<1> HIDE DEF c
<1>8. /\ commitments[a][c] > 0
      /\ clock - commitments[a][c] >= MinAge
      /\ clock - commitments[a][c] <= MaxAge
  BY <1>5, <1>6 DEF Revealable
<1>9. QED
  BY <1>4, <1>7, <1>8 DEF c

(* Whoever registers a name spends a commitment of their own to it that is *)
(* between MinAge and MaxAge old.                                          *)
THEOREM WinnersHadCommitted == RegistrySpec => OnlyRipeCommitmentsWin
<1>1. RegistryTypeOK /\ [RegistryNext]_registryVars =>
        [\A n \in Node :
           owner(n) = ZeroAddress /\ owner(n)' # ZeroAddress =>
             \E s \in Secret :
               LET c == [node |-> n, owner |-> owner(n)', secret |-> s]
                   committedAt == commitments[owner(n)'][c]
               IN /\ committedAt > 0
                  /\ clock - committedAt >= MinAge
                  /\ clock - committedAt <= MaxAge
                  /\ commitments'[owner(n)'][c] = 0]_registryVars
  BY StepWins
<1>2. QED
  BY <1>1, RegistryTypeCorrect, PTL DEF RegistrySpec, OnlyRipeCommitmentsWin

-----------------------------------------------------------------------------
(* The epochs.                                                             *)

HandoversOf(n) ==
  {i \in DOMAIN events : Handover(i, n) /\ events[i].from # ZeroAddress}

CountInv ==
  /\ RegistryTypeOK
  /\ events \in Seq(RegistryEvent)
  /\ EpochCountsHandovers

LEMMA Remainder ==
  ASSUME NEW k \in Nat, NEW q \in Nat, NEW e \in 0 .. EpochSpan - 1,
         k = EpochSpan * q + e
  PROVE  k % EpochSpan = e
  OBVIOUS

(* Counting one more, as the unchecked addition of transfer does.          *)
LEMMA CountOneMore ==
  ASSUME NEW k \in Nat
  PROVE  (k + 1) % EpochSpan = NextEpoch(k % EpochSpan)
<1> DEFINE e == k % EpochSpan
           q == k \div EpochSpan
<1>1. EpochSpan \in Nat /\ EpochSpan > 0
  OBVIOUS
<1>2. k = EpochSpan * q + e /\ q \in Nat /\ e \in 0 .. EpochSpan - 1
  BY <1>1
<1> HIDE DEF e, q
<1>3. CASE e = EpochSpan - 1
  <2>1. k + 1 = EpochSpan * (q + 1) + 0
    BY <1>1, <1>2, <1>3
  <2>2. q + 1 \in Nat /\ k + 1 \in Nat /\ 0 \in 0 .. EpochSpan - 1
    BY <1>1, <1>2
  <2>3. QED
    BY <1>3, <2>1, <2>2, Remainder DEF NextEpoch, e
<1>4. CASE e # EpochSpan - 1
  <2>1. /\ k + 1 = EpochSpan * q + (e + 1)
        /\ k + 1 \in Nat /\ e + 1 \in 0 .. EpochSpan - 1
    BY <1>1, <1>2, <1>4
  <2>2. QED
    BY <1>2, <1>4, <2>1, Remainder DEF NextEpoch, e
<1>5. QED
  BY <1>3, <1>4

LEMMA HandoversFinite ==
  ASSUME CountInv, NEW n \in Node
  PROVE  IsFiniteSet(HandoversOf(n))
<1>1. IsFiniteSet(1 .. Len(events)) /\ DOMAIN events = 1 .. Len(events)
  BY FS_Interval DEF CountInv
<1>2. HandoversOf(n) \in SUBSET DOMAIN events
  BY DEF HandoversOf
<1>3. QED
  BY <1>1, <1>2, FS_Subset

(* The events added since count only as far as they are handovers.         *)
LEMMA HandoversOfLonger ==
  ASSUME CountInv, NEW k \in Nat, events' \in Seq(RegistryEvent), Extends(k),
         NEW n \in Node, NEW i
  PROVE  i \in HandoversOf(n)' <=>
           \/ i \in HandoversOf(n)
           \/ /\ i \in Len(events) + 1 .. Len(events) + k
              /\ Handover(i, n)' /\ events'[i].from # ZeroAddress
<1> DEFINE L == Len(events)
<1>1. /\ L \in Nat /\ DOMAIN events = 1 .. L /\ DOMAIN events' = 1 .. L + k
      /\ \A j \in 1 .. L : events'[j] = events[j]
  BY DEF Extends, CountInv
<1> HIDE DEF L
<1>2. i \in 1 .. L + k <=> i \in 1 .. L \/ i \in L + 1 .. L + k
  BY <1>1
<1>3. i \in 1 .. L => i \notin L + 1 .. L + k
  BY <1>1
<1>4. i \in 1 .. L =>
        /\ Handover(i, n)' <=> Handover(i, n)
        /\ events'[i] = events[i]
  BY <1>1 DEF Handover, TransferAt
<1>5. QED
  BY <1>1, <1>2, <1>3, <1>4 DEF HandoversOf, L

LEMMA RegisterCount ==
  ASSUME CountInv, NEW a \in Account, NEW name \in Name, NEW s \in Secret,
         register(a, name, s)
  PROVE  EpochCountsHandovers'
<1> DEFINE n == NodeOf[name]
<1>1. /\ n \in Node /\ names' = [names EXCEPT ![n].owner = a]
      /\ events' \in Seq(RegistryEvent)
      /\ Extends(2)
      /\ events'[Len(events) + 1] = NameRegistered(n, a)
      /\ events'[Len(events) + 2] = Transfer(n, ZeroAddress, a)
  BY RegisterLog DEF CountInv
<1> HIDE DEF n
<1>2. \A i \in Len(events) + 1 .. Len(events) + 2 :
        i = Len(events) + 1 \/ i = Len(events) + 2
  BY DEF CountInv
<1>3. \A m \in Node, i \in Len(events) + 1 .. Len(events) + 2 :
        ~ (Handover(i, m)' /\ events'[i].from # ZeroAddress)
  BY <1>1, <1>2 DEF Handover, TransferAt, NameRegistered, Transfer
<1>4. \A m \in Node : epoch(m)' = epoch(m) /\ HandoversOf(m)' = HandoversOf(m)
  <2>1. \A m \in Node : epoch(m)' = epoch(m)
    BY <1>1 DEF epoch, CountInv, RegistryTypeOK
  <2>2. \A m \in Node : \A i : i \in HandoversOf(m)' <=> i \in HandoversOf(m)
    BY <1>1, <1>3, HandoversOfLonger
  <2>3. QED
    BY <2>1, <2>2
<1>5. QED
  BY <1>4 DEF CountInv, EpochCountsHandovers, HandoversOf

LEMMA TransferCount ==
  ASSUME CountInv, NEW a \in Account, NEW n \in Node, NEW to \in Address,
         transfer(a, n, to)
  PROVE  EpochCountsHandovers'
<1> DEFINE L == Len(events)
<1>1. /\ owner(n) = a /\ to \in Account
      /\ names' = Transferred(n, to)
      /\ events' \in Seq(RegistryEvent)
      /\ Extends(1)
      /\ events'[L + 1] = Transfer(n, a, to)
  BY TransferLog DEF CountInv
<1>2. L \in Nat /\ \A i \in L + 1 .. L + 1 : i = L + 1
  BY DEF CountInv
<1>3. \A m \in Node : \A i : i \in HandoversOf(m)' <=>
        i \in HandoversOf(m) \/ (i = L + 1 /\ m = n /\ to # a)
  <2>1. \A m \in Node : \A i : i = L + 1 =>
          /\ Handover(i, m)' <=> m = n /\ to # a
          /\ events'[i].from # ZeroAddress
    BY <1>1 DEF Handover, TransferAt, Transfer
  <2>2. L + 1 \in L + 1 .. L + 1
    BY <1>2
  <2>3. QED
    BY <1>1, <1>2, <2>1, <2>2, HandoversOfLonger
<1>4. \A m \in Node : ~ (m = n /\ to # a) =>
        epoch(m)' = epoch(m) /\ HandoversOf(m)' = HandoversOf(m)
  <2>1. \A m \in Node : ~ (m = n /\ to # a) => epoch(m)' = epoch(m)
    BY <1>1 DEF Transferred, epoch, owner, CountInv, RegistryTypeOK
  <2>2. QED
    BY <1>3, <2>1
<1>5. to # a => epoch(n)' = Cardinality(HandoversOf(n)') % EpochSpan
  <2> SUFFICES ASSUME to # a
               PROVE  epoch(n)' = Cardinality(HandoversOf(n)') % EpochSpan
    OBVIOUS
  <2>1. epoch(n)' = NextEpoch(epoch(n))
    BY <1>1 DEF Transferred, epoch, owner, CountInv, RegistryTypeOK
  <2>2. HandoversOf(n)' = HandoversOf(n) \cup {L + 1}
    BY <1>3
  <2>3. L + 1 \notin HandoversOf(n)
    BY <1>2 DEF HandoversOf, CountInv
  <2>4. IsFiniteSet(HandoversOf(n)) /\ Cardinality(HandoversOf(n)) \in Nat
    BY HandoversFinite, FS_CardinalityType
  <2>5. Cardinality(HandoversOf(n)') = Cardinality(HandoversOf(n)) + 1
    BY <2>2, <2>3, <2>4, FS_AddElement
  <2>6. epoch(n) = Cardinality(HandoversOf(n)) % EpochSpan
    BY DEF CountInv, EpochCountsHandovers, HandoversOf
  <2>7. QED
    BY <2>1, <2>4, <2>5, <2>6, CountOneMore
<1>6. QED
  BY <1>4, <1>5 DEF CountInv, EpochCountsHandovers, HandoversOf

LEMMA InitCount == RegistryInit => CountInv
<1> SUFFICES ASSUME RegistryInit PROVE CountInv
  OBVIOUS
<1>1. RegistryTypeOK /\ events \in Seq(RegistryEvent) /\ DOMAIN events = {}
  BY InitTypes DEF RegistryInit
<1>2. \A n \in Node : HandoversOf(n) = {} /\ epoch(n) = 0
  BY <1>1 DEF HandoversOf, RegistryInit, epoch, Unowned
<1>3. 0 % EpochSpan = 0
  BY Remainder
<1>4. QED
  BY <1>1, <1>2, <1>3, FS_EmptySet DEF CountInv, EpochCountsHandovers, HandoversOf

(* A name's epoch is the number of its transfers to another owner, modulo  *)
(* 2^96, for every instance: the records of two owners share an epoch only *)
(* when 2^96 handovers lie between them.                                   *)
THEOREM EpochsCount == RegistrySpec => []EpochCountsHandovers
<1>1. CountInv /\ [RegistryNext]_registryVars => CountInv'
  <2> SUFFICES ASSUME CountInv, [RegistryNext]_registryVars PROVE CountInv'
    OBVIOUS
  <2>1. CASE UNCHANGED <<names, events>>
    <3>1. RegistryTypeOK'
      BY RegistryStepTypes DEF CountInv, RegistryTypeOK, registryVars
    <3>2. EpochCountsHandovers'
      BY <2>1 DEF CountInv, EpochCountsHandovers, epoch, Handover, TransferAt
    <3>3. QED
      BY <2>1, <3>1, <3>2 DEF CountInv
  <2>2. ASSUME NEW a \in Account, NEW name \in Name, NEW s \in Secret,
               register(a, name, s)
        PROVE  CountInv'
    BY <2>2, RegisterCount, RegisterLog, RegisterTypes DEF CountInv
  <2>3. ASSUME NEW a \in Account, NEW n \in Node, NEW to \in Address,
               transfer(a, n, to)
        PROVE  CountInv'
    BY <2>3, TransferCount, TransferLog, TransferTypes DEF CountInv
  <2>4. QED
    BY <2>1, <2>2, <2>3
    DEF RegistryNext, RegistryTx, Tick, commit, registryVars
<1>2. CountInv => EpochCountsHandovers
  BY DEF CountInv
<1>3. QED
  BY <1>1, <1>2, InitCount, PTL DEF RegistrySpec
=============================================================================
