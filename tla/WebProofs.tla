------------------------------ MODULE WebProofs -----------------------------
(***************************************************************************)
(* Proofs about the web app's pages, for any tabs, wallets, names, chains, *)
(* amounts and flows. Each page has an invariant of its own; a step of     *)
(* another one leaves it alone.                                            *)
(***************************************************************************)
EXTENDS Web, SequenceTheorems, TLAPS

(* The session. A stored name is the one of the stored token's wallet, and *)
(* so is whatever /me is about to answer.                                  *)
Issued == {0} \cup 1 .. Len(issued)
Said == {Pending, Refused, Lost}
          \cup {Me(w, name) : w \in Wallet, name \in Wallet \cup {None}}

AuthHolds(a) ==
  /\ a \in Auth /\ a.token \in Issued
  /\ a.name # None =>
       a.token # 0 /\ a.name = issued[a.token] /\ a.name \in owners

FlightHolds(f) ==
  /\ f \in [token : {0} \cup Token, answer : Said] /\ f.token \in Issued
  /\ f.answer.is = "me" =>
       /\ f.token # 0 /\ f.answer.wallet = issued[f.token]
       /\ f.answer.name # None =>
            f.answer.name = f.answer.wallet /\ f.answer.name \in owners

TabHolds(t) ==
  /\ FlightHolds(flight[t])
  /\ flight[t].token = 0 => waiting[t] = {}
  /\ auth[t].token # 0 /\ ~ settled[t] => "dashboard" \in waiting[t]
  /\ t \notin unheard => auth[t] = storage

TabTypes ==
  /\ auth \in [Tab -> Auth] /\ unheard \subseteq Tab
  /\ flight \in [Tab -> [token : {0} \cup Token, answer : Said]]
  /\ waiting \in [Tab -> SUBSET Waiter] /\ settled \in [Tab -> BOOLEAN]
ServerTypes ==
  /\ issued \in Seq(Wallet) /\ Len(issued) <= MaxTokens
  /\ live \subseteq 1 .. Len(issued) /\ owners \subseteq Wallet
UserTypes ==
  signing \in [Tab -> Wallet \cup {None}] /\ connected \in Wallet \cup {None}

SessionInv ==
  /\ TabTypes /\ ServerTypes /\ UserTypes
  /\ AuthHolds(storage) /\ \A t \in Tab : TabHolds(t)

(* The server only adds.                                                   *)
Adds ==
  /\ \/ issued' = issued
     \/ Len(issued) < MaxTokens /\ \E w \in Wallet : issued' = Append(issued, w)
  /\ owners \subseteq owners' /\ owners' \subseteq Wallet
  /\ live' \subseteq 1 .. Len(issued')

LEMMA AddsKeeps ==
  ASSUME ServerTypes, Adds
  PROVE  /\ ServerTypes'
         /\ Len(issued) <= Len(issued') /\ Len(issued) \in Nat /\ Len(issued') \in Nat
         /\ \A k \in 1 .. Len(issued) : issued'[k] = issued[k]
<1>1. CASE issued' = issued
  BY <1>1 DEF ServerTypes, Adds
<1>2. ASSUME Len(issued) < MaxTokens, NEW w \in Wallet, issued' = Append(issued, w)
      PROVE  /\ ServerTypes'
             /\ Len(issued) <= Len(issued') /\ Len(issued) \in Nat /\ Len(issued') \in Nat
             /\ \A k \in 1 .. Len(issued) : issued'[k] = issued[k]
  <2>1. issued \in Seq(Wallet) /\ Len(issued) \in Nat /\ MaxTokens \in Nat
    BY SessionConstants DEF ServerTypes
  <2>2. /\ issued' \in Seq(Wallet) /\ Len(issued') = Len(issued) + 1
        /\ \A k \in 1 .. Len(issued) : issued'[k] = issued[k]
    BY <1>2, <2>1
  <2> QED
    BY <1>2, <2>1, <2>2 DEF ServerTypes, Adds
<1> QED
  BY <1>1, <1>2 DEF Adds

LEMMA HoldStill ==
  ASSUME ServerTypes, Adds
  PROVE  /\ \A a : AuthHolds(a) => AuthHolds(a)'
         /\ \A f : FlightHolds(f) => FlightHolds(f)'
<1>1. /\ Len(issued) <= Len(issued') /\ Len(issued) \in Nat /\ Len(issued') \in Nat
      /\ \A k \in 1 .. Len(issued) : issued'[k] = issued[k]
      /\ owners \subseteq owners'
  BY AddsKeeps DEF Adds
<1>2. \A k \in Issued : k \in Issued' /\ (k # 0 => issued'[k] = issued[k])
  BY <1>1 DEF Issued
<1>3. ASSUME NEW a, AuthHolds(a) PROVE AuthHolds(a)'
  BY <1>1, <1>2, <1>3 DEF AuthHolds
<1>4. ASSUME NEW f, FlightHolds(f) PROVE FlightHolds(f)'
  BY <1>1, <1>2, <1>4 DEF FlightHolds
<1> QED
  BY <1>3, <1>4

LEMMA AnswersAre ==
  /\ Pending.is = "pending" /\ Refused.is = "401" /\ Lost.is = "lost"
  /\ \A w, n : Me(w, n).is = "me" /\ Me(w, n).wallet = w /\ Me(w, n).name = n
  /\ Pending \in Said /\ Lost \in Said /\ Refused \in Said
  /\ \A w \in Wallet, n \in Wallet \cup {None} : Me(w, n) \in Said
<1>1. Pending.is = "pending" /\ Refused.is = "401" /\ Lost.is = "lost"
  BY DEF Pending, Refused, Lost
<1>2. \A w, n : Me(w, n).is = "me" /\ Me(w, n).wallet = w /\ Me(w, n).name = n
  BY DEF Me
<1>3. /\ Pending \in Said /\ Lost \in Said /\ Refused \in Said
      /\ \A w \in Wallet, n \in Wallet \cup {None} : Me(w, n) \in Said
  BY DEF Said
<1> QED
  BY <1>1, <1>2, <1>3

LEMMA NoFlightHolds ==
  FlightHolds(NoFlight) /\ NoFlight.token = 0
<1>1. NoFlight.token = 0 /\ NoFlight.answer = Lost
  BY DEF NoFlight
<1>2. NoFlight \in [token : {0} \cup Token, answer : Said] /\ 0 \in Issued
  BY AnswersAre DEF NoFlight, Issued
<1> QED
  BY <1>1, <1>2, AnswersAre DEF FlightHolds

LEMMA JoinedHolds ==
  ASSUME NEW f, FlightHolds(f), NEW k \in Token, k \in Issued, k # 0
  PROVE  FlightHolds(Joined(f, k)) /\ Joined(f, k).token # 0
<1>1. CASE f.token # 0
  BY <1>1 DEF Joined
<1>2. CASE f.token = 0
  BY <1>2, AnswersAre DEF Joined, FlightHolds
<1> QED
  BY <1>1, <1>2

(* A tab that sees a copy a of the session, with f under way for those in w.*)
LEMMA SeesKeeps ==
  ASSUME TabTypes, ServerTypes, Adds, \A s \in Tab : TabHolds(s),
         NEW t \in Tab, NEW a, NEW f, NEW w \in SUBSET Waiter,
         AuthHolds(a)', FlightHolds(f)', f.token = 0 => w = {},
         Sees(t, a, f, w), unheard' \subseteq Tab,
         t \notin unheard' => a = storage',
         \A s \in Tab \ {t} : s \notin unheard' => s \notin unheard /\ storage' = storage
  PROVE  TabTypes' /\ \A s \in Tab : TabHolds(s)'
<1> DEFINE Now(g, v, b) ==
             /\ flight' = [flight EXCEPT ![t] = g] /\ waiting' = [waiting EXCEPT ![t] = v]
             /\ settled' = [settled EXCEPT ![t] = b]
<1>1. /\ auth' = [auth EXCEPT ![t] = a]
      /\ a \in Auth /\ a.token \in {0} \cup Token /\ (a.token # 0 => a.token \in Issued')
  BY DEF Sees, AuthHolds, Auth
<1>2. \E g, v, b :
        /\ Now(g, v, b)
        /\ FlightHolds(g)' /\ v \in SUBSET Waiter /\ b \in BOOLEAN
        /\ g.token = 0 => v = {}
        /\ a.token # 0 /\ ~ b => "dashboard" \in v
  <2>1. CASE a.token = auth[t].token
    <3>1. Now(f, w, SettledWith(a, w))
      BY <2>1 DEF Sees
    <3>2. /\ SettledWith(a, w) \in BOOLEAN
          /\ a.token # 0 /\ ~ SettledWith(a, w) => "dashboard" \in w
      BY DEF SettledWith
    <3> HIDE DEF Now
    <3> QED
      BY <3>1, <3>2
  <2>2. CASE a.token # auth[t].token /\ a.token = 0
    <3>1. Now(f, w \ {"dashboard"}, FALSE)
      BY <2>2 DEF Sees
    <3> QED
      BY <3>1, <2>2
  <2>3. CASE a.token # auth[t].token /\ a.token # 0
    <3>1. Now(Joined(f, a.token), w \cup {"dashboard"}, FALSE)
      BY <2>3 DEF Sees
    <3>2. FlightHolds(Joined(f, a.token))' /\ Joined(f, a.token).token # 0
      <4>1. CASE f.token # 0
        BY <4>1 DEF Joined
      <4>2. CASE f.token = 0
        <5>1. Joined(f, a.token) = [token |-> a.token, answer |-> Pending]
          BY <4>2 DEF Joined
        <5> QED
          BY <5>1, <1>1, <2>3, AnswersAre DEF FlightHolds
      <4> QED
        BY <4>1, <4>2
    <3>3. w \cup {"dashboard"} \in SUBSET Waiter
      BY DEF Waiter
    <3> QED
      BY <3>1, <3>2, <3>3
  <2> QED
    BY <2>1, <2>2, <2>3
<1>3. PICK g, v, b :
        /\ Now(g, v, b)
        /\ FlightHolds(g)' /\ v \in SUBSET Waiter /\ b \in BOOLEAN
        /\ g.token = 0 => v = {}
        /\ a.token # 0 /\ ~ b => "dashboard" \in v
  BY <1>2
<1>4. TabTypes'
  BY <1>1, <1>3 DEF TabTypes, FlightHolds
<1>5. TabHolds(t)'
  BY <1>1, <1>3 DEF TabHolds, TabTypes
<1>6. ASSUME NEW s \in Tab \ {t} PROVE TabHolds(s)'
  <2>1. /\ auth'[s] = auth[s] /\ flight'[s] = flight[s]
        /\ waiting'[s] = waiting[s] /\ settled'[s] = settled[s]
    BY <1>1, <1>3 DEF TabTypes
  <2>2. PICK h : h = flight[s]
    OBVIOUS
  <2>3. FlightHolds(h)'
    BY <2>2, HoldStill DEF TabHolds
  <2>4. FlightHolds(flight[s])'
    BY <2>1, <2>2, <2>3
  <2> QED
    BY <2>1, <2>4 DEF TabHolds
<1> QED
  BY <1>4, <1>5, <1>6

LEMMA SignedOutHolds == AuthHolds(SignedOut) /\ SignedOut.token = 0
<1>1. SignedOut.token = 0 /\ SignedOut.name = None /\ SignedOut \in Auth
  BY DEF SignedOut, Auth
<1> QED
  BY <1>1 DEF AuthHolds, Issued

(* What a tab writes is told to the others.                                *)
LEMMA WriteKeeps ==
  ASSUME SessionInv, Adds, NEW t \in Tab, NEW a, NEW f, NEW w \in SUBSET Waiter,
         AuthHolds(a)', FlightHolds(f)', f.token = 0 => w = {},
         Writes(t, a, f, w), UserTypes'
  PROVE  SessionInv'
<1>1. /\ TabTypes /\ ServerTypes /\ \A s \in Tab : TabHolds(s)
      /\ storage' = a /\ Tells(t, a) /\ Sees(t, a, f, w)
  BY DEF SessionInv, Writes
<1>2. /\ unheard' \subseteq Tab
      /\ \A s \in Tab \ {t} : s \notin unheard' => s \notin unheard /\ storage' = storage
  BY <1>1 DEF Tells, TabTypes
<1>3. TabTypes' /\ \A s \in Tab : TabHolds(s)'
  BY <1>1, <1>2, SeesKeeps
<1>4. ServerTypes'
  BY <1>1, AddsKeeps
<1>5. AuthHolds(storage)'
  BY <1>1
<1> QED
  BY <1>3, <1>4, <1>5 DEF SessionInv

LEMMA NothingAdded ==
  ASSUME ServerTypes, UNCHANGED server
  PROVE  Adds
  BY DEF ServerTypes, server, Adds

(* A tab sees what is stored, or what it had seen, and writes nothing.     *)
LEMMA SightKeeps ==
  ASSUME SessionInv, UNCHANGED <<storage, server>>, UserTypes',
         NEW t \in Tab, NEW a, NEW f, NEW w \in SUBSET Waiter,
         FlightHolds(f), f.token = 0 => w = {}, Sees(t, a, f, w),
         \/ a = storage /\ unheard' = unheard \ {t}
         \/ a = auth[t] /\ unheard' = unheard
  PROVE  SessionInv'
<1>1. /\ TabTypes /\ ServerTypes /\ \A s \in Tab : TabHolds(s)
      /\ AuthHolds(storage) /\ Adds
  BY NothingAdded DEF SessionInv
<1>2. FlightHolds(f)'
  BY <1>1, HoldStill
<1>3. PICK s0 : s0 = storage
  OBVIOUS
<1>4. AuthHolds(s0)' /\ storage' = s0
  BY <1>1, <1>3, HoldStill
<1>5. AuthHolds(storage)'
  BY <1>4
<1>6. ServerTypes'
  BY <1>1, AddsKeeps
<1>7. CASE a = storage /\ unheard' = unheard \ {t}
  <2>1. TabTypes' /\ \A s \in Tab : TabHolds(s)'
    <3>1. AuthHolds(a)'
      BY <1>3, <1>4, <1>7
    <3>2. unheard' \subseteq Tab
      BY <1>1, <1>7 DEF TabTypes
    <3> QED
      BY <1>1, <1>2, <1>7, <3>1, <3>2, SeesKeeps
  <2> QED
    BY <2>1, <1>5, <1>6 DEF SessionInv
<1>8. CASE a = auth[t] /\ unheard' = unheard
  <2>1. TabTypes' /\ \A s \in Tab : TabHolds(s)'
    <3>1. t \notin unheard => auth[t] = storage
      BY <1>1 DEF TabHolds
    <3>2. Sees(t, auth[t], f, w)
      BY <1>8
    <3>3. PICK g, v, b :
        /\ flight' = [flight EXCEPT ![t] = g] /\ waiting' = [waiting EXCEPT ![t] = v]
        /\ settled' = [settled EXCEPT ![t] = b] /\ auth' = auth
        /\ g = f /\ v = w /\ b \in BOOLEAN
        /\ auth[t].token # 0 /\ ~ b => "dashboard" \in v
      <4>1. /\ flight' = [flight EXCEPT ![t] = f] /\ waiting' = [waiting EXCEPT ![t] = w]
            /\ settled' = [settled EXCEPT ![t] = SettledWith(auth[t], w)] /\ auth' = auth
        BY <3>2, <1>1 DEF Sees, TabTypes
      <4>2. /\ SettledWith(auth[t], w) \in BOOLEAN
            /\ auth[t].token # 0 /\ ~ SettledWith(auth[t], w) => "dashboard" \in w
        BY DEF SettledWith
      <4> QED
        BY <4>1, <4>2
    <3>4. TabTypes'
      BY <3>3, <1>1, <1>2, <1>8 DEF TabTypes, FlightHolds
    <3>5. TabHolds(t)'
      BY <3>3, <1>1, <1>2, <1>8 DEF TabHolds, TabTypes
    <3>6. ASSUME NEW s \in Tab \ {t} PROVE TabHolds(s)'
      <4>1. /\ auth'[s] = auth[s] /\ flight'[s] = flight[s]
            /\ waiting'[s] = waiting[s] /\ settled'[s] = settled[s]
        BY <3>3, <1>1 DEF TabTypes
      <4>2. PICK h : h = flight[s]
        OBVIOUS
      <4>3. FlightHolds(h)'
        BY <4>2, <1>1, HoldStill DEF TabHolds
      <4>4. FlightHolds(flight[s])'
        BY <4>1, <4>2, <4>3
      <4> QED
        BY <4>1, <4>4, <1>1, <1>8 DEF TabHolds
    <3> QED
      BY <3>4, <3>5, <3>6
  <2> QED
    BY <2>1, <1>5, <1>6 DEF SessionInv
<1> QED
  BY <1>7, <1>8

(* Signing in and out: the tab writes a, with its /me as it was.           *)
LEMMA SignWrites ==
  ASSUME SessionInv, Adds, NEW t \in Tab, NEW a, AuthHolds(a)', Write(t, a), UserTypes'
  PROVE  SessionInv'
<1>1. PICK f : f = flight[t]
  OBVIOUS
<1>2. PICK w : w = waiting[t]
  OBVIOUS
<1>3. FlightHolds(f) /\ w \in SUBSET Waiter /\ (f.token = 0 => w = {})
  BY <1>1, <1>2 DEF SessionInv, TabHolds, TabTypes
<1>4. FlightHolds(f)' /\ Writes(t, a, f, w)
  BY <1>1, <1>2, <1>3, HoldStill DEF Write, SessionInv
<1> QED
  BY <1>3, <1>4, WriteKeeps

LEMMA HearKeeps ==
  ASSUME SessionInv, NEW t \in Tab, Hear(t)
  PROVE  SessionInv'
<1>1. PICK f : f = flight[t]
  OBVIOUS
<1>2. PICK w : w = waiting[t]
  OBVIOUS
<1>3. PICK a : a = storage
  OBVIOUS
<1>4. /\ FlightHolds(f) /\ w \in SUBSET Waiter /\ (f.token = 0 => w = {})
      /\ Sees(t, a, f, w) /\ unheard' = unheard \ {t}
      /\ UNCHANGED <<storage, server>> /\ UserTypes'
  BY <1>1, <1>2, <1>3 DEF SessionInv, TabHolds, TabTypes, Hear, UserTypes
<1> QED
  BY <1>3, <1>4, SightKeeps

LEMMA LoadKeeps ==
  ASSUME SessionInv, NEW t \in Tab, Load(t)
  PROVE  SessionInv'
<1> DEFINE g == IF storage.token = 0 THEN NoFlight ELSE Joined(NoFlight, storage.token)
           v == IF storage.token = 0 THEN {} ELSE Waiter
<1>1. /\ TabTypes /\ ServerTypes /\ UserTypes /\ AuthHolds(storage)
      /\ \A s \in Tab : TabHolds(s)
  BY DEF SessionInv
<1>2. FlightHolds(g) /\ (g.token = 0 => v = {}) /\ v \in SUBSET Waiter
  <2>1. CASE storage.token = 0
    BY <2>1, NoFlightHolds
  <2>2. CASE storage.token # 0
    <3>1. storage.token \in Token /\ storage.token \in Issued
      BY <1>1, <2>2 DEF AuthHolds, Auth
    <3>2. FlightHolds(Joined(NoFlight, storage.token))
          /\ Joined(NoFlight, storage.token).token # 0
      BY <2>2, <3>1, JoinedHolds, NoFlightHolds
    <3> QED
      BY <2>2, <3>2
  <2> QED
    BY <2>1, <2>2
<1>3. storage.token # 0 => "dashboard" \in v
  BY DEF Waiter
<1>4. /\ flight' = [flight EXCEPT ![t] = g] /\ waiting' = [waiting EXCEPT ![t] = v]
      /\ auth' = [auth EXCEPT ![t] = storage] /\ settled' = [settled EXCEPT ![t] = FALSE]
      /\ unheard' = unheard \ {t} /\ signing' = [signing EXCEPT ![t] = None]
      /\ UNCHANGED <<storage, connected, issued, live, owners>>
  BY DEF Load, server
<1> HIDE DEF g, v
<1>5. /\ ServerTypes' /\ AuthHolds(storage)' /\ UserTypes'
      /\ \A f : FlightHolds(f) <=> FlightHolds(f)'
  BY <1>1, <1>4 DEF ServerTypes, AuthHolds, FlightHolds, Issued, UserTypes
<1>6. TabTypes'
  BY <1>1, <1>2, <1>4 DEF TabTypes, FlightHolds, AuthHolds
<1>7. TabHolds(t)'
  <2>1. /\ flight'[t] = g /\ waiting'[t] = v /\ auth'[t] = storage' /\ storage' = storage
    BY <1>1, <1>4 DEF TabTypes
  <2>2. PICK h : h = g
    OBVIOUS
  <2>3. FlightHolds(h)'
    BY <2>2, <1>2, <1>5
  <2>4. FlightHolds(flight[t])'
    BY <2>1, <2>2, <2>3
  <2> QED
    BY <2>1, <2>4, <1>2, <1>3 DEF TabHolds
<1>8. ASSUME NEW s \in Tab \ {t} PROVE TabHolds(s)'
  <2>1. /\ auth'[s] = auth[s] /\ flight'[s] = flight[s]
        /\ waiting'[s] = waiting[s] /\ settled'[s] = settled[s]
    BY <1>1, <1>4 DEF TabTypes
  <2>2. PICK h : h = flight[s]
    OBVIOUS
  <2>3. FlightHolds(h)'
    BY <2>2, <1>1, <1>5 DEF TabHolds
  <2>4. FlightHolds(flight[s])'
    BY <2>1, <2>2, <2>3
  <2> QED
    BY <2>1, <2>4, <1>1, <1>4 DEF TabHolds
<1> QED
  BY <1>5, <1>6, <1>7, <1>8 DEF SessionInv

LEMMA AnswerKeeps ==
  ASSUME SessionInv, NEW t \in Tab, Answer(t)
  PROVE  SessionInv'
<1> DEFINE k == flight[t].token
           n == IF issued[k] \in owners THEN issued[k] ELSE None
           b == IF k \in live THEN Me(issued[k], n) ELSE Refused
<1>1. /\ TabTypes /\ ServerTypes /\ UserTypes /\ AuthHolds(storage)
      /\ \A s \in Tab : TabHolds(s)
  BY DEF SessionInv
<1>2. /\ flight' = [flight EXCEPT ![t].answer = b] /\ k # 0
      /\ UNCHANGED <<storage, auth, unheard, waiting, settled, signing, connected,
                      issued, live, owners>>
  BY DEF Answer, server
<1>3. FlightHolds(flight[t]) /\ k \in 1 .. Len(issued) /\ issued[k] \in Wallet
  BY <1>1, <1>2 DEF TabHolds, FlightHolds, Issued, ServerTypes
<1>4. /\ b \in Said
      /\ b.is = "me" => /\ b.wallet = issued[k]
                        /\ b.name # None => b.name = b.wallet /\ b.name \in owners
  <2>1. n \in Wallet \cup {None} /\ (n # None => n = issued[k] /\ n \in owners)
    BY <1>3
  <2> HIDE DEF n
  <2> QED
    BY <2>1, <1>3, AnswersAre
<1> HIDE DEF b
<1>5. PICK f : f = [flight[t] EXCEPT !.answer = b]
  OBVIOUS
<1>6. flight[t] \in [token : {0} \cup Token, answer : Said]
  BY <1>3 DEF FlightHolds
<1>7. /\ f \in [token : {0} \cup Token, answer : Said]
      /\ f.token = k /\ f.answer = b
  BY <1>4, <1>5, <1>6
<1>8. FlightHolds(f)
  BY <1>2, <1>3, <1>4, <1>7 DEF FlightHolds
<1>9. \A h : FlightHolds(h) <=> FlightHolds(h)'
  BY <1>2 DEF FlightHolds, Issued
<1>10. flight' = [flight EXCEPT ![t] = f]
  BY <1>2, <1>5, <1>1 DEF TabTypes
<1>11. TabTypes'
  BY <1>1, <1>2, <1>7, <1>10 DEF TabTypes
<1>12. ASSUME NEW s \in Tab PROVE TabHolds(s)'
  <2>1. PICK h : h = IF s = t THEN f ELSE flight[s]
    OBVIOUS
  <2>2. flight'[s] = h /\ FlightHolds(h)' /\ (h.token = 0 <=> flight[s].token = 0)
    BY <2>1, <1>1, <1>7, <1>8, <1>9, <1>10 DEF TabTypes, TabHolds
  <2>3. FlightHolds(flight[s])'
    BY <2>2
  <2> QED
    BY <2>2, <2>3, <1>1, <1>2 DEF TabHolds
<1> QED
  BY <1>1, <1>2, <1>11, <1>12
     DEF SessionInv, ServerTypes, UserTypes, AuthHolds, Issued

(* What an answer of /me makes of the stored session.                      *)
LEMMA SyncHolds ==
  ASSUME AuthHolds(storage), NEW f, FlightHolds(f), f.answer.is = "me"
  PROVE  /\ AuthHolds(Sync(storage, f.answer))
         /\ Sync(storage, f.answer).token \in {0, storage.token}
<1>1. CASE storage.token = 0
  BY <1>1 DEF Sync
<1>2. CASE storage.token # 0 /\ issued[storage.token] # f.answer.wallet
  BY <1>2, SignedOutHolds DEF Sync
<1>3. CASE storage.token # 0 /\ issued[storage.token] = f.answer.wallet
  <2>1. /\ storage \in Auth /\ f.answer \in Said
        /\ f.answer.name # None =>
             f.answer.name = issued[storage.token] /\ f.answer.name \in owners
    BY <1>3 DEF AuthHolds, FlightHolds
  <2>2. f.answer.name \in Wallet \cup {None}
    BY <2>1, AnswersAre DEF Said
  <2>3. Sync(storage, f.answer) = [storage EXCEPT !.name = f.answer.name]
    BY <1>3 DEF Sync
  <2>4. PICK a : a = [storage EXCEPT !.name = f.answer.name]
    OBVIOUS
  <2>5. a \in Auth /\ a.token = storage.token /\ a.name = f.answer.name
    BY <2>1, <2>2, <2>4 DEF Auth
  <2> QED
    BY <2>1, <2>3, <2>4, <2>5, <1>3 DEF AuthHolds
<1> QED
  BY <1>1, <1>2, <1>3

LEMMA Delivers ==
  ASSUME SessionInv, NEW t \in Tab, Deliver(t)
  PROVE  \/ \E a : /\ AuthHolds(a) /\ a.token \in {0, storage.token}
                   /\ Writes(t, a, NoFlight, {})
         \/ Sees(t, auth[t], NoFlight, {}) /\ UNCHANGED <<storage, unheard>>
<1>1. /\ AuthHolds(storage) /\ FlightHolds(flight[t])
  BY DEF SessionInv, TabHolds
<1>2. PICK f : f = flight[t]
  OBVIOUS
<1>3. FlightHolds(f) /\ f.answer \in Said
  BY <1>1, <1>2 DEF FlightHolds
<1> DEFINE Next0(said) ==
             CASE said = Refused -> SignedOut
               [] said.is = "me" /\ waiting[t] # {} -> Sync(storage, said)
               [] OTHER -> storage
<1>4. PICK said \in {f.answer, Lost} \ {Pending} :
        IF said = Refused \/ Next0(said) # storage
        THEN Writes(t, Next0(said), NoFlight, {})
        ELSE Sees(t, auth[t], NoFlight, {}) /\ UNCHANGED <<storage, unheard>>
  BY <1>2 DEF Deliver, Current
<1>5. AuthHolds(Next0(said)) /\ Next0(said).token \in {0, storage.token}
  <2>1. CASE said = Refused
    <3>1. Refused.is # "me"
      BY AnswersAre
    <3>2. Next0(said) = SignedOut
      BY <2>1, <3>1
    <3> QED
      BY <3>2, SignedOutHolds
  <2>2. CASE said # Refused /\ said.is = "me" /\ waiting[t] # {}
    <3>1. said = f.answer
      BY <2>2, AnswersAre
    <3>2. Next0(said) = Sync(storage, f.answer)
      BY <2>2, <3>1
    <3> QED
      BY <1>1, <1>3, <2>2, <3>1, <3>2, SyncHolds
  <2>3. CASE said # Refused /\ ~ (said.is = "me" /\ waiting[t] # {})
    <3>1. Next0(said) = storage
      BY <2>3
    <3> QED
      BY <1>1, <3>1
  <2> QED
    BY <2>1, <2>2, <2>3
<1> HIDE DEF Next0
<1> QED
  BY <1>4, <1>5

LEMMA DeliverKeeps ==
  ASSUME SessionInv, NEW t \in Tab, Deliver(t)
  PROVE  SessionInv'
<1>1. UNCHANGED server /\ UserTypes' /\ Adds
  BY NothingAdded DEF Deliver, SessionInv, UserTypes
<1>2. FlightHolds(NoFlight) /\ NoFlight.token = 0 /\ {} \in SUBSET Waiter
  BY NoFlightHolds
<1>3. FlightHolds(NoFlight)'
  <2>1. PICK f : f = NoFlight
    OBVIOUS
  <2> QED
    BY <2>1, <1>1, <1>2, HoldStill DEF SessionInv
<1>4. ASSUME NEW a, AuthHolds(a), Writes(t, a, NoFlight, {})
      PROVE  SessionInv'
  BY <1>1, <1>2, <1>3, <1>4, WriteKeeps, HoldStill DEF SessionInv
<1>5. ASSUME Sees(t, auth[t], NoFlight, {}), UNCHANGED <<storage, unheard>>
      PROVE  SessionInv'
  <2>1. PICK a : a = auth[t]
    OBVIOUS
  <2> QED
    BY <1>1, <1>2, <1>5, <2>1, SightKeeps
<1> QED
  BY <1>4, <1>5, Delivers

LEMMA VerifiedKeeps ==
  ASSUME SessionInv, NEW t \in Tab, Verified(t)
  PROVE  SessionInv'
<1> DEFINE a == [token |-> Len(issued) + 1, name |-> None]
<1>1. /\ Len(issued) < MaxTokens /\ signing[t] \in Wallet
      /\ issued' = Append(issued, signing[t]) /\ live' = live \cup {Len(issued) + 1}
      /\ UNCHANGED <<connected, owners>> /\ signing' = [signing EXCEPT ![t] = None]
      /\ Write(t, a)
  BY DEF Verified, SessionInv, UserTypes
<1>2. /\ issued \in Seq(Wallet) /\ Len(issued) \in Nat /\ MaxTokens \in Nat
      /\ live \subseteq 1 .. Len(issued) /\ owners \subseteq Wallet
  BY SessionConstants DEF SessionInv, ServerTypes
<1>3. Len(issued') = Len(issued) + 1
  BY <1>1, <1>2
<1>4. Adds
  <2>1. \E w \in Wallet : issued' = Append(issued, w)
    BY <1>1
  <2>2. live' \subseteq 1 .. Len(issued')
    <3>1. \A n \in 1 .. Len(issued) : n \in 1 .. Len(issued) + 1
      BY <1>2
    <3>2. Len(issued) + 1 \in 1 .. Len(issued) + 1
      BY <1>2
    <3>3. live' = live \cup {Len(issued) + 1}
      BY <1>1
    <3> HIDE DEF a
    <3> QED
      BY <1>2, <1>3, <3>1, <3>2, <3>3
  <2>3. owners \subseteq owners' /\ owners' \subseteq Wallet
    BY <1>1, <1>2
  <2> QED
    BY <1>1, <2>1, <2>2, <2>3 DEF Adds
<1>5. PICK b : b = a
  OBVIOUS
<1>6. AuthHolds(b)'
  <2>1. b.token = Len(issued) + 1 /\ b.name = None
    BY <1>5
  <2>2. Len(issued) + 1 \in Token
    BY <1>1, <1>2 DEF Token
  <2>3. b \in Auth
    BY <1>5, <2>2 DEF Auth
  <2>4. b.token \in Issued'
    BY <2>1, <1>2, <1>3 DEF Issued
  <2> QED
    BY <2>1, <2>3, <2>4 DEF AuthHolds
<1>7. UserTypes'
  BY <1>1 DEF SessionInv, UserTypes
<1> QED
  BY <1>1, <1>4, <1>5, <1>6, <1>7, SignWrites

LEMMA SignedOutKeeps ==
  ASSUME SessionInv, NEW t \in Tab, DropSession(t) \/ SignOut(t)
  PROVE  SessionInv'
<1>1. UNCHANGED server /\ UserTypes' /\ Write(t, SignedOut)
  BY DEF DropSession, SignOut, SessionInv, UserTypes
<1>2. Adds
  BY <1>1, NothingAdded DEF SessionInv
<1>3. PICK a : a = SignedOut
  OBVIOUS
<1>4. AuthHolds(a)'
  BY <1>2, <1>3, SignedOutHolds, HoldStill DEF SessionInv
<1> QED
  BY <1>1, <1>2, <1>3, <1>4, SignWrites

(* Steps of the wallet, the user and the server.                           *)
LEMMA OthersKeep ==
  ASSUME SessionInv, UNCHANGED <<storage, auth, unheard, flight, waiting, settled>>,
         Adds, UserTypes'
  PROVE  SessionInv'
<1>1. /\ TabTypes /\ ServerTypes /\ AuthHolds(storage) /\ \A s \in Tab : TabHolds(s)
  BY DEF SessionInv
<1>2. PICK a : a = storage
  OBVIOUS
<1>3. AuthHolds(a)' /\ storage' = a
  BY <1>1, <1>2, HoldStill
<1>4. ASSUME NEW s \in Tab PROVE TabHolds(s)'
  <2>1. PICK f : f = flight[s]
    OBVIOUS
  <2>2. FlightHolds(f)' /\ flight'[s] = f
    BY <1>1, <2>1, HoldStill DEF TabHolds
  <2>3. FlightHolds(flight[s])'
    BY <2>2
  <2> QED
    BY <2>3, <1>1 DEF TabHolds
<1>5. TabTypes' /\ ServerTypes'
  BY <1>1, AddsKeeps DEF TabTypes
<1>6. AuthHolds(storage)'
  BY <1>3
<1> QED
  BY <1>4, <1>5, <1>6 DEF SessionInv

LEMMA SessionInit == Init => SessionInv
<1> SUFFICES ASSUME Init PROVE SessionInv
  OBVIOUS
<1>1. ServerTypes /\ UserTypes
  BY SessionConstants, EmptySeq DEF Init, ServerTypes, UserTypes
<1>2. AuthHolds(storage) /\ storage \in Auth
  BY SignedOutHolds DEF Init, AuthHolds
<1>3. TabTypes
  BY <1>2, NoFlightHolds DEF Init, TabTypes, FlightHolds
<1>4. ASSUME NEW t \in Tab PROVE TabHolds(t)
  BY SignedOutHolds, NoFlightHolds DEF Init, TabHolds
<1> QED
  BY <1>1, <1>2, <1>3, <1>4 DEF SessionInv

LEMMA SessionKept ==
  ASSUME SessionInv, [Next]_vars
  PROVE  SessionInv' /\ [LateSignsNobodyIn]_vars
<1>1. ASSUME NEW t \in Tab, Hear(t)
      PROVE  SessionInv' /\ LateSignsNobodyIn
  BY <1>1, HearKeeps DEF Hear, LateSignsNobodyIn
<1>2. ASSUME NEW t \in Tab, Load(t)
      PROVE  SessionInv' /\ LateSignsNobodyIn
  BY <1>2, LoadKeeps DEF Load, LateSignsNobodyIn
<1>3. ASSUME NEW t \in Tab, Answer(t)
      PROVE  SessionInv' /\ LateSignsNobodyIn
  BY <1>3, AnswerKeeps DEF Answer, LateSignsNobodyIn
<1>4. ASSUME NEW t \in Tab, Deliver(t)
      PROVE  SessionInv' /\ LateSignsNobodyIn
  <2>1. storage'.token \in {0, storage.token}
    BY <1>4, Delivers DEF Writes
  <2> QED
    BY <1>4, <2>1, DeliverKeeps DEF LateSignsNobodyIn
<1>5. ASSUME NEW t \in Tab, DropSession(t) \/ SignOut(t)
      PROVE  SessionInv' /\ LateSignsNobodyIn
  <2>1. storage' = SignedOut
    BY <1>5 DEF DropSession, SignOut, Write, Writes
  <2> QED
    BY <1>5, <2>1, SignedOutKeeps, SignedOutHolds DEF LateSignsNobodyIn
<1>6. ASSUME NEW t \in Tab, SignIn(t) \/ SignInFails(t)
      PROVE  SessionInv' /\ LateSignsNobodyIn
  <2>1. UNCHANGED <<storage, auth, unheard, flight, waiting, settled, issued, live, owners>>
    BY <1>6 DEF SignIn, SignInFails, tabs, server
  <2>2. UserTypes'
    BY <1>6 DEF SignIn, SignInFails, UserTypes, SessionInv
  <2> QED
    BY <2>1, <2>2, OthersKeep, NothingAdded DEF LateSignsNobodyIn, SessionInv, server
<1>7. ASSUME NEW t \in Tab, Verified(t)
      PROVE  SessionInv' /\ LateSignsNobodyIn
  BY <1>7, VerifiedKeeps DEF Verified, Write, Writes, LateSignsNobodyIn
<1>8. CASE SwitchWallet
  BY <1>8, OthersKeep, NothingAdded
     DEF SwitchWallet, tabs, LateSignsNobodyIn, SessionInv, UserTypes
<1>9. CASE Revoke
  <2>1. UNCHANGED <<storage, auth, unheard, flight, waiting, settled, issued, owners>>
        /\ live' \subseteq live
    BY <1>9 DEF Revoke, tabs
  <2>2. Adds /\ UserTypes'
    BY <1>9, <2>1 DEF Revoke, Adds, SessionInv, ServerTypes, UserTypes
  <2> QED
    BY <2>1, <2>2, OthersKeep DEF LateSignsNobodyIn
<1>10. CASE Claim
  <2>1. UNCHANGED <<storage, auth, unheard, flight, waiting, settled, issued, live>>
    BY <1>10 DEF Claim, tabs
  <2>2. Adds /\ UserTypes'
    BY <1>10, <2>1 DEF Claim, Adds, SessionInv, ServerTypes, UserTypes
  <2> QED
    BY <2>1, <2>2, OthersKeep DEF LateSignsNobodyIn
<1>11. CASE UNCHANGED vars
  <2>1. Adds /\ UserTypes'
    BY <1>11, NothingAdded DEF vars, server, SessionInv, UserTypes
  <2> QED
    BY <1>11, <2>1, OthersKeep DEF vars
<1> QED
  BY <1>1, <1>2, <1>3, <1>4, <1>5, <1>6, <1>7, <1>8, <1>9, <1>10, <1>11 DEF Next

LEMMA SessionShows ==
  ASSUME SessionInv
  PROVE  TypeOK /\ SessionIsOne
<1>1. NeverMixed /\ TabsAgree
  BY DEF SessionInv, AuthHolds, TabHolds, NeverMixed, TabsAgree
<1>2. ASSUME NEW t \in Tab
      PROVE  /\ flight[t].token \in {0} \cup Token
             /\ flight[t].answer \in {Pending, Refused, Lost}
                   \cup {Me(w, name) : w \in Wallet, name \in Wallet \cup {None}}
             /\ flight[t].token = 0 => waiting[t] = {}
             /\ auth[t].token # 0 /\ ~ settled[t] => "dashboard" \in waiting[t]
  BY DEF SessionInv, TabHolds, FlightHolds, Said
<1> QED
  BY <1>1, <1>2
     DEF TypeOK, SessionIsOne, SessionInv, TabTypes, ServerTypes, UserTypes, AuthHolds

-----------------------------------------------------------------------------
(* A payment. A lookup that was not aborted is of the name typed, and the  *)
(* panel of a name that is shown goes with the onConfirm calls of its flow.*)
LookupsHold ==
  \A l \in lookups : ~ l.aborted => l.name = typed /\ found = None
PanelHolds ==
  found # None =>
    /\ found = typed
    /\ busy <=> P!Busy(flow.stage)
    /\ flow.stage \in {"form", "review", "signing"} => flow.sent = 0
    /\ flow.stage \in {"review", "signing"} => flow.amount # None
    /\ flow.stage = "success" /\ flow.chain \in Waits =>
         /\ flow.sent \in 1 .. Len(payments)
         /\ payments[flow.sent].fate \notin {"waiting", "reverted"}
FeesHold ==
  found # None =>
    /\ \A e \in estimates : ~ e.cancelled =>
         flow.stage = "review" /\ e.amount = flow.amount
    /\ flow.stage \in {"review", "signing"} /\ fee # None => fee = flow.amount
RunHolds(r) ==
  /\ r.flow <= flow.id /\ r.sent <= Len(payments)
  /\ found # None /\ r.flow = flow.id =>
       /\ r.chain = flow.chain
       /\ r.sent = 0 => flow.stage = "signing"
       /\ r.sent # 0 => flow.stage = "confirming" /\ flow.sent = r.sent
PayInv ==
  /\ P!TypeOK /\ Len(payments) <= MaxPayments
  /\ LookupsHold /\ PanelHolds /\ FeesHold
  /\ \A r \in runs : RunHolds(r)

Panel == [id : P!Flows, chain : Chain, stage : P!Stage,
          amount : Amount \cup {None}, sent : 0 .. MaxPayments]
Estimate == [amount : Amount, cancelled : BOOLEAN]
Run == [flow : P!Flows, name : Name, chain : Chain, sent : 0 .. MaxPayments]
Payment == [flow : P!Flows, name : Name,
            fate : {"waiting", "mined", "reverted", "replaced"}]

LEMMA PayNumbers ==
  /\ MaxFlows \in Nat /\ MaxFlows > 0 /\ MaxPayments \in Nat /\ P!Flows = 1 .. MaxFlows
  /\ None \notin Name /\ None \notin Amount /\ Waits \subseteq Chain
  BY WebHolds DEF P!PaymentConstants, P!Flows

LEMMA PayTypes ==
  ASSUME PayInv
  PROVE  /\ typed \in Name \cup {None} /\ found \in Name \cup {None}
         /\ lookups \subseteq [name : Name, aborted : BOOLEAN]
         /\ busy \in BOOLEAN /\ plugged \in BOOLEAN /\ flow \in Panel
         /\ fee \in Amount \cup {None} /\ estimates \subseteq Estimate
         /\ runs \subseteq Run /\ payments \in Seq(Payment)
         /\ Len(payments) \in 0 .. MaxPayments
         /\ \A r1, r2 \in runs : r1.flow = r2.flow => r1 = r2
<1>1. P!TypeOK /\ Len(payments) <= MaxPayments
  BY DEF PayInv
<1>2. /\ payments \in Seq(Payment) /\ Len(payments) \in Nat
  BY <1>1 DEF P!TypeOK, Payment
<1> QED
  BY <1>1, <1>2, PayNumbers DEF P!TypeOK, Panel, Estimate, Run

LEMMA FreshPanel ==
  ASSUME NEW id \in P!Flows, NEW c \in Chain
  PROVE  /\ P!Fresh(id, c) \in Panel
         /\ P!Fresh(id, c).id = id /\ P!Fresh(id, c).chain = c
         /\ P!Fresh(id, c).stage = "form" /\ P!Fresh(id, c).sent = 0
         /\ P!Fresh(id, c).amount = None
  BY PayNumbers DEF P!Fresh, Panel, P!Stage

LEMMA AllCancelled ==
  ASSUME estimates \subseteq Estimate
  PROVE  P!Cancelled \subseteq Estimate /\ \A e \in P!Cancelled : e.cancelled
  BY DEF P!Cancelled, Estimate

LEMMA OtherStage ==
  ASSUME flow \in Panel, NEW s \in P!Stage
  PROVE  /\ P!To(s) \in Panel /\ P!To(s).stage = s
         /\ P!To(s).id = flow.id /\ P!To(s).chain = flow.chain
         /\ P!To(s).amount = flow.amount /\ P!To(s).sent = flow.sent
<1>1. PICK f : f = [flow EXCEPT !.stage = s]
  OBVIOUS
<1>2. /\ f \in Panel /\ f.stage = s
      /\ f.id = flow.id /\ f.chain = flow.chain
      /\ f.amount = flow.amount /\ f.sent = flow.sent
  BY <1>1 DEF Panel
<1> QED
  BY <1>1, <1>2 DEF P!To

LEMMA PayInit == P!Init => PayInv
<1> SUFFICES ASSUME P!Init PROVE PayInv
  OBVIOUS
<1>1. PICK c \in Chain : flow = P!Fresh(1, c)
  BY DEF P!Init
<1>2. /\ flow \in Panel /\ flow.stage = "form" /\ flow.sent = 0
  BY <1>1, FreshPanel, PayNumbers
<1>3. payments = <<>> /\ Len(payments) = 0 /\ payments \in Seq(Payment)
  BY EmptySeq DEF P!Init
<1>4. /\ typed = None /\ found = None /\ lookups = {} /\ busy = FALSE
      /\ plugged \in BOOLEAN /\ fee = None /\ estimates = {} /\ runs = {}
  BY DEF P!Init
<1>5. P!TypeOK
  BY <1>2, <1>3, <1>4 DEF P!TypeOK, Panel, Payment
<1> QED
  BY <1>2, <1>3, <1>4, <1>5, PayNumbers
     DEF PayInv, LookupsHold, PanelHolds, FeesHold

LEMMA PayTypesAgain ==
  ASSUME typed' \in Name \cup {None}, found' \in Name \cup {None},
         lookups' \subseteq [name : Name, aborted : BOOLEAN],
         busy' \in BOOLEAN, plugged' \in BOOLEAN, flow' \in Panel,
         fee' \in Amount \cup {None}, estimates' \subseteq Estimate,
         runs' \subseteq Run, payments' \in Seq(Payment),
         Len(payments') <= MaxPayments,
         \A r1, r2 \in runs' : r1.flow = r2.flow => r1 = r2
  PROVE  (P!TypeOK /\ Len(payments) <= MaxPayments)'
  BY DEF P!TypeOK, Panel, Estimate, Run, Payment

LEMMA BusyStages ==
  /\ P!Busy("form") = FALSE /\ P!Busy("review") = FALSE
  /\ P!Busy("success") = FALSE /\ P!Busy("unconfirmed") = FALSE
  /\ P!Busy("signing") = TRUE /\ P!Busy("confirming") = TRUE
  BY DEF P!Busy

(* Steps of the page, after which no panel or a new one is mounted.        *)
LEMMA PayType ==
  ASSUME PayInv, P!Type
  PROVE  PayInv' /\ P!StaysMounted
<1>1. PICK n \in (Name \cup {None}) \ {typed} :
        /\ typed' = n
        /\ lookups' = {[l EXCEPT !.aborted = TRUE] : l \in lookups}
             \cup (IF n = None THEN {} ELSE {[name |-> n, aborted |-> FALSE]})
  BY DEF P!Type
<1>2. /\ found' = None /\ fee' = None /\ estimates' = P!Cancelled
      /\ UNCHANGED <<busy, flow, plugged, runs, payments>>
  BY DEF P!Type, P!Abandoned
<1>3. \A l \in lookups' :
        /\ l \in [name : Name, aborted : BOOLEAN]
        /\ ~ l.aborted => l.name = n
  <2>1. \A l \in lookups :
          /\ [l EXCEPT !.aborted = TRUE] \in [name : Name, aborted : BOOLEAN]
          /\ [l EXCEPT !.aborted = TRUE].aborted = TRUE
    <3>1. \A l \in lookups : l \in [name : Name, aborted : BOOLEAN]
      BY PayTypes
    <3> QED
      BY <3>1
  <2>2. n # None => [name |-> n, aborted |-> FALSE] \in [name : Name, aborted : BOOLEAN]
    OBVIOUS
  <2>3. ASSUME NEW m \in lookups'
        PROVE  m \in [name : Name, aborted : BOOLEAN] /\ (~ m.aborted => m.name = n)
    <3>1. CASE \E l \in lookups : m = [l EXCEPT !.aborted = TRUE]
      BY <2>1, <3>1
    <3>2. CASE n # None /\ m = [name |-> n, aborted |-> FALSE]
      BY <2>2, <3>2
    <3> QED
      BY <1>1, <3>1, <3>2
  <2> QED
    BY <2>3
<1>4. (P!TypeOK /\ Len(payments) <= MaxPayments)'
  BY <1>1, <1>2, <1>3, PayTypes, AllCancelled, PayTypesAgain
<1>5. LookupsHold' /\ PanelHolds' /\ FeesHold'
  BY <1>1, <1>2, <1>3 DEF LookupsHold, PanelHolds, FeesHold
<1>6. \A r \in runs : RunHolds(r)'
  BY <1>2 DEF PayInv, RunHolds
<1>7. P!StaysMounted
  BY <1>1 DEF P!StaysMounted
<1> QED
  BY <1>2, <1>4, <1>5, <1>6, <1>7 DEF PayInv

LEMMA PayFound ==
  ASSUME PayInv, P!Found
  PROVE  PayInv' /\ P!StaysMounted
<1>1. PICK l \in lookups :
        ~ l.aborted /\ lookups' = lookups \ {l} /\ found' = l.name
  BY DEF P!Found, P!Answers
<1>2. PICK c \in Chain : flow' = P!Fresh(flow.id + 1, c) /\ flow.id < MaxFlows
  BY DEF P!Found
<1>3. /\ busy' = FALSE /\ fee' = None /\ estimates' = P!Cancelled
      /\ UNCHANGED <<typed, plugged, runs, payments>>
  BY DEF P!Found, P!Abandoned
<1>4. /\ flow' \in Panel /\ flow'.id = flow.id + 1 /\ flow'.stage = "form"
      /\ flow'.sent = 0 /\ flow.id \in Nat
  <2>1. flow.id \in P!Flows /\ flow.id + 1 \in P!Flows /\ flow.id \in Nat
    BY <1>2, PayTypes, PayNumbers DEF Panel
  <2> QED
    BY <1>2, <2>1, FreshPanel
<1>5. l.name \in Name /\ l.name = typed /\ found = None
      /\ \A m \in lookups' : m.aborted
  <2>1. lookups \subseteq [name : Name, aborted : BOOLEAN]
    BY PayTypes
  <2>2. \A m \in lookups : ~ m.aborted => m = l
    BY <1>1, <2>1 DEF PayInv, LookupsHold
  <2> QED
    BY <1>1, <2>1, <2>2 DEF PayInv, LookupsHold
<1>6. (P!TypeOK /\ Len(payments) <= MaxPayments)'
  <2>1. /\ lookups' \subseteq [name : Name, aborted : BOOLEAN] /\ busy' \in BOOLEAN
        /\ found' \in Name \cup {None} /\ fee' \in Amount \cup {None}
        /\ estimates' \subseteq Estimate
    BY <1>1, <1>3, <1>5, PayTypes, AllCancelled
  <2> QED
    BY <1>3, <1>4, <2>1, PayTypes, PayTypesAgain
<1>7. LookupsHold' /\ PanelHolds' /\ FeesHold'
  BY <1>1, <1>3, <1>4, <1>5, PayTypes, AllCancelled
     DEF LookupsHold, PanelHolds, FeesHold, P!Busy
<1>8. \A r \in runs : RunHolds(r)'
  <2>1. \A r \in runs : r.flow <= flow.id /\ r.flow \in Nat
    BY PayTypes, PayNumbers DEF PayInv, RunHolds, Run
  <2> QED
    BY <1>3, <1>4, <2>1 DEF PayInv, RunHolds
<1>9. P!StaysMounted
  BY <1>5 DEF P!StaysMounted, P!Mounted, P!Shown
<1> QED
  BY <1>3, <1>6, <1>7, <1>8, <1>9 DEF PayInv

LEMMA PayPickTab ==
  ASSUME PayInv, P!PickTab
  PROVE  PayInv' /\ P!StaysMounted
<1>1. PICK c \in Chain : flow' = P!Fresh(flow.id + 1, c)
  BY DEF P!PickTab
<1>2. /\ found # None /\ ~ busy /\ flow.id < MaxFlows
      /\ fee' = None /\ estimates' = P!Cancelled
      /\ UNCHANGED <<typed, lookups, found, busy, plugged, runs, payments>>
  BY DEF P!PickTab, P!Shown, P!Selectable, P!page, P!Abandoned
<1>3. /\ flow' \in Panel /\ flow'.id = flow.id + 1 /\ flow'.stage = "form"
      /\ flow'.sent = 0 /\ flow.id \in Nat
  <2>1. flow.id \in P!Flows /\ flow.id + 1 \in P!Flows /\ flow.id \in Nat
    BY <1>2, PayTypes, PayNumbers DEF Panel
  <2> QED
    BY <1>1, <2>1, FreshPanel
<1>4. (P!TypeOK /\ Len(payments) <= MaxPayments)'
  BY <1>2, <1>3, PayTypes, AllCancelled, PayTypesAgain
<1>5. LookupsHold' /\ PanelHolds' /\ FeesHold'
  BY <1>2, <1>3, PayTypes, AllCancelled
     DEF PayInv, LookupsHold, PanelHolds, FeesHold, P!Busy
<1>6. \A r \in runs : RunHolds(r)'
  <2>1. \A r \in runs : r.flow <= flow.id /\ r.flow \in Nat
    BY PayTypes, PayNumbers DEF PayInv, RunHolds, Run
  <2> QED
    BY <1>2, <1>3, <2>1 DEF PayInv, RunHolds
<1>7. P!StaysMounted
  <2>1. \A r \in runs : r.flow # flow.id
    BY <1>2 DEF PayInv, PanelHolds, RunHolds, P!Busy
  <2> QED
    BY <2>1 DEF P!StaysMounted, P!Mounted
<1> QED
  BY <1>2, <1>4, <1>5, <1>6, <1>7 DEF PayInv

LEMMA PayLookupEnds ==
  ASSUME PayInv, P!LookupEnds
  PROVE  PayInv' /\ P!StaysMounted
<1>1. /\ lookups' \subseteq lookups
      /\ UNCHANGED <<typed, found, busy, flow, plugged, fee, estimates, runs, payments>>
  BY DEF P!LookupEnds, P!fees
<1>2. (P!TypeOK /\ Len(payments) <= MaxPayments)'
  BY <1>1, PayTypes, PayTypesAgain
<1> QED
  BY <1>1, <1>2 DEF PayInv, LookupsHold, PanelHolds, FeesHold, RunHolds,
       P!StaysMounted, P!Mounted, P!Shown

(* Steps of the panel, which stays mounted.                                *)
LEMMA PayWalletComesOrGoes ==
  ASSUME PayInv, P!WalletComesOrGoes
  PROVE  PayInv' /\ P!StaysMounted
<1>1. UNCHANGED <<typed, lookups, found, runs, payments>> /\ plugged' \in BOOLEAN
  BY PayTypes DEF P!WalletComesOrGoes, P!page
<1>2. CASE flow.stage = "review" /\ plugged
  <2>1. /\ flow' = P!To("form") /\ busy' = P!Busy(flow'.stage)
        /\ fee' = None /\ estimates' = P!Cancelled
    BY <1>2 DEF P!WalletComesOrGoes, P!Goes, P!Abandoned
  <2>2. /\ flow' \in Panel /\ flow'.stage = "form"
        /\ flow'.id = flow.id /\ flow'.chain = flow.chain /\ flow'.sent = flow.sent
    BY <2>1, PayTypes, OtherStage DEF P!Stage
  <2>3. busy' = FALSE
    BY <2>1, <2>2, BusyStages
  <2>4. (P!TypeOK /\ Len(payments) <= MaxPayments)'
    <3>1. /\ busy' \in BOOLEAN /\ fee' \in Amount \cup {None}
          /\ estimates' \subseteq Estimate
      BY <2>1, <2>3, PayTypes, AllCancelled
    <3> QED
      BY <1>1, <2>2, <3>1, PayTypes, PayTypesAgain
  <2>5. LookupsHold' /\ PanelHolds' /\ FeesHold'
    BY <1>1, <1>2, <2>1, <2>2, <2>3, PayTypes, AllCancelled
       DEF PayInv, LookupsHold, PanelHolds, FeesHold, P!Busy
  <2>6. \A r \in runs : RunHolds(r)'
    BY <1>1, <1>2, <2>2 DEF PayInv, RunHolds
  <2> QED
    BY <1>1, <2>2, <2>4, <2>5, <2>6 DEF PayInv, P!StaysMounted, P!Mounted, P!Shown
<1>3. CASE ~ (flow.stage = "review" /\ plugged)
  <2>1. UNCHANGED <<flow, busy, fee, estimates>>
    BY <1>3 DEF P!WalletComesOrGoes, P!fees
  <2>2. (P!TypeOK /\ Len(payments) <= MaxPayments)'
    BY <1>1, <2>1, PayTypes, PayTypesAgain
  <2> QED
    BY <1>1, <2>1, <2>2 DEF PayInv, LookupsHold, PanelHolds, FeesHold, RunHolds,
         P!StaysMounted, P!Mounted, P!Shown
<1> QED
  BY <1>2, <1>3

LEMMA PaySetAmount ==
  ASSUME PayInv, P!SetAmount
  PROVE  PayInv' /\ P!StaysMounted
<1>1. PICK a \in Amount : flow' = [flow EXCEPT !.amount = a]
  BY DEF P!SetAmount
<1>2. /\ flow.stage = "form"
      /\ UNCHANGED <<typed, lookups, found, busy, plugged, fee, estimates, runs, payments>>
  BY DEF P!SetAmount, P!FormShown, P!page, P!fees
<1>3. flow \in Panel
  BY PayTypes
<1>4. /\ flow' \in Panel /\ flow'.id = flow.id /\ flow'.chain = flow.chain
      /\ flow'.stage = flow.stage /\ flow'.sent = flow.sent
  BY <1>1, <1>3 DEF Panel
<1>5. (P!TypeOK /\ Len(payments) <= MaxPayments)'
  BY <1>2, <1>4, PayTypes, PayTypesAgain
<1>6. LookupsHold' /\ PanelHolds'
  BY <1>2, <1>4 DEF PayInv, LookupsHold, PanelHolds, P!Busy
<1>7. FeesHold'
  BY <1>2, <1>4 DEF PayInv, FeesHold
<1>8. \A r \in runs : RunHolds(r)'
  BY <1>2, <1>4 DEF PayInv, RunHolds
<1> QED
  BY <1>2, <1>4, <1>5, <1>6, <1>7, <1>8 DEF PayInv, P!StaysMounted, P!Mounted, P!Shown

(* Entering the review, with an estimate of the amount under way.          *)
LEMMA EstimatesHold ==
  ASSUME PayInv, P!Estimates, flow.amount # None
  PROVE  /\ estimates' \subseteq Estimate /\ fee' = None
         /\ \A e \in estimates' : ~ e.cancelled => e.amount = flow.amount
<1>1. flow.amount \in Amount /\ estimates \subseteq Estimate
  BY PayTypes DEF Panel
<1>2. PICK e : e = [amount |-> flow.amount, cancelled |-> FALSE]
  OBVIOUS
<1>3. e \in Estimate /\ e.amount = flow.amount
  BY <1>1, <1>2 DEF Estimate
<1>4. estimates' = P!Cancelled \cup {e} /\ fee' = None
  BY <1>2 DEF P!Estimates
<1> QED
  BY <1>1, <1>3, <1>4, AllCancelled

LEMMA PayReview ==
  ASSUME PayInv, P!Review
  PROVE  PayInv' /\ P!StaysMounted
<1>1. /\ flow' = P!To("review") /\ busy' = P!Busy(flow'.stage)
      /\ flow.stage = "form" /\ flow.amount # None /\ P!Estimates
      /\ UNCHANGED <<typed, lookups, found, plugged, runs, payments>>
  BY DEF P!Review, P!Goes, P!FormShown, P!page
<1>2. /\ flow' \in Panel /\ flow'.stage = "review" /\ flow'.amount = flow.amount
      /\ flow'.id = flow.id /\ flow'.chain = flow.chain /\ flow'.sent = flow.sent
  BY <1>1, PayTypes, OtherStage DEF P!Stage
<1>3. busy' = FALSE
  BY <1>1, <1>2, BusyStages
<1>4. (P!TypeOK /\ Len(payments) <= MaxPayments)'
  <2>1. /\ busy' \in BOOLEAN /\ fee' \in Amount \cup {None}
        /\ estimates' \subseteq Estimate
    BY <1>1, <1>3, EstimatesHold
  <2> QED
    BY <1>1, <1>2, <2>1, PayTypes, PayTypesAgain
<1>5. LookupsHold' /\ PanelHolds' /\ FeesHold'
  BY <1>1, <1>2, <1>3, EstimatesHold
     DEF PayInv, LookupsHold, PanelHolds, FeesHold, P!Busy
<1>6. \A r \in runs : RunHolds(r)'
  BY <1>1, <1>2 DEF PayInv, RunHolds
<1> QED
  BY <1>1, <1>2, <1>4, <1>5, <1>6 DEF PayInv, P!StaysMounted, P!Mounted, P!Shown

LEMMA PayEstimated ==
  ASSUME PayInv, P!Estimated
  PROVE  PayInv' /\ P!StaysMounted
<1>1. PICK e \in estimates, fails \in BOOLEAN :
        /\ fee' = IF P!Wanted(e) /\ ~ fails THEN e.amount ELSE fee
        /\ estimates' = estimates \ {e}
  BY DEF P!Estimated
<1>2. UNCHANGED <<typed, lookups, found, busy, flow, plugged, runs, payments>>
  BY DEF P!Estimated, P!page
<1>3. e \in Estimate
  BY PayTypes
<1>4. /\ fee' \in {fee, e.amount} /\ estimates' \subseteq estimates
      /\ fee' # fee => ~ e.cancelled
  BY <1>1 DEF P!Wanted
<1>5. (P!TypeOK /\ Len(payments) <= MaxPayments)'
  BY <1>2, <1>3, <1>4, PayTypes, PayTypesAgain DEF Estimate
<1>6. FeesHold'
  BY <1>1, <1>2, <1>4 DEF PayInv, FeesHold
<1> QED
  BY <1>2, <1>5, <1>6 DEF PayInv, LookupsHold, PanelHolds, RunHolds, P!Busy,
       P!StaysMounted, P!Mounted, P!Shown

LEMMA PayEdit ==
  ASSUME PayInv, P!Edit
  PROVE  PayInv' /\ P!StaysMounted
<1>1. /\ flow' = P!To("form") /\ busy' = P!Busy(flow'.stage)
      /\ flow.stage = "review" /\ fee' = None /\ estimates' = P!Cancelled
      /\ UNCHANGED <<typed, lookups, found, plugged, runs, payments>>
  BY DEF P!Edit, P!Goes, P!ReviewShown, P!page, P!Abandoned
<1>2. /\ flow' \in Panel /\ flow'.stage = "form"
      /\ flow'.id = flow.id /\ flow'.chain = flow.chain /\ flow'.sent = flow.sent
  BY <1>1, PayTypes, OtherStage DEF P!Stage
<1>3. busy' = FALSE
  BY <1>1, <1>2, BusyStages
<1>4. (P!TypeOK /\ Len(payments) <= MaxPayments)'
  <2>1. /\ busy' \in BOOLEAN /\ fee' \in Amount \cup {None}
        /\ estimates' \subseteq Estimate
    BY <1>1, <1>3, PayTypes, AllCancelled
  <2> QED
    BY <1>1, <1>2, <2>1, PayTypes, PayTypesAgain
<1>5. LookupsHold' /\ PanelHolds' /\ FeesHold'
  BY <1>1, <1>2, <1>3, PayTypes, AllCancelled
     DEF PayInv, LookupsHold, PanelHolds, FeesHold, P!Busy
<1>6. \A r \in runs : RunHolds(r)'
  BY <1>1, <1>2 DEF PayInv, RunHolds
<1> QED
  BY <1>1, <1>2, <1>4, <1>5, <1>6 DEF PayInv, P!StaysMounted, P!Mounted, P!Shown

(* Steps of an onConfirm call. At most one call is of the flow mounted, and *)
(* a call whose flow is not mounted changes nothing of the panel.           *)
LEMMA PayConfirm ==
  ASSUME PayInv, P!Confirm
  PROVE  PayInv' /\ P!StaysMounted
<1>1. PICK r : r = [flow |-> flow.id, name |-> found, chain |-> flow.chain, sent |-> 0]
  OBVIOUS
<1>2. /\ flow' = P!To("signing") /\ busy' = P!Busy(flow'.stage)
      /\ found # None /\ flow.stage = "review" /\ estimates' = P!Cancelled
      /\ runs' = runs \cup {r}
      /\ UNCHANGED <<typed, lookups, found, plugged, fee, payments>>
  BY <1>1 DEF P!Confirm, P!Goes, P!ReviewShown, P!Shown, P!page
<1>3. /\ flow' \in Panel /\ flow'.stage = "signing" /\ flow'.amount = flow.amount
      /\ flow'.id = flow.id /\ flow'.chain = flow.chain /\ flow'.sent = flow.sent
  BY <1>2, PayTypes, OtherStage DEF P!Stage
<1>4. busy' = TRUE
  BY <1>2, <1>3, BusyStages
<1>5. r \in Run /\ r.flow = flow.id /\ r.chain = flow.chain /\ r.sent = 0
      /\ \A q \in runs : q.flow # flow.id
  BY <1>1, <1>2, PayTypes, PayNumbers DEF PayInv, RunHolds, Panel, Run
<1>6. (P!TypeOK /\ Len(payments) <= MaxPayments)'
  <2>1. /\ busy' \in BOOLEAN /\ fee' \in Amount \cup {None}
        /\ estimates' \subseteq Estimate /\ runs' \subseteq Run
    BY <1>2, <1>4, <1>5, PayTypes, AllCancelled
  <2>2. \A r1, r2 \in runs' : r1.flow = r2.flow => r1 = r2
    BY <1>2, <1>5, PayTypes
  <2> QED
    BY <1>2, <1>3, <2>1, <2>2, PayTypes, PayTypesAgain
<1>7. LookupsHold' /\ PanelHolds' /\ FeesHold'
  BY <1>2, <1>3, <1>4, PayTypes, AllCancelled
     DEF PayInv, LookupsHold, PanelHolds, FeesHold, P!Busy
<1>8. \A q \in runs' : RunHolds(q)'
  <2>1. RunHolds(r)'
    BY <1>2, <1>3, <1>5, PayTypes, PayNumbers DEF RunHolds, Panel
  <2>2. \A q \in runs : RunHolds(q)'
    BY <1>2, <1>3, <1>5 DEF PayInv, RunHolds
  <2> QED
    BY <1>2, <2>1, <2>2
<1> QED
  BY <1>2, <1>3, <1>6, <1>7, <1>8 DEF PayInv, P!StaysMounted, P!Mounted, P!Shown

(* What is left of the calls when one of them ends.                        *)
LEMMA OneRunLess ==
  ASSUME PayInv, NEW r \in runs, runs' = runs \ {r},
         found' = found, payments' = payments,
         \/ P!Mounted(r) /\ flow'.id = flow.id
         \/ ~ P!Mounted(r) /\ flow' = flow
  PROVE  \A q \in runs' : RunHolds(q)'
<1>1. \A q \in runs' : found # None /\ q.flow = flow.id => ~ P!Mounted(r)
  BY PayTypes DEF P!Mounted, P!Shown
<1> QED
  BY <1>1 DEF PayInv, RunHolds

LEMMA PaySignFails ==
  ASSUME PayInv, P!SignFails
  PROVE  PayInv' /\ P!StaysMounted
<1>1. PICK r \in runs :
        /\ r.sent = 0 /\ runs' = runs \ {r}
        /\ P!Dispatch(r, P!To(P!BackTo("review")))
        /\ IF ~ P!Mounted(r) THEN UNCHANGED <<fee, estimates>>
           ELSE IF plugged THEN P!Estimates ELSE P!Abandoned
  BY DEF P!SignFails, P!fees
<1>2. UNCHANGED <<typed, lookups, found, plugged, payments>>
  BY DEF P!SignFails, P!page
<1>3. CASE ~ P!Mounted(r)
  <2>1. UNCHANGED <<flow, busy, fee, estimates>>
    BY <1>1, <1>3 DEF P!Dispatch
  <2>2. (P!TypeOK /\ Len(payments) <= MaxPayments)'
    BY <1>1, <1>2, <2>1, PayTypes, PayTypesAgain
  <2>3. \A q \in runs' : RunHolds(q)'
    BY <1>1, <1>2, <1>3, <2>1, OneRunLess
  <2> QED
    BY <1>2, <2>1, <2>2, <2>3 DEF PayInv, LookupsHold, PanelHolds, FeesHold,
         P!StaysMounted, P!Mounted, P!Shown
<1>4. CASE P!Mounted(r)
  <2>1. PICK s \in {"review", "form"} :
          /\ flow' = P!To(s) /\ busy' = P!Busy(flow'.stage)
          /\ \/ s = "review" /\ P!Estimates
             \/ s = "form" /\ P!Abandoned
    BY <1>1, <1>4, PayTypes DEF P!Dispatch, P!Goes, P!BackTo
  <2>2. /\ flow' \in Panel /\ flow'.stage = s /\ flow'.amount = flow.amount
        /\ flow'.id = flow.id /\ flow'.chain = flow.chain /\ flow'.sent = flow.sent
    BY <2>1, PayTypes, OtherStage DEF P!Stage
  <2>3. busy' = FALSE
    BY <2>1, <2>2, BusyStages
  <2>4. flow.stage = "signing" /\ found # None
    BY <1>1, <1>4 DEF PayInv, RunHolds, P!Mounted, P!Shown
  <2>5. /\ fee' = None /\ estimates' \subseteq Estimate
        /\ \A e \in estimates' : ~ e.cancelled => s = "review" /\ e.amount = flow.amount
    <3>1. flow.amount # None
      BY <2>4 DEF PayInv, PanelHolds
    <3>2. CASE s = "review" /\ P!Estimates
      BY <3>1, <3>2, EstimatesHold
    <3>3. CASE s = "form" /\ P!Abandoned
      BY <3>3, PayTypes, AllCancelled DEF P!Abandoned
    <3> QED
      BY <2>1, <3>2, <3>3
  <2>6. (P!TypeOK /\ Len(payments) <= MaxPayments)'
    <3>1. busy' \in BOOLEAN /\ fee' \in Amount \cup {None} /\ runs' \subseteq Run
      BY <1>1, <2>3, <2>5, PayTypes
    <3> QED
      BY <1>1, <1>2, <2>2, <2>5, <3>1, PayTypes, PayTypesAgain
  <2>7. LookupsHold' /\ PanelHolds' /\ FeesHold'
    BY <1>2, <2>2, <2>3, <2>4, <2>5
       DEF PayInv, LookupsHold, PanelHolds, FeesHold, P!Busy
  <2>8. \A q \in runs' : RunHolds(q)'
    BY <1>1, <1>2, <1>4, <2>2, OneRunLess
  <2> QED
    BY <1>2, <2>2, <2>6, <2>7, <2>8 DEF PayInv, P!StaysMounted, P!Mounted, P!Shown
<1> QED
  BY <1>3, <1>4

LEMMA PaySent ==
  ASSUME PayInv, P!Sent
  PROVE  PayInv' /\ P!StaysMounted
<1> DEFINE n == Len(payments) + 1
<1>1. PICK r \in runs :
        /\ r.sent = 0
        /\ payments' = Append(payments, [flow |-> r.flow, name |-> r.name,
                                         fate |-> "waiting"])
        /\ IF r.chain \in Waits
           THEN /\ runs' = (runs \ {r}) \cup {[r EXCEPT !.sent = n]}
                /\ P!Dispatch(r, [P!To("confirming") EXCEPT !.sent = n])
           ELSE /\ runs' = runs \ {r}
                /\ P!Dispatch(r, [P!To("success") EXCEPT !.sent = n])
  BY DEF P!Sent
<1>2. /\ UNCHANGED <<typed, lookups, found, plugged, fee, estimates>>
      /\ Len(payments) < MaxPayments
  BY DEF P!Sent, P!page, P!fees
<1>3. /\ payments \in Seq(Payment) /\ Len(payments) \in Nat
      /\ n \in 0 .. MaxPayments /\ n # 0 /\ r \in Run
  BY <1>2, PayTypes, PayNumbers
<1>4. /\ payments' \in Seq(Payment) /\ Len(payments') = n
      /\ \A i \in 1 .. Len(payments) : payments'[i] = payments[i]
  <2>1. [flow |-> r.flow, name |-> r.name, fate |-> "waiting"] \in Payment
    BY <1>3 DEF Run, Payment
  <2> QED
    BY <1>1, <1>3, <2>1
<1>5. PICK q : q = [r EXCEPT !.sent = n]
  OBVIOUS
<1>6. /\ q \in Run /\ q.sent = n /\ q.flow = r.flow /\ q.chain = r.chain
  BY <1>3, <1>5 DEF Run
<1>7. /\ runs' \subseteq (runs \ {r}) \cup {q}
      /\ q \in runs' => r.chain \in Waits
  BY <1>1, <1>5, <1>6, PayTypes
<1>8. /\ runs' \subseteq Run
      /\ \A r1, r2 \in runs' : r1.flow = r2.flow => r1 = r2
  BY <1>6, <1>7, PayTypes
<1>9. CASE ~ P!Mounted(r)
  <2>1. UNCHANGED <<flow, busy>>
    BY <1>1, <1>9 DEF P!Dispatch
  <2>2. (P!TypeOK /\ Len(payments) <= MaxPayments)'
    BY <1>2, <1>3, <1>4, <1>8, <2>1, PayTypes, PayTypesAgain
  <2>3. LookupsHold' /\ PanelHolds' /\ FeesHold'
    BY <1>2, <1>3, <1>4, <2>1 DEF PayInv, LookupsHold, PanelHolds, FeesHold
  <2>4. \A x \in runs \ {r} : RunHolds(x)'
    BY <1>2, <1>3, <1>4, <2>1, PayTypes DEF PayInv, RunHolds, Run
  <2>5. RunHolds(q)'
    BY <1>2, <1>3, <1>4, <1>6, <1>9, <2>1 DEF PayInv, RunHolds, P!Mounted, P!Shown
  <2> QED
    BY <1>2, <1>7, <2>1, <2>2, <2>3, <2>4, <2>5
       DEF PayInv, P!StaysMounted, P!Mounted, P!Shown
<1>10. CASE P!Mounted(r)
  <2>1. found # None /\ r.flow = flow.id /\ flow.stage = "signing" /\ r.chain = flow.chain
    BY <1>1, <1>10 DEF PayInv, RunHolds, P!Mounted, P!Shown
  <2>2. PICK s \in {"confirming", "success"} :
          /\ flow' = [P!To(s) EXCEPT !.sent = n] /\ busy' = P!Busy(flow'.stage)
          /\ s = "confirming" <=> r.chain \in Waits
    BY <1>1, <1>10 DEF P!Dispatch, P!Goes
  <2>3. /\ P!To(s) \in Panel /\ P!To(s).stage = s
        /\ P!To(s).id = flow.id /\ P!To(s).chain = flow.chain
        /\ P!To(s).amount = flow.amount
    BY PayTypes, OtherStage DEF P!Stage
  <2>4. /\ flow' \in Panel /\ flow'.stage = s /\ flow'.sent = n
        /\ flow'.id = flow.id /\ flow'.chain = flow.chain
    BY <2>2, <2>3, <1>3 DEF Panel
  <2>5. busy' = P!Busy(s) /\ busy' \in BOOLEAN
    BY <2>2, <2>4, BusyStages
  <2>6. (P!TypeOK /\ Len(payments) <= MaxPayments)'
    BY <1>2, <1>3, <1>4, <1>8, <2>4, <2>5, PayTypes, PayTypesAgain
  <2>7. LookupsHold' /\ PanelHolds' /\ FeesHold'
    <3>1. LookupsHold' /\ FeesHold'
      BY <1>2, <2>1, <2>4 DEF PayInv, LookupsHold, FeesHold
    <3>2. PanelHolds'
      BY <1>2, <2>1, <2>2, <2>4, <2>5 DEF PayInv, PanelHolds
    <3> QED
      BY <3>1, <3>2
  <2>8. ASSUME NEW x \in runs \ {r} PROVE RunHolds(x)'
    <3>1. x.flow # flow.id
      BY <2>1, PayTypes
    <3> QED
      BY <1>2, <1>3, <1>4, <2>4, <3>1, PayTypes DEF PayInv, RunHolds, Run
  <2>9. r.chain \in Waits => RunHolds(q)'
    BY <1>2, <1>3, <1>4, <1>6, <2>1, <2>2, <2>4, PayTypes, PayNumbers
       DEF RunHolds, Panel
  <2> QED
    BY <1>2, <1>7, <2>4, <2>6, <2>7, <2>8, <2>9
       DEF PayInv, P!StaysMounted, P!Mounted, P!Shown
<1> QED
  BY <1>9, <1>10

LEMMA PayMeets ==
  ASSUME PayInv, P!Meets
  PROVE  PayInv' /\ P!StaysMounted
<1>1. PICK i \in DOMAIN payments, fate \in {"mined", "reverted", "replaced"} :
        payments[i].fate = "waiting" /\ payments' = [payments EXCEPT ![i].fate = fate]
  BY DEF P!Meets
<1>2. UNCHANGED <<typed, lookups, found, busy, flow, plugged, fee, estimates, runs>>
  BY DEF P!Meets, P!page, P!fees
<1>3. payments \in Seq(Payment) /\ DOMAIN payments = 1 .. Len(payments)
  BY PayTypes
<1>4. PICK p : p = [payments[i] EXCEPT !.fate = fate]
  OBVIOUS
<1>5. p \in Payment
  <2>1. payments[i] \in Payment
    BY <1>3
  <2> QED
    BY <1>4, <2>1 DEF Payment
<1>6. payments' = [payments EXCEPT ![i] = p]
  BY <1>1, <1>4
<1>7. /\ payments' \in Seq(Payment) /\ Len(payments') = Len(payments)
      /\ \A k \in 1 .. Len(payments) : k # i => payments'[k] = payments[k]
  BY <1>3, <1>5, <1>6
<1>8. (P!TypeOK /\ Len(payments) <= MaxPayments)'
  BY <1>2, <1>7, PayTypes, PayTypesAgain
<1>9. PanelHolds'
  BY <1>1, <1>2, <1>7 DEF PayInv, PanelHolds
<1> QED
  BY <1>2, <1>7, <1>8, <1>9 DEF PayInv, LookupsHold, FeesHold, RunHolds,
       P!StaysMounted, P!Mounted, P!Shown

LEMMA PaySettles ==
  ASSUME PayInv, P!Confirmed \/ P!Unconfirmed
  PROVE  PayInv' /\ P!StaysMounted
<1>1. PICK r \in runs, s \in {"success", "unconfirmed"} :
        /\ r.sent # 0 /\ runs' = runs \ {r} /\ P!Dispatch(r, P!To(s))
        /\ s = "success" => P!Succeeded(payments[r.sent])
  BY DEF P!Confirmed, P!Unconfirmed, P!AfterNoAnswer
<1>2. UNCHANGED <<typed, lookups, found, plugged, fee, estimates, payments>>
  BY DEF P!Confirmed, P!Unconfirmed, P!page, P!fees
<1>3. CASE ~ P!Mounted(r)
  <2>1. UNCHANGED <<flow, busy>>
    BY <1>1, <1>3 DEF P!Dispatch
  <2>2. (P!TypeOK /\ Len(payments) <= MaxPayments)'
    BY <1>1, <1>2, <2>1, PayTypes, PayTypesAgain
  <2>3. \A q \in runs' : RunHolds(q)'
    BY <1>1, <1>2, <1>3, <2>1, OneRunLess
  <2> QED
    BY <1>2, <2>1, <2>2, <2>3 DEF PayInv, LookupsHold, PanelHolds, FeesHold,
         P!StaysMounted, P!Mounted, P!Shown
<1>4. CASE P!Mounted(r)
  <2>1. flow' = P!To(s) /\ busy' = P!Busy(flow'.stage)
    BY <1>1, <1>4 DEF P!Dispatch, P!Goes
  <2>2. /\ flow' \in Panel /\ flow'.stage = s
        /\ flow'.id = flow.id /\ flow'.chain = flow.chain /\ flow'.sent = flow.sent
    BY <2>1, PayTypes, OtherStage DEF P!Stage
  <2>3. busy' = FALSE
    BY <2>1, <2>2, BusyStages
  <2>4. /\ flow.stage = "confirming" /\ flow.sent = r.sent
        /\ r.sent \in 1 .. Len(payments)
    <3>1. r \in Run /\ r.sent \in 0 .. MaxPayments /\ Len(payments) \in Nat
      BY PayTypes, PayNumbers DEF Run
    <3> QED
      BY <1>1, <1>4, <3>1, PayNumbers DEF PayInv, RunHolds, P!Mounted, P!Shown
  <2>5. s = "success" => payments[r.sent].fate \notin {"waiting", "reverted"}
    BY <1>1 DEF P!Succeeded
  <2>6. (P!TypeOK /\ Len(payments) <= MaxPayments)'
    <3>1. busy' \in BOOLEAN /\ runs' \subseteq Run
      BY <1>1, <2>3, PayTypes
    <3> QED
      BY <1>1, <1>2, <2>2, <3>1, PayTypes, PayTypesAgain
  <2>7. LookupsHold' /\ PanelHolds' /\ FeesHold'
    BY <1>2, <2>2, <2>3, <2>4, <2>5
       DEF PayInv, LookupsHold, PanelHolds, FeesHold, P!Busy
  <2>8. \A q \in runs' : RunHolds(q)'
    BY <1>1, <1>2, <1>4, <2>2, OneRunLess
  <2> QED
    BY <1>2, <2>2, <2>6, <2>7, <2>8 DEF PayInv, P!StaysMounted, P!Mounted, P!Shown
<1> QED
  BY <1>3, <1>4

LEMMA PayReset ==
  ASSUME PayInv, P!Reset
  PROVE  PayInv' /\ P!StaysMounted
<1> DEFINE f0 == P!Fresh(flow.id, flow.chain)
<1>1. /\ flow' = [f0 EXCEPT !.sent = 0] /\ busy' = P!Busy(flow'.stage)
      /\ flow.stage \in {"success", "unconfirmed"}
      /\ UNCHANGED <<typed, lookups, found, plugged, fee, estimates, runs, payments>>
  BY DEF P!Reset, P!Goes, P!SuccessShown, P!UnconfirmedShown, P!page, P!fees
<1>2. /\ f0 \in Panel /\ f0.stage = "form" /\ f0.sent = 0
      /\ f0.id = flow.id /\ f0.chain = flow.chain
  BY PayTypes, FreshPanel DEF Panel
<1> HIDE DEF f0
<1>3. /\ flow' \in Panel /\ flow'.stage = "form" /\ flow'.sent = 0
      /\ flow'.id = flow.id /\ flow'.chain = flow.chain
  BY <1>1, <1>2 DEF Panel
<1>4. busy' = FALSE
  BY <1>1, <1>3, BusyStages
<1>5. (P!TypeOK /\ Len(payments) <= MaxPayments)'
  <2>1. busy' \in BOOLEAN
    BY <1>4
  <2> QED
    BY <1>1, <1>3, <2>1, PayTypes, PayTypesAgain
<1>6. LookupsHold' /\ PanelHolds' /\ FeesHold'
  BY <1>1, <1>3, <1>4 DEF PayInv, LookupsHold, PanelHolds, FeesHold, P!Busy
<1>7. \A r \in runs : RunHolds(r)'
  BY <1>1, <1>3 DEF PayInv, RunHolds
<1> QED
  BY <1>1, <1>3, <1>5, <1>6, <1>7 DEF PayInv, P!StaysMounted, P!Mounted, P!Shown

LEMMA PayKept ==
  ASSUME PayInv, [P!Next]_<<pay, payments>>
  PROVE  PayInv' /\ [P!StaysMounted]_<<pay, payments>>
<1>1. CASE P!Next
  BY <1>1, PayType, PayFound, PayLookupEnds, PayPickTab, PayWalletComesOrGoes,
     PaySetAmount, PayReview, PayEstimated, PayEdit, PayConfirm, PaySignFails,
     PaySent, PayMeets, PaySettles, PayReset DEF P!Next
<1>2. CASE UNCHANGED <<pay, payments>>
  BY <1>2, PayTypes, PayTypesAgain
     DEF pay, PayInv, LookupsHold, PanelHolds, FeesHold, RunHolds
<1> QED
  BY <1>1, <1>2

LEMMA PayShows ==
  ASSUME PayInv
  PROVE  /\ P!TypeOK /\ P!PaysWhoIsTyped /\ P!FeeIsForAmount
         /\ P!OfferedOnce /\ P!SuccessIsSettled
<1>1. P!TypeOK /\ P!PaysWhoIsTyped /\ P!FeeIsForAmount /\ P!SuccessIsSettled
  BY DEF PayInv, PanelHolds, FeesHold, P!PaysWhoIsTyped, P!FeeIsForAmount,
         P!SuccessIsSettled, P!Shown, P!SuccessShown
<1>2. P!OfferedOnce
  BY DEF PayInv, PanelHolds, RunHolds, P!OfferedOnce, P!Shown
<1> QED
  BY <1>1, <1>2

-----------------------------------------------------------------------------
(* The adapters. What Phantom has told and the page has not heard is what  *)
(* Phantom is, so hearing it leaves the page right.                        *)
Notes == [{"solana", "bitcoin"} -> Key \cup {None}]
Sending == [chain : DOMAIN wallet, network : Network, key : Key]
Landed == [chain : DOMAIN wallet, shown : Network, at : Network \cup Other]

UnheardIsSo ==
  events # <<>> =>
    /\ chain = "solana"
    /\ \E k \in Key \cup {None} :
         /\ events = <<k>>
         /\ k # None => A!Trusted("solana") /\ wallet["solana"].key = k
AdaptInv ==
  /\ A!TypeOK /\ A!LandsWhereShown /\ A!ShowsTheAccount /\ UnheardIsSo
  /\ timer => chain = "solana"

LEMMA AdaptNumbers ==
  /\ None \notin Key /\ None \notin Network
  /\ \A offered \in Payee : offered \subseteq {"ethereum", "solana", "bitcoin"}
  BY WebHolds DEF A!PayAdaptersConstants

LEMMA AdaptTypes ==
  ASSUME AdaptInv
  PROVE  /\ chain \in DOMAIN wallet /\ DOMAIN wallet \in Payee
         /\ DOMAIN wallet \subseteq {"ethereum", "solana", "bitcoin"}
         /\ wallet \in [DOMAIN wallet -> A!Wallets]
         /\ events = <<>> \/ \E k \in Key \cup {None} : events = <<k>>
         /\ status \in A!Status /\ shown \in Key \cup {None}
         /\ timer \in BOOLEAN /\ asking \in BOOLEAN /\ network \in Network
         /\ session \in Notes /\ (confirm = None \/ confirm \in Sending)
         /\ payments \subseteq Landed
         /\ status = "connected" => shown \in Key /\ shown # None
<1>1. A!TypeOK
  BY DEF AdaptInv
<1>2. DOMAIN wallet \subseteq {"ethereum", "solana", "bitcoin"}
  BY <1>1, AdaptNumbers DEF A!TypeOK, A!Payable
<1> QED
  BY <1>1, <1>2 DEF A!TypeOK, A!Payable, Notes, Sending, Landed

LEMMA AdaptTypesAgain ==
  ASSUME chain' \in DOMAIN wallet', (DOMAIN wallet)' \in Payee,
         wallet' \in [DOMAIN wallet' -> A!Wallets],
         events' = <<>> \/ \E k \in Key \cup {None} : events' = <<k>>,
         status' \in A!Status, shown' \in Key \cup {None},
         timer' \in BOOLEAN, asking' \in BOOLEAN, network' \in Network,
         session' \in Notes, confirm' = None \/ confirm' \in Sending',
         payments' \subseteq Landed', status' = "connected" => shown' # None
  PROVE  A!TypeOK'
  BY DEF A!TypeOK, A!Payable, Notes, Sending, Landed, A!Wallets, A!Status

LEMMA Mounting ==
  ASSUME wallet \in [DOMAIN wallet -> A!Wallets],
         DOMAIN wallet \subseteq {"ethereum", "solana", "bitcoin"},
         NEW c \in DOMAIN wallet, NEW s \in Notes
  PROVE  /\ A!StatusOn(c, s) \in {"detecting", "connected", "disconnected"}
         /\ A!ShownOn(c, s) \in Key \cup {None} /\ A!SessionOn(c, s) \in Notes
         /\ A!StatusOn(c, s) = "detecting" => c = "solana"
         /\ A!StatusOn(c, s) = "connected" => A!ShownOn(c, s) # None
         /\ A!StatusOn(c, s) = "connected" /\ c # "bitcoin" =>
              /\ A!Trusted(c) /\ A!ShownOn(c, s) = wallet[c].key
              /\ c = "solana" => A!SessionOn(c, s)["solana"] = A!ShownOn(c, s)
<1>1. /\ wallet[c] \in A!Wallets /\ wallet[c].key \in Key /\ None \notin Key
  BY AdaptNumbers DEF A!Wallets
<1>2. CASE c = "bitcoin"
  BY <1>2, <1>1 DEF A!StatusOn, A!ShownOn, A!SessionOn, Notes
<1>3. CASE c = "solana"
  <2>1. [s EXCEPT ![c] = wallet[c].key] \in Notes
        /\ [s EXCEPT ![c] = wallet[c].key]["solana"] = wallet[c].key
    BY <1>1, <1>3 DEF Notes
  <2>2. CASE A!Trusted(c)
    <3>1. A!StatusOn(c, s) = "connected"
      BY <1>3, <2>2 DEF A!StatusOn, A!Trusted
    <3> QED
      BY <1>1, <1>3, <2>1, <2>2, <3>1 DEF A!ShownOn, A!SessionOn
  <2>3. CASE ~ A!Trusted(c)
    <3>1. A!StatusOn(c, s) \in {"detecting", "disconnected"}
      BY <1>3, <2>3 DEF A!StatusOn, A!Trusted
    <3> QED
      BY <1>1, <1>3, <2>3, <3>1 DEF A!ShownOn, A!SessionOn
  <2> QED
    BY <2>2, <2>3
<1>4. CASE c = "ethereum"
  <2>1. CASE A!Trusted(c)
    <3>1. A!StatusOn(c, s) = "connected"
      BY <1>4, <2>1 DEF A!StatusOn
    <3> QED
      BY <1>1, <1>4, <2>1, <3>1 DEF A!ShownOn, A!SessionOn
  <2>2. CASE ~ A!Trusted(c)
    <3>1. A!StatusOn(c, s) = "disconnected"
      BY <1>4, <2>2 DEF A!StatusOn
    <3> QED
      BY <1>1, <1>4, <2>2, <3>1 DEF A!ShownOn, A!SessionOn
  <2> QED
    BY <2>1, <2>2
<1> QED
  BY <1>2, <1>3, <1>4

LEMMA AdaptInit == A!Init => AdaptInv
<1> SUFFICES ASSUME A!Init PROVE AdaptInv
  OBVIOUS
<1>1. PICK offered \in Payee : wallet \in [offered -> {w \in A!Wallets : w.trusts => w.there}]
  BY DEF A!Init
<1>2. /\ DOMAIN wallet = offered /\ wallet \in [DOMAIN wallet -> A!Wallets]
      /\ DOMAIN wallet \subseteq {"ethereum", "solana", "bitcoin"}
      /\ chain \in DOMAIN wallet /\ A!NoSession \in Notes
  BY <1>1, AdaptNumbers DEF A!Init, A!Payable, A!NoSession, Notes
<1>3. /\ status = A!StatusOn(chain, A!NoSession)
      /\ shown = A!ShownOn(chain, A!NoSession)
      /\ session = A!SessionOn(chain, A!NoSession)
      /\ timer = (status = "detecting") /\ asking = FALSE /\ events = <<>>
      /\ network \in Network /\ confirm = None /\ payments = {}
  BY DEF A!Init
<1>4. /\ status \in {"detecting", "connected", "disconnected"}
      /\ shown \in Key \cup {None} /\ session \in Notes
      /\ status = "detecting" => chain = "solana"
      /\ status = "connected" => shown # None
      /\ status = "connected" /\ chain # "bitcoin" =>
           /\ A!Trusted(chain) /\ shown = wallet[chain].key
           /\ chain = "solana" => session["solana"] = shown
  BY <1>2, <1>3, Mounting
<1>5. A!TypeOK
  BY <1>1, <1>2, <1>3, <1>4 DEF A!TypeOK, A!Payable, A!Status, Notes
<1> QED
  BY <1>3, <1>4, <1>5 DEF AdaptInv, A!LandsWhereShown, A!ShowsTheAccount, UnheardIsSo

LEMMA AdaptPickTab ==
  ASSUME AdaptInv, A!PickTab
  PROVE  AdaptInv'
<1>1. PICK c \in DOMAIN wallet \ {chain} : chain' = c /\ A!Mounts(c)
  BY DEF A!PickTab, A!Payable
<1>2. /\ status' = A!StatusOn(c, session) /\ shown' = A!ShownOn(c, session)
      /\ session' = A!SessionOn(c, session) /\ timer' = (status' = "detecting")
      /\ asking' = FALSE /\ events' = <<>> /\ network' \in Network
      /\ confirm = None /\ UNCHANGED <<wallet, confirm, payments>>
  BY <1>1 DEF A!Mounts, A!PickTab
<1>3. /\ status' \in {"detecting", "connected", "disconnected"}
      /\ shown' \in Key \cup {None} /\ session' \in Notes
      /\ status' = "detecting" => c = "solana"
      /\ status' = "connected" => shown' # None
      /\ status' = "connected" /\ c # "bitcoin" =>
           /\ A!Trusted(c) /\ shown' = wallet[c].key
           /\ c = "solana" => session'["solana"] = shown'
  BY <1>2, AdaptTypes, Mounting
<1>4. A!TypeOK'
  <2>1. /\ timer' \in BOOLEAN /\ status' \in A!Status
        /\ (confirm' = None \/ confirm' \in Sending') /\ payments' \subseteq Landed'
    BY <1>2, <1>3, AdaptTypes DEF A!Status, Landed
  <2> QED
    BY <1>1, <1>2, <1>3, <2>1, AdaptTypes, AdaptTypesAgain
<1> QED
  BY <1>1, <1>2, <1>3, <1>4
     DEF AdaptInv, A!LandsWhereShown, A!ShowsTheAccount, A!Trusted, UnheardIsSo

(* Looking at Phantom, at once or a second time.                           *)
LEMMA AdaptDetects ==
  ASSUME AdaptInv, chain = "solana", A!Detects
  PROVE  /\ status' \in {"connected", "disconnected"}
         /\ shown' \in Key \cup {None} /\ session' \in Notes
         /\ status' = "connected" =>
              /\ A!Trusted("solana") /\ shown' = wallet["solana"].key
              /\ shown' # None /\ session'["solana"] = shown'
<1>1. wallet["solana"].key \in Key /\ None \notin Key /\ session \in Notes
  BY AdaptTypes, AdaptNumbers DEF A!Wallets
<1>2. CASE A!Trusted("solana")
  BY <1>1, <1>2 DEF A!Detects, A!Notes, Notes
<1>3. CASE ~ A!Trusted("solana")
  BY <1>3, AdaptTypes DEF A!Detects
<1> QED
  BY <1>2, <1>3

LEMMA AdaptLooks ==
  ASSUME AdaptInv, A!LooksAgain \/ A!Recheck
  PROVE  AdaptInv'
<1>1. /\ chain = "solana" /\ timer' \in BOOLEAN
      /\ UNCHANGED <<chain, wallet, events, asking, network, confirm, payments>>
      /\ \/ A!Detects
         \/ /\ status' \in {"detecting", "not_installed"}
            /\ UNCHANGED <<shown, session>>
  BY DEF AdaptInv, A!LooksAgain, A!Recheck
<1>2. /\ status' \in A!Status /\ shown' \in Key \cup {None} /\ session' \in Notes
      /\ status' = "connected" =>
           /\ A!Trusted("solana") /\ shown' = wallet["solana"].key
           /\ shown' # None /\ session'["solana"] = shown'
  <2>1. CASE A!Detects
    BY <1>1, <2>1, AdaptDetects DEF A!Status
  <2>2. CASE status' \in {"detecting", "not_installed"} /\ UNCHANGED <<shown, session>>
    BY <2>2, AdaptTypes DEF A!Status
  <2> QED
    BY <1>1, <2>1, <2>2
<1>3. A!TypeOK'
  <2>1. /\ (confirm' = None \/ confirm' \in Sending') /\ payments' \subseteq Landed'
    BY <1>1, AdaptTypes DEF Sending, Landed
  <2> QED
    BY <1>1, <1>2, <2>1, AdaptTypes, AdaptTypesAgain
<1> QED
  BY <1>1, <1>2, <1>3
     DEF AdaptInv, A!LandsWhereShown, A!ShowsTheAccount, A!Trusted, UnheardIsSo

(* Steps of the wallets' user. Each wallet keeps its type.                 *)
LEMMA AdaptInjected ==
  ASSUME AdaptInv, A!Injected \/ A!SwitchNetwork
  PROVE  AdaptInv'
<1>1. PICK c \in DOMAIN wallet, w \in A!Wallets :
        /\ wallet' = [wallet EXCEPT ![c] = w]
        /\ w.key = wallet[c].key /\ w.trusts = wallet[c].trusts
        /\ wallet[c].there => w.there
  <2>1. CASE A!Injected
    <3>1. PICK c \in DOMAIN wallet : wallet' = [wallet EXCEPT ![c].there = TRUE]
      BY <2>1 DEF A!Injected, A!Payable
    <3>2. PICK w : w = [wallet[c] EXCEPT !.there = TRUE]
      OBVIOUS
    <3>3. wallet[c] \in A!Wallets
      BY AdaptTypes
    <3>4. wallet' = [wallet EXCEPT ![c] = w]
      BY <3>1, <3>2
    <3>5. /\ w \in A!Wallets /\ w.key = wallet[c].key
          /\ w.trusts = wallet[c].trusts /\ w.there
      BY <3>2, <3>3 DEF A!Wallets
    <3> QED
      BY <3>4, <3>5
  <2>2. CASE A!SwitchNetwork
    <3>1. PICK c \in DOMAIN wallet, n \in Network \cup Other :
            wallet' = [wallet EXCEPT ![c].network = n]
      BY <2>2 DEF A!SwitchNetwork, A!Payable
    <3>2. PICK w : w = [wallet[c] EXCEPT !.network = n]
      OBVIOUS
    <3>3. wallet[c] \in A!Wallets
      BY AdaptTypes
    <3>4. wallet' = [wallet EXCEPT ![c] = w]
      BY <3>1, <3>2
    <3>5. /\ w \in A!Wallets /\ w.key = wallet[c].key
          /\ w.trusts = wallet[c].trusts /\ w.there = wallet[c].there
      BY <3>2, <3>3 DEF A!Wallets
    <3> QED
      BY <3>4, <3>5
  <2> QED
    BY <2>1, <2>2
<1>2. UNCHANGED <<chain, events, status, shown, timer, asking, network, session,
                  confirm, payments>>
  BY DEF A!Injected, A!SwitchNetwork, A!adapter
<1>3. /\ DOMAIN wallet' = DOMAIN wallet /\ wallet' \in [DOMAIN wallet' -> A!Wallets]
      /\ \A d \in DOMAIN wallet :
           wallet'[d].key = wallet[d].key /\ (A!Trusted(d) => A!Trusted(d)')
  BY <1>1, AdaptTypes DEF A!Trusted
<1>4. A!TypeOK'
  <2>1. /\ (confirm' = None \/ confirm' \in Sending') /\ payments' \subseteq Landed'
    BY <1>2, <1>3, AdaptTypes DEF Sending, Landed
  <2> QED
    BY <1>2, <1>3, <2>1, AdaptTypes, AdaptTypesAgain
<1>5. A!ShowsTheAccount'
  BY <1>2, <1>3, AdaptTypes DEF AdaptInv, A!ShowsTheAccount
<1>6. UnheardIsSo'
  <2>1. ASSUME events # <<>>
        PROVE  \E k \in Key \cup {None} :
                 /\ events = <<k>>
                 /\ k # None => A!Trusted("solana")' /\ wallet'["solana"].key = k
    <3>1. PICK k \in Key \cup {None} :
            /\ events = <<k>>
            /\ k # None => A!Trusted("solana") /\ wallet["solana"].key = k
      BY <2>1 DEF AdaptInv, UnheardIsSo
    <3>2. "solana" \in DOMAIN wallet
      BY <2>1, AdaptTypes DEF AdaptInv, UnheardIsSo
    <3> QED
      BY <1>3, <3>1, <3>2
  <2> QED
    BY <1>2, <2>1 DEF AdaptInv, UnheardIsSo
<1> QED
  BY <1>2, <1>4, <1>5, <1>6 DEF AdaptInv, A!LandsWhereShown

LEMMA AdaptSwitches ==
  ASSUME AdaptInv, A!SwitchAccount \/ A!Disconnect
  PROVE  AdaptInv'
<1>1. PICK c \in DOMAIN wallet, w \in A!Wallets, k \in Key \cup {None} :
        /\ wallet' = [wallet EXCEPT ![c] = w]
        /\ k # None => w.there /\ w.trusts /\ w.key = k
        /\ A!Tells(c, k)
  <2>1. CASE A!SwitchAccount
    <3>1. PICK c \in DOMAIN wallet, k \in Key :
            A!Trusted(c) /\ wallet' = [wallet EXCEPT ![c].key = k] /\ A!Tells(c, k)
      BY <2>1 DEF A!SwitchAccount, A!Payable
    <3>2. PICK w : w = [wallet[c] EXCEPT !.key = k]
      OBVIOUS
    <3>3. wallet[c] \in A!Wallets /\ wallet[c].there /\ wallet[c].trusts
      BY <3>1, AdaptTypes DEF A!Trusted
    <3>4. wallet' = [wallet EXCEPT ![c] = w]
      BY <3>1, <3>2
    <3>5. w \in A!Wallets /\ w.there /\ w.trusts /\ w.key = k
      BY <3>2, <3>3 DEF A!Wallets
    <3> QED
      BY <3>1, <3>4, <3>5
  <2>2. CASE A!Disconnect
    <3>1. PICK c \in DOMAIN wallet :
            wallet' = [wallet EXCEPT ![c].trusts = FALSE] /\ A!Tells(c, None)
      BY <2>2 DEF A!Disconnect, A!Payable
    <3>2. PICK w : w = [wallet[c] EXCEPT !.trusts = FALSE]
      OBVIOUS
    <3>3. wallet[c] \in A!Wallets
      BY AdaptTypes
    <3>4. wallet' = [wallet EXCEPT ![c] = w]
      BY <3>1, <3>2
    <3>5. w \in A!Wallets
      BY <3>2, <3>3 DEF A!Wallets
    <3> QED
      BY <3>1, <3>4, <3>5
  <2> QED
    BY <2>1, <2>2
<1>2. /\ events = <<>>
      /\ UNCHANGED <<chain, timer, asking, network, session, confirm, payments>>
  BY DEF A!SwitchAccount, A!Disconnect
<1>3. /\ DOMAIN wallet' = DOMAIN wallet /\ wallet' \in [DOMAIN wallet' -> A!Wallets]
      /\ wallet'[c] = w /\ \A d \in DOMAIN wallet \ {c} : wallet'[d] = wallet[d]
  BY <1>1, AdaptTypes
<1>4. /\ events' = <<>> \/ events' = <<k>>
      /\ status' \in A!Status /\ shown' \in Key \cup {None}
      /\ status' = "connected" => shown' # None
      /\ A!ShowsTheAccount' /\ UnheardIsSo'
  <2>1. CASE c = "solana" /\ A!Installed
    <3>1. events' = <<k>> /\ UNCHANGED <<status, shown>> /\ chain = "solana"
      BY <1>1, <2>1 DEF A!Tells, A!Installed
    <3>2. A!ShowsTheAccount'
      BY <3>1 DEF A!ShowsTheAccount
    <3>3. UnheardIsSo'
      BY <1>1, <1>2, <1>3, <2>1, <3>1 DEF UnheardIsSo, A!Trusted
    <3> QED
      BY <3>1, <3>2, <3>3, AdaptTypes, AdaptNumbers
  <2>2. CASE c = "ethereum" /\ chain = "ethereum"
    <3>1. /\ shown' = k /\ status' = IF k = None THEN "disconnected" ELSE "connected"
          /\ events' = <<>>
      BY <1>1, <1>2, <2>2 DEF A!Tells
    <3>2. A!ShowsTheAccount'
      BY <1>1, <1>2, <1>3, <2>2, <3>1 DEF A!ShowsTheAccount, A!Trusted
    <3> QED
      BY <3>1, <3>2 DEF UnheardIsSo, A!Status
  <2>3. CASE ~ (c = "solana" /\ A!Installed) /\ ~ (c = "ethereum" /\ chain = "ethereum")
    <3>1. UNCHANGED <<events, status, shown>>
      BY <1>1, <2>3 DEF A!Tells
    <3>2. ASSUME chain # "bitcoin", status = "connected" PROVE c # chain
      <4>1. chain \in {"solana", "ethereum"}
        BY <3>2, AdaptTypes
      <4> QED
        BY <2>3, <3>2, <4>1 DEF A!Installed
    <3>3. A!ShowsTheAccount'
      BY <1>2, <1>3, <3>1, <3>2, AdaptTypes DEF AdaptInv, A!ShowsTheAccount, A!Trusted
    <3> QED
      BY <1>2, <3>1, <3>3, AdaptTypes, AdaptNumbers DEF UnheardIsSo
  <2> QED
    BY <2>1, <2>2, <2>3
<1>5. A!TypeOK'
  <2>1. /\ (confirm' = None \/ confirm' \in Sending') /\ payments' \subseteq Landed'
    BY <1>2, <1>3, AdaptTypes DEF Sending, Landed
  <2> QED
    BY <1>2, <1>3, <1>4, <2>1, AdaptTypes, AdaptTypesAgain
<1> QED
  BY <1>2, <1>4, <1>5 DEF AdaptInv, A!LandsWhereShown

LEMMA AdaptHears ==
  ASSUME AdaptInv, A!Hears
  PROVE  AdaptInv'
<1>1. /\ chain = "solana" /\ events # <<>> /\ events' = <<>>
      /\ UNCHANGED <<chain, wallet, timer, asking, network, confirm, payments>>
  BY DEF A!Hears, A!Installed
<1>2. PICK k \in Key \cup {None} :
        /\ events = <<k>>
        /\ k # None => A!Trusted("solana") /\ wallet["solana"].key = k
  BY <1>1 DEF AdaptInv, UnheardIsSo
<1>3. /\ shown' = k /\ session' = [session EXCEPT !["solana"] = k]
      /\ status' = IF k = None THEN "disconnected" ELSE status
  BY <1>2 DEF A!Hears, A!Notes
<1>4. /\ session' \in Notes /\ session'["solana"] = k /\ status' \in A!Status
      /\ status' = "connected" => k # None
  BY <1>3, AdaptTypes DEF Notes, A!Status
<1>5. A!TypeOK'
  <2>1. /\ (confirm' = None \/ confirm' \in Sending') /\ payments' \subseteq Landed'
    BY <1>1, AdaptTypes DEF Sending, Landed
  <2> QED
    BY <1>1, <1>3, <1>4, <2>1, AdaptTypes, AdaptTypesAgain
<1> QED
  BY <1>1, <1>2, <1>3, <1>4, <1>5
     DEF AdaptInv, A!LandsWhereShown, A!ShowsTheAccount, A!Trusted, UnheardIsSo

(* connect, which asks the wallet of the tab open.                         *)
LEMMA AdaptConnects ==
  ASSUME AdaptInv, A!Connect \/ A!ConnectFails
  PROVE  AdaptInv'
<1>1. /\ status' \in {"connecting", "not_installed", "disconnected"}
      /\ asking' \in BOOLEAN
      /\ UNCHANGED <<chain, wallet, events, shown, timer, network, session, confirm,
                     payments>>
  BY DEF A!Connect, A!ConnectFails
<1>2. A!TypeOK'
  <2>1. /\ (confirm' = None \/ confirm' \in Sending') /\ payments' \subseteq Landed'
        /\ status' \in A!Status
    BY <1>1, AdaptTypes DEF Sending, Landed, A!Status
  <2> QED
    BY <1>1, <2>1, AdaptTypes, AdaptTypesAgain
<1> QED
  BY <1>1, <1>2 DEF AdaptInv, A!LandsWhereShown, A!ShowsTheAccount, A!Trusted, UnheardIsSo

LEMMA AdaptConnected ==
  ASSUME AdaptInv, A!Connected
  PROVE  AdaptInv'
<1>1. /\ asking' = FALSE /\ wallet[chain].there /\ events = <<>>
      /\ wallet' = [wallet EXCEPT ![chain].trusts = TRUE]
      /\ status' = "connected" /\ shown' = wallet[chain].key
      /\ IF chain = "ethereum" THEN UNCHANGED session
         ELSE session' = [session EXCEPT ![chain] = wallet[chain].key]
      /\ UNCHANGED <<chain, events, timer, network, confirm, payments>>
  BY DEF A!Connected, A!Notes
<1>2. /\ chain \in DOMAIN wallet /\ chain \in {"ethereum", "solana", "bitcoin"}
      /\ wallet[chain] \in A!Wallets /\ wallet[chain].key \in Key /\ None \notin Key
  BY AdaptTypes, AdaptNumbers DEF A!Wallets
<1>3. /\ DOMAIN wallet' = DOMAIN wallet /\ wallet' \in [DOMAIN wallet' -> A!Wallets]
      /\ wallet'[chain].there /\ wallet'[chain].trusts
      /\ wallet'[chain].key = wallet[chain].key
  <2>1. PICK w : w = [wallet[chain] EXCEPT !.trusts = TRUE]
    OBVIOUS
  <2>2. w \in A!Wallets /\ w.there /\ w.trusts /\ w.key = wallet[chain].key
    BY <1>1, <1>2, <2>1 DEF A!Wallets
  <2>3. wallet' = [wallet EXCEPT ![chain] = w]
    BY <1>1, <2>1
  <2> QED
    BY <1>2, <2>2, <2>3, AdaptTypes
<1>4. session' \in Notes /\ (chain = "solana" => session'["solana"] = shown')
  BY <1>1, <1>2, AdaptTypes DEF Notes
<1>5. A!TypeOK'
  <2>1. /\ (confirm' = None \/ confirm' \in Sending') /\ payments' \subseteq Landed'
        /\ status' \in A!Status
    BY <1>1, <1>3, AdaptTypes DEF Sending, Landed, A!Status
  <2> QED
    BY <1>1, <1>2, <1>3, <1>4, <2>1, AdaptTypes, AdaptTypesAgain
<1> QED
  BY <1>1, <1>3, <1>4, <1>5
     DEF AdaptInv, A!LandsWhereShown, A!ShowsTheAccount, A!Trusted, UnheardIsSo

(* What is confirmed, and where it lands.                                  *)
LEMMA AdaptConfirms ==
  ASSUME AdaptInv, A!SetNetwork \/ A!Confirm \/ A!SendFails
  PROVE  AdaptInv'
<1>1. /\ UNCHANGED <<chain, wallet, events, status, shown, timer, asking, session,
                     payments>>
      /\ network' \in Network
  BY AdaptTypes DEF A!SetNetwork, A!Confirm, A!SendFails, A!adapter
<1>2. confirm' = None \/ confirm' \in Sending
  <2>1. CASE A!Confirm
    <3>1. confirm' = [chain |-> chain, network |-> A!ShownNetwork, key |-> shown]
          /\ status = "connected"
      BY <2>1 DEF A!Confirm
    <3>2. A!ShownNetwork \in Network /\ shown \in Key
      BY <3>1, AdaptTypes DEF A!ShownNetwork
    <3> QED
      BY <3>1, <3>2, AdaptTypes DEF Sending
  <2>2. CASE A!SetNetwork \/ A!SendFails
    BY <2>2, AdaptTypes DEF A!SetNetwork, A!SendFails
  <2> QED
    BY <2>1, <2>2
<1>3. A!TypeOK'
  <2>1. /\ (confirm' = None \/ confirm' \in Sending') /\ payments' \subseteq Landed'
    BY <1>1, <1>2, AdaptTypes DEF Sending, Landed
  <2> QED
    BY <1>1, <2>1, AdaptTypes, AdaptTypesAgain
<1> QED
  BY <1>1, <1>3 DEF AdaptInv, A!LandsWhereShown, A!ShowsTheAccount, A!Trusted, UnheardIsSo

LEMMA AdaptSends ==
  ASSUME AdaptInv, A!Sends
  PROVE  AdaptInv'
<1>1. PICK p :
        p = [chain |-> confirm.chain, shown |-> confirm.network,
             at |-> wallet[confirm.chain].network]
  OBVIOUS
<1>2. /\ confirm # None /\ confirm' = None
      /\ A!Accepts(confirm.chain, confirm.network) /\ payments' = payments \cup {p}
      /\ UNCHANGED <<chain, wallet, events, status, shown, timer, asking, network, session>>
  BY <1>1 DEF A!Sends, A!adapter
<1>3. confirm.chain \in DOMAIN wallet /\ confirm.network \in Network
  BY <1>2, AdaptTypes DEF Sending
<1>4. wallet[confirm.chain].network \in Network \cup Other
  BY <1>3, AdaptTypes DEF A!Wallets
<1>5. p \in Landed /\ (p.chain # "bitcoin" => p.at = p.shown)
  BY <1>1, <1>2, <1>3, <1>4 DEF Landed, A!Accepts
<1>6. A!TypeOK'
  <2>1. payments' \subseteq Landed'
    BY <1>2, <1>5, AdaptTypes DEF Landed
  <2> QED
    BY <1>2, <2>1, AdaptTypes, AdaptTypesAgain
<1> QED
  BY <1>2, <1>5, <1>6
     DEF AdaptInv, A!LandsWhereShown, A!ShowsTheAccount, A!Trusted, UnheardIsSo

LEMMA AdaptKept ==
  ASSUME AdaptInv, A!Next \/ UNCHANGED A!vars
  PROVE  AdaptInv'
<1>1. CASE A!Next
  BY <1>1, AdaptPickTab, AdaptLooks, AdaptInjected, AdaptSwitches, AdaptHears,
     AdaptConnects, AdaptConnected, AdaptConfirms, AdaptSends DEF A!Next
<1>2. CASE UNCHANGED A!vars
  <2>1. UNCHANGED <<chain, wallet, events, status, shown, timer, asking, network,
                    session, confirm, payments>>
    BY <1>2 DEF A!vars
  <2>2. A!TypeOK'
    <3>1. /\ (confirm' = None \/ confirm' \in Sending') /\ payments' \subseteq Landed'
      BY <2>1, AdaptTypes DEF Sending, Landed
    <3> QED
      BY <2>1, <3>1, AdaptTypes, AdaptTypesAgain
  <2> QED
    BY <2>1, <2>2 DEF AdaptInv, A!LandsWhereShown, A!ShowsTheAccount, A!Trusted, UnheardIsSo
<1> QED
  BY <1>1, <1>2

-----------------------------------------------------------------------------
(* Prices. A flow that need not refresh its price in this tick, and waits  *)
(* for none, shows one that is younger than Stale.                         *)
PriceInv ==
  /\ V!TypeOK
  /\ cached # V!NoPrice => cached.at <= now
  /\ \A f \in Flow : price[f] # V!NoPrice =>
       /\ f \in enabled /\ price[f].at <= now /\ now - price[f].at <= Stale
       /\ f \notin due /\ f \notin inflight => now - price[f].at < Stale

LEMMA PriceNumbers ==
  /\ Stale \in Nat /\ Stale > 0 /\ MaxNow \in Nat
  /\ V!NoPrice \notin V!Told
  /\ \A p \in V!Told : p.at \in Nat /\ p.at <= MaxNow
<1>1. V!NoPrice \notin V!Told
  BY WebHolds DEF V!PricesConstants, V!NoPrice, V!Told
<1> QED
  BY <1>1, WebHolds DEF V!PricesConstants, V!Told

LEMMA PriceTypes ==
  ASSUME PriceInv
  PROVE  /\ now \in Nat /\ now <= MaxNow /\ cached \in V!Told \cup {V!NoPrice}
         /\ inflight \subseteq Flow /\ enabled \subseteq Flow /\ due \subseteq enabled
         /\ price \in [Flow -> V!Told \cup {V!NoPrice}]
  BY PriceNumbers DEF PriceInv, V!TypeOK

LEMMA FreshIs ==
  ASSUME PriceInv, NEW age \in {1, Stale}
  PROVE  /\ V!FreshCached(age) \in V!Told \cup {V!NoPrice}
         /\ V!FreshCached(age) # V!NoPrice =>
              /\ V!FreshCached(age).at <= now
              /\ now - V!FreshCached(age).at < Stale
<1>1. age \in Nat /\ age <= Stale
  BY PriceNumbers
<1>2. CASE cached # V!NoPrice /\ now - cached.at < age
  <2>1. V!FreshCached(age) = cached /\ cached.at \in Nat /\ cached.at <= now
    BY <1>2, PriceTypes, PriceNumbers DEF V!FreshCached, PriceInv
  <2> QED
    BY <1>1, <1>2, <2>1, PriceTypes, PriceNumbers
<1>3. CASE ~ (cached # V!NoPrice /\ now - cached.at < age)
  BY <1>3 DEF V!FreshCached
<1> QED
  BY <1>2, <1>3

(* Showing a price that is young enough in some flows, which need not      *)
(* refresh it any more.                                                    *)
LEMMA ShowsYoung ==
  ASSUME PriceInv, NEW flows \in SUBSET Flow, NEW told \in V!Told \cup {V!NoPrice},
         told # V!NoPrice => told.at <= now /\ now - told.at < Stale,
         now' = now, V!Shows(flows, told), enabled' \subseteq Flow,
         due' \subseteq enabled', inflight' \subseteq Flow,
         cached' \in V!Told \cup {V!NoPrice}, cached' # V!NoPrice => cached'.at <= now,
         \A f \in flows : told # V!NoPrice => f \in enabled',
         \A f \in Flow \ flows : price[f] # V!NoPrice =>
           /\ f \in enabled' 
           /\ f \in due \cup inflight => f \in due' \cup inflight'
  PROVE  PriceInv'
<1>1. price' \in [Flow -> V!Told \cup {V!NoPrice}]
      /\ \A f \in Flow : price'[f] = IF f \in flows THEN told ELSE price[f]
  BY PriceTypes DEF V!Shows
<1>2. V!TypeOK'
  BY <1>1, PriceTypes, PriceNumbers DEF V!TypeOK, PriceInv
<1>3. ASSUME NEW f \in Flow, price'[f] # V!NoPrice
      PROVE  /\ f \in enabled' /\ price'[f].at <= now' /\ now' - price'[f].at <= Stale
             /\ f \notin due' /\ f \notin inflight' => now' - price'[f].at < Stale
  <2>1. CASE f \in flows
    <3>1. told # V!NoPrice /\ told.at \in Nat /\ price'[f] = told
      BY <1>1, <1>3, <2>1, PriceNumbers
    <3> QED
      BY <2>1, <3>1, PriceTypes, PriceNumbers
  <2>2. CASE f \notin flows
    BY <1>1, <1>3, <2>2 DEF PriceInv
  <2> QED
    BY <2>1, <2>2
<1> QED
  BY <1>2, <1>3 DEF PriceInv

LEMMA PriceInit == V!Init => PriceInv
  BY PriceNumbers DEF V!Init, PriceInv, V!TypeOK

(* A flow that asks: it shows the cached price, or waits for a request.    *)
LEMMA PriceAsked ==
  ASSUME PriceInv, NEW f \in Flow, V!Enable(f) \/ V!Timer(f)
  PROVE  PriceInv'
<1>1. /\ V!Loads(f) /\ UNCHANGED <<now, cached>>
      /\ enabled' = enabled \cup {f} /\ due' = due \ {f}
  BY PriceTypes DEF V!Enable, V!Timer
<1>2. /\ enabled' \subseteq Flow /\ due' \subseteq enabled'
  BY <1>1, PriceTypes
<1>3. CASE V!FreshCached(1) # V!NoPrice
  <2>1. V!Shows({f}, V!FreshCached(1)) /\ inflight' = inflight
    BY <1>1, <1>3 DEF V!Loads
  <2> QED
    BY <1>1, <1>2, <2>1, FreshIs, ShowsYoung, PriceTypes DEF PriceInv
<1>4. CASE V!FreshCached(1) = V!NoPrice
  <2>1. price' = price /\ inflight' = inflight \cup {f}
    BY <1>1, <1>4 DEF V!Loads
  <2>2. V!TypeOK'
    BY <1>1, <1>2, <2>1, PriceTypes DEF V!TypeOK, PriceInv
  <2> QED
    BY <1>1, <2>1, <2>2 DEF PriceInv
<1> QED
  BY <1>3, <1>4

LEMMA PriceDisabled ==
  ASSUME PriceInv, NEW f \in Flow, V!Disable(f)
  PROVE  PriceInv'
<1>1. /\ V!Shows({f}, V!NoPrice) /\ UNCHANGED <<now, cached, inflight>>
      /\ enabled' = enabled \ {f} /\ due' = due \ {f}
  BY DEF V!Disable
<1> QED
  BY <1>1, ShowsYoung, PriceTypes DEF PriceInv

LEMMA PriceAnswered ==
  ASSUME PriceInv, V!Responds \/ V!Fails
  PROVE  PriceInv'
<1> DEFINE flows == inflight \cap enabled
<1>1. /\ flows \in SUBSET Flow /\ inflight' = {} /\ UNCHANGED <<now, enabled, due>>
      /\ \A f \in Flow \ flows : price[f] # V!NoPrice => f \notin inflight
  BY PriceTypes DEF V!Responds, V!Fails, PriceInv
<1>2. PICK told \in V!Told \cup {V!NoPrice} :
        /\ V!Shows(flows, told)
        /\ told # V!NoPrice => told.at <= now /\ now - told.at < Stale
        /\ cached' \in {cached, told}
  <2>1. CASE V!Responds
    <3>1. PICK p \in Price : cached' = [of |-> p, at |-> now]
      BY <2>1 DEF V!Responds
    <3>2. cached' \in V!Told /\ cached'.at = now /\ V!Shows(flows, cached')
      BY <2>1, <3>1, PriceTypes, PriceNumbers DEF V!Told, V!Responds
    <3>3. PICK told : told = cached'
      OBVIOUS
    <3> QED
      BY <3>2, <3>3, PriceTypes, PriceNumbers
  <2>2. CASE V!Fails
    <3>1. V!Shows(flows, V!FreshCached(Stale)) /\ cached' = cached
      BY <2>2 DEF V!Fails
    <3> QED
      BY <3>1, FreshIs
  <2> QED
    BY <2>1, <2>2
<1>3. cached' \in V!Told \cup {V!NoPrice} /\ (cached' # V!NoPrice => cached'.at <= now)
  BY <1>2, PriceTypes DEF PriceInv
<1> HIDE DEF flows
<1>4. \A f \in flows : f \in enabled'
  BY <1>1 DEF flows
<1>5. \A f \in Flow \ flows : price[f] # V!NoPrice =>
        f \in enabled' /\ (f \in due \cup inflight => f \in due' \cup inflight')
  BY <1>1 DEF PriceInv
<1> QED
  BY <1>1, <1>2, <1>3, <1>4, <1>5, ShowsYoung, PriceTypes

LEMMA PriceTick ==
  ASSUME PriceInv, V!Tick
  PROVE  PriceInv'
<1>1. /\ now < MaxNow /\ inflight = {} /\ due = {} /\ now' = now + 1 /\ due' = enabled
      /\ UNCHANGED <<cached, inflight, enabled, price>>
  BY DEF V!Tick
<1>2. \A f \in Flow : price[f] # V!NoPrice => price[f].at \in Nat
  BY PriceTypes, PriceNumbers
<1>3. cached # V!NoPrice => cached.at \in Nat
  BY PriceTypes, PriceNumbers
<1>4. V!TypeOK'
  BY <1>1, PriceTypes, PriceNumbers DEF V!TypeOK
<1>5. ASSUME NEW f \in Flow, price[f] # V!NoPrice
      PROVE  f \in enabled /\ price[f].at <= now' /\ now' - price[f].at <= Stale
  <2>1. now - price[f].at < Stale /\ price[f].at <= now /\ f \in enabled
    BY <1>1, <1>5 DEF PriceInv
  <2> QED
    BY <1>1, <1>2, <1>5, <2>1, PriceTypes, PriceNumbers
<1>6. cached' # V!NoPrice => cached'.at <= now'
  BY <1>1, <1>3, PriceTypes DEF PriceInv
<1> QED
  BY <1>1, <1>4, <1>5, <1>6 DEF PriceInv

LEMMA PriceKept ==
  ASSUME PriceInv, V!Next \/ UNCHANGED V!vars
  PROVE  PriceInv'
<1>1. CASE UNCHANGED V!vars
  BY <1>1 DEF V!vars, PriceInv, V!TypeOK
<1>2. CASE V!Done
  BY <1>1, <1>2 DEF V!Done
<1> QED
  BY <1>1, <1>2, PriceAsked, PriceDisabled, PriceAnswered, PriceTick DEF V!Next

-----------------------------------------------------------------------------
(* The status page. An answer that came tells of what has been down since  *)
(* the probes were sent.                                                   *)
AnswerTells(p) ==
  /\ p = "ping" /\ down \cap {"machine", "edge"} # {} => probes[p] \in {None, "403"}
  /\ p = "ping" /\ "database" \in down /\ ~ Old => probes[p] \in {None, "403", "503"}
  /\ p = "onchain" /\ "lookup" \in down => probes[p] # "200"
  /\ smooth => probes[p] = "200"
StatusInv ==
  /\ up \subseteq S!Part /\ pending \subseteq S!Probe /\ down \subseteq S!Part
  /\ probes \in [S!Probe -> {None, "200", "403", "429", "503"}] /\ smooth \in BOOLEAN
  /\ down \cap up = {} /\ (smooth => up = S!Part)
  /\ \A p \in S!Probe \ pending : AnswerTells(p)

LEMMA ReportIs ==
  /\ S!Report.api = S!ApiHealth(probes["ping"])
  /\ S!Report.onchain = S!OnchainHealth(probes["onchain"])
  /\ S!Report.overall = S!Worst(S!Report.api, S!Report.onchain)
  BY DEF S!Report

LEMMA Ranks ==
  /\ S!RankOf("ok") = 0 /\ S!RankOf("degraded") = 1 /\ S!RankOf("down") = 2
  BY DEF S!RankOf

LEMMA WorstIs ==
  ASSUME NEW g \in S!Health, NEW h \in S!Health
  PROVE  S!Worst(g, h) \in S!Health /\ (S!Worst(g, h) = "ok" <=> g = "ok" /\ h = "ok")
<1>1. S!RankOf(g) \in 0 .. 2 /\ (S!RankOf(g) = 0 <=> g = "ok")
  BY Ranks DEF S!Health
<1>2. S!RankOf(h) \in 0 .. 2 /\ (S!RankOf(h) = 0 <=> h = "ok")
  BY Ranks DEF S!Health
<1> QED
  BY <1>1, <1>2 DEF S!Worst

(* The verdicts: of the API by the status of /ping, of the look-up.        *)
LEMMA VerdictsAre ==
  ASSUME NEW answer \in {None, "200", "403", "429", "503"}
  PROVE  /\ S!ApiHealth(answer) \in S!Health /\ S!OnchainHealth(answer) \in S!Health
         /\ S!ApiHealth(answer) = "ok" => answer = "200"
         /\ S!OnchainHealth(answer) = "ok" <=> answer = "200"
         /\ answer = "200" => S!ApiHealth(answer) = "ok"
         /\ answer \in {None, "403"} => S!ApiHealth(answer) = "down"
<1>1. None \notin {"200", "403", "429", "503"}
  BY WebHolds DEF S!NoAnswer
<1>2. /\ S!OnchainHealth(answer) \in S!Health
      /\ S!OnchainHealth(answer) = "ok" <=> answer = "200"
  BY <1>1 DEF S!OnchainHealth, S!Health
<1>3. /\ answer = "200" => S!Database(answer) \in {"ok", "unknown"}
      /\ answer = "503" => S!Database(answer) \in {"unavailable", "unknown"}
      /\ answer \notin {"200", "503"} => S!Database(answer) = "unknown"
  BY DEF S!Database
<1>4. CASE answer = None
  BY <1>1, <1>2, <1>4 DEF S!ApiHealth, S!Health
<1>5. CASE answer = "200"
  BY <1>1, <1>2, <1>3, <1>5 DEF S!ApiHealth, S!Health
<1>6. CASE answer = "503"
  BY <1>1, <1>2, <1>3, <1>6 DEF S!ApiHealth, S!Health
<1>7. CASE answer \in {"403", "429"}
  <2>1. S!Database(answer) = "unknown"
    BY <1>3, <1>7
  <2> QED
    BY <1>1, <1>2, <1>7, <2>1 DEF S!ApiHealth, S!Health
<1> QED
  BY <1>2, <1>4, <1>5, <1>6, <1>7

LEMMA StatusShows ==
  ASSUME StatusInv
  PROVE  S!TypeOK /\ S!DownShows
<1>1. /\ probes["ping"] \in {None, "200", "403", "429", "503"}
      /\ probes["onchain"] \in {None, "200", "403", "429", "503"}
  BY DEF StatusInv, S!Probe
<1>2. /\ S!Report.api \in S!Health /\ S!Report.onchain \in S!Health
      /\ S!Report.overall \in S!Health
      /\ S!Report.overall = "ok" <=> S!Report.api = "ok" /\ S!Report.onchain = "ok"
  BY <1>1, ReportIs, VerdictsAre, WorstIs
<1>3. S!TypeOK
  BY <1>2 DEF S!TypeOK, StatusInv
<1>4. ASSUME pending = {}
      PROVE  /\ {"machine", "edge"} \cap down # {} => S!Report.api = "down"
             /\ "database" \in down /\ ~ Old => S!Report.api # "ok"
             /\ "lookup" \in down => S!Report.onchain # "ok"
             /\ smooth => S!Report.overall = "ok"
  <2>1. AnswerTells("ping") /\ AnswerTells("onchain")
    BY <1>4 DEF StatusInv, S!Probe
  <2>2. None # "200"
    BY WebHolds DEF S!NoAnswer
  <2> QED
    BY <1>1, <1>2, <2>1, <2>2, ReportIs, VerdictsAre DEF AnswerTells
<1>5. S!DownShows
  <2>1. Old \in BOOLEAN
    BY WebHolds DEF S!NoAnswer
  <2>2. down \subseteq {"machine", "edge", "database", "lookup"}
    BY DEF StatusInv, S!Part
  <2>3. CASE Old
    <3>1. \A q \in down \ {"database"} : q \in {"machine", "edge"} \/ q = "lookup"
      BY <2>2
    <3> QED
      BY <1>2, <1>4, <2>3, <3>1 DEF S!DownShows
  <2>4. CASE ~ Old
    <3>1. \A q \in down : q \in {"machine", "edge"} \/ q \in {"lookup", "database"}
      BY <2>2
    <3> QED
      BY <1>2, <1>4, <2>4, <3>1 DEF S!DownShows
  <2> QED
    BY <2>1, <2>3, <2>4
<1> QED
  BY <1>3, <1>5

LEMMA StatusInit == S!Init => StatusInv
  BY DEF S!Init, StatusInv, S!Unanswered, S!Part

LEMMA StatusEnds ==
  ASSUME StatusInv, NEW p \in S!Probe, NEW answer \in {None, "200", "403", "429", "503"},
         S!Ends(p, answer), UNCHANGED <<up, down>>, smooth' \in BOOLEAN, smooth' => smooth,
         p = "ping" /\ down \cap {"machine", "edge"} # {} => answer \in {None, "403"},
         p = "ping" /\ "database" \in down /\ ~ Old => answer \in {None, "403", "503"},
         p = "onchain" /\ "lookup" \in down => answer # "200",
         smooth' => answer = "200"
  PROVE  StatusInv'
<1>1. /\ pending' = pending \ {p} /\ probes' = [probes EXCEPT ![p] = answer]
  BY DEF S!Ends
<1>2. /\ probes' \in [S!Probe -> {None, "200", "403", "429", "503"}]
      /\ probes'[p] = answer /\ \A q \in S!Probe \ {p} : probes'[q] = probes[q]
  BY <1>1 DEF StatusInv
<1>3. AnswerTells(p)'
  BY <1>2 DEF AnswerTells
<1>4. ASSUME NEW q \in S!Probe \ pending, q # p PROVE AnswerTells(q)'
  BY <1>2, <1>4 DEF AnswerTells, StatusInv
<1> QED
  BY <1>1, <1>2, <1>3, <1>4 DEF StatusInv

LEMMA StatusKept ==
  ASSUME StatusInv, S!Next \/ UNCHANGED S!vars
  PROVE  StatusInv'
<1>1. CASE UNCHANGED S!vars
  BY <1>1 DEF S!vars, StatusInv, AnswerTells
<1>2. CASE S!Breaks
  BY <1>2 DEF S!Breaks, StatusInv, AnswerTells
<1>3. CASE S!Recovers
  <2>1. PICK part0 \in S!Part \ up : up' = up \cup {part0} /\ down' = down \ {part0}
    BY <1>3 DEF S!Recovers
  <2>2. UNCHANGED <<probes, pending, smooth>> /\ ~ smooth
    BY <1>3, <2>1 DEF S!Recovers, StatusInv
  <2> QED
    BY <2>1, <2>2 DEF StatusInv, AnswerTells
<1>4. CASE S!View
  BY <1>4 DEF S!View, StatusInv, S!Unanswered
<1>5. ASSUME NEW p \in S!Probe, S!Answers(p) PROVE StatusInv'
  <2>1. S!Ends(p, S!Answer(p)) /\ UNCHANGED <<up, down, smooth>>
    BY <1>5 DEF S!Answers
  <2>2. PICK answer : answer = S!Answer(p)
    OBVIOUS
  <2>3. /\ answer \in {None, "200", "403", "429", "503"}
        /\ p = "ping" /\ down \cap {"machine", "edge"} # {} => answer \in {None, "403"}
        /\ p = "ping" /\ "database" \in down /\ ~ Old => answer \in {None, "403", "503"}
        /\ p = "onchain" /\ "lookup" \in down => answer # "200"
        /\ smooth => answer = "200"
    <3>1. down \cap up = {} /\ (smooth => up = S!Part)
      BY DEF StatusInv
    <3>2. CASE "machine" \notin up
      <4>1. answer = None
        BY <2>2, <3>2 DEF S!Answer
      <4> QED
        BY <3>1, <3>2, <4>1, WebHolds DEF S!NoAnswer, S!Part
    <3>3. CASE "machine" \in up /\ "edge" \notin up
      <4>1. answer = "403"
        BY <2>2, <3>3 DEF S!Answer
      <4> QED
        BY <3>1, <3>3, <4>1 DEF S!Part
    <3>4. CASE "machine" \in up /\ "edge" \in up
      <4>1. answer = IF S!Needs(p) \subseteq up THEN "200" ELSE "503"
        BY <2>2, <3>4 DEF S!Answer
      <4>2. /\ p = "onchain" => S!Needs(p) = {"lookup"}
            /\ p = "ping" /\ ~ Old => S!Needs(p) = {"database"}
            /\ S!Needs(p) \subseteq S!Part
        BY DEF S!Needs, S!Part
      <4> QED
        BY <3>1, <3>4, <4>1, <4>2 DEF S!Part
    <3> QED
      BY <3>2, <3>3, <3>4
  <2> QED
    BY <2>1, <2>2, <2>3, StatusEnds DEF StatusInv
<1>6. ASSUME NEW p \in S!Probe, S!CutOff(p) PROVE StatusInv'
  <2>1. PICK answer \in {None} \cup (IF p = "onchain" THEN {"429"} ELSE {}) :
          S!Ends(p, answer)
    BY <1>6 DEF S!CutOff
  <2>2. UNCHANGED <<up, down>> /\ smooth' = FALSE
    BY <1>6 DEF S!CutOff
  <2>3. /\ answer \in {None, "200", "403", "429", "503"}
        /\ p = "ping" => answer = None
        /\ answer # "200"
    BY <2>1, WebHolds DEF S!NoAnswer
  <2>4. smooth' \in BOOLEAN /\ (smooth' => smooth) /\ (smooth' => answer = "200")
    BY <2>2
  <2> QED
    BY <2>1, <2>2, <2>3, <2>4, StatusEnds
<1> QED
  BY <1>1, <1>2, <1>3, <1>4, <1>5, <1>6 DEF S!Next

-----------------------------------------------------------------------------
(* A claim. A name a wallet has is never lost, an answer under way says    *)
(* what its wallet has, and while the name is checked, or that check has   *)
(* failed, nothing else is under way.                                      *)
ScreenHolds ==
  /\ step \in C!Step /\ existing \in C!Names /\ (step = "wallet_taken" => existing # None)
  /\ error \in [at : {0, 2, 3}, nothing : BOOLEAN]
  /\ unavailable \in [reason : C!Reasons, with : User \cup {None}]
Checks == {c \in [is : {"none", "me", "available"}, with : User \cup {None}] :
             c.is = "me" => c.with \in User}
Signs == {c \in [is : {"none", "wallet", "me"}, with : User \cup {None}] :
            c.is # "none" => c.with \in User}
Told == {"ok", "another"} \cup C!Reasons
Registers ==
  {c \in [is : {"none", "sent", "ok", "another", "alternatives"} \cup C!Reasons,
          with : User \cup {None}] :
     c.is \in {"sent"} \cup Told => c.with \in User}
Calls ==
  /\ check \in Checks /\ sign \in Signs /\ register \in Registers
  /\ recheck \in [with : User \cup {None}, pending : BOOLEAN]
  /\ resume \in User \cup {None}
Users ==
  /\ resumedFor \in User \cup {None} /\ address \in User \cup {None}
  /\ session \in C!Session \cup {None}
Accounts ==
  /\ account \in [User -> C!Names] /\ taken \in BOOLEAN /\ late \subseteq User
  /\ chainOwner \in User \cup {None, C!Nobody}
  /\ taken => \A w \in User : account[w] # "this"
CheckedFirst ==
  /\ step = "checking" <=> check.is # "none"
  /\ (step = "checking" \/ (step = "error" /\ error.at = 0)) =>
       sign.is = "none" /\ register.is = "none" /\ resume = None
RegisterTells ==
  /\ register.is = "ok" => account[register.with] = "this"
  /\ register.is = "another" => account[register.with] = "another"
  /\ register.is \in C!Reasons => account[register.with] # "this"
  /\ register.is = "TAKEN" => C!NameTaken
  /\ register.is = "TAKEN_ONCHAIN" => ~ C!OnChainFor(register.with)
ClaimInv ==
  /\ ScreenHolds /\ Calls /\ Users /\ Accounts /\ CheckedFirst /\ RegisterTells
  /\ C!DoneIsTrue /\ C!TakenIsAnother

LEMMA ClaimNames == None \notin User /\ None # "this" /\ None # "another"
  BY WebHolds DEF C!NoWallet

LEMMA ClaimCalls ==
  /\ C!Idle \in Checks /\ C!Idle \in Signs /\ C!Idle \in Registers /\ C!Idle.is = "none"
  /\ \A w \in User \cup {None} :
       /\ C!Asks("available", w) \in Checks /\ C!Asks("available", w).is = "available"
       /\ C!Asks("alternatives", w) \in Registers
       /\ C!Asks("alternatives", w).is = "alternatives"
  /\ \A w \in User :
       /\ C!Asks("me", w) \in Checks /\ C!Asks("me", w).is = "me"
       /\ C!Asks("me", w) \in Signs /\ C!Asks("wallet", w) \in Signs
       /\ C!Asks("sent", w) \in Registers /\ C!Asks("sent", w).is = "sent"
<1>1. /\ C!Idle \in Checks /\ C!Idle \in Signs /\ C!Idle \in Registers
      /\ C!Idle.is = "none"
  BY DEF C!Idle, Checks, Signs, Registers, Told, C!Reasons
<1>2. \A w \in User \cup {None} :
        /\ C!Asks("available", w) \in Checks /\ C!Asks("available", w).is = "available"
        /\ C!Asks("alternatives", w) \in Registers
        /\ C!Asks("alternatives", w).is = "alternatives"
  BY DEF C!Asks, Checks, Registers, Told, C!Reasons
<1>3. \A w \in User :
        /\ C!Asks("me", w) \in Checks /\ C!Asks("me", w).is = "me"
        /\ C!Asks("me", w) \in Signs /\ C!Asks("wallet", w) \in Signs
        /\ C!Asks("sent", w) \in Registers /\ C!Asks("sent", w).is = "sent"
  BY DEF C!Asks, Checks, Signs, Registers
<1> QED
  BY <1>1, <1>2, <1>3

LEMMA ClaimChecking ==
  ASSUME Users, NEW s \in C!Session \cup {None}
  PROVE  C!Checking(s) \in Checks /\ C!Checking(s).is # "none"
<1>1. CASE s # None
  <2>1. s.wallet \in User
    BY <1>1 DEF C!Session
  <2> QED
    BY <1>1, <2>1, ClaimCalls DEF C!Checking
<1>2. CASE s = None
  BY <1>2, ClaimCalls DEF C!Checking, Users
<1> QED
  BY <1>1, <1>2

LEMMA ClaimInit == C!Init => ClaimInv
<1> SUFFICES ASSUME C!Init PROVE ClaimInv
  OBVIOUS
<1>1. /\ step = "checking" /\ error = C!NoError /\ unavailable = C!NoReason
      /\ existing = None /\ check = C!Checking(session) /\ sign = C!Idle
      /\ register = C!Idle /\ resume = None /\ resumedFor = None
      /\ address \in User \cup {None}
      /\ recheck = [with |-> None, pending |-> FALSE]
  BY DEF C!Init, C!WalletOrNone
<1>2. session \in C!Session \cup {None}
  BY DEF C!Init, C!Session, C!Names
<1>3. ScreenHolds /\ Users
  BY <1>1, <1>2 DEF ScreenHolds, Users, C!Step, C!NoError, C!NoReason, C!Reasons, C!Names
<1>4. Calls /\ check.is # "none"
  BY <1>1, <1>2, <1>3, ClaimCalls, ClaimChecking DEF Calls
<1>5. Accounts
  <2>1. /\ account \in [User -> {"another", None}] /\ taken \in BOOLEAN /\ late = {}
        /\ chainOwner \in User \cup {None, C!Nobody}
    BY DEF C!Init
  <2> QED
    BY <2>1, ClaimNames DEF Accounts, C!Names
<1> QED
  BY <1>1, <1>3, <1>4, <1>5, ClaimCalls
     DEF ClaimInv, CheckedFirst, RegisterTells, C!DoneIsTrue, C!TakenIsAnother, C!Reasons

(* What is shown next.                                                     *)
LEMMA ClaimScreens ==
  ASSUME ClaimInv
  PROVE  /\ C!Stays => ScreenHolds' /\ UNCHANGED <<step, error>>
         /\ \A s \in C!Step \ {"wallet_taken"} :
              C!Steps(s) => ScreenHolds' /\ step' = s
         /\ \A at \in {0, 2, 3}, nothing \in BOOLEAN :
              C!Fails(at, nothing) => ScreenHolds' /\ step' = "error" /\ error'.at = at
         /\ \A reason \in C!Reasons, w \in User \cup {None} :
              C!Unavailable(reason, w) => ScreenHolds' /\ step' = "unavailable"
         /\ C!WalletTaken("another") => ScreenHolds' /\ step' = "wallet_taken"
         /\ C!WalletTaken("this") => ScreenHolds' /\ step' = "wallet_taken"
<1>1. C!Stays => ScreenHolds' /\ UNCHANGED <<step, error>>
  BY DEF ClaimInv, ScreenHolds, C!Stays
<1>2. ASSUME NEW s \in C!Step \ {"wallet_taken"}, C!Steps(s)
      PROVE  ScreenHolds' /\ step' = s
  BY <1>2 DEF C!Steps, C!Shows, ScreenHolds, C!NoError, C!NoReason, C!Reasons, C!Names
<1>3. ASSUME NEW at \in {0, 2, 3}, NEW nothing \in BOOLEAN, C!Fails(at, nothing)
      PROVE  ScreenHolds' /\ step' = "error" /\ error'.at = at
  BY <1>3 DEF C!Fails, C!Shows, ScreenHolds, C!NoReason, C!Reasons, C!Names, C!Step
<1>4. ASSUME NEW reason \in C!Reasons, NEW w \in User \cup {None},
             C!Unavailable(reason, w)
      PROVE  ScreenHolds' /\ step' = "unavailable"
  BY <1>4 DEF C!Unavailable, C!Shows, ScreenHolds, C!NoError, C!Names, C!Step
<1>5. ASSUME NEW name \in {"this", "another"}, C!WalletTaken(name)
      PROVE  ScreenHolds' /\ step' = "wallet_taken"
  BY <1>5, ClaimNames
     DEF C!WalletTaken, C!Shows, ScreenHolds, C!NoError, C!NoReason, C!Reasons, C!Names, C!Step
<1> QED
  BY <1>1, <1>2, <1>3, <1>4, <1>5

(* The session noted with a name, or not at all.                           *)
LEMMA ClaimNotes ==
  ASSUME Users, NEW name \in C!Names, C!Notes(name)
  PROVE  session' \in C!Session \cup {None}
  BY DEF Users, C!Notes, C!Session

(* A step of the page, which leaves the accounts alone.                    *)
LEMMA ClaimStep ==
  ASSUME ClaimInv, UNCHANGED <<account, taken, chainOwner>>, late' \subseteq User,
         Users', Calls', ScreenHolds', CheckedFirst',
         register' = register \/ register'.is \notin Told,
         step' = "done" => step = "done" \/ \E w \in User : account[w] = "this",
         step' = "wallet_taken" =>
           step = "wallet_taken" \/ \E w \in User : account[w] = "another"
  PROVE  ClaimInv'
<1>1. Accounts'
  BY DEF ClaimInv, Accounts
<1>2. RegisterTells'
  <2>1. (C!NameTaken)' = C!NameTaken
        /\ \A w \in User : (C!OnChainFor(w))' = C!OnChainFor(w)
    BY DEF C!NameTaken, C!OnChainFor
  <2>2. register \in Registers
    BY DEF ClaimInv, Calls
  <2> QED
    BY <2>1, <2>2 DEF ClaimInv, RegisterTells, Registers, Told, C!Reasons
<1>3. C!DoneIsTrue' /\ C!TakenIsAnother'
  BY DEF ClaimInv, C!DoneIsTrue, C!TakenIsAnother
<1> QED
  BY <1>1, <1>2, <1>3 DEF ClaimInv

LEMMA RouteGoes ==
  ASSUME ClaimInv, NEW w \in User, C!Route(account[w])
  PROVE  /\ ScreenHolds' /\ session' \in C!Session \cup {None}
         /\ step' \in {"done", "wallet_taken", "register"}
         /\ step' = "done" => account[w] = "this"
         /\ step' = "wallet_taken" => account[w] = "another"
<1>1. Users /\ session \in C!Session \cup {None} /\ account[w] \in C!Names
  BY DEF ClaimInv, Users, Accounts
<1>2. CASE account[w] = "this"
  <2>1. C!Steps("done") /\ C!Notes("this")
    BY <1>2 DEF C!Route
  <2> QED
    BY <1>1, <1>2, <2>1, ClaimScreens, ClaimNotes DEF C!Step
<1>3. CASE account[w] = "another"
  <2>1. C!WalletTaken("another") /\ C!Notes("another")
    BY <1>3 DEF C!Route
  <2> QED
    BY <1>1, <1>3, <2>1, ClaimScreens, ClaimNotes
<1>4. CASE account[w] \notin {"this", "another"}
  <2>1. C!Steps("register") /\ session' = session
    BY <1>4 DEF C!Route
  <2> QED
    BY <1>1, <2>1, ClaimScreens DEF C!Step
<1> QED
  BY <1>2, <1>3, <1>4

(* Whether the name is to be had.                                          *)
LEMMA ClaimCheckMe ==
  ASSUME ClaimInv, C!CheckMe
  PROVE  ClaimInv'
<1>1. /\ check.is = "me"
      /\ UNCHANGED <<resumedFor, recheck, resume, sign, register, address,
                     account, taken, late, chainOwner>>
  BY DEF C!CheckMe, C!server
<1>2. /\ check.with \in User /\ step = "checking"
      /\ sign.is = "none" /\ register.is = "none" /\ resume = None
  <2>1. check \in Checks /\ CheckedFirst
    BY DEF ClaimInv, Calls
  <2>2. check.with \in User
    BY <1>1, <2>1 DEF Checks
  <2> QED
    BY <1>1, <2>1, <2>2 DEF CheckedFirst
<1>3. CASE account[check.with] = "this" /\ C!Notes("this") /\ C!Steps("done")
           /\ check' = C!Idle
  <2>1. ScreenHolds' /\ step' = "done" /\ session' \in C!Session \cup {None}
    BY <1>3, ClaimScreens, ClaimNotes DEF ClaimInv, C!Step, C!Names
  <2>2. Calls' /\ Users' /\ CheckedFirst'
    BY <1>1, <1>2, <1>3, <2>1, ClaimCalls DEF ClaimInv, Calls, Users, CheckedFirst
  <2>3. late' \subseteq User
    BY <1>1 DEF ClaimInv, Accounts
  <2> QED
    BY <1>1, <1>2, <1>3, <2>1, <2>2, <2>3, ClaimStep
<1>4. CASE session' \in {session, None} /\ check' = C!Asks("available", address)
           /\ C!Stays
  <2>1. ScreenHolds' /\ UNCHANGED <<step, error>>
    BY <1>4, ClaimScreens
  <2>2. /\ session' \in C!Session \cup {None} /\ check' \in Checks
        /\ check'.is = "available" /\ late' \subseteq User
    BY <1>1, <1>4, ClaimCalls DEF ClaimInv, Users, Accounts
  <2>3. Calls' /\ Users' /\ CheckedFirst'
    BY <1>1, <1>2, <2>1, <2>2 DEF ClaimInv, Calls, Users, CheckedFirst
  <2> QED
    BY <1>1, <2>1, <2>2, <2>3, ClaimStep
<1> QED
  BY <1>3, <1>4 DEF C!CheckMe

LEMMA AnswerIs == \A w : C!Answer(w) \in {"available"} \cup C!Reasons
<1>1. SUFFICES ASSUME NEW w PROVE C!Answer(w) \in {"available"} \cup C!Reasons
  OBVIOUS
<1>2. CASE C!NameTaken
  BY <1>2 DEF C!Answer, C!Reasons
<1>3. CASE ~ C!NameTaken
  BY <1>3 DEF C!Answer, C!Reasons
<1> QED
  BY <1>2, <1>3

LEMMA ClaimChecked ==
  ASSUME ClaimInv, C!CheckAvailable \/ C!Rechecked
  PROVE  ClaimInv'
<1>1. /\ UNCHANGED <<resumedFor, resume, sign, register, address, session,
                     account, taken, late, chainOwner>>
      /\ address \in User \cup {None} /\ late' \subseteq User
  BY DEF C!CheckAvailable, C!Rechecked, C!server, ClaimInv, Users, Accounts
<1>2. /\ step \in {"checking", "unavailable"} /\ check'.is = "none"
      /\ Calls' /\ Users'
  <2>1. CASE C!CheckAvailable
    BY <1>1, <2>1, ClaimCalls
       DEF C!CheckAvailable, ClaimInv, Calls, Users, CheckedFirst
  <2>2. CASE C!Rechecked
    <3>1. /\ step = "unavailable" /\ check' = check
          /\ recheck' = [recheck EXCEPT !.pending = FALSE]
      BY <2>2 DEF C!Rechecked, C!MustRecheck
    <3>2. recheck' \in [with : User \cup {None}, pending : BOOLEAN]
      BY <3>1 DEF ClaimInv, Calls
    <3> QED
      BY <1>1, <3>1, <3>2 DEF ClaimInv, Calls, Users, CheckedFirst
  <2> QED
    BY <2>1, <2>2
<1>3. /\ ScreenHolds' /\ step' \in {"connect", "unavailable", "error"}
      /\ step' = "error" => step = "checking"
  <2>1. \/ C!Steps("connect")
        \/ C!Answer(check.with) # "available" /\ C!CheckAvailable
             /\ C!Unavailable(C!Answer(check.with), address)
        \/ C!Answer(address) # "available" /\ C!Rechecked
             /\ C!Unavailable(C!Answer(address), address)
        \/ C!Fails(0, FALSE) /\ C!CheckAvailable
        \/ C!Stays /\ step = "unavailable"
    BY DEF C!CheckAvailable, C!Rechecked, C!MustRecheck
  <2>2. C!CheckAvailable => step = "checking"
    BY DEF C!CheckAvailable, ClaimInv, CheckedFirst
  <2>3. \A w : C!Answer(w) # "available" => C!Answer(w) \in C!Reasons
    BY AnswerIs
  <2>4. ASSUME NEW w, C!Answer(w) # "available", C!Unavailable(C!Answer(w), address)
        PROVE  ScreenHolds' /\ step' = "unavailable"
    BY <1>1, <2>3, <2>4, ClaimScreens
  <2>5. C!Steps("connect") => ScreenHolds' /\ step' = "connect"
    BY ClaimScreens DEF C!Step
  <2>6. C!Fails(0, FALSE) => ScreenHolds' /\ step' = "error"
    BY ClaimScreens
  <2> QED
    BY <2>1, <2>2, <2>4, <2>5, <2>6, ClaimScreens
<1>4. CheckedFirst'
  BY <1>1, <1>2, <1>3 DEF ClaimInv, CheckedFirst
<1> QED
  BY <1>1, <1>2, <1>3, <1>4, ClaimStep

(* What the user and other tabs change, with the step as it is.            *)
LEMMA ClaimStays ==
  ASSUME ClaimInv, C!Recheck \/ C!Sign \/ C!SwitchWallet \/ C!OtherSession
  PROVE  ClaimInv'
<1>1. /\ UNCHANGED <<account, taken, late, chainOwner, resumedFor, check, resume, register>>
      /\ C!Stays /\ late' \subseteq User
  BY DEF C!Recheck, C!Sign, C!SwitchWallet, C!OtherSession, C!server, ClaimInv, Accounts
<1>2. ScreenHolds' /\ UNCHANGED <<step, error>>
  BY <1>1, ClaimScreens
<1>3. address' \in User \cup {None} /\ session' \in C!Session \cup {None}
  BY DEF C!Recheck, C!Sign, C!SwitchWallet, C!OtherSession, C!WalletOrNone, ClaimInv,
         Users, C!Session, C!Names
<1>4. recheck' \in [with : User \cup {None}, pending : BOOLEAN]
  <2>1. /\ recheck \in [with : User \cup {None}, pending : BOOLEAN]
        /\ address \in User \cup {None}
    BY DEF ClaimInv, Calls, Users
  <2>2. \A w \in User \cup {None}, pends \in BOOLEAN :
          [with |-> w, pending |-> pends] \in [with : User \cup {None}, pending : BOOLEAN]
    OBVIOUS
  <2> QED
    BY <2>1, <2>2 DEF C!Recheck, C!Sign, C!SwitchWallet, C!OtherSession
<1>5. sign' \in Signs /\ (sign' = sign \/ step = "sign")
  <2>1. CASE C!Sign
    <3>1. address \in User /\ sign' = C!Asks("wallet", address) /\ "sign" \in C!Offered
      BY <2>1 DEF C!Sign, ClaimInv, Users
    <3>2. step = "sign"
      <4>1. step \in C!Step
        BY DEF ClaimInv, ScreenHolds
      <4>2. CASE step = "connect"
        BY <3>1, <4>2 DEF C!Offered
      <4>3. CASE step = "unavailable"
        BY <3>1, <4>3 DEF C!Offered
      <4>4. CASE step = "wallet_taken"
        BY <3>1, <4>4 DEF C!Offered
      <4>5. CASE step = "error"
        BY <3>1, <4>5 DEF C!Offered
      <4>6. CASE step \in {"checking", "resuming", "register", "done"}
        BY <3>1, <4>6 DEF C!Offered
      <4> QED
        BY <4>1, <4>2, <4>3, <4>4, <4>5, <4>6 DEF C!Step
    <3> QED
      BY <3>1, <3>2, ClaimCalls
  <2>2. CASE ~ C!Sign
    BY <2>2 DEF C!Recheck, C!SwitchWallet, C!OtherSession, ClaimInv, Calls
  <2> QED
    BY <2>1, <2>2
<1>6. Calls' /\ Users' /\ CheckedFirst'
  BY <1>1, <1>2, <1>3, <1>4, <1>5 DEF ClaimInv, Calls, Users, CheckedFirst
<1> QED
  BY <1>1, <1>2, <1>6, ClaimStep

(* A wallet that connects, or goes.                                        *)
LEMMA ClaimConnects ==
  ASSUME ClaimInv, C!WalletWentAway \/ C!Connected
  PROVE  ClaimInv'
<1>1. /\ UNCHANGED <<account, taken, late, chainOwner, check, recheck, sign, register,
                     address, session>>
      /\ late' \subseteq User /\ address \in User \cup {None}
  BY DEF C!WalletWentAway, C!Connected, C!server, ClaimInv, Accounts, Users
<1>2. /\ step \in {"sign", "connect"} /\ resumedFor' \in User \cup {None}
      /\ resume' \in User \cup {None}
      /\ C!Steps("connect") \/ C!Steps("resuming") \/ C!Steps("sign")
  BY <1>1 DEF C!WalletWentAway, C!Connected, ClaimInv, Users, Calls
<1>3. ScreenHolds' /\ step' \in {"connect", "resuming", "sign"}
  BY <1>2, ClaimScreens DEF C!Step
<1>4. Calls' /\ Users' /\ CheckedFirst'
  BY <1>1, <1>2, <1>3 DEF ClaimInv, Calls, Users, CheckedFirst
<1> QED
  BY <1>1, <1>3, <1>4, ClaimStep

(* The session asked about, or signed in to.                               *)
LEMMA ClaimRoutes ==
  ASSUME ClaimInv, C!Resumed \/ C!SignedIn
  PROVE  ClaimInv'
<1>1. /\ UNCHANGED <<account, taken, late, chainOwner, resumedFor, check, recheck,
                     register, address>>
      /\ late' \subseteq User
      /\ resume' \in User \cup {None} /\ sign' \in Signs
      /\ resume' # None => resume # None
      /\ sign'.is # "none" => sign.is # "none"
  BY ClaimCalls DEF C!Resumed, C!SignedIn, C!server, ClaimInv, Accounts, Calls
<1>2. step # "checking" /\ ~ (step = "error" /\ error.at = 0)
  BY DEF C!Resumed, C!SignedIn, ClaimInv, CheckedFirst
<1>3. PICK w \in User :
        \/ C!Route(account[w])
        \/ C!Steps("sign") /\ session' \in {session, None}
        \/ C!Fails(2, FALSE) /\ session' \in {session, None}
  <2>1. CASE C!Resumed
    BY <2>1 DEF C!Resumed, ClaimInv, Calls
  <2>2. CASE C!SignedIn
    <3>1. sign.with \in User
      BY <2>2 DEF C!SignedIn, ClaimInv, Calls, Signs
    <3> QED
      BY <2>2, <3>1 DEF C!SignedIn
  <2> QED
    BY <2>1, <2>2
<1>4. /\ ScreenHolds' /\ session' \in C!Session \cup {None}
      /\ step' \in {"done", "wallet_taken", "register", "sign", "error"}
      /\ step' = "error" => error'.at = 2
      /\ step' = "done" => account[w] = "this"
      /\ step' = "wallet_taken" => account[w] = "another"
  <2>1. CASE C!Route(account[w])
    BY <2>1, RouteGoes
  <2>2. CASE C!Steps("sign") /\ session' \in {session, None}
    BY <2>2, ClaimScreens DEF C!Step, ClaimInv, Users
  <2>3. CASE C!Fails(2, FALSE) /\ session' \in {session, None}
    BY <2>3, ClaimScreens DEF ClaimInv, Users
  <2> QED
    BY <1>3, <2>1, <2>2, <2>3
<1>5. Calls' /\ Users' /\ CheckedFirst'
  BY <1>1, <1>2, <1>4 DEF ClaimInv, Calls, Users, CheckedFirst
<1> QED
  BY <1>1, <1>4, <1>5, ClaimStep

LEMMA ClaimSigns ==
  ASSUME ClaimInv, C!SignFails \/ C!Verified
  PROVE  ClaimInv'
<1>1. /\ UNCHANGED <<account, taken, late, chainOwner, check, recheck, resume,
                     register, address>>
      /\ late' \subseteq User /\ sign.is = "wallet"
      /\ step # "checking" /\ ~ (step = "error" /\ error.at = 0)
  BY DEF C!SignFails, C!Verified, C!server, ClaimInv, Accounts, CheckedFirst
<1>2. sign.with \in User
  BY <1>1 DEF ClaimInv, Calls, Signs
<1>3. /\ sign' \in Signs /\ resumedFor' \in User \cup {None}
      /\ session' \in C!Session \cup {None}
  <2>1. CASE C!SignFails
    BY <2>1, ClaimCalls DEF C!SignFails, ClaimInv, Users
  <2>2. CASE C!Verified
    <3>1. /\ sign' = C!Asks("me", sign.with) /\ resumedFor' = sign.with
          /\ session' = [wallet |-> sign.with, name |-> None]
      BY <2>2 DEF C!Verified
    <3>2. session' \in C!Session
      BY <1>2, <3>1 DEF C!Session, C!Names
    <3> QED
      BY <1>2, <3>1, <3>2, ClaimCalls
  <2> QED
    BY <2>1, <2>2
<1>4. C!Stays \/ C!Fails(2, FALSE)
  BY DEF C!SignFails, C!Verified, C!Stays
<1>5. /\ ScreenHolds' /\ (step' = step \/ step' = "error")
      /\ step' # "checking" /\ ~ (step' = "error" /\ error'.at = 0)
  <2>1. CASE C!Stays
    BY <1>1, <2>1, ClaimScreens
  <2>2. CASE C!Fails(2, FALSE)
    <3>1. ScreenHolds' /\ step' = "error" /\ error'.at = 2
      BY <2>2, ClaimScreens
    <3> QED
      BY <3>1
  <2> QED
    BY <1>4, <2>1, <2>2
<1>6. Calls' /\ Users' /\ CheckedFirst'
  BY <1>1, <1>3, <1>5 DEF ClaimInv, Calls, Users, CheckedFirst
<1> QED
  BY <1>1, <1>5, <1>6, ClaimStep

(* Registering.                                                            *)
LEMMA ClaimRegister ==
  ASSUME ClaimInv, C!Register
  PROVE  ClaimInv'
<1>1. /\ UNCHANGED <<account, taken, late, chainOwner, resumedFor, check, recheck,
                     resume, sign, address, session>>
      /\ late' \subseteq User /\ step = "register" /\ register.is = "none"
  BY DEF C!Register, C!server, ClaimInv, Accounts
<1>2. /\ ScreenHolds' /\ step' \in {"register", "sign"}
      /\ register' \in Registers /\ register'.is \in {"none", "sent"}
  <2>1. CASE session # None
    <3>1. /\ session.wallet \in User
          /\ register' = C!Asks("sent", session.wallet) /\ C!Stays
      BY <2>1 DEF C!Register, ClaimInv, Users, C!Session
    <3> QED
      BY <1>1, <3>1, ClaimCalls, ClaimScreens
  <2>2. CASE session = None
    <3>1. C!Steps("sign") /\ register' = register
      BY <2>2 DEF C!Register
    <3>2. ScreenHolds' /\ step' = "sign"
      BY <3>1, ClaimScreens DEF C!Step
    <3> QED
      BY <1>1, <3>1, <3>2 DEF ClaimInv, Calls
  <2> QED
    BY <2>1, <2>2
<1>3. Calls' /\ Users' /\ CheckedFirst'
  BY <1>1, <1>2 DEF ClaimInv, Calls, Users, CheckedFirst
<1> QED
  BY <1>1, <1>2, <1>3, ClaimStep DEF Told, C!Reasons

LEMMA ClaimAnswered ==
  ASSUME ClaimInv, C!Answered \/ C!Alternatives \/ C!Expired \/ C!GivesUp
  PROVE  ClaimInv'
<1>1. /\ UNCHANGED <<account, taken, chainOwner, resumedFor, check, recheck,
                     resume, sign, address>>
      /\ register.is # "none"
  BY DEF C!Answered, C!Alternatives, C!Expired, C!GivesUp, C!server, C!Reasons
<1>2. /\ step # "checking" /\ ~ (step = "error" /\ error.at = 0)
      /\ session \in C!Session \cup {None} /\ address \in User \cup {None}
      /\ account \in [User -> C!Names] /\ register \in Registers
  BY <1>1 DEF ClaimInv, CheckedFirst, Users, Accounts, Calls
<1>3. late' \subseteq User
  <2>1. register.is = "sent" => register.with \in User
    BY <1>2 DEF Registers
  <2> QED
    BY <2>1 DEF C!Answered, C!Alternatives, C!Expired, C!GivesUp, C!server, ClaimInv,
         Accounts
<1>4. register' \in Registers /\ register'.is \notin Told
  BY ClaimCalls
     DEF C!Answered, C!Alternatives, C!Expired, C!GivesUp, C!Ended, Told, C!Reasons
<1>5. /\ ScreenHolds' /\ session' \in C!Session \cup {None}
      /\ step' # "checking" /\ ~ (step' = "error" /\ error'.at = 0)
      /\ step' = "done" => step = "done" \/ \E w \in User : account[w] = "this"
      /\ step' = "wallet_taken" =>
           step = "wallet_taken" \/ \E w \in User : account[w] = "another"
  <2>1. CASE register.is = "ok" /\ C!Notes("this") /\ C!Steps("done")
    <3>1. ScreenHolds' /\ step' = "done"
      BY <2>1, ClaimScreens DEF C!Step
    <3>2. register.with \in User /\ account[register.with] = "this"
      BY <1>2, <2>1 DEF Registers, Told, ClaimInv, RegisterTells
    <3>3. session' \in C!Session \cup {None}
      BY <2>1, ClaimNotes DEF ClaimInv, C!Names
    <3> QED
      BY <3>1, <3>2, <3>3
  <2>2. CASE C!Stays /\ session' = session
    BY <1>2, <2>2, ClaimScreens
  <2>3. CASE /\ register.is = "another" /\ session # None /\ account[session.wallet] # None
             /\ C!WalletTaken(account[session.wallet])
             /\ C!Notes(account[session.wallet])
    <3>1. session.wallet \in User /\ account[session.wallet] \in {"this", "another"}
      BY <1>2, <2>3 DEF C!Session, C!Names
    <3>2. ScreenHolds' /\ step' = "wallet_taken"
      BY <2>3, <3>1, ClaimScreens
    <3>3. register.with \in User /\ account[register.with] = "another"
      BY <1>2, <2>3 DEF Registers, Told, ClaimInv, RegisterTells
    <3>4. session' \in C!Session \cup {None}
      BY <2>3, <3>1, ClaimNotes DEF ClaimInv, C!Names
    <3> QED
      BY <3>2, <3>3, <3>4
  <2>4. CASE session' = session /\ \E nothing \in BOOLEAN : C!Fails(3, nothing)
    <3>1. ScreenHolds' /\ step' = "error" /\ error'.at = 3
      BY <2>4, ClaimScreens
    <3> QED
      BY <1>2, <2>4, <3>1
  <2>5. CASE session' = session /\ \E reason \in C!Reasons : C!Unavailable(reason, address)
    <3>1. ScreenHolds' /\ step' = "unavailable"
      BY <1>2, <2>5, ClaimScreens
    <3> QED
      BY <1>2, <2>5, <3>1
  <2>6. CASE C!Steps("sign") /\ session' = None
    <3>1. ScreenHolds' /\ step' = "sign"
      BY <2>6, ClaimScreens DEF C!Step
    <3> QED
      BY <2>6, <3>1
  <2> QED
    BY <2>1, <2>2, <2>3, <2>4, <2>5, <2>6
       DEF C!Answered, C!Alternatives, C!Expired, C!GivesUp
<1>6. Calls' /\ Users' /\ CheckedFirst'
  BY <1>1, <1>2, <1>4, <1>5 DEF ClaimInv, Calls, Users, CheckedFirst
<1> QED
  BY <1>1, <1>3, <1>4, <1>5, <1>6, ClaimStep

(* Starting over with another wallet, or again after an error.             *)
LEMMA ClaimOver ==
  ASSUME ClaimInv, C!UseAnotherWallet \/ C!Retry
  PROVE  ClaimInv'
<1>1. /\ UNCHANGED <<account, taken, late, chainOwner, resume, sign, register>>
      /\ late' \subseteq User
      /\ session \in C!Session \cup {None} /\ step \in C!Step
  BY DEF C!UseAnotherWallet, C!Retry, C!server, ClaimInv, Accounts, Users, ScreenHolds
<1>2. /\ "use another wallet" \in C!Offered => step \in {"unavailable", "wallet_taken"}
      /\ "try again" \in C!Offered => step = "error"
  <2>1. CASE step = "connect"
    BY <2>1 DEF C!Offered
  <2>2. CASE step = "sign"
    BY <2>2 DEF C!Offered
  <2>3. CASE step = "unavailable"
    BY <2>3 DEF C!Offered
  <2>4. CASE step = "wallet_taken"
    BY <2>4 DEF C!Offered
  <2>5. CASE step = "error"
    BY <2>5 DEF C!Offered
  <2>6. CASE step \in {"checking", "resuming", "register", "done"}
    BY <2>6 DEF C!Offered
  <2> QED
    BY <1>1, <2>1, <2>2, <2>3, <2>4, <2>5, <2>6 DEF C!Step
<1>3. CASE C!UseAnotherWallet
  <2>1. /\ step \in {"unavailable", "wallet_taken"} /\ C!Steps("connect")
        /\ session' = None /\ address' = None /\ resumedFor' = None
        /\ recheck' = [with |-> None, pending |-> FALSE] /\ check' = check
    BY <1>2, <1>3 DEF C!UseAnotherWallet
  <2>2. ScreenHolds' /\ step' = "connect"
    BY <2>1, ClaimScreens DEF C!Step
  <2>3. Calls' /\ Users' /\ CheckedFirst'
    BY <1>1, <2>1, <2>2 DEF ClaimInv, Calls, Users, CheckedFirst
  <2> QED
    BY <1>1, <2>2, <2>3, ClaimStep
<1>4. CASE C!Retry
  <2>1. /\ step = "error" /\ UNCHANGED <<resumedFor, recheck, address, session>>
    BY <1>2, <1>4 DEF C!Retry
  <2>2. CASE error.at = 0
    <3>0. ~ (error.at = 3) /\ ~ (error.at = 2)
      BY <2>2
    <3>1. C!Steps("checking") /\ check' = C!Checking(session)
      BY <1>4, <3>0 DEF C!Retry
    <3>2. ScreenHolds' /\ step' = "checking" /\ check' \in Checks /\ check'.is # "none"
      BY <1>1, <3>1, ClaimScreens, ClaimChecking DEF C!Step, ClaimInv
    <3>3. Calls' /\ Users' /\ CheckedFirst'
      BY <1>1, <2>1, <2>2, <3>2 DEF ClaimInv, Calls, Users, CheckedFirst
    <3> QED
      BY <1>1, <3>2, <3>3, ClaimStep
  <2>3. CASE error.at # 0
    <3>1. check' = check /\ \E s \in {"register", "connect", "sign"} : C!Steps(s)
      BY <1>4, <2>3 DEF C!Retry
    <3>2. ScreenHolds' /\ step' \in {"register", "connect", "sign"}
      BY <3>1, ClaimScreens DEF C!Step
    <3>3. Calls' /\ Users' /\ CheckedFirst'
      BY <1>1, <2>1, <3>1, <3>2 DEF ClaimInv, Calls, Users, CheckedFirst
    <3> QED
      BY <1>1, <3>2, <3>3, ClaimStep
  <2> QED
    BY <2>2, <2>3
<1> QED
  BY <1>3, <1>4

(* The server, and other people.                                           *)
LEMMA CreatesKeeps ==
  ASSUME ClaimInv, NEW w \in User, C!Creates(w)
  PROVE  /\ account' \in [User -> C!Names]
         /\ \A v \in User : account[v] \in {"this", "another"} => account'[v] = account[v]
         /\ taken => \A v \in User : account'[v] # "this"
         /\ C!Registered(w) \in {"ok", "available"} => account'[w] = "this"
         /\ C!Registered(w) = "another" => account'[w] = "another"
         /\ C!Registered(w) \in {"ok", "another", "available"} \cup C!Reasons
         /\ C!Registered(w) \in C!Reasons =>
              /\ account'[w] # "this"
              /\ C!Registered(w) = "TAKEN" => C!NameTaken
              /\ C!Registered(w) = "TAKEN_ONCHAIN" => ~ C!OnChainFor(w)
         /\ C!NameTaken => account' = account
         /\ ~ C!OnChainFor(w) => account' = account
<1>1. /\ account \in [User -> C!Names] /\ taken \in BOOLEAN
      /\ taken => \A v \in User : account[v] # "this"
  BY DEF ClaimInv, Accounts
<1>2. /\ account[w] = "this" => C!Registered(w) = "ok"
      /\ account[w] = "another" => C!Registered(w) = "another"
      /\ account[w] \notin {"this", "another"} => C!Registered(w) = C!Answer(w)
  BY DEF C!Registered
<1>3. /\ C!Answer(w) \in {"available"} \cup C!Reasons
      /\ C!NameTaken => C!Answer(w) = "TAKEN"
      /\ ~ C!NameTaken /\ ~ C!OnChainFor(w) => C!Answer(w) = "TAKEN_ONCHAIN"
      /\ ~ C!NameTaken /\ C!OnChainFor(w) => C!Answer(w) = "available"
  BY AnswerIs DEF C!Answer
<1>4. /\ "available" \notin C!Reasons /\ "ok" \notin C!Reasons /\ "another" \notin C!Reasons
      /\ "TAKEN" # "TAKEN_ONCHAIN" /\ "TAKEN" # "available"
      /\ "TAKEN_ONCHAIN" # "available"
      /\ "ok" \notin {"TAKEN", "TAKEN_ONCHAIN"} /\ "another" \notin {"TAKEN", "TAKEN_ONCHAIN"}
  BY DEF C!Reasons
<1>5. CASE C!Registered(w) = "available"
  <2>1. /\ account[w] \notin {"this", "another"} /\ ~ taken
        /\ ~ C!NameTaken /\ C!OnChainFor(w)
    BY <1>2, <1>3, <1>4, <1>5 DEF C!NameTaken
  <2>2. account' = [account EXCEPT ![w] = "this"]
    BY <1>5 DEF C!Creates
  <2> QED
    BY <1>1, <1>4, <1>5, <2>1, <2>2 DEF C!Names
<1>6. CASE C!Registered(w) # "available"
  <2>1. account' = account
    BY <1>6 DEF C!Creates
  <2> QED
    BY <1>1, <1>2, <1>3, <1>4, <1>6, <2>1
<1> QED
  BY <1>5, <1>6

LEMMA ClaimArrives ==
  ASSUME ClaimInv, C!Arrives \/ C!ArrivesLate
  PROVE  ClaimInv'
<1>1. /\ UNCHANGED <<resumedFor, check, recheck, resume, sign, address, session, taken,
                     chainOwner>>
      /\ C!Stays
  BY DEF C!Arrives, C!ArrivesLate
<1>2. ScreenHolds' /\ UNCHANGED <<step, error>>
  BY <1>1, ClaimScreens
<1>3. PICK w \in User :
        /\ C!Creates(w) /\ late' \subseteq User
        /\ \/ C!Arrives /\ w = register.with
           \/ register' = register
  <2>1. CASE C!Arrives
    <3>1. register.with \in User
      BY <2>1 DEF C!Arrives, ClaimInv, Calls, Registers
    <3> QED
      BY <2>1, <3>1 DEF C!Arrives, ClaimInv, Accounts
  <2>2. CASE C!ArrivesLate
    BY <2>2 DEF C!ArrivesLate, ClaimInv, Accounts
  <2> QED
    BY <2>1, <2>2
<1>4. /\ account' \in [User -> C!Names]
      /\ \A v \in User : account[v] \in {"this", "another"} => account'[v] = account[v]
      /\ taken => \A v \in User : account'[v] # "this"
      /\ C!NameTaken \/ ~ C!OnChainFor(w) => account' = account
      /\ \A v \in User \ {w} : account'[v] = account[v]
  <2>1. account \in [User -> C!Names]
    BY DEF ClaimInv, Accounts
  <2> QED
    BY <1>3, <2>1, CreatesKeeps DEF C!Creates
<1>5. Accounts' /\ C!DoneIsTrue' /\ C!TakenIsAnother'
  BY <1>1, <1>2, <1>3, <1>4 DEF ClaimInv, Accounts, C!DoneIsTrue, C!TakenIsAnother
<1>6. /\ register' \in Registers /\ RegisterTells'
      /\ register'.is # "none" => register.is # "none"
  <2>1. CASE C!Arrives /\ w = register.with
    <3> DEFINE answer == C!Registered(w)
               is == IF answer = "available" THEN "ok" ELSE answer
    <3>1. register.is = "sent" /\ register' = [register EXCEPT !.is = is]
      BY <2>1 DEF C!Arrives
    <3>2. is \in Told
      BY <1>3, CreatesKeeps DEF Told
    <3>3. is = "ok" => account'[w] = "this"
      BY <1>3, CreatesKeeps DEF C!Reasons
    <3>4. is = "another" => account'[w] = "another"
      BY <1>3, CreatesKeeps
    <3>5. register \in Registers
      BY DEF ClaimInv, Calls
    <3>8. is \in C!Reasons =>
            /\ account'[w] # "this"
            /\ is = "TAKEN" => (C!NameTaken)'
            /\ is = "TAKEN_ONCHAIN" => ~ (C!OnChainFor(w))'
      <4>1. is \in C!Reasons => is = answer
        BY DEF C!Reasons
      <4>2. C!NameTaken => (C!NameTaken)'
        BY <1>1, <1>4 DEF C!NameTaken
      <4>3. ~ C!OnChainFor(w) => ~ (C!OnChainFor(w))'
        BY <1>1 DEF C!OnChainFor
      <4> QED
        BY <1>3, <4>1, <4>2, <4>3, CreatesKeeps
    <3> HIDE DEF is
    <3>6. register'.is = is /\ register'.with = w
      BY <2>1, <3>1, <3>5 DEF Registers
    <3>7. register' \in Registers
      BY <1>3, <3>1, <3>2, <3>5, <3>6 DEF Registers, Told
    <3>9. RegisterTells'
      BY <3>3, <3>4, <3>6, <3>8 DEF RegisterTells, C!Reasons
    <3> QED
      BY <3>1, <3>7, <3>9
  <2>2. CASE register' = register
    <3>1. register \in Registers /\ RegisterTells
      BY DEF ClaimInv, Calls
    <3>2. register.is \in Told => register.with \in User
      BY <3>1 DEF Registers
    <3>3. C!NameTaken => (C!NameTaken)'
      BY <1>1, <1>4 DEF C!NameTaken
    <3>4. (C!OnChainFor(register.with))' = C!OnChainFor(register.with)
      BY <1>1, <2>2 DEF C!OnChainFor
    <3>5. register.is \in C!Reasons => account'[register.with] # "this"
      <4>1. CASE register.is = "TAKEN"
        BY <1>4, <3>1, <4>1 DEF RegisterTells, C!Reasons
      <4>2. CASE register.is = "TAKEN_ONCHAIN"
        <5>1. ~ C!OnChainFor(register.with) /\ account[register.with] # "this"
              /\ register.with \in User
          BY <3>1, <3>2, <4>2 DEF RegisterTells, C!Reasons, Told
        <5> QED
          BY <1>4, <5>1
      <4> QED
        BY <4>1, <4>2 DEF C!Reasons
    <3> QED
      BY <1>4, <2>2, <3>1, <3>2, <3>3, <3>4, <3>5 DEF RegisterTells, Told
  <2> QED
    BY <1>3, <2>1, <2>2
<1>7. Calls' /\ Users' /\ CheckedFirst'
  BY <1>1, <1>2, <1>6 DEF ClaimInv, Calls, Users, CheckedFirst
<1> QED
  BY <1>2, <1>5, <1>6, <1>7 DEF ClaimInv

LEMMA ClaimOther ==
  ASSUME ClaimInv, C!OtherClaim
  PROVE  ClaimInv'
<1>1. /\ UNCHANGED <<resumedFor, check, recheck, resume, sign, register, address,
                     session, account, late, chainOwner>>
      /\ C!Stays /\ taken' = TRUE /\ \A w \in User : account[w] # "this"
  BY DEF C!OtherClaim, C!NameTaken
<1>2. ScreenHolds' /\ UNCHANGED <<step, error>>
  BY <1>1, ClaimScreens
<1>3. Accounts'
  BY <1>1 DEF ClaimInv, Accounts
<1>4. Calls' /\ Users' /\ CheckedFirst'
  BY <1>1, <1>2 DEF ClaimInv, Calls, Users, CheckedFirst
<1>5. RegisterTells'
  <2>1. (C!NameTaken)'
    BY <1>1 DEF C!NameTaken
  <2>2. (C!OnChainFor(register.with))' = C!OnChainFor(register.with)
    BY <1>1 DEF C!OnChainFor
  <2> QED
    BY <1>1, <2>1, <2>2 DEF ClaimInv, RegisterTells
<1> QED
  BY <1>1, <1>2, <1>3, <1>4, <1>5 DEF ClaimInv, C!DoneIsTrue, C!TakenIsAnother

LEMMA ClaimKept ==
  ASSUME ClaimInv, C!Next \/ UNCHANGED C!vars
  PROVE  ClaimInv'
<1>1. CASE C!Next
  BY <1>1, ClaimCheckMe, ClaimChecked, ClaimStays, ClaimConnects, ClaimRoutes,
     ClaimSigns, ClaimRegister, ClaimAnswered, ClaimOver, ClaimArrives, ClaimOther
     DEF C!Next, C!Answers, C!Effects
<1>2. CASE UNCHANGED C!vars
  BY <1>2 DEF C!vars, ClaimInv, ScreenHolds, Calls, Users, Accounts, CheckedFirst,
       RegisterTells, C!DoneIsTrue, C!TakenIsAnother, C!NameTaken, C!OnChainFor
<1> QED
  BY <1>1, <1>2

LEMMA ClaimShows ==
  ASSUME ClaimInv
  PROVE  C!TypeOK /\ C!RetriesAreSafe
<1>1. /\ check.is \in {"none", "me", "available"} /\ check.with \in User \cup {None}
      /\ sign.is \in {"none", "wallet", "me"} /\ sign.with \in User \cup {None}
      /\ register.is \in {"none", "sent", "ok", "another", "alternatives"} \cup C!Reasons
      /\ register.with \in User \cup {None}
      /\ recheck.with \in User \cup {None} /\ recheck.pending \in BOOLEAN
      /\ resume \in User \cup {None}
  BY DEF ClaimInv, Calls, Checks, Signs, Registers
<1>2. C!RetriesAreSafe
  BY DEF ClaimInv, RegisterTells, C!RetriesAreSafe
<1> QED
  BY <1>1, <1>2
     DEF C!TypeOK, ClaimInv, ScreenHolds, Users, Accounts, CheckedFirst, C!WalletOrNone

-----------------------------------------------------------------------------
(* The pages together: whichever part a behaviour is of has its invariant, *)
(* and the session, which no other part touches, always has.               *)
WebInv ==
  /\ part \in {"session", "pay", "adapt", "price", "claim", "status"}
  /\ SessionInv
  /\ part = "pay" => PayInv
  /\ part = "adapt" => AdaptInv
  /\ part = "price" => PriceInv
  /\ part = "claim" => ClaimInv
  /\ part = "status" => StatusInv

LEMMA WebStarts == WebInit => WebInv
  BY SessionInit, PayInit, AdaptInit, PriceInit, ClaimInit, StatusInit
     DEF WebInit, WebInv

LEMMA WebKept ==
  ASSUME WebInv, [WebNext]_all
  PROVE  /\ WebInv' /\ [LateSignsNobodyIn]_vars
         /\ [part = "pay" => P!StaysMounted]_all
<1>1. SessionInv
  BY DEF WebInv
<1>2. CASE SignsIn
  BY <1>1, <1>2, SessionKept DEF SignsIn, Only, WebInv
<1>3. ASSUME UNCHANGED vars PROVE SessionInv' /\ [LateSignsNobodyIn]_vars
  BY <1>1, <1>3, SessionKept
<1>4. CASE Pays
  <2>1. /\ part = "pay" /\ part' = part /\ PayInv /\ P!Next /\ UNCHANGED vars
    BY <1>4 DEF Pays, Only, WebInv
  <2>2. PayInv' /\ [P!StaysMounted]_<<pay, payments>>
    BY <2>1, PayKept
  <2>3. [part = "pay" => P!StaysMounted]_all
    <3>1. UNCHANGED <<pay, payments>> => P!StaysMounted
      BY DEF pay, P!StaysMounted, P!Mounted, P!Shown
    <3> QED
      BY <2>2, <3>1
  <2> QED
    BY <1>3, <2>1, <2>2, <2>3 DEF WebInv
<1>5. CASE Adapts
  BY <1>3, <1>5, AdaptKept DEF Adapts, Only, WebInv
<1>6. CASE Asks
  BY <1>3, <1>6, PriceKept DEF Asks, Only, WebInv
<1>7. CASE Claims
  BY <1>3, <1>7, ClaimKept DEF Claims, Only, WebInv
<1>8. CASE Reports
  BY <1>3, <1>8, StatusKept DEF Reports, Only, WebInv
<1>9. CASE UNCHANGED all
  <2>1. UNCHANGED <<part, vars, session, payments, pay, adapt, prices, claim, report>>
    BY <1>9 DEF all
  <2>2. part = "pay" => PayInv'
    BY <2>1, PayKept DEF WebInv
  <2>3. part = "adapt" => AdaptInv'
    <3>1. UNCHANGED A!vars
      BY <2>1 DEF adapt, A!vars
    <3> QED
      BY <3>1, AdaptKept DEF WebInv
  <2>4. part = "price" => PriceInv'
    <3>1. UNCHANGED V!vars
      BY <2>1 DEF prices, V!vars
    <3> QED
      BY <3>1, PriceKept DEF WebInv
  <2>5. part = "claim" => ClaimInv'
    <3>1. UNCHANGED C!vars
      BY <2>1 DEF claim, C!vars
    <3> QED
      BY <3>1, ClaimKept DEF WebInv
  <2>6. part = "status" => StatusInv'
    <3>1. UNCHANGED S!vars
      BY <2>1 DEF report, S!vars
    <3> QED
      BY <3>1, StatusKept DEF WebInv
  <2> QED
    BY <1>3, <1>9, <2>1, <2>2, <2>3, <2>4, <2>5, <2>6 DEF WebInv
<1> QED
  BY <1>2, <1>4, <1>5, <1>6, <1>7, <1>8, <1>9 DEF WebNext

LEMMA WebShows ==
  ASSUME WebInv
  PROVE  WebTypeOK /\ SessionIsOne /\ PaymentsAreSafe /\ PagesSayTrue
<1>1. TypeOK /\ SessionIsOne
  BY SessionShows DEF WebInv
<1>2. part = "adapt" => A!TypeOK /\ A!LandsWhereShown /\ A!ShowsTheAccount
  BY DEF WebInv, AdaptInv
<1>3. part = "price" => V!TypeOK /\ V!PriceIsRecent
  BY DEF WebInv, PriceInv, V!PriceIsRecent
<1>4. part = "claim" =>
        C!TypeOK /\ C!DoneIsTrue /\ C!TakenIsAnother /\ C!RetriesAreSafe
  BY ClaimShows DEF WebInv, ClaimInv
<1>5. part = "status" => S!TypeOK /\ S!DownShows
  BY StatusShows DEF WebInv
<1>6. part = "pay" => /\ P!TypeOK /\ P!PaysWhoIsTyped /\ P!FeeIsForAmount
                      /\ P!OfferedOnce /\ P!SuccessIsSettled
  BY PayShows DEF WebInv
<1>7. WebTypeOK
  BY <1>1, <1>2, <1>3, <1>4, <1>5, <1>6 DEF WebTypeOK, WebInv
<1> QED
  BY <1>1, <1>2, <1>3, <1>4, <1>5, <1>6, <1>7 DEF PaymentsAreSafe, PagesSayTrue

(* The inductive invariant of every page.                                  *)
THEOREM WebInvariant == WebSpec => []WebInv
<1>1. WebInv /\ [WebNext]_all => WebInv'
  BY WebKept
<1> QED
  BY WebStarts, <1>1, PTL DEF WebSpec

(* What each page keeps is what its stage says (auth.ts, PayFlow.tsx,      *)
(* lib/pay, prices.ts, ClaimWizard.tsx, status.ts).                        *)
THEOREM WebTypeCorrect == WebSpec => []WebTypeOK
<1>1. WebInv => WebTypeOK
  BY WebShows
<1> QED
  BY WebInvariant, <1>1, PTL

(* Every tab shows one session, and the name noted with it is of its       *)
(* wallet (lib/auth.ts), whatever tabs sign in and out and switch wallets  *)
(* and however late /me answers.                                           *)
THEOREM SessionIsAlwaysOne == WebSpec => []SessionIsOne
<1>1. WebInv => SessionIsOne
  BY WebShows
<1> QED
  BY WebInvariant, <1>1, PTL

(* A payment goes to who is typed, for the fee on screen, once, and shows  *)
(* success of what was settled; it lands on the network and comes from the *)
(* account on screen; a price is never old (PayFlow.tsx, lib/pay,          *)
(* prices.ts).                                                             *)
THEOREM PaymentsAlwaysSafe == WebSpec => []PaymentsAreSafe
<1>1. WebInv => PaymentsAreSafe
  BY WebShows
<1> QED
  BY WebInvariant, <1>1, PTL

(* A claim that is said to be done is, a wallet said to have another name  *)
(* has one, a claim that was made is not refused when it is retried, and   *)
(* the status page says of a part that is down that it is                  *)
(* (ClaimWizard.tsx, status.ts).                                           *)
THEOREM PagesAlwaysSayTrue == WebSpec => []PagesSayTrue
<1>1. WebInv => PagesSayTrue
  BY WebShows
<1> QED
  BY WebInvariant, <1>1, PTL

(* No step signs anybody in late, and none but a change of the name in the *)
(* field takes a payment under way off its page (lib/auth.ts,              *)
(* PayPanel.tsx).                                                          *)
THEOREM UnderWayIsAlwaysKept == WebSpec => UnderWayIsKept
<1>1. WebInv /\ [WebNext]_all =>
        [LateSignsNobodyIn]_vars /\ [part = "pay" => P!StaysMounted]_all
  BY WebKept
<1> QED
  BY WebInvariant, <1>1, PTL DEF WebSpec, UnderWayIsKept, NoLateSignIn
=============================================================================
