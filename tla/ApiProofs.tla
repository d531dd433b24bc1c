------------------------------ MODULE ApiProofs -----------------------------
(***************************************************************************)
(* Proofs about the API's services, for any wallets, requests, challenges, *)
(* timeouts and cache lifetimes.  Each service has an invariant of its     *)
(* own; a step of another one leaves it alone.                             *)
(***************************************************************************)
EXTENDS Api, SequenceTheorems, FiniteSetTheorems, WellFoundedInduction, TLAPS

-----------------------------------------------------------------------------
(* Sessions.                                                               *)

(* A token was signed with a version that had been reached: 0 if there was *)
(* no account.                                                             *)
Past(t) ==
  IF version[t.wallet] = S!NoAccount THEN t.sv = 0 ELSE t.sv <= version[t.wallet]

(* What a handler holds is past too; a revoke that loaded its version      *)
(* found an account, and what it revokes is not newer.                     *)
HoldsPast(c) ==
  /\ c.phase \in {"sign", "register"} => Past(c.token)
  /\ c.phase = "load" => \A t \in c.before : t.wallet = c.wallet /\ Past(t)
  /\ c.phase = "bump" =>
       /\ version[c.wallet] # S!NoAccount
       /\ c.current <= version[c.wallet] /\ c.current < MaxVersion
       /\ \A t \in c.before : t.wallet = c.wallet /\ t.sv <= c.current

SessionsInv ==
  /\ S!TypeOK
  /\ \A t \in tokens : Past(t)
  /\ \A r \in Request : HoldsPast(call[r])
  /\ \A t \in revoked : version[t.wallet] # S!NoAccount /\ t.sv < version[t.wallet]

(* A version only grows, by one, once there is an account.                 *)
VersionGrows ==
  \A w \in SessionWallet :
    \/ version'[w] = version[w]
    \/ version[w] = S!NoAccount /\ version'[w] = 0
    \/ version[w] # S!NoAccount /\ version'[w] = version[w] + 1

LEMMA SessionCallTypes ==
  ASSUME NEW c \in S!Call
  PROVE  /\ c.phase \in {"sign", "register"} => c.token \in S!Token
         /\ c.phase \in {"load", "bump"} =>
              c.wallet \in SessionWallet /\ c.before \subseteq S!Token
         /\ c.phase = "bump" => c.current \in S!Version
  BY DEF S!Call, S!Idle

LEMMA SessionsInit == S!Init => SessionsInv
  BY DEF S!Init, SessionsInv, S!TypeOK, S!Idle, S!Call, HoldsPast

LEMMA WithAccountGrows ==
  ASSUME S!TypeOK, NEW w \in SessionWallet, version' = S!WithAccount(w)
  PROVE  version' \in [SessionWallet -> S!Version \cup {S!NoAccount}] /\ VersionGrows
  BY ApiConstants DEF S!TypeOK, S!WithAccount, VersionGrows, S!Version, S!NoAccount,
                      S!SessionsConstants

LEMMA BumpGrows ==
  ASSUME SessionsInv, NEW r \in Request, call[r].phase = "bump",
         version' = S!BumpedVersion(r)
  PROVE  /\ version' \in [SessionWallet -> S!Version \cup {S!NoAccount}]
         /\ VersionGrows
         /\ version'[call[r].wallet] > call[r].current
<1>1. /\ call[r].wallet \in SessionWallet /\ call[r].current \in S!Version
      /\ HoldsPast(call[r]) /\ MaxVersion \in Nat
  BY SessionCallTypes, ApiConstants DEF SessionsInv, S!TypeOK, S!SessionsConstants
<1>2. version \in [SessionWallet -> S!Version \cup {S!NoAccount}]
  BY DEF SessionsInv, S!TypeOK
<1>3. /\ call[r].current + 1 \in S!Version
      /\ version[call[r].wallet] \in Nat
      /\ call[r].current <= version[call[r].wallet]
  BY <1>1, <1>2 DEF HoldsPast, S!Version, S!NoAccount
<1>4. QED
  BY <1>1, <1>2, <1>3
  DEF S!BumpedVersion, S!SameAsLoaded, VersionGrows, S!Version, S!NoAccount

(* What was past stays past.                                               *)
LEMMA PastStays ==
  ASSUME S!TypeOK, S!TypeOK', VersionGrows, NEW t \in S!Token, Past(t)
  PROVE  Past(t)'
  BY DEF S!TypeOK, VersionGrows, S!Token, S!Version, S!NoAccount, Past

LEMMA HoldsStays ==
  ASSUME S!TypeOK, S!TypeOK', VersionGrows, NEW c \in S!Call, HoldsPast(c)
  PROVE  HoldsPast(c)'
<1>1. c.phase \in {"sign", "register"} => Past(c.token)'
  BY SessionCallTypes, PastStays DEF HoldsPast
<1>2. c.phase = "load" => \A t \in c.before : t.wallet = c.wallet /\ Past(t)'
  BY SessionCallTypes, PastStays DEF HoldsPast
<1>3. c.phase = "bump" =>
        /\ version'[c.wallet] # S!NoAccount
        /\ c.current <= version'[c.wallet] /\ c.current < MaxVersion
  BY SessionCallTypes
  DEF HoldsPast, VersionGrows, S!TypeOK, S!Version, S!NoAccount
<1>4. QED
  BY <1>1, <1>2, <1>3 DEF HoldsPast

NewCallsHoldPast ==
  /\ call' \in [Request -> S!Call]
  /\ \A r \in Request :
       call'[r] = call[r] \/ \E c \in S!Call : HoldsPast(c) /\ call'[r] = c

LEMMA NewCall ==
  ASSUME S!TypeOK, NEW r \in Request, NEW c \in S!Call, HoldsPast(c), S!Goto(r, c)
  PROVE  NewCallsHoldPast
  BY DEF S!TypeOK, S!Goto, NewCallsHoldPast

(* What every step does, before what it means for the invariant.           *)
SessionsStep ==
  /\ version' \in [SessionWallet -> S!Version \cup {S!NoAccount}]
  /\ VersionGrows
  /\ NewCallsHoldPast
  /\ tokens' \subseteq S!Token /\ \A t \in tokens' : Past(t)
  /\ revoked' \subseteq S!Token
  /\ \A t \in revoked' :
       \/ t \in revoked
       \/ version'[t.wallet] # S!NoAccount /\ t.sv < version'[t.wallet]

LEMMA SessionsStepIs ==
  ASSUME SessionsInv, S!Next
  PROVE  SessionsStep
<1> DEFINE Versions == S!Version \cup {S!NoAccount}
<1>0. /\ version \in [SessionWallet -> Versions]
      /\ call \in [Request -> S!Call]
      /\ tokens \subseteq S!Token /\ revoked \subseteq S!Token
      /\ \A t \in tokens : Past(t)
      /\ S!Idle \in S!Call /\ HoldsPast(S!Idle)
      /\ MaxVersion \in Nat
      /\ S!TypeOK
  BY ApiConstants
  DEF SessionsInv, S!TypeOK, S!Idle, S!Call, HoldsPast, S!SessionsConstants
<1>1. UNCHANGED version => version' \in [SessionWallet -> Versions] /\ VersionGrows
  BY <1>0 DEF VersionGrows
<1>2. ASSUME NEW r \in Request, NEW w \in SessionWallet, S!SignInReads(r, w)
      PROVE  /\ NewCallsHoldPast
             /\ UNCHANGED <<version, tokens, revoked>>
  <2> DEFINE t == [wallet |-> w, sv |-> S!OrZero(version[w])]
             c == [phase |-> "sign", token |-> t]
  <2>1. t \in S!Token /\ Past(t)
    BY <1>0 DEF S!Token, S!OrZero, S!Version, S!NoAccount, Past
  <2>2. c \in S!Call /\ HoldsPast(c)
    BY <2>1 DEF S!Call, HoldsPast
  <2>3. S!Goto(r, c)
    BY <1>2 DEF S!SignInReads
  <2> HIDE DEF c
  <2>4. QED
    BY <1>0, <1>2, <2>2, <2>3, NewCall DEF S!SignInReads
<1>3. ASSUME NEW r \in Request, S!signSessionToken(r)
      PROVE  /\ S!Goto(r, S!Idle)
             /\ tokens' \subseteq S!Token /\ \A t \in tokens' : Past(t)
             /\ UNCHANGED <<version, revoked>>
  <2>1. call[r].token \in S!Token /\ Past(call[r].token)
    BY <1>0, <1>3, SessionCallTypes DEF S!signSessionToken, SessionsInv, HoldsPast
  <2>2. QED
    BY <1>0, <1>3, <2>1 DEF S!signSessionToken, S!End
<1>4. ASSUME NEW r \in Request, NEW t \in S!Token,
             S!RegisterAdmitted(r, t) \/ S!LogoutAdmitted(r, t)
      PROVE  /\ NewCallsHoldPast
             /\ UNCHANGED <<version, tokens, revoked>>
  <2> DEFINE before == {u \in tokens : u.wallet = t.wallet}
             c == [phase |-> "register", token |-> t]
             d == [phase |-> "load", wallet |-> t.wallet, before |-> before]
  <2>1. t \in tokens /\ t.wallet \in SessionWallet
    BY <1>4 DEF S!RegisterAdmitted, S!LogoutAdmitted, S!Token
  <2>2. c \in S!Call /\ HoldsPast(c)
    BY <1>0, <2>1 DEF S!Call, HoldsPast
  <2>3. d \in S!Call /\ HoldsPast(d)
    BY <1>0, <2>1 DEF S!Call, HoldsPast
  <2>4. S!Goto(r, c) \/ S!Goto(r, d)
    BY <1>4 DEF S!RegisterAdmitted, S!LogoutAdmitted
  <2> HIDE DEF c, d
  <2>5. QED
    BY <1>0, <1>4, <2>2, <2>3, <2>4, NewCall
    DEF S!RegisterAdmitted, S!LogoutAdmitted
<1>5. ASSUME NEW r \in Request, S!RevokeLoads(r)
      PROVE  /\ NewCallsHoldPast
             /\ UNCHANGED <<version, tokens, revoked>>
  <2> DEFINE w == call[r].wallet
             c == [phase |-> "bump", wallet |-> w,
                   before |-> call[r].before, current |-> version[w]]
  <2>1. /\ call[r].phase = "load" /\ HoldsPast(call[r])
        /\ w \in SessionWallet /\ call[r].before \subseteq S!Token
    BY <1>0, <1>5, SessionCallTypes DEF S!RevokeLoads, SessionsInv
  <2>2. \/ S!Goto(r, S!Idle)
        \/ /\ version[w] # S!NoAccount /\ version[w] < MaxVersion
           /\ S!Goto(r, c)
    BY <1>5 DEF S!RevokeLoads, S!End
  <2>3. ASSUME version[w] # S!NoAccount, version[w] < MaxVersion
        PROVE  c \in S!Call /\ HoldsPast(c)
    <3>1. version[w] \in S!Version /\ version[w] <= version[w]
      BY <1>0, <2>1, <2>3 DEF S!Version, S!NoAccount
    <3>2. \A t \in call[r].before : t.wallet = w /\ t.sv <= version[w]
      BY <2>1, <2>3 DEF HoldsPast, Past
    <3>3. QED
      BY <2>1, <2>3, <3>1, <3>2 DEF S!Call, HoldsPast
  <2> HIDE DEF c
  <2>4. QED
    BY <1>0, <1>5, <2>2, <2>3, NewCall DEF S!RevokeLoads
<1>6. ASSUME NEW r \in Request, S!RevokeBumps(r)
      PROVE  /\ S!Goto(r, S!Idle)
             /\ version' = S!BumpedVersion(r) /\ call[r].phase = "bump"
             /\ UNCHANGED tokens
             /\ revoked' \subseteq S!Token
             /\ \A t \in revoked' : \/ t \in revoked
                                    \/ /\ version'[t.wallet] # S!NoAccount
                                       /\ t.sv < version'[t.wallet]
  <2>1. /\ call[r].phase = "bump" /\ version' = S!BumpedVersion(r)
        /\ revoked' = revoked \cup call[r].before
        /\ HoldsPast(call[r])
    BY <1>6 DEF S!RevokeBumps, SessionsInv
  <2>2. /\ call[r].before \subseteq S!Token /\ call[r].current \in Nat
        /\ version'[call[r].wallet] > call[r].current
        /\ version'[call[r].wallet] \in Int
    BY <1>0, <2>1, BumpGrows, SessionCallTypes DEF S!Version, S!NoAccount
  <2>3. \A t \in call[r].before : t.sv \in Nat /\ t.wallet = call[r].wallet
                                  /\ t.sv <= call[r].current
    BY <2>1, <2>2 DEF HoldsPast, S!Token, S!Version
  <2>4. \A t \in call[r].before :
          version'[t.wallet] # S!NoAccount /\ t.sv < version'[t.wallet]
    BY <2>2, <2>3 DEF S!NoAccount
  <2>5. QED
    BY <1>0, <1>6, <2>1, <2>2, <2>4 DEF S!RevokeBumps, S!End
<1>7. ASSUME NEW r \in Request, S!Registers(r)
      PROVE  /\ S!Goto(r, S!Idle)
             /\ \E w \in SessionWallet : version' = S!WithAccount(w)
             /\ UNCHANGED <<tokens, revoked>>
  <2>1. call[r].token.wallet \in SessionWallet
    BY <1>0, <1>7, SessionCallTypes DEF S!Registers, S!Token
  <2>2. QED
    BY <1>7, <2>1 DEF S!Registers, S!End
<1>8. ASSUME NEW r \in Request, S!Fails(r)
      PROVE  /\ S!Goto(r, S!Idle)
             /\ \/ UNCHANGED version
                \/ call[r].phase = "bump" /\ version' = S!BumpedVersion(r)
                \/ \E w \in SessionWallet : version' = S!WithAccount(w)
             /\ UNCHANGED <<tokens, revoked>>
  <2>1. call[r].phase = "register" => call[r].token.wallet \in SessionWallet
    BY <1>0, SessionCallTypes DEF S!Token
  <2>2. QED
    BY <1>8, <2>1 DEF S!Fails, S!End
<1>9. /\ \A w \in SessionWallet : version' = S!WithAccount(w) =>
           version' \in [SessionWallet -> Versions] /\ VersionGrows
      /\ \A r \in Request : call[r].phase = "bump" /\ version' = S!BumpedVersion(r) =>
           version' \in [SessionWallet -> Versions] /\ VersionGrows
  BY WithAccountGrows, BumpGrows DEF SessionsInv
<1>10. ASSUME NEW r \in Request, S!Goto(r, S!Idle)
       PROVE  NewCallsHoldPast
  BY <1>0, <1>10, NewCall
<1>11. ASSUME NEW t \in S!Token, S!Expire(t)
       PROVE  /\ tokens' \subseteq tokens /\ NewCallsHoldPast
              /\ UNCHANGED <<version, revoked>>
  BY <1>0, <1>11 DEF S!Expire, NewCallsHoldPast
<1> HIDE DEF Versions
<1>12. ASSUME NewCallsHoldPast, tokens' \subseteq S!Token, \A t \in tokens' : Past(t),
              UNCHANGED <<version, revoked>>
       PROVE  SessionsStep
  BY <1>0, <1>1, <1>12 DEF SessionsStep, Versions
<1>13. ASSUME NewCallsHoldPast, version' \in [SessionWallet -> Versions], VersionGrows,
              UNCHANGED <<tokens, revoked>>
       PROVE  SessionsStep
  BY <1>0, <1>13 DEF SessionsStep, Versions
<1>14. ASSUME NEW r \in Request, S!RevokeBumps(r)
       PROVE  SessionsStep
  BY <1>0, <1>6, <1>9, <1>10, <1>14 DEF SessionsStep, Versions
<1>15. ASSUME NEW r \in Request, S!Registers(r) \/ S!Fails(r)
       PROVE  SessionsStep
  BY <1>1, <1>7, <1>8, <1>9, <1>10, <1>13, <1>15
<1>16. ASSUME NEW r \in Request, S!signSessionToken(r)
       PROVE  SessionsStep
  <2>1. /\ S!Goto(r, S!Idle) /\ UNCHANGED <<version, revoked>>
        /\ tokens' \subseteq S!Token /\ \A t \in tokens' : Past(t)
    BY <1>3, <1>16
  <2>2. NewCallsHoldPast
    BY <1>10, <2>1
  <2>3. QED
    BY <1>0, <1>1, <2>1, <2>2 DEF SessionsStep, Versions
<1>17. ASSUME NEW t \in S!Token, S!Expire(t)
       PROVE  SessionsStep
  BY <1>0, <1>11, <1>12, <1>17
<1>18. QED
  BY <1>0, <1>2, <1>4, <1>5, <1>12, <1>14, <1>15, <1>16, <1>17 DEF S!Next

LEMMA SessionsKept ==
  ASSUME SessionsInv, S!Next
  PROVE  SessionsInv'
<1>1. SessionsStep /\ S!TypeOK
  BY SessionsStepIs DEF SessionsInv
<1>2. S!TypeOK'
  BY <1>1 DEF SessionsStep, NewCallsHoldPast, S!TypeOK
<1>3. \A t \in tokens' : Past(t)'
  BY <1>1, <1>2, PastStays DEF SessionsStep
<1>4. ASSUME NEW r \in Request
      PROVE  HoldsPast(call[r])'
  <2>1. PICK c \in S!Call : HoldsPast(c) /\ call'[r] = c
    BY <1>1 DEF SessionsStep, NewCallsHoldPast, SessionsInv, S!TypeOK
  <2>2. HoldsPast(c)'
    BY <1>1, <1>2, <2>1, HoldsStays DEF SessionsStep
  <2>3. QED
    BY <2>1, <2>2 DEF HoldsPast
<1>5. ASSUME NEW t \in revoked'
      PROVE  version'[t.wallet] # S!NoAccount /\ t.sv < version'[t.wallet]
  BY <1>1, <1>2
  DEF SessionsStep, SessionsInv, VersionGrows, S!TypeOK, S!Token, S!Version, S!NoAccount
<1>6. QED
  BY <1>2, <1>3, <1>4, <1>5 DEF SessionsInv

LEMMA RevokedAreOut == SessionsInv => S!RevokedStayOut
  BY DEF SessionsInv, S!RevokedStayOut, S!Admits, S!TypeOK, S!Token, S!Version,
         S!NoAccount

LEMMA OnlyRevokes ==
  ASSUME SessionsInv, S!Next
  PROVE  S!OnlyRevokesEnd
<1>1. SessionsStep
  BY SessionsStepIs
<1>2. QED
  BY <1>1
  DEF SessionsStep, SessionsInv, S!TypeOK, VersionGrows, S!OnlyRevokesEnd, S!Admits,
      Past, S!Token, S!Version, S!NoAccount

-----------------------------------------------------------------------------
(* Addresses.                                                              *)

(* What a handler holds: the keys that signed are the owner's, an update   *)
(* follows a valid signature, and a challenge about to be stored is new.   *)
HoldsProof(c) ==
  /\ c.phase = "update" => c.by = c.challenge.address /\ c.by \in Held
  /\ c.phase = "store" => \A d \in challenges : d.nonce # c.challenge.nonce

StoresDiffer(c, d) ==
  c.phase = "store" /\ d.phase = "store" => c.challenge.nonce # d.challenge.nonce

(* A challenge that was consumed is gone for good: its nonce was issued,   *)
(* and is not drawn again.                                                 *)
ConsumedIsGone ==
  \A n \in Nonce : consumed[n] # {} =>
    /\ \E c \in challenges : c.nonce = n
    /\ \A c \in challenge : c.nonce # n

AddressesInv ==
  /\ D!TypeOK
  /\ D!VerifiedIsHeld /\ D!ConsumedOnce
  /\ challenge \subseteq challenges
  /\ ConsumedIsGone
  /\ \A r \in Request : HoldsProof(call[r])
  /\ \A r, s \in Request : r # s => StoresDiffer(call[r], call[s])

LEMMA AddressCallTypes ==
  ASSUME NEW c \in D!Call
  PROVE  /\ c.phase \in {"read", "save"} => c.address \in Address
         /\ c.phase = "store" => c.challenge \in D!Challenge
         /\ c.phase = "load" => c.by \in Held /\ c.signed \in D!Challenge
         /\ c.phase \in {"consume", "update"} =>
              /\ c.by \in Held
              /\ c.signed \in D!Challenge /\ c.challenge \in D!Challenge
  BY DEF D!Call, D!Idle

LEMMA AddressesInit == D!Init => AddressesInv
  BY DEF D!Init, AddressesInv, D!TypeOK, D!Idle, D!Call, D!VerifiedIsHeld,
         D!ConsumedOnce, D!AtMostOne, ConsumedIsGone, HoldsProof, StoresDiffer

(* A step of one handler that stores no challenge: what the others hold    *)
(* stays so, and what it then holds is looked at for itself.               *)
LEMMA HandlerStep ==
  ASSUME AddressesInv, NEW r \in Request, NEW c \in D!Call, D!Goto(r, c),
         HoldsProof(c), challenges' = challenges,
         \A s \in Request \ {r} : StoresDiffer(c, call[s])
  PROVE  /\ call' \in [Request -> D!Call]
         /\ \A s \in Request : HoldsProof(call[s])'
         /\ \A s, t \in Request : s # t => StoresDiffer(call[s], call[t])'
<1>1. /\ call \in [Request -> D!Call] /\ call' \in [Request -> D!Call]
      /\ call'[r] = c /\ \A s \in Request \ {r} : call'[s] = call[s]
  BY DEF D!Goto, AddressesInv, D!TypeOK
<1>2. \A s \in Request : HoldsProof(call[s])'
  BY <1>1 DEF AddressesInv, HoldsProof
<1>3. ASSUME NEW s \in Request, NEW t \in Request, s # t
      PROVE  StoresDiffer(call[s], call[t])'
  <2>1. CASE s # r /\ t # r
    BY <1>1, <1>3, <2>1 DEF AddressesInv, StoresDiffer
  <2>2. CASE s = r
    BY <1>1, <1>3, <2>2 DEF StoresDiffer
  <2>3. CASE t = r
    BY <1>1, <1>3, <2>3 DEF StoresDiffer
  <2>4. QED
    BY <2>1, <2>2, <2>3
<1>4. QED
  BY <1>1, <1>2, <1>3

(* Of the tables: what a write of each kind keeps.                         *)
TablesHold ==
  /\ mapping' \subseteq D!Row /\ D!AtMostOne(mapping')
  /\ \A row \in mapping' : row.verified => row.address \in Held
  /\ challenge' \subseteq D!Challenge /\ D!AtMostOne(challenge')
  /\ challenges' \subseteq D!Challenge
  /\ \A c, d \in challenges' : c.nonce = d.nonce => c = d
  /\ consumed' \in [Nonce -> SUBSET Request]
  /\ \A n \in Nonce : D!AtMostOne(consumed'[n])
  /\ challenge' \subseteq challenges'
  /\ ConsumedIsGone'

LEMMA TablesUnchanged ==
  ASSUME AddressesInv, UNCHANGED <<mapping, challenge, challenges, consumed>>
  PROVE  TablesHold
  BY DEF AddressesInv, TablesHold, D!TypeOK, D!VerifiedIsHeld, D!ConsumedOnce,
         ConsumedIsGone

LEMMA MappingWritten ==
  ASSUME AddressesInv, UNCHANGED <<challenge, challenges, consumed>>,
         mapping' \subseteq D!Row, D!AtMostOne(mapping'),
         \A row \in mapping' : row.verified => row.address \in Held
  PROVE  TablesHold
  BY DEF AddressesInv, TablesHold, D!TypeOK, D!ConsumedOnce, ConsumedIsGone

LEMMA SaveHolds ==
  ASSUME AddressesInv, NEW r \in Request, call[r].phase = "save", D!Saved(r),
         UNCHANGED <<challenge, challenges, consumed>>
  PROVE  TablesHold
<1> DEFINE row == [address |-> call[r].address,
                   verified |-> D!StartsVerified(call[r].address)]
<1>1. call[r].address \in Address /\ mapping' = {row}
  BY AddressCallTypes DEF AddressesInv, D!TypeOK, D!Saved
<1>2. row \in D!Row /\ (row.verified => row.address \in Held)
  BY <1>1, ApiConstants DEF D!Row, D!StartsVerified, D!AddressesConstants
<1> HIDE DEF row
<1>3. QED
  BY <1>1, <1>2, MappingWritten DEF D!AtMostOne

LEMMA UpdateHolds ==
  ASSUME AddressesInv, NEW r \in Request, call[r].phase = "update", D!Updated(r),
         UNCHANGED <<challenge, challenges, consumed>>
  PROVE  TablesHold
<1> DEFINE a == call[r].challenge.address
<1>1. a \in Held
  BY DEF AddressesInv, HoldsProof
<1>2. ASSUME NEW row \in mapping'
      PROVE  \/ row \in mapping
             \/ \E old \in mapping : /\ row = [old EXCEPT !.verified = TRUE]
                                     /\ old.address = a
  BY <1>2 DEF D!Updated, D!RowVerified
<1>3. mapping \subseteq D!Row /\ D!AtMostOne(mapping)
  BY DEF AddressesInv, D!TypeOK
<1>4. mapping' \subseteq D!Row
  BY <1>2, <1>3 DEF D!Row
<1>5. \A row \in mapping' : row.verified => row.address \in Held
  BY <1>1, <1>2, <1>3 DEF D!Row, AddressesInv, D!VerifiedIsHeld
<1>6. D!AtMostOne(mapping')
  BY <1>3 DEF D!AtMostOne, D!Updated, D!RowVerified
<1>7. QED
  BY <1>4, <1>5, <1>6, MappingWritten

LEMMA RemoveHolds ==
  ASSUME AddressesInv, mapping' = {}, UNCHANGED <<challenge, challenges, consumed>>
  PROVE  TablesHold
  BY MappingWritten DEF D!AtMostOne

LEMMA DefaultHolds ==
  ASSUME AddressesInv, mapping' = {[address |-> Owner, verified |-> TRUE]},
         UNCHANGED <<challenge, challenges, consumed>>
  PROVE  TablesHold
<1> DEFINE row == [address |-> Owner, verified |-> TRUE]
<1>1. row \in D!Row /\ row.address \in Held
  BY ApiConstants DEF D!Row, D!AddressesConstants
<1> HIDE DEF row
<1>2. QED
  BY <1>1, MappingWritten DEF D!AtMostOne, row

(* The challenge of a store is new: with it, the table and what was issued *)
(* are as before, and no other handler's stored challenge has its nonce.   *)
LEMMA StoreHolds ==
  ASSUME AddressesInv, NEW r \in Request, call[r].phase = "store", D!Stored(r),
         UNCHANGED <<mapping, consumed>>
  PROVE  TablesHold
<1> DEFINE c == call[r].challenge
<1>1. /\ c \in D!Challenge /\ challenge' = {c} /\ challenges' = challenges \cup {c}
      /\ \A d \in challenges : d.nonce # c.nonce
  BY AddressCallTypes DEF AddressesInv, D!TypeOK, D!Stored, D!Replacing, HoldsProof
<1> HIDE DEF c
<1>2. /\ challenge' \subseteq D!Challenge /\ D!AtMostOne(challenge')
      /\ challenges' \subseteq D!Challenge /\ challenge' \subseteq challenges'
      /\ \A d, e \in challenges' : d.nonce = e.nonce => d = e
  BY <1>1 DEF AddressesInv, D!TypeOK, D!AtMostOne
<1>3. ConsumedIsGone'
  BY <1>1 DEF AddressesInv, ConsumedIsGone
<1>4. QED
  BY <1>2, <1>3 DEF TablesHold, AddressesInv, D!TypeOK, D!VerifiedIsHeld,
                    D!ConsumedOnce

LEMMA OthersAfterStore ==
  ASSUME AddressesInv, NEW r \in Request, call[r].phase = "store", D!Stored(r),
         D!End(r)
  PROVE  /\ call' \in [Request -> D!Call]
         /\ \A s \in Request : HoldsProof(call[s])'
         /\ \A s, t \in Request : s # t => StoresDiffer(call[s], call[t])'
<1>1. /\ call \in [Request -> D!Call] /\ call' \in [Request -> D!Call]
      /\ call'[r] = D!Idle /\ \A s \in Request \ {r} : call'[s] = call[s]
      /\ challenges' = challenges \cup {call[r].challenge}
  BY DEF D!End, D!Goto, D!Call, AddressesInv, D!TypeOK, D!Stored
<1>2. ASSUME NEW s \in Request
      PROVE  HoldsProof(call[s])'
  <2>1. CASE s = r
    BY <1>1, <2>1 DEF HoldsProof, D!Idle
  <2>2. CASE s # r
    BY <1>1, <2>2 DEF AddressesInv, HoldsProof, StoresDiffer
  <2>3. QED
    BY <2>1, <2>2
<1>3. ASSUME NEW s \in Request, NEW t \in Request, s # t
      PROVE  StoresDiffer(call[s], call[t])'
  <2>1. CASE s # r /\ t # r
    BY <1>1, <1>3, <2>1 DEF AddressesInv, StoresDiffer
  <2>2. CASE s = r \/ t = r
    BY <1>1, <2>2 DEF StoresDiffer, D!Idle
  <2>3. QED
    BY <2>1, <2>2
<1>4. QED
  BY <1>1, <1>2, <1>3

(* A challenge that leaves the table, whoever it is counted for: nothing   *)
(* had consumed it, or it would have been gone.                            *)
LEMMA ConsumeHolds ==
  ASSUME AddressesInv, NEW r \in Request, call[r].phase = "consume",
         challenge' = challenge \ D!ThisExactOne(r),
         UNCHANGED <<mapping, challenges>>,
         \/ UNCHANGED consumed
         \/ /\ D!ThisExactOne(r) # {}
            /\ consumed' = [consumed EXCEPT ![call[r].challenge.nonce] = @ \cup {r}]
  PROVE  TablesHold
<1> DEFINE c == call[r].challenge
<1>1. /\ c \in D!Challenge /\ c.nonce \in Nonce
      /\ D!ThisExactOne(r) = challenge \cap {c}
  BY AddressCallTypes DEF AddressesInv, D!TypeOK, D!ThisExactOne, D!Challenge
<1>2. consumed \in [Nonce -> SUBSET Request]
  BY DEF AddressesInv, D!TypeOK
<1>3. CASE UNCHANGED consumed
  BY <1>1, <1>3 DEF AddressesInv, TablesHold, D!TypeOK, D!VerifiedIsHeld,
                    D!ConsumedOnce, ConsumedIsGone, D!AtMostOne
<1>4. CASE /\ D!ThisExactOne(r) # {}
           /\ consumed' = [consumed EXCEPT ![c.nonce] = @ \cup {r}]
  <2> HIDE DEF c
  <2>1. c \in challenge /\ c \in challenges
    BY <1>1, <1>4 DEF AddressesInv
  <2>2. consumed[c.nonce] = {} /\ challenge' = {}
    BY <1>1, <1>2, <2>1 DEF AddressesInv, ConsumedIsGone, D!TypeOK, D!AtMostOne
  <2>3. /\ consumed' \in [Nonce -> SUBSET Request]
        /\ consumed'[c.nonce] = {r}
        /\ \A n \in Nonce \ {c.nonce} : consumed'[n] = consumed[n]
    BY <1>1, <1>2, <1>4, <2>2
  <2>4. \A n \in Nonce : D!AtMostOne(consumed'[n])
    BY <2>3 DEF AddressesInv, D!ConsumedOnce, D!AtMostOne
  <2>5. ConsumedIsGone'
    BY <2>1, <2>2, <2>3 DEF AddressesInv, ConsumedIsGone
  <2>6. QED
    BY <2>2, <2>3, <2>4, <2>5 DEF AddressesInv, TablesHold, D!TypeOK,
       D!VerifiedIsHeld, D!AtMostOne
<1>5. QED
  BY <1>3, <1>4

(* Both halves of a step that stores no challenge.                         *)
LEMMA StepKeeps ==
  ASSUME AddressesInv, TablesHold, challenges' = challenges,
         NEW r \in Request, NEW c \in D!Call, D!Goto(r, c), HoldsProof(c),
         \A s \in Request \ {r} : StoresDiffer(c, call[s])
  PROVE  AddressesInv'
<1>1. /\ call' \in [Request -> D!Call]
      /\ \A s \in Request : HoldsProof(call[s])'
      /\ \A s, t \in Request : s # t => StoresDiffer(call[s], call[t])'
  BY HandlerStep
<1>2. QED
  BY <1>1 DEF TablesHold, AddressesInv, D!TypeOK, D!VerifiedIsHeld, D!ConsumedOnce

LEMMA EndKeeps ==
  ASSUME AddressesInv, TablesHold, challenges' = challenges,
         NEW r \in Request, D!End(r)
  PROVE  AddressesInv'
<1>1. D!Idle \in D!Call /\ HoldsProof(D!Idle)
      /\ \A s \in Request : StoresDiffer(D!Idle, call[s])
  BY DEF D!Idle, D!Call, HoldsProof, StoresDiffer
<1>2. QED
  BY <1>1, StepKeeps DEF D!End

AddressStep(r) ==
  \/ \E a \in Address : D!StartAdd(r, a)
  \/ D!AddReads(r) \/ D!AddSaves(r) \/ D!StartRemove(r) \/ D!RemoveDeletes(r)
  \/ D!StartChallenge(r) \/ (\E n \in Nonce : D!ChallengeMaps(r, n))
  \/ D!ChallengeStores(r)
  \/ \E by \in Held, signed \in challenges : D!StartVerify(r, by, signed)
  \/ D!VerifyLoads(r) \/ D!VerifyConsumes(r) \/ D!VerifyUpdates(r) \/ D!Fails(r)

(* A handler that goes on without a write, and holds no challenge to store.*)
LEMMA GoesOn ==
  ASSUME AddressesInv, NEW r \in Request, NEW c \in D!Call, D!Goto(r, c),
         c.phase # "store", c.phase # "update", UNCHANGED D!Tables
  PROVE  AddressesInv'
<1>1. HoldsProof(c) /\ \A s \in Request : StoresDiffer(c, call[s])
  BY DEF HoldsProof, StoresDiffer
<1>2. UNCHANGED <<mapping, challenge, challenges, consumed>>
  BY DEF D!Tables
<1>3. QED
  BY <1>1, <1>2, StepKeeps, TablesUnchanged

LEMMA AddressStepKeeps ==
  ASSUME AddressesInv, NEW r \in Request, AddressStep(r)
  PROVE  AddressesInv'
<1>1. /\ call[r] \in D!Call
      /\ mapping \subseteq D!Row /\ challenge \subseteq D!Challenge
      /\ challenges \subseteq D!Challenge
  BY DEF AddressesInv, D!TypeOK
<1>2. ASSUME NEW a \in Address, D!StartAdd(r, a)
      PROVE  AddressesInv'
  <2>1. [phase |-> "read", address |-> a] \in D!Call
    BY DEF D!Call
  <2>2. QED
    BY <1>2, <2>1, GoesOn DEF D!StartAdd, D!Begin, D!Goto
<1>3. CASE D!AddReads(r)
  <2>1. CASE D!End(r)
    BY <1>3, <2>1, EndKeeps, TablesUnchanged DEF D!AddReads, D!Tables
  <2>2. CASE D!Goto(r, [phase |-> "save", address |-> call[r].address])
    <3>1. [phase |-> "save", address |-> call[r].address] \in D!Call
      BY <1>1, <1>3, AddressCallTypes DEF D!AddReads, D!Call
    <3>2. QED
      BY <1>3, <2>2, <3>1, GoesOn DEF D!AddReads
  <2>3. QED
    BY <1>3, <2>1, <2>2 DEF D!AddReads
<1>4. CASE D!AddSaves(r)
  BY <1>4, SaveHolds, EndKeeps DEF D!AddSaves
<1>5. CASE D!StartRemove(r) \/ D!StartChallenge(r)
  <2>1. [phase |-> "remove"] \in D!Call /\ [phase |-> "map"] \in D!Call
    BY DEF D!Call
  <2>2. QED
    BY <1>5, <2>1, GoesOn DEF D!StartRemove, D!StartChallenge, D!Begin, D!Goto
<1>6. CASE D!RemoveDeletes(r)
  BY <1>6, RemoveHolds, EndKeeps DEF D!RemoveDeletes
<1>7. ASSUME NEW n \in Nonce, D!ChallengeMaps(r, n)
      PROVE  AddressesInv'
  <2>1. UNCHANGED <<mapping, challenge, challenges, consumed>>
    BY <1>7 DEF D!ChallengeMaps, D!Tables
  <2>2. CASE D!End(r)
    BY <2>1, <2>2, EndKeeps, TablesUnchanged
  <2>3. CASE /\ \A d \in challenges : d.nonce # n
             /\ \A s \in Request : call[s].phase = "store" => call[s].challenge.nonce # n
             /\ \E row \in mapping :
                  D!Goto(r, [phase |-> "store",
                             challenge |-> [address |-> row.address, nonce |-> n]])
    <3>1. PICK row \in mapping :
            D!Goto(r, [phase |-> "store",
                       challenge |-> [address |-> row.address, nonce |-> n]])
      BY <2>3
    <3> DEFINE c == [phase |-> "store",
                     challenge |-> [address |-> row.address, nonce |-> n]]
    <3>2. c \in D!Call
      BY <1>1, <3>1 DEF D!Call, D!Challenge, D!Row
    <3>3. HoldsProof(c) /\ \A s \in Request : StoresDiffer(c, call[s])
      BY <2>3 DEF HoldsProof, StoresDiffer
    <3>4. D!Goto(r, c)
      BY <3>1
    <3> HIDE DEF c
    <3>5. QED
      BY <2>1, <3>2, <3>3, <3>4, StepKeeps, TablesUnchanged
  <2>4. QED
    BY <1>7, <2>2, <2>3 DEF D!ChallengeMaps
<1>8. CASE D!ChallengeStores(r)
  <2>1. TablesHold
    BY <1>8, StoreHolds DEF D!ChallengeStores
  <2>2. QED
    BY <1>8, <2>1, OthersAfterStore DEF D!ChallengeStores, TablesHold, AddressesInv,
       D!TypeOK, D!VerifiedIsHeld, D!ConsumedOnce
<1>9. ASSUME NEW by \in Held, NEW signed \in challenges, D!StartVerify(r, by, signed)
      PROVE  AddressesInv'
  <2>1. [phase |-> "load", by |-> by, signed |-> signed] \in D!Call
    BY <1>1 DEF D!Call
  <2>2. QED
    BY <1>9, <2>1, GoesOn DEF D!StartVerify, D!Begin, D!Goto
<1>10. CASE D!VerifyLoads(r)
  <2>1. CASE D!End(r)
    BY <1>10, <2>1, EndKeeps, TablesUnchanged DEF D!VerifyLoads, D!Tables
  <2>2. ASSUME NEW c \in challenge,
               D!Goto(r, [phase |-> "consume", by |-> call[r].by,
                          signed |-> call[r].signed, challenge |-> c])
        PROVE  AddressesInv'
    <3>1. [phase |-> "consume", by |-> call[r].by, signed |-> call[r].signed,
           challenge |-> c] \in D!Call
      BY <1>1, <1>10, AddressCallTypes DEF D!VerifyLoads, D!Call
    <3>2. QED
      BY <1>10, <2>2, <3>1, GoesOn DEF D!VerifyLoads
  <2>3. QED
    BY <1>10, <2>1, <2>2 DEF D!VerifyLoads
<1>11. CASE D!VerifyConsumes(r)
  <2>1. TablesHold /\ challenges' = challenges
    BY <1>11, ConsumeHolds DEF D!VerifyConsumes, D!ConsumedBefore
  <2>2. CASE D!End(r)
    BY <2>1, <2>2, EndKeeps
  <2>3. CASE D!SignatureValid(call[r])
             /\ D!Goto(r, [call[r] EXCEPT !.phase = "update"])
    <3> DEFINE c == [call[r] EXCEPT !.phase = "update"]
    <3>1. call[r] \in [phase : {"consume", "update"}, by : Held,
                       signed : D!Challenge, challenge : D!Challenge]
      BY <1>1, <1>11 DEF D!VerifyConsumes, D!Call, D!Idle
    <3>2. /\ c \in D!Call /\ c.phase = "update"
          /\ c.by = call[r].by /\ c.challenge = call[r].challenge
          /\ call[r].by \in Held
      BY <3>1 DEF D!Call
    <3>3. D!Goto(r, c)
      BY <2>3
    <3> HIDE DEF c
    <3>4. HoldsProof(c) /\ \A s \in Request : StoresDiffer(c, call[s])
      BY <2>3, <3>2 DEF HoldsProof, StoresDiffer, D!SignatureValid
    <3>5. QED
      BY <2>1, <3>2, <3>3, <3>4, StepKeeps
  <2>4. QED
    BY <1>11, <2>2, <2>3 DEF D!VerifyConsumes
<1>12. CASE D!VerifyUpdates(r)
  BY <1>12, UpdateHolds, EndKeeps DEF D!VerifyUpdates
<1>13. CASE D!Fails(r)
  <2>1. D!End(r)
    BY <1>13 DEF D!Fails
  <2>2. CASE UNCHANGED D!Tables
    BY <2>1, <2>2, EndKeeps, TablesUnchanged DEF D!Tables
  <2>3. CASE call[r].phase = "save" /\ D!Saved(r)
             /\ UNCHANGED <<challenge, challenges, consumed>>
    BY <2>1, <2>3, SaveHolds, EndKeeps
  <2>4. CASE call[r].phase = "remove" /\ mapping' = {}
             /\ UNCHANGED <<challenge, challenges, consumed>>
    BY <2>1, <2>4, RemoveHolds, EndKeeps
  <2>5. CASE call[r].phase = "store" /\ D!Stored(r) /\ UNCHANGED <<mapping, consumed>>
    <3>1. TablesHold
      BY <2>5, StoreHolds
    <3>2. QED
      BY <2>1, <2>5, <3>1, OthersAfterStore DEF TablesHold, AddressesInv,
         D!TypeOK, D!VerifiedIsHeld, D!ConsumedOnce
  <2>6. CASE call[r].phase = "consume" /\ challenge' = challenge \ D!ThisExactOne(r)
             /\ UNCHANGED <<mapping, challenges, consumed>>
    BY <2>1, <2>6, ConsumeHolds, EndKeeps
  <2>7. CASE call[r].phase = "update" /\ D!Updated(r)
             /\ UNCHANGED <<challenge, challenges, consumed>>
    BY <2>1, <2>7, UpdateHolds, EndKeeps
  <2>8. QED
    BY <1>13, <2>2, <2>3, <2>4, <2>5, <2>6, <2>7 DEF D!Fails
<1>14. QED
  BY <1>2, <1>3, <1>4, <1>5, <1>6, <1>7, <1>8, <1>9, <1>10, <1>11, <1>12, <1>13
     DEF AddressStep

LEMMA AddressesKept == AddressesInv /\ D!Next => AddressesInv'
<1> SUFFICES ASSUME AddressesInv, D!Next PROVE AddressesInv'
  OBVIOUS
<1>1. CASE \E r \in Request : AddressStep(r)
  BY <1>1, AddressStepKeeps
<1>2. CASE D!DefaultAddress
  BY <1>2, DefaultHolds DEF D!DefaultAddress, TablesHold, AddressesInv, D!TypeOK,
     D!VerifiedIsHeld, D!ConsumedOnce, HoldsProof
<1>3. QED
  BY <1>1, <1>2 DEF D!Next, AddressStep

(* A handler that leaves "consume" is the one that stepped, and takes its  *)
(* own challenge at most.                                                  *)
LEMMA NewerStays == D!TypeOK /\ D!Next => D!NewerSurvives
<1> SUFFICES ASSUME D!TypeOK, D!Next,
                    NEW c \in challenge, NEW r \in Request,
                    call[r].phase = "consume", call[r].challenge # c,
                    call'[r] # call[r]
             PROVE  c \in challenge'
  BY DEF D!NewerSurvives
<1>1. PICK s \in Request : AddressStep(s)
  BY DEF D!Next, D!DefaultAddress, AddressStep
<1>2. s = r
  BY <1>1 DEF AddressStep, D!TypeOK, D!StartAdd, D!AddReads, D!AddSaves, D!StartRemove,
     D!RemoveDeletes, D!StartChallenge, D!ChallengeMaps, D!ChallengeStores,
     D!StartVerify, D!VerifyLoads, D!VerifyConsumes, D!VerifyUpdates, D!Fails,
     D!Begin, D!End, D!Goto
<1>3. D!VerifyConsumes(r) \/ D!Fails(r)
  BY <1>1, <1>2 DEF AddressStep, D!StartAdd, D!AddReads, D!AddSaves, D!StartRemove,
     D!RemoveDeletes, D!StartChallenge, D!ChallengeMaps, D!ChallengeStores,
     D!StartVerify, D!VerifyLoads, D!VerifyUpdates, D!Begin, D!Idle
<1>4. challenge' = challenge \/ challenge' = challenge \ D!ThisExactOne(r)
  BY <1>3 DEF D!VerifyConsumes, D!Fails, D!Tables
<1>5. QED
  BY <1>4 DEF D!ThisExactOne

-----------------------------------------------------------------------------
(* Resolve cache.                                                          *)

(* A version is current until it is superseded, which its end records.     *)
WorldHolds ==
  /\ now \in R!Time /\ db \in 0 .. MaxDb /\ chain \in 0 .. MaxChain
  /\ dbEnd \in [0 .. MaxDb -> R!Time \cup {R!Never}]
  /\ chainEnd \in [0 .. MaxChain -> R!Time \cup {R!Never}]
  /\ \A v \in 0 .. MaxDb : v >= db => dbEnd[v] = R!Never
  /\ \A v \in 0 .. MaxChain : v >= chain => chainEnd[v] = R!Never

(* No request outlives its timeout, and what was read was current when the *)
(* request that read it was sent, or when the one before it was.           *)
InTime(c) ==
  /\ c.phase \in {"write", "written", "db", "dbAnswer"} =>
       c.sent <= now /\ now - c.sent <= DbTimeout
  /\ c.phase = "chain" => c.sent <= now /\ now - c.sent <= ChainTimeout
HasRead(c) ==
  /\ c.phase \in {"written", "db"} => c.wrote <= db
  /\ c.phase \in {"dbAnswer", "chain"} => c.wrote <= c.row
  /\ c.phase = "dbAnswer" => dbEnd[c.row] >= c.sent
  /\ c.phase = "chain" => dbEnd[c.row] >= c.sent - DbTimeout
  /\ c.phase = "answered" => c.wrote <= c.res.db
CallsHold ==
  /\ call \in [Request -> R!Call]
  /\ \A r \in Request : InTime(call[r]) /\ HasRead(call[r])

(* A copy made to last `life` was true `age` before it was made.           *)
TrueFrom(k, life, age) ==
  k # R!None =>
    /\ k.until <= now + life
    /\ dbEnd[k.res.db] >= k.until - life - age
    /\ k.res.chain # R!Unknown => chainEnd[k.res.chain] >= k.until - life - age
CopiesHold ==
  /\ cache \in [Machine -> R!Kept \cup {R!None}]
  /\ \A m \in Machine : TrueFrom(cache[m], TTL, R!FillTime)
  /\ viewer \in R!Kept \cup {R!None}
  /\ TrueFrom(viewer, MaxAge + Revalidate, TTL + R!FillTime)

ResolveInv == WorldHolds /\ CallsHold /\ CopiesHold

LEMMA ResolveNumbers ==
  /\ TTL \in Nat /\ DbTimeout \in Nat /\ ChainTimeout \in Nat /\ MaxAge \in Nat
  /\ Revalidate \in Nat /\ MaxDb \in Nat /\ MaxChain \in Nat /\ MaxTime \in Nat
  BY ApiConstants DEF R!ResolveConstants

LEMMA ResolveInit == R!Init => ResolveInv
  BY ResolveNumbers
     DEF R!Init, ResolveInv, WorldHolds, CallsHold, CopiesHold, InTime, HasRead,
         TrueFrom, R!Time, R!Never, R!Idle, R!Call, R!None

LEMMA EndsAreTimes ==
  ASSUME WorldHolds
  PROVE  /\ \A v \in 0 .. MaxDb : dbEnd[v] \in Int /\ dbEnd[v] <= R!Never
         /\ \A v \in R!Unknown .. MaxChain :
              v # R!Unknown => /\ v \in 0 .. MaxChain
                               /\ chainEnd[v] \in Int /\ chainEnd[v] <= R!Never
  BY ResolveNumbers DEF WorldHolds, R!Time, R!Never, R!Unknown

LEMMA ResolveShows ==
  ResolveInv => /\ R!CacheWithinWindow /\ R!ViewerWithinWindow
                /\ R!AnswerShowsWrite
<1> SUFFICES ASSUME ResolveInv
             PROVE  /\ R!CacheWithinWindow /\ R!ViewerWithinWindow
                    /\ R!AnswerShowsWrite
  OBVIOUS
<1>1. ASSUME NEW k \in R!Kept, NEW life \in Nat, NEW age \in Nat,
             TrueFrom(k, life, age), R!Usable(k)
      PROVE  R!TrueWithin(k.res, life + age)
  <2>1. /\ k # R!None /\ now \in Int /\ k.until \in Int /\ now <= k.until
    BY <1>1, ResolveNumbers DEF R!Usable, R!Kept, ResolveInv, WorldHolds, R!Time
  <2>2. dbEnd[k.res.db] \in Int
    BY EndsAreTimes DEF R!Kept, R!Resolution, ResolveInv
  <2>3. k.res.chain # R!Unknown => chainEnd[k.res.chain] \in Int
    BY EndsAreTimes DEF R!Kept, R!Resolution, ResolveInv
  <2>4. dbEnd[k.res.db] >= now - (life + age)
    BY <1>1, <2>1, <2>2 DEF TrueFrom
  <2>5. k.res.chain # R!Unknown => chainEnd[k.res.chain] >= now - (life + age)
    BY <1>1, <2>1, <2>3 DEF TrueFrom
  <2>6. QED
    BY <2>4, <2>5 DEF R!TrueWithin
<1>2. R!FillTime \in Nat /\ TTL + R!FillTime \in Nat /\ MaxAge + Revalidate \in Nat
      /\ (MaxAge + Revalidate) + (TTL + R!FillTime)
           = TTL + R!FillTime + MaxAge + Revalidate
  BY ResolveNumbers DEF R!FillTime
<1>3. ASSUME NEW m \in Machine, R!Usable(cache[m])
      PROVE  R!TrueWithin(cache[m].res, TTL + R!FillTime)
  <2>1. cache[m] \in R!Kept
    BY <1>3 DEF ResolveInv, CopiesHold, R!Usable
  <2>2. QED
    BY <1>1, <1>2, <1>3, <2>1, ResolveNumbers DEF ResolveInv, CopiesHold
<1>4. ASSUME R!Usable(viewer)
      PROVE  R!TrueWithin(viewer.res, TTL + R!FillTime + MaxAge + Revalidate)
  <2>1. viewer \in R!Kept
    BY <1>4 DEF ResolveInv, CopiesHold, R!Usable
  <2>2. R!TrueWithin(viewer.res, (MaxAge + Revalidate) + (TTL + R!FillTime))
    BY <1>1, <1>2, <1>4, <2>1 DEF ResolveInv, CopiesHold
  <2>3. QED
    BY <1>2, <2>2
<1>5. ASSUME NEW r \in Request, call[r].phase = "answered"
      PROVE  call[r].res.db >= call[r].wrote
  <2>1. /\ call[r] \in R!Call /\ HasRead(call[r])
    BY DEF ResolveInv, CallsHold
  <2>2. call[r].wrote \in Int /\ call[r].res.db \in Int
    BY <1>5, <2>1, ResolveNumbers DEF R!Call, R!Idle, R!Resolution
  <2>3. QED
    BY <1>5, <2>1, <2>2 DEF HasRead
<1>6. QED
  BY <1>3, <1>4, <1>5 DEF R!CacheWithinWindow, R!ViewerWithinWindow,
     R!AnswerShowsWrite

(* Between two steps time goes on, and a version that ends, ends now.      *)
WorldGoesOn ==
  /\ now' \in {now, now + 1} /\ db <= db'
  /\ \A v \in 0 .. MaxDb : dbEnd'[v] \in {dbEnd[v], now}
  /\ \A v \in 0 .. MaxChain : chainEnd'[v] \in {chainEnd[v], now}

LEMMA WorldStays ==
  ASSUME WorldHolds, UNCHANGED <<now, db, chain, dbEnd, chainEnd>>
  PROVE  WorldHolds' /\ WorldGoesOn
<1>1. WorldHolds'
  BY DEF WorldHolds
<1>2. now' = now /\ db' = db /\ dbEnd' = dbEnd /\ chainEnd' = chainEnd /\ db <= db'
  BY ResolveNumbers DEF WorldHolds
<1>3. QED
  BY <1>1, <1>2 DEF WorldGoesOn

LEMMA AccountChanges ==
  ASSUME WorldHolds, R!Changed, UNCHANGED <<now, chain, chainEnd>>
  PROVE  WorldHolds' /\ WorldGoesOn /\ now' = now /\ db' = db + 1 /\ db + 1 \in 0 .. MaxDb
<1>1. /\ db \in 0 .. MaxDb /\ db + 1 \in 0 .. MaxDb /\ db' = db + 1 /\ now \in R!Time
      /\ dbEnd' = [dbEnd EXCEPT ![db] = now]
  BY ResolveNumbers DEF WorldHolds, R!Changed
<1>2. /\ dbEnd' \in [0 .. MaxDb -> R!Time \cup {R!Never}]
      /\ \A v \in 0 .. MaxDb : dbEnd'[v] = IF v = db THEN now ELSE dbEnd[v]
  BY <1>1 DEF WorldHolds
<1>3. \A v \in 0 .. MaxDb : v >= db + 1 => dbEnd'[v] = R!Never
  BY <1>1, <1>2, ResolveNumbers DEF WorldHolds
<1>4. WorldHolds'
  BY <1>1, <1>2, <1>3 DEF WorldHolds, R!Time, R!Never
<1>5. WorldGoesOn
  BY <1>1, <1>2, ResolveNumbers DEF WorldGoesOn
<1>6. QED
  BY <1>1, <1>4, <1>5

LEMMA ChainGoesOn ==
  ASSUME WorldHolds, R!RegistryChanges
  PROVE  WorldHolds' /\ WorldGoesOn /\ now' = now
<1>1. /\ chain \in 0 .. MaxChain /\ chain + 1 \in 0 .. MaxChain /\ chain' = chain + 1
      /\ now \in R!Time /\ chainEnd' = [chainEnd EXCEPT ![chain] = now]
      /\ now' = now /\ db' = db /\ dbEnd' = dbEnd /\ db \in Int
  BY ResolveNumbers DEF WorldHolds, R!RegistryChanges
<1>2. /\ chainEnd' \in [0 .. MaxChain -> R!Time \cup {R!Never}]
      /\ \A v \in 0 .. MaxChain : chainEnd'[v] = IF v = chain THEN now ELSE chainEnd[v]
  BY <1>1 DEF WorldHolds
<1>3. \A v \in 0 .. MaxChain : v >= chain + 1 => chainEnd'[v] = R!Never
  BY <1>1, <1>2, ResolveNumbers DEF WorldHolds
<1>4. WorldHolds'
  BY <1>1, <1>2, <1>3 DEF WorldHolds, R!Time, R!Never
<1>5. WorldGoesOn
  BY <1>1, <1>2 DEF WorldGoesOn
<1>6. QED
  BY <1>1, <1>4, <1>5

LEMMA TimeGoesOn ==
  ASSUME WorldHolds, R!Tick
  PROVE  WorldHolds' /\ WorldGoesOn
<1>1. /\ now \in R!Time /\ now + 1 \in R!Time /\ now' = now + 1
      /\ db' = db /\ chain' = chain /\ dbEnd' = dbEnd /\ chainEnd' = chainEnd
      /\ db \in Int
  BY ResolveNumbers DEF WorldHolds, R!Tick, R!World, R!Time
<1>2. WorldHolds'
  BY <1>1 DEF WorldHolds, R!Time, R!Never
<1>3. QED
  BY <1>1, <1>2 DEF WorldGoesOn

(* What a handler has read, and a copy: true as the world goes on.         *)
LEMMA ReadStays ==
  ASSUME WorldHolds, WorldHolds', WorldGoesOn, NEW c \in R!Call, InTime(c), HasRead(c)
  PROVE  HasRead(c)'
<1>1. /\ now \in Int /\ db \in Int /\ db' \in Int /\ db <= db'
      /\ \A v \in 0 .. MaxDb : /\ dbEnd[v] \in Int
                               /\ dbEnd'[v] = dbEnd[v] \/ dbEnd'[v] = now
  BY EndsAreTimes, ResolveNumbers DEF WorldHolds, WorldGoesOn, R!Time
<1>2. CASE c.phase \in {"written", "db"}
  <2>1. c.wrote \in Int
    BY <1>2, ResolveNumbers DEF R!Call, R!Idle
  <2>2. QED
    BY <1>1, <1>2, <2>1 DEF HasRead
<1>3. CASE c.phase \in {"dbAnswer", "chain"}
  <2>1. c.row \in 0 .. MaxDb /\ c.sent \in Int /\ c.sent <= now
    BY <1>3, ResolveNumbers DEF R!Call, R!Idle, R!Time, InTime
  <2>2. QED
    BY <1>1, <1>3, <2>1, ResolveNumbers DEF HasRead
<1>4. CASE c.phase \notin {"written", "db", "dbAnswer", "chain"}
  BY <1>4 DEF HasRead
<1>5. QED
  BY <1>2, <1>3, <1>4

LEMMA CopyStays ==
  ASSUME WorldHolds, WorldHolds', WorldGoesOn,
         NEW k \in R!Kept \cup {R!None}, NEW life \in Nat, NEW age \in Nat,
         TrueFrom(k, life, age)
  PROVE  TrueFrom(k, life, age)'
<1> SUFFICES ASSUME k # R!None
             PROVE  TrueFrom(k, life, age)'
  BY DEF TrueFrom
<1>1. /\ now \in Int /\ now' \in Int /\ now <= now' /\ k.until \in Int
      /\ k.res.db \in 0 .. MaxDb /\ k.res.chain \in R!Unknown .. MaxChain
  BY ResolveNumbers DEF WorldHolds, WorldGoesOn, R!Time, R!Kept, R!Resolution
<1>2. /\ dbEnd[k.res.db] \in Int
      /\ dbEnd'[k.res.db] = dbEnd[k.res.db] \/ dbEnd'[k.res.db] = now
  BY <1>1, EndsAreTimes DEF WorldGoesOn
<1>3. k.res.chain # R!Unknown =>
        /\ chainEnd[k.res.chain] \in Int
        /\ chainEnd'[k.res.chain] = chainEnd[k.res.chain] \/ chainEnd'[k.res.chain] = now
  BY <1>1, EndsAreTimes DEF WorldGoesOn
<1>4. k.until <= now + life /\ k.until <= now' + life
  BY <1>1 DEF TrueFrom
<1>5. dbEnd'[k.res.db] >= k.until - life - age
  BY <1>1, <1>2, <1>4 DEF TrueFrom
<1>6. k.res.chain # R!Unknown => chainEnd'[k.res.chain] >= k.until - life - age
  BY <1>1, <1>3, <1>4 DEF TrueFrom
<1>7. QED
  BY <1>4, <1>5, <1>6 DEF TrueFrom

LEMMA CallsStay ==
  ASSUME ResolveInv, WorldHolds', WorldGoesOn, now' = now, UNCHANGED call
  PROVE  CallsHold'
<1>1. ASSUME NEW r \in Request PROVE (InTime(call[r]) /\ HasRead(call[r]))'
  <2>1. call[r] \in R!Call /\ InTime(call[r]) /\ HasRead(call[r])
    BY DEF ResolveInv, CallsHold
  <2>2. \A c \in R!Call : InTime(c) /\ HasRead(c) => HasRead(c)'
    BY ReadStays DEF ResolveInv
  <2>3. QED
    BY <2>1, <2>2 DEF InTime, HasRead
<1>2. QED
  BY <1>1 DEF ResolveInv, CallsHold

LEMMA CallStep ==
  ASSUME ResolveInv, WorldHolds', WorldGoesOn, now' = now,
         NEW r \in Request, NEW c \in R!Call, R!Goto(r, c), InTime(c), HasRead(c)'
  PROVE  CallsHold'
<1>1. /\ call' \in [Request -> R!Call] /\ call'[r] = c
      /\ \A s \in Request \ {r} : call'[s] = call[s] /\ call[s] \in R!Call
  BY DEF ResolveInv, CallsHold, R!Goto
<1>2. ASSUME NEW s \in Request PROVE (InTime(call[s]) /\ HasRead(call[s]))'
  <2>1. CASE s = r
    BY <1>1, <2>1 DEF InTime, HasRead
  <2>2. CASE s # r
    <3>1. call[s] \in R!Call /\ InTime(call[s]) /\ HasRead(call[s]) /\ call'[s] = call[s]
      BY <1>1, <2>2 DEF ResolveInv, CallsHold
    <3>2. \A d \in R!Call : InTime(d) /\ HasRead(d) => HasRead(d)'
      BY ReadStays DEF ResolveInv
    <3>3. QED
      BY <3>1, <3>2 DEF InTime, HasRead
  <2>3. QED
    BY <2>1, <2>2
<1>3. QED
  BY <1>1, <1>2 DEF CallsHold

LEMMA Ages == R!FillTime \in Nat /\ TTL + R!FillTime \in Nat /\ MaxAge + Revalidate \in Nat
  BY ResolveNumbers DEF R!FillTime

(* What a cache or a viewer may come to hold.                              *)
LEMMA CopiesStep ==
  ASSUME ResolveInv, WorldHolds', WorldGoesOn,
         cache' \in [Machine -> R!Kept \cup {R!None}],
         \A m \in Machine : cache'[m] = cache[m] \/ TrueFrom(cache[m], TTL, R!FillTime)',
         viewer' \in R!Kept \cup {R!None},
         viewer' = viewer \/ TrueFrom(viewer, MaxAge + Revalidate, TTL + R!FillTime)'
  PROVE  CopiesHold'
<1>1. ASSUME NEW m \in Machine
      PROVE  TrueFrom(cache[m], TTL, R!FillTime)'
  <2>1. cache[m] \in R!Kept \cup {R!None} /\ TrueFrom(cache[m], TTL, R!FillTime)
    BY DEF ResolveInv, CopiesHold
  <2>2. \A k \in R!Kept \cup {R!None} :
          TrueFrom(k, TTL, R!FillTime) => TrueFrom(k, TTL, R!FillTime)'
    BY CopyStays, Ages, ResolveNumbers DEF ResolveInv
  <2>3. CASE cache'[m] = cache[m]
    BY <2>1, <2>2, <2>3 DEF TrueFrom
  <2>4. QED
    BY <2>3
<1>2. TrueFrom(viewer, MaxAge + Revalidate, TTL + R!FillTime)'
  <2>1. /\ viewer \in R!Kept \cup {R!None}
        /\ TrueFrom(viewer, MaxAge + Revalidate, TTL + R!FillTime)
    BY DEF ResolveInv, CopiesHold
  <2>2. \A k \in R!Kept \cup {R!None} :
          TrueFrom(k, MaxAge + Revalidate, TTL + R!FillTime)
            => TrueFrom(k, MaxAge + Revalidate, TTL + R!FillTime)'
    BY CopyStays, Ages DEF ResolveInv
  <2>3. CASE viewer' = viewer
    BY <2>1, <2>2, <2>3 DEF TrueFrom
  <2>4. QED
    BY <2>3
<1>3. QED
  BY <1>1, <1>2 DEF CopiesHold

LEMMA CopiesStay ==
  ASSUME ResolveInv, WorldHolds', WorldGoesOn, UNCHANGED <<cache, viewer>>
  PROVE  CopiesHold'
  BY CopiesStep DEF ResolveInv, CopiesHold

LEMMA CacheEmptied ==
  ASSUME ResolveInv, WorldHolds', WorldGoesOn, NEW m \in Machine,
         cache' = R!Invalidated(m), UNCHANGED viewer
  PROVE  CopiesHold'
<1>1. /\ cache' \in [Machine -> R!Kept \cup {R!None}] /\ cache'[m] = R!None
      /\ \A n \in Machine \ {m} : cache'[n] = cache[n]
  BY DEF R!Invalidated, ResolveInv, CopiesHold
<1>2. TrueFrom(cache[m], TTL, R!FillTime)'
  BY <1>1 DEF TrueFrom
<1>3. QED
  BY <1>1, <1>2, CopiesStep DEF ResolveInv, CopiesHold

LEMMA CallTypes ==
  ASSUME NEW c \in R!Call
  PROVE  /\ c.phase \in {"write", "written", "db", "dbAnswer", "chain", "answered"} =>
              c.at \in Machine
         /\ c.phase \in {"write", "written", "db", "dbAnswer", "chain"} => c.sent \in R!Time
         /\ c.phase \in {"write", "written"} => c.kind \in R!Kind
         /\ c.phase \in {"written", "db", "dbAnswer", "chain", "answered"} =>
              c.wrote \in 0 .. MaxDb
         /\ c.phase \in {"dbAnswer", "chain"} => c.row \in 0 .. MaxDb
         /\ c.phase = "answered" => c.res \in R!Resolution
  BY DEF R!Call, R!Idle

(* Time waits for a request that is due.                                   *)
LEMMA TickKeeps == ResolveInv /\ R!Tick => ResolveInv'
<1> SUFFICES ASSUME ResolveInv, R!Tick PROVE ResolveInv'
  OBVIOUS
<1>1. WorldHolds' /\ WorldGoesOn /\ now' = now + 1 /\ now \in Int
  BY TimeGoesOn, ResolveNumbers DEF ResolveInv, WorldHolds, R!Tick, R!Time
<1>2. CopiesHold'
  BY <1>1, CopiesStay DEF R!Tick
<1>3. ASSUME NEW r \in Request PROVE (InTime(call[r]) /\ HasRead(call[r]))'
  <2>1. /\ call[r] \in R!Call /\ InTime(call[r]) /\ HasRead(call[r]) /\ call'[r] = call[r]
        /\ ~ R!Overdue(r)
    BY DEF ResolveInv, CallsHold, R!Tick
  <2>2. \A c \in R!Call : InTime(c) /\ HasRead(c) => HasRead(c)'
    BY <1>1, ReadStays DEF ResolveInv
  <2>3. CASE call[r].phase \in {"write", "written", "db", "dbAnswer"}
    <3>1. /\ call[r].sent \in Int /\ call[r].sent <= now
          /\ now - call[r].sent < DbTimeout
      BY <1>1, <2>1, <2>3, CallTypes, ResolveNumbers
         DEF InTime, R!Overdue, R!TimeoutOf, R!Time
    <3>2. QED
      BY <1>1, <2>1, <2>2, <2>3, <3>1, ResolveNumbers DEF InTime, HasRead
  <2>4. CASE call[r].phase = "chain"
    <3>1. /\ call[r].sent \in Int /\ call[r].sent <= now
          /\ now - call[r].sent < ChainTimeout
      BY <1>1, <2>1, <2>4, CallTypes, ResolveNumbers
         DEF InTime, R!Overdue, R!TimeoutOf, R!Time
    <3>2. QED
      BY <1>1, <2>1, <2>2, <2>4, <3>1, ResolveNumbers DEF InTime, HasRead
  <2>5. CASE call[r].phase \notin {"write", "written", "db", "dbAnswer", "chain"}
    BY <2>1, <2>2, <2>5 DEF InTime, HasRead
  <2>6. QED
    BY <2>3, <2>4, <2>5
<1>4. QED
  BY <1>1, <1>2, <1>3 DEF ResolveInv, CallsHold, R!Tick

(* A handler that goes on and changes neither the world nor a copy.        *)
LEMMA HandlerGoesOn ==
  ASSUME ResolveInv, UNCHANGED <<now, db, chain, dbEnd, chainEnd, cache, viewer>>,
         NEW r \in Request, NEW c \in R!Call, R!Goto(r, c), InTime(c), HasRead(c)'
  PROVE  ResolveInv'
  BY WorldStays, CallStep, CopiesStay DEF ResolveInv

LEMMA SentNow ==
  ASSUME ResolveInv, NEW m \in Machine, NEW wrote \in 0 .. MaxDb
  PROVE  /\ now - now = 0 /\ now <= now
         /\ R!Reading(m, wrote) \in R!Call /\ InTime(R!Reading(m, wrote))
         /\ R!Reading(m, wrote).phase = "db" /\ R!Reading(m, wrote).wrote = wrote
  BY ResolveNumbers
     DEF ResolveInv, WorldHolds, R!Time, R!Reading, R!Call, InTime

LEMMA HitKeeps ==
  ASSUME ResolveInv, NEW m \in Machine, R!Hit(m)
  PROVE  ResolveInv'
<1>1. WorldHolds' /\ WorldGoesOn /\ now' = now
  BY WorldStays DEF ResolveInv, R!Hit, R!World
<1>2. CallsHold'
  BY <1>1, CallsStay DEF R!Hit
<1>3. /\ cache[m] \in R!Kept /\ TrueFrom(cache[m], TTL, R!FillTime)
      /\ cache[m] # R!None /\ now <= cache[m].until
  BY DEF ResolveInv, CopiesHold, R!Hit, R!Usable
<1> DEFINE k == [res |-> cache[m].res, until |-> now + MaxAge + Revalidate]
<1>4. /\ k \in R!Kept /\ viewer' = k /\ k.res = cache[m].res
      /\ k.until = now + MaxAge + Revalidate
  BY <1>3, ResolveNumbers DEF R!Kept, R!Hit, ResolveInv, WorldHolds, R!Time
<1> HIDE DEF k
<1>5. /\ now \in Int /\ cache[m].until \in Int /\ R!FillTime \in Nat
      /\ dbEnd[k.res.db] \in Int
      /\ k.res.chain # R!Unknown => chainEnd[k.res.chain] \in Int
  BY <1>3, <1>4, Ages, EndsAreTimes, ResolveNumbers
     DEF ResolveInv, WorldHolds, R!Time, R!Kept, R!Resolution
<1>6. TrueFrom(k, MaxAge + Revalidate, TTL + R!FillTime)
  BY <1>3, <1>4, <1>5, ResolveNumbers DEF TrueFrom
<1>7. TrueFrom(viewer, MaxAge + Revalidate, TTL + R!FillTime)'
  BY <1>1, <1>4, <1>6 DEF TrueFrom, R!Hit, R!World
<1>8. CopiesHold'
  BY <1>1, <1>4, <1>7, CopiesStep DEF R!Hit, R!Untouched, ResolveInv, CopiesHold
<1>9. QED
  BY <1>1, <1>2, <1>8 DEF ResolveInv

LEMMA ChainAnswersKeeps ==
  ASSUME ResolveInv, NEW r \in Request, R!ChainAnswers(r)
  PROVE  ResolveInv'
<1>1. /\ WorldHolds' /\ WorldGoesOn /\ now' = now
      /\ dbEnd' = dbEnd /\ chainEnd' = chainEnd
  BY WorldStays DEF ResolveInv, R!ChainAnswers, R!World
<1>2. PICK seen \in {chain, R!Unknown} :
        LET res == [db |-> call[r].row, chain |-> seen] IN
        /\ cache' = R!Filled(call[r].at, res)
        /\ IF call[r].wrote = 0
           THEN /\ viewer' = [res |-> res, until |-> now + MaxAge + Revalidate]
                /\ R!Goto(r, R!Idle)
           ELSE /\ R!Goto(r, [phase |-> "answered", at |-> call[r].at,
                              wrote |-> call[r].wrote, res |-> res])
                /\ UNCHANGED viewer
  BY DEF R!ChainAnswers
<1> DEFINE res == [db |-> call[r].row, chain |-> seen]
<1>a. PICK c : c = call[r]
  OBVIOUS
<1>b. PICK k : k = [res |-> res, until |-> now + TTL]
  OBVIOUS
<1>c. PICK v : v = [res |-> res, until |-> now + MaxAge + Revalidate]
  OBVIOUS
<1>d. PICK a : a = [phase |-> "answered", at |-> c.at, wrote |-> c.wrote, res |-> res]
  OBVIOUS
<1>3. /\ c \in R!Call /\ c.phase = "chain" /\ c.at \in Machine /\ c.sent \in R!Time
      /\ c.wrote \in 0 .. MaxDb /\ c.row \in 0 .. MaxDb /\ c.wrote <= c.row
      /\ c.sent <= now /\ now - c.sent <= ChainTimeout
      /\ dbEnd[c.row] >= c.sent - DbTimeout
  BY <1>a, CallTypes DEF ResolveInv, CallsHold, R!ChainAnswers, InTime, HasRead
<1>4. /\ now \in Int /\ dbEnd[c.row] \in Int /\ seen \in R!Unknown .. MaxChain
      /\ seen # R!Unknown => chainEnd[seen] = R!Never
      /\ R!Never \in Int /\ now <= R!Never
  BY <1>2, <1>3, EndsAreTimes, ResolveNumbers
     DEF ResolveInv, WorldHolds, R!Time, R!Never, R!Unknown
<1>5. dbEnd[c.row] >= now - R!FillTime
  BY <1>3, <1>4, ResolveNumbers DEF R!FillTime, R!Time
<1>6. /\ k \in R!Kept /\ k.until = now + TTL /\ k.res.db = c.row /\ k.res.chain = seen
      /\ v \in R!Kept /\ v.until = now + MaxAge + Revalidate /\ v.res.db = c.row
      /\ v.res.chain = seen /\ res \in R!Resolution /\ res.db = c.row
  BY <1>a, <1>b, <1>c, <1>3, <1>4, ResolveNumbers DEF R!Kept, R!Resolution, ResolveInv, WorldHolds, R!Time
<1>7. /\ a \in R!Call /\ a.phase = "answered" /\ a.res.db = c.row /\ a.wrote = c.wrote
  <2> HIDE DEF res
  <2>1. QED
    BY <1>d, <1>3, <1>6 DEF R!Call
<1>8. cache' = [cache EXCEPT ![c.at] = k]
  BY <1>a, <1>b, <1>2 DEF R!Filled
<1>9. \/ viewer' = v /\ R!Goto(r, R!Idle)
      \/ R!Goto(r, a) /\ UNCHANGED viewer
  BY <1>a, <1>c, <1>d, <1>2
<1> HIDE DEF res
<1>10. TrueFrom(k, TTL, R!FillTime)'
  BY <1>1, <1>4, <1>5, <1>6, Ages, ResolveNumbers DEF TrueFrom
<1>11. TrueFrom(v, MaxAge + Revalidate, TTL + R!FillTime)'
  BY <1>1, <1>4, <1>5, <1>6, Ages, ResolveNumbers DEF TrueFrom
<1>12. /\ cache' \in [Machine -> R!Kept \cup {R!None}] /\ cache'[c.at] = k
       /\ \A m \in Machine \ {c.at} : cache'[m] = cache[m]
  BY <1>3, <1>6, <1>8 DEF ResolveInv, CopiesHold
<1>13. \A m \in Machine : cache'[m] = cache[m] \/ TrueFrom(cache[m], TTL, R!FillTime)'
  BY <1>10, <1>12 DEF TrueFrom
<1>14. /\ viewer' \in R!Kept \cup {R!None}
       /\ viewer' = viewer \/ TrueFrom(viewer, MaxAge + Revalidate, TTL + R!FillTime)'
  BY <1>6, <1>9, <1>11 DEF TrueFrom, ResolveInv, CopiesHold
<1>15. CopiesHold'
  BY <1>1, <1>12, <1>13, <1>14, CopiesStep
<1>16. /\ R!Idle \in R!Call /\ InTime(R!Idle) /\ HasRead(R!Idle)'
       /\ InTime(a) /\ HasRead(a)'
  BY <1>3, <1>7 DEF R!Idle, R!Call, InTime, HasRead
<1>17. CallsHold'
  BY <1>1, <1>7, <1>9, <1>16, CallStep
<1>18. QED
  BY <1>1, <1>15, <1>17 DEF ResolveInv

ResolveStep(r) ==
  \/ \E m \in Machine : R!Miss(r, m) \/ \E kind \in R!Kind : R!Write(r, m, kind)
  \/ R!DbRead(r) \/ R!DbAnswers(r) \/ R!ChainAnswers(r)
  \/ R!WriteLands(r) \/ R!WriteAnswers(r) \/ R!Delivered(r) \/ R!Fails(r)

LEMMA IdleHolds == R!Idle \in R!Call /\ InTime(R!Idle) /\ HasRead(R!Idle)'
  BY DEF R!Idle, R!Call, InTime, HasRead

LEMMA ResolveStepKeeps ==
  ASSUME ResolveInv, NEW r \in Request, ResolveStep(r)
  PROVE  ResolveInv'
<1>1. /\ call[r] \in R!Call /\ InTime(call[r]) /\ HasRead(call[r])
      /\ now \in R!Time /\ now \in Int /\ db \in 0 .. MaxDb /\ now - now <= DbTimeout
      /\ now - now <= ChainTimeout
  BY ResolveNumbers DEF ResolveInv, CallsHold, WorldHolds, R!Time
<1>2. ASSUME NEW m \in Machine, R!Miss(r, m)
      PROVE  ResolveInv'
  <2>1. PICK c : c = R!Reading(m, 0)
    OBVIOUS
  <2>2. c \in R!Call /\ InTime(c) /\ c.phase = "db" /\ c.wrote = 0
    BY <2>1, SentNow, ResolveNumbers
  <2>3. HasRead(c)'
    BY <1>1, <1>2, <2>2, ResolveNumbers DEF HasRead, R!Miss, R!World
  <2>4. QED
    BY <1>2, <2>1, <2>2, <2>3, HandlerGoesOn DEF R!Miss, R!World
<1>3. ASSUME NEW m \in Machine, NEW kind \in R!Kind, R!Write(r, m, kind)
      PROVE  ResolveInv'
  <2>1. PICK c : c = [phase |-> "write", at |-> m, sent |-> now, kind |-> kind]
    OBVIOUS
  <2>2. c \in R!Call /\ c.phase = "write" /\ c.sent = now
    BY <1>1, <2>1 DEF R!Call
  <2>3. InTime(c) /\ HasRead(c)'
    BY <1>1, <2>2 DEF InTime, HasRead
  <2>4. QED
    BY <1>3, <2>1, <2>2, <2>3, HandlerGoesOn DEF R!Write, R!World
<1>4. CASE R!DbRead(r)
  <2>1. PICK c : c = [phase |-> "dbAnswer", at |-> call[r].at, sent |-> call[r].sent,
                      wrote |-> call[r].wrote, row |-> db]
    OBVIOUS
  <2>2. call[r].phase = "db" /\ UNCHANGED <<now, db, chain, dbEnd, chainEnd, cache, viewer>>
    BY <1>4 DEF R!DbRead, R!World
  <2>3. /\ c \in R!Call /\ c.phase = "dbAnswer" /\ c.sent = call[r].sent /\ c.row = db
        /\ c.wrote = call[r].wrote
    BY <1>1, <2>1, <2>2, CallTypes DEF R!Call
  <2>4. InTime(c) /\ c.wrote <= db
    BY <1>1, <2>2, <2>3 DEF InTime, HasRead
  <2>5. dbEnd[db] = R!Never /\ c.sent <= R!Never
    BY <1>1, <2>2, <2>3, CallTypes, ResolveNumbers
       DEF ResolveInv, WorldHolds, R!Time, R!Never
  <2>6. HasRead(c)'
    BY <2>2, <2>3, <2>4, <2>5 DEF HasRead
  <2>7. QED
    BY <1>4, <2>1, <2>2, <2>3, <2>4, <2>6, HandlerGoesOn DEF R!DbRead
<1>5. CASE R!DbAnswers(r)
  <2>1. PICK c : c = [call[r] EXCEPT !.phase = "chain", !.sent = now]
    OBVIOUS
  <2>2. /\ call[r].phase = "dbAnswer"
        /\ UNCHANGED <<now, db, chain, dbEnd, chainEnd, cache, viewer>>
    BY <1>5 DEF R!DbAnswers, R!World
  <2>3. call[r] \in [phase : {"dbAnswer"}, at : Machine, sent : R!Time,
                     wrote : 0 .. MaxDb, row : 0 .. MaxDb]
    BY <1>1, <2>2 DEF R!Call, R!Idle
  <2>4. /\ c \in R!Call /\ c.phase = "chain" /\ c.sent = now /\ c.row = call[r].row
        /\ c.wrote = call[r].wrote
    BY <1>1, <2>1, <2>3 DEF R!Call
  <2>5. /\ call[r].sent \in Int /\ now - call[r].sent <= DbTimeout
        /\ dbEnd[c.row] >= call[r].sent /\ dbEnd[c.row] \in Int
        /\ c.wrote <= c.row
    BY <1>1, <2>2, <2>3, <2>4, EndsAreTimes, ResolveNumbers
       DEF InTime, HasRead, R!Time, ResolveInv
  <2>6. InTime(c) /\ HasRead(c)'
    BY <1>1, <2>2, <2>4, <2>5, ResolveNumbers DEF InTime, HasRead
  <2>7. QED
    BY <1>5, <2>1, <2>2, <2>4, <2>6, HandlerGoesOn DEF R!DbAnswers
<1>6. CASE R!ChainAnswers(r)
  BY <1>6, ChainAnswersKeeps
<1>7. CASE R!WriteLands(r)
  <2>1. PICK c : c = [phase |-> "written", at |-> call[r].at, sent |-> call[r].sent,
                      kind |-> call[r].kind, wrote |-> db + 1]
    OBVIOUS
  <2>2. WorldHolds' /\ WorldGoesOn /\ now' = now /\ db' = db + 1 /\ db + 1 \in 0 .. MaxDb
    BY <1>7, AccountChanges DEF R!WriteLands, ResolveInv
  <2>3. /\ c \in R!Call /\ c.phase = "written" /\ c.sent = call[r].sent
        /\ c.wrote = db + 1
    BY <1>1, <1>7, <2>1, <2>2, CallTypes DEF R!WriteLands, R!Call
  <2>4. InTime(c) /\ HasRead(c)'
    BY <1>1, <1>7, <2>2, <2>3 DEF InTime, HasRead, R!WriteLands
  <2>5. CallsHold'
    BY <1>7, <2>1, <2>2, <2>3, <2>4, CallStep DEF R!WriteLands
  <2>6. QED
    BY <1>7, <2>2, <2>5, CopiesStay DEF R!WriteLands, ResolveInv
<1>8. CASE R!WriteAnswers(r)
  <2>1. /\ WorldHolds' /\ WorldGoesOn /\ now' = now /\ db' = db
        /\ call[r].phase = "written" /\ call[r].at \in Machine
        /\ call[r].wrote \in 0 .. MaxDb /\ call[r].wrote <= db
    BY <1>1, <1>8, WorldStays, CallTypes DEF R!WriteAnswers, R!World, ResolveInv, HasRead
  <2>2. CopiesHold'
    BY <1>8, <2>1, CopiesStay, CacheEmptied DEF R!WriteAnswers
  <2>3. PICK c : c = R!Reading(call[r].at, call[r].wrote)
    OBVIOUS
  <2>4. c \in R!Call /\ InTime(c) /\ c.phase = "db" /\ c.wrote = call[r].wrote
    BY <2>1, <2>3, SentNow
  <2>5. HasRead(c)'
    BY <2>1, <2>4 DEF HasRead
  <2>6. R!Goto(r, c) \/ R!Goto(r, R!Idle)
    BY <1>8, <2>3 DEF R!WriteAnswers, R!AnswerFresh
  <2>7. CallsHold'
    BY <2>1, <2>4, <2>5, <2>6, CallStep, IdleHolds
  <2>8. QED
    BY <2>1, <2>2, <2>7 DEF ResolveInv
<1>9. CASE R!Delivered(r)
  BY <1>9, IdleHolds, HandlerGoesOn DEF R!Delivered, R!World
<1>10. CASE R!Fails(r)
  <2>1. WorldHolds' /\ WorldGoesOn /\ now' = now
    BY <1>10, WorldStays, AccountChanges DEF R!Fails, R!World, ResolveInv
  <2>2. QED
    BY <1>10, <2>1, IdleHolds, CallStep, CopiesStay DEF R!Fails, ResolveInv
<1>11. QED
  BY <1>2, <1>3, <1>4, <1>5, <1>6, <1>7, <1>8, <1>9, <1>10 DEF ResolveStep

LEMMA ResolveKept == ResolveInv /\ R!Next => ResolveInv'
<1> SUFFICES ASSUME ResolveInv, R!Next PROVE ResolveInv'
  OBVIOUS
<1>1. CASE R!Tick
  BY <1>1, TickKeeps
<1>2. CASE R!RegistryChanges
  BY <1>2, ChainGoesOn, CallsStay, CopiesStay DEF R!RegistryChanges, ResolveInv
<1>3. ASSUME NEW m \in Machine, R!Hit(m) PROVE ResolveInv'
  BY <1>3, HitKeeps
<1>4. ASSUME NEW m \in Machine, R!Forget(m) PROVE ResolveInv'
  BY <1>4, WorldStays, CallsStay, CacheEmptied DEF R!Forget, R!World, ResolveInv
<1>5. ASSUME NEW r \in Request, ResolveStep(r) PROVE ResolveInv'
  BY <1>5, ResolveStepKeeps
<1>6. QED
  BY <1>1, <1>2, <1>3, <1>4, <1>5 DEF R!Next, ResolveStep

-----------------------------------------------------------------------------
(* Accounts.                                                               *)

(* What a registration knows by now, which no later step takes back: rows  *)
(* are only added. Where it completes one, it began to within the window.  *)
RunHolds(c) ==
  /\ c \in A!Awaiting => c.sent <= now /\ now - c.sent <= DbTimeout
  /\ c.phase # "idle" /\ c.known => A!Owns(c.wallet, c.name)
  /\ c.phase \in {"chain", "insert", "conflict"} \cup A!Refusal => ~ c.known
  /\ c.phase = "conflict" =>
       \E u \in users : u.username = c.name \/ u.wallet = c.wallet
  /\ c.phase = "complete" =>
       \E u \in users : /\ u.username = c.name /\ u.wallet = c.wallet
                        /\ c.sent < u.created + Window + Skew
  /\ c.phase = "registered" => A!Owns(c.wallet, c.name)
  /\ c.phase = "USERNAME_TAKEN" =>
       \E u \in users : u.username = c.name /\ u.wallet # c.wallet
  /\ c.phase = "WALLET_HAS_USERNAME" =>
       \E u \in users : u.wallet = c.wallet /\ u.username # c.name

AccountsInv == A!TypeOK /\ \A r \in Request : RunHolds(call[r])

Runs == {A!Idle} \cup A!Awaiting \cup A!Answered

LEMMA AccountNumbers ==
  /\ Window \in Nat \ {0} /\ Skew \in Nat /\ DbTimeout \in Nat
  /\ MaxRegisterTime \in Nat
  BY ApiConstants DEF A!AccountsConstants

LEMMA AccountsInit == A!Init => AccountsInv
  BY AccountNumbers
     DEF A!Init, AccountsInv, A!TypeOK, RunHolds, A!Idle, A!Awaiting, A!Eth, A!Refusal

LEMMA AnswersStayTrue == AccountsInv => A!AnswersAreTrue
<1> SUFFICES ASSUME AccountsInv, NEW r \in Request
             PROVE  LET c == call[r] IN
                    /\ c.phase = "registered" => A!Owns(c.wallet, c.name)
                    /\ c.phase \in {"USERNAME_TAKEN", "WALLET_HAS_USERNAME"} =>
                         ~ A!Owns(c.wallet, c.name)
                    /\ c.phase = "USERNAME_TAKEN" => \E u \in users : u.username = c.name
                    /\ c.phase = "WALLET_HAS_USERNAME" => A!Of(c.wallet) # {}
                    /\ c.phase \in A!Refusal => ~ c.known
  BY DEF A!AnswersAreTrue
<1>1. PICK c : c = call[r] /\ RunHolds(c)
  BY DEF AccountsInv
<1>2. \A u, v \in users : u.username = v.username \/ u.wallet = v.wallet => u = v
  BY DEF AccountsInv, A!TypeOK
<1>3. c.phase = "registered" => A!Owns(c.wallet, c.name)
  BY <1>1 DEF RunHolds
<1>4. c.phase \in {"USERNAME_TAKEN", "WALLET_HAS_USERNAME"} => ~ A!Owns(c.wallet, c.name)
  BY <1>1, <1>2 DEF RunHolds, A!Owns
<1>5. /\ c.phase = "USERNAME_TAKEN" => \E u \in users : u.username = c.name
      /\ c.phase = "WALLET_HAS_USERNAME" => A!Of(c.wallet) # {}
  BY <1>1 DEF RunHolds, A!Of
<1>6. c.phase \in A!Refusal => ~ c.known
  BY <1>1 DEF RunHolds
<1>7. QED
  BY <1>1, <1>3, <1>4, <1>5, <1>6

LEMMA RunStays ==
  ASSUME users \subseteq users', now' = now, NEW c, RunHolds(c)
  PROVE  RunHolds(c)'
<1>1. A!Owns(c.wallet, c.name) => A!Owns(c.wallet, c.name)'
  BY DEF A!Owns
<1>2. QED
  BY <1>1 DEF RunHolds

(* One request goes on, and rows are at most added.                        *)
LEMMA RunStep ==
  ASSUME AccountsInv, users \subseteq users', now' = now,
         NEW r \in Request, NEW c \in Runs, call' = [call EXCEPT ![r] = c], RunHolds(c)'
  PROVE  /\ call' \in [Request -> Runs]
         /\ \A s \in Request : RunHolds(call[s])'
<1>1. /\ call' \in [Request -> Runs] /\ call'[r] = c
      /\ \A s \in Request \ {r} : call'[s] = call[s]
  BY DEF AccountsInv, A!TypeOK, Runs
<1>2. ASSUME NEW s \in Request PROVE RunHolds(call[s])'
  <2>1. CASE s = r
    BY <1>1, <2>1 DEF RunHolds, A!Owns
  <2>2. CASE s # r
    <3>1. RunHolds(call[s]) /\ call'[s] = call[s]
      BY <1>1, <2>2 DEF AccountsInv
    <3>2. \A d : RunHolds(d) => RunHolds(d)'
      BY RunStays
    <3>3. QED
      BY <3>1, <3>2 DEF RunHolds, A!Owns
  <2>3. QED
    BY <2>1, <2>2
<1>3. QED
  BY <1>1, <1>2

LEMMA GotoSets ==
  ASSUME A!TypeOK, NEW r \in Request, call[r] \in A!Awaiting,
         NEW phase \in {"find", "chain", "insert", "conflict", "complete"},
         A!Goto(r, phase)
  PROVE  \E c \in A!Awaiting :
           /\ c.phase = phase /\ c.sent = now /\ c.wallet = call[r].wallet
           /\ c.name = call[r].name /\ c.known = call[r].known
           /\ call' = [call EXCEPT ![r] = c]
<1>1. PICK d : d = call[r]
  OBVIOUS
<1>2. PICK c : c = [d EXCEPT !.phase = phase, !.sent = now]
  OBVIOUS
<1>3. /\ c \in A!Awaiting
      /\ c.phase = phase /\ c.sent = now /\ c.wallet = d.wallet
      /\ c.name = d.name /\ c.known = d.known
  BY <1>1, <1>2 DEF A!Awaiting, A!TypeOK
<1>4. call' = [call EXCEPT ![r] = c]
  BY <1>1, <1>2 DEF A!Goto, A!TypeOK
<1>5. QED
  BY <1>1, <1>3, <1>4

LEMMA AnswerSets ==
  ASSUME A!TypeOK, NEW r \in Request, call[r] \in A!Awaiting,
         NEW result \in {"registered"} \cup A!Refusal, A!Answer(r, result)
  PROVE  \E c \in A!Answered :
           /\ c.phase = result /\ c.wallet = call[r].wallet
           /\ c.name = call[r].name /\ c.known = call[r].known
           /\ call' = [call EXCEPT ![r] = c]
<1>1. [phase |-> result, wallet |-> call[r].wallet, name |-> call[r].name,
       known |-> call[r].known] \in A!Answered
  BY DEF A!Answered, A!Awaiting
<1>2. QED
  BY <1>1 DEF A!Answer

(* Both halves of a step of one request that leaves the tables typed.      *)
LEMMA RequestStep ==
  ASSUME AccountsInv, users \subseteq users', now' = now, onchain' = onchain,
         NEW r \in Request, NEW c \in Runs, call' = [call EXCEPT ![r] = c], RunHolds(c)',
         users' \subseteq A!User,
         \A u, v \in users' : u.username = v.username \/ u.wallet = v.wallet => u = v,
         eth' \in [Wallet -> A!Eth]
  PROVE  AccountsInv'
  BY RunStep DEF AccountsInv, A!TypeOK, Runs

LEMMA RowInserted ==
  ASSUME A!TypeOK, NEW r \in Request, call[r] \in A!Awaiting,
         A!Inserted(r), \A u \in users : ~ A!Conflicts(u, r)
  PROVE  /\ users \subseteq users' /\ users' \subseteq A!User
         /\ \A u, v \in users' : u.username = v.username \/ u.wallet = v.wallet => u = v
         /\ A!Row(r) \in users' /\ A!Row(r).username = call[r].name
         /\ A!Row(r).wallet = call[r].wallet /\ A!Row(r).created = now
<1> DEFINE row == A!Row(r)
<1>1. /\ row \in A!User /\ row.username = call[r].name /\ row.wallet = call[r].wallet
      /\ row.created = now
  BY DEF A!Row, A!User, A!Awaiting, A!TypeOK
<1>2. users' = users \cup {row}
  BY DEF A!Inserted
<1> HIDE DEF row
<1>3. \A u \in users : u.username # row.username /\ u.wallet # row.wallet
  BY <1>1 DEF A!Conflicts
<1>4. QED
  BY <1>1, <1>2, <1>3 DEF A!TypeOK, row

(* The window: this machine's clock read it open at the time it was asked. *)
LEMMA ResumeHolds ==
  ASSUME AccountsInv, NEW r \in Request, call[r] \in A!Awaiting,
         NEW u \in users, u.username = call[r].name, u.wallet = call[r].wallet,
         A!resumeRegistration(r, u), UNCHANGED <<now, users, eth, onchain>>
  PROVE  AccountsInv'
<1>1. PICK clock \in now - Skew .. now + Skew :
        IF A!InWindow(u, clock) THEN A!Goto(r, "complete") ELSE A!Answer(r, "registered")
  BY DEF A!resumeRegistration
<1>2. A!TypeOK /\ RunHolds(call[r]) /\ now \in Int /\ now - now <= DbTimeout
      /\ u.created \in Int
  BY AccountNumbers DEF AccountsInv, A!TypeOK, A!User
<1>3. A!Owns(call[r].wallet, call[r].name)
  BY DEF A!Owns
<1>4. CASE A!InWindow(u, clock) /\ A!Goto(r, "complete")
  <2>1. PICK c \in A!Awaiting :
           /\ c.phase = "complete" /\ c.sent = now /\ c.wallet = call[r].wallet
           /\ c.name = call[r].name /\ c.known = call[r].known
           /\ call' = [call EXCEPT ![r] = c]
    BY <1>2, <1>4, GotoSets
  <2>2. now < u.created + Window + Skew
    BY <1>1, <1>2, <1>4, AccountNumbers DEF A!InWindow
  <2>3. RunHolds(c)
    BY <1>2, <1>3, <2>1, <2>2 DEF RunHolds, A!Refusal
  <2>4. RunHolds(c)'
    BY <2>3, RunStays
  <2>5. QED
    BY <1>2, <2>1, <2>4, RequestStep DEF Runs, A!TypeOK
<1>5. CASE A!Answer(r, "registered")
  <2>1. PICK c \in A!Answered :
           /\ c.phase = "registered" /\ c.wallet = call[r].wallet
           /\ c.name = call[r].name /\ c.known = call[r].known
           /\ call' = [call EXCEPT ![r] = c]
    BY <1>2, <1>5, AnswerSets
  <2>2. RunHolds(c)
    BY <1>3, <2>1 DEF RunHolds, A!Refusal, A!Awaiting
  <2>3. RunHolds(c)'
    BY <2>2, RunStays
  <2>4. QED
    BY <1>2, <2>1, <2>3, RequestStep DEF Runs, A!TypeOK
<1>6. QED
  BY <1>1, <1>4, <1>5

(* A request that goes on, or ends, with no write.                         *)
LEMMA RequestGoesOn ==
  ASSUME AccountsInv, UNCHANGED <<now, users, eth, onchain>>,
         NEW r \in Request, NEW c \in Runs, call' = [call EXCEPT ![r] = c], RunHolds(c)
  PROVE  AccountsInv'
<1>1. RunHolds(c)'
  BY RunStays
<1>2. QED
  BY <1>1, RequestStep DEF AccountsInv, A!TypeOK

LEMMA RefusalHolds ==
  ASSUME AccountsInv, UNCHANGED <<now, users, eth, onchain>>,
         NEW r \in Request, call[r] \in A!Awaiting,
         NEW result \in A!Refusal, A!Answer(r, result), ~ call[r].known,
         result = "USERNAME_TAKEN" =>
           \E u \in users : u.username = call[r].name /\ u.wallet # call[r].wallet,
         result = "WALLET_HAS_USERNAME" =>
           \E u \in users : u.wallet = call[r].wallet /\ u.username # call[r].name
  PROVE  AccountsInv'
<1>1. result \in {"registered"} \cup A!Refusal /\ A!TypeOK
  BY DEF AccountsInv
<1>2. PICK c \in A!Answered :
         /\ c.phase = result /\ c.wallet = call[r].wallet
         /\ c.name = call[r].name /\ c.known = call[r].known
         /\ call' = [call EXCEPT ![r] = c]
  BY <1>1, AnswerSets
<1>3. RunHolds(c)
  BY <1>2 DEF RunHolds, A!Refusal, A!Awaiting
<1>4. QED
  BY <1>2, <1>3, RequestGoesOn DEF Runs

LEMMA QueryHolds ==
  ASSUME AccountsInv, UNCHANGED <<now, users, eth, onchain>>,
         NEW r \in Request, call[r] \in A!Awaiting, ~ call[r].known,
         NEW phase \in {"chain", "insert", "conflict"}, A!Goto(r, phase),
         phase = "conflict" =>
           \E u \in users : u.username = call[r].name \/ u.wallet = call[r].wallet
  PROVE  AccountsInv'
<1>1. PICK c \in A!Awaiting :
         /\ c.phase = phase /\ c.sent = now /\ c.wallet = call[r].wallet
         /\ c.name = call[r].name /\ c.known = call[r].known
         /\ call' = [call EXCEPT ![r] = c]
  BY GotoSets DEF AccountsInv
<1>2. now <= now /\ now - now <= DbTimeout
  BY AccountNumbers DEF AccountsInv, A!TypeOK
<1>3. RunHolds(c)
  BY <1>1, <1>2 DEF RunHolds, A!Refusal
<1>4. QED
  BY <1>1, <1>3, RequestGoesOn DEF Runs

AccountStep(r) ==
  \/ \E w \in Wallet, n \in Name : A!Start(r, w, n)
  \/ A!Find(r) \/ A!ReadChain(r) \/ A!Insert(r) \/ A!ResolveConflict(r)
  \/ A!completeRegistration(r) \/ A!Delivered(r) \/ A!Fails(r)

LEMMA PhaseAwaits ==
  ASSUME NEW c \in Runs, c.phase \in {"find", "chain", "insert", "conflict", "complete"}
  PROVE  c \in A!Awaiting
  BY DEF Runs, A!Idle, A!Answered, A!Refusal

LEMMA StartKeeps ==
  ASSUME AccountsInv, NEW r \in Request, NEW w \in Wallet, NEW n \in Name,
         A!Start(r, w, n)
  PROVE  AccountsInv'
<1>1. PICK c : c = [phase |-> "find", wallet |-> w, name |-> n, sent |-> now,
                    known |-> A!Owns(w, n)]
  OBVIOUS
<1>2. A!Owns(w, n) \in BOOLEAN
  BY DEF A!Owns
<1>3. /\ c \in A!Awaiting /\ c.phase = "find" /\ c.wallet = w /\ c.name = n
      /\ c.sent = now
  BY <1>1, <1>2 DEF A!Awaiting, AccountsInv, A!TypeOK
<1>4. c.known => A!Owns(c.wallet, c.name)
  <2>1. c.known = A!Owns(w, n)
    BY <1>1
  <2>2. QED
    BY <1>3, <2>1
<1>5. now <= now /\ now - now <= DbTimeout
  BY AccountNumbers DEF AccountsInv, A!TypeOK
<1>6. RunHolds(c)
  BY <1>3, <1>4, <1>5 DEF RunHolds, A!Refusal
<1>7. QED
  BY <1>1, <1>3, <1>6, RequestGoesOn DEF A!Start, Runs

LEMMA InsertKeeps ==
  ASSUME AccountsInv, NEW r \in Request, A!Insert(r)
  PROVE  AccountsInv'
<1>1. call[r] \in A!Awaiting /\ ~ call[r].known /\ A!TypeOK /\ UNCHANGED <<now, eth, onchain>>
  BY PhaseAwaits DEF A!Insert, A!At, AccountsInv, A!TypeOK, Runs, RunHolds
<1>2. CASE A!Goto(r, "conflict") /\ UNCHANGED users
           /\ \E u \in users : A!Conflicts(u, r)
  BY <1>1, <1>2, QueryHolds DEF A!Conflicts
<1>3. CASE A!Goto(r, "complete") /\ A!Inserted(r)
           /\ \A u \in users : ~ A!Conflicts(u, r)
  <2>1. PICK c \in A!Awaiting :
           /\ c.phase = "complete" /\ c.sent = now /\ c.wallet = call[r].wallet
           /\ c.name = call[r].name /\ c.known = call[r].known
           /\ call' = [call EXCEPT ![r] = c]
    BY <1>1, <1>3, GotoSets
  <2>2. PICK row : row = A!Row(r)
    OBVIOUS
  <2>3. /\ users \subseteq users' /\ users' \subseteq A!User
        /\ \A u, v \in users' : u.username = v.username \/ u.wallet = v.wallet => u = v
        /\ row \in users' /\ row.username = c.name /\ row.wallet = c.wallet
        /\ row.created = c.sent
    BY <1>1, <1>3, <2>1, <2>2, RowInserted
  <2>4. /\ now \in Nat /\ now <= now /\ now - now <= DbTimeout
        /\ c.sent < row.created + Window + Skew
    BY <1>1, <2>1, <2>3, AccountNumbers DEF A!TypeOK
  <2>5. RunHolds(c)'
    BY <1>1, <2>1, <2>3, <2>4 DEF RunHolds, A!Refusal
  <2>6. QED
    BY <1>1, <2>1, <2>3, <2>5, RequestStep DEF Runs, A!TypeOK
<1>4. QED
  BY <1>2, <1>3 DEF A!Insert

LEMMA AccountStepKeeps ==
  ASSUME AccountsInv, NEW r \in Request, AccountStep(r)
  PROVE  AccountsInv'
<1>1. /\ call[r] \in Runs /\ RunHolds(call[r]) /\ A!TypeOK
      /\ \A u, v \in users : u.username = v.username \/ u.wallet = v.wallet => u = v
  BY DEF AccountsInv, A!TypeOK, Runs
<1>2. CASE \E w \in Wallet, n \in Name : A!Start(r, w, n)
  BY <1>2, StartKeeps
<1>3. CASE A!Find(r)
  <2>1. call[r] \in A!Awaiting /\ UNCHANGED <<now, users, eth, onchain>>
    BY <1>1, <1>3, PhaseAwaits DEF A!Find, A!At
  <2>2. CASE A!Of(call[r].wallet) = {} /\ A!Goto(r, "chain")
    <3>1. ~ call[r].known
      BY <1>1, <1>3, <2>2 DEF RunHolds, A!Of, A!Owns, A!Find, A!At
    <3>2. QED
      BY <2>1, <2>2, <3>1, QueryHolds
  <2>3. ASSUME NEW u \in users, u.wallet = call[r].wallet, u.username = call[r].name,
               A!resumeRegistration(r, u)
        PROVE  AccountsInv'
    BY <2>1, <2>3, ResumeHolds
  <2>4. ASSUME NEW u \in users, u.wallet = call[r].wallet, u.username # call[r].name,
               A!Answer(r, "WALLET_HAS_USERNAME")
        PROVE  AccountsInv'
    <3>1. ~ call[r].known
      BY <1>1, <1>3, <2>4 DEF RunHolds, A!Owns, A!Find, A!At
    <3>2. QED
      BY <2>1, <2>4, <3>1, RefusalHolds DEF A!Refusal
  <2>5. QED
    BY <1>3, <2>2, <2>3, <2>4 DEF A!Find, A!Of
<1>4. CASE A!ReadChain(r)
  <2>1. call[r] \in A!Awaiting /\ UNCHANGED <<now, users, eth, onchain>> /\ ~ call[r].known
    BY <1>1, <1>4, PhaseAwaits DEF A!ReadChain, A!At, RunHolds
  <2>2. QED
    BY <1>4, <2>1, QueryHolds, RefusalHolds DEF A!ReadChain, A!Refusal
<1>5. CASE A!Insert(r)
  BY <1>5, InsertKeeps
<1>6. CASE A!ResolveConflict(r)
  <2>1. call[r] \in A!Awaiting /\ UNCHANGED <<now, users, eth, onchain>> /\ ~ call[r].known
    BY <1>1, <1>6, PhaseAwaits DEF A!ResolveConflict, A!At, RunHolds
  <2>2. CASE A!OwnRow(r) = {} /\ A!Answer(r, A!ConflictRefusal(r))
    <3>1. \A u \in users : ~ (u.wallet = call[r].wallet /\ u.username = call[r].name)
      BY <2>2 DEF A!OwnRow, A!Of
    <3>2. \E u \in users : u.username = call[r].name \/ u.wallet = call[r].wallet
      BY <1>1, <1>6 DEF RunHolds, A!ResolveConflict, A!At
    <3>3. CASE \E u \in users : u.username = call[r].name
      <4>1. A!Answer(r, "USERNAME_TAKEN")
        BY <2>2, <3>3 DEF A!ConflictRefusal
      <4>2. QED
        BY <2>1, <3>1, <3>3, <4>1, RefusalHolds DEF A!Refusal
    <3>4. CASE ~ \E u \in users : u.username = call[r].name
      <4>1. A!Answer(r, "WALLET_HAS_USERNAME")
        BY <2>2, <3>4 DEF A!ConflictRefusal
      <4>2. QED
        BY <2>1, <3>1, <3>2, <3>4, <4>1, RefusalHolds DEF A!Refusal
    <3>5. QED
      BY <3>3, <3>4
  <2>3. ASSUME NEW u \in A!OwnRow(r), A!resumeRegistration(r, u)
        PROVE  AccountsInv'
    BY <2>1, <2>3, ResumeHolds DEF A!OwnRow, A!Of
  <2>4. QED
    BY <1>6, <2>2, <2>3 DEF A!ResolveConflict
<1>7. CASE A!completeRegistration(r)
  <2>1. call[r] \in A!Awaiting /\ UNCHANGED <<now, users, onchain>>
        /\ A!Owns(call[r].wallet, call[r].name)
    BY <1>1, <1>7, PhaseAwaits DEF A!completeRegistration, A!At, RunHolds, A!Owns
  <2>2. eth' \in [Wallet -> A!Eth]
    BY <1>1, <1>7 DEF A!completeRegistration, A!FilledEth, A!TypeOK, A!Eth
  <2>3. PICK c \in A!Answered :
           /\ c.phase = "registered" /\ c.wallet = call[r].wallet
           /\ c.name = call[r].name /\ c.known = call[r].known
           /\ call' = [call EXCEPT ![r] = c]
    BY <1>1, <1>7, <2>1, AnswerSets DEF A!completeRegistration
  <2>4. RunHolds(c)'
    BY <2>1, <2>3 DEF RunHolds, A!Refusal, A!Awaiting, A!Owns
  <2>5. QED
    BY <1>1, <2>1, <2>2, <2>3, <2>4, RequestStep DEF Runs, A!TypeOK
<1>8. RunHolds(A!Idle) /\ RunHolds(A!Idle)' /\ A!Idle \in Runs
  BY DEF RunHolds, A!Idle, A!Awaiting, A!Refusal, Runs
<1>9. CASE A!Delivered(r)
  BY <1>8, <1>9, RequestGoesOn DEF A!Delivered
<1>10. CASE A!Fails(r)
  <2>1. /\ users \subseteq users' /\ users' \subseteq A!User
        /\ \A u, v \in users' : u.username = v.username \/ u.wallet = v.wallet => u = v
    BY <1>1, <1>10, RowInserted DEF A!Fails, A!TypeOK
  <2>2. eth' \in [Wallet -> A!Eth]
    BY <1>1, <1>10 DEF A!Fails, A!FilledEth, A!TypeOK, A!Eth
  <2>3. QED
    BY <1>8, <1>10, <2>1, <2>2, RequestStep DEF A!Fails
<1>11. QED
  BY <1>2, <1>3, <1>4, <1>5, <1>6, <1>7, <1>9, <1>10 DEF AccountStep

LEMMA AccountsKept == AccountsInv /\ A!Next => AccountsInv'
<1> SUFFICES ASSUME AccountsInv, A!Next PROVE AccountsInv'
  OBVIOUS
<1>1. CASE A!Tick
  <2>1. A!TypeOK'
    BY <1>1, AccountNumbers DEF A!Tick, AccountsInv, A!TypeOK
  <2>2. ASSUME NEW r \in Request PROVE RunHolds(call[r])'
    <3>1. /\ RunHolds(call[r]) /\ call'[r] = call[r] /\ users' = users
          /\ now' = now + 1 /\ now \in Nat
          /\ call[r] \in A!Awaiting => ~ (now - call[r].sent >= DbTimeout)
      BY <1>1 DEF AccountsInv, A!TypeOK, A!Tick, A!Overdue
    <3>2. PICK c : c = call[r]
      OBVIOUS
    <3>3. ASSUME c \in A!Awaiting
          PROVE  c.sent <= now' /\ now' - c.sent <= DbTimeout
      <4>1. c.sent \in Int
        BY <3>3, AccountNumbers DEF A!Awaiting
      <4>2. c.sent <= now /\ ~ (now - c.sent >= DbTimeout)
        BY <3>1, <3>2, <3>3 DEF RunHolds
      <4>3. now' = now + 1 /\ now \in Int
        BY <3>1
      <4>4. QED
        BY <4>1, <4>2, <4>3, AccountNumbers
    <3>4. RunHolds(c)'
      <4>1. /\ RunHolds(c) /\ users' = users
            /\ A!Owns(c.wallet, c.name) => A!Owns(c.wallet, c.name)'
        BY <3>1, <3>2 DEF A!Owns
      <4>2. QED
        BY <3>3, <4>1 DEF RunHolds
    <3>5. QED
      BY <3>1, <3>2, <3>4 DEF RunHolds, A!Owns
  <2>3. QED
    BY <2>1, <2>2 DEF AccountsInv
<1>2. ASSUME NEW r \in Request, AccountStep(r) PROVE AccountsInv'
  BY <1>2, AccountStepKeeps
<1>3. CASE UNCHANGED <<now, users, call>> /\ A!TypeOK'
  BY <1>3 DEF AccountsInv, RunHolds, A!Owns
<1>4. ASSUME NEW w \in Wallet, A!EditEth(w) PROVE AccountsInv'
  <2>1. A!TypeOK'
    BY <1>4 DEF A!EditEth, AccountsInv, A!TypeOK, A!Eth
  <2>2. QED
    BY <1>3, <1>4, <2>1 DEF A!EditEth
<1>5. ASSUME NEW w \in Wallet, NEW n \in Name, A!RegisterOnchain(w, n)
      PROVE  AccountsInv'
  <2>1. A!TypeOK'
    BY <1>5 DEF A!RegisterOnchain, AccountsInv, A!TypeOK
  <2>2. QED
    BY <1>3, <1>5, <2>1 DEF A!RegisterOnchain
<1>6. QED
  BY <1>1, <1>2, <1>4, <1>5 DEF A!Next, AccountStep

(* Only the request's own step answers it, and it reads the table it was   *)
(* refused by.                                                             *)
LEMMA RefusalsAgree == AccountsInv /\ A!Next => A!OfferedIsNotRefused
<1> SUFFICES ASSUME AccountsInv, A!Next, NEW r \in Request, call[r] \in A!Awaiting,
                    call'[r].phase \in {"USERNAME_TAKEN", "USERNAME_TAKEN_ONCHAIN"}
             PROVE  A!checkAvailability(call[r].name, call[r].wallet) # "AVAILABLE"
  BY DEF A!OfferedIsNotRefused
<1>1. /\ call[r].phase \in {"find", "chain", "insert", "conflict", "complete"}
      /\ call'[r] # call[r]
      /\ call \in [Request -> Runs]
  BY DEF A!Awaiting, AccountsInv, A!TypeOK, Runs
<1>2. PICK s \in Request : AccountStep(s)
  BY <1>1 DEF A!Next, A!Tick, A!EditEth, A!RegisterOnchain, AccountStep
<1>3. s = r
  BY <1>1, <1>2 DEF AccountStep, A!Start, A!Find, A!ReadChain, A!Insert,
     A!ResolveConflict, A!completeRegistration, A!Delivered, A!Fails,
     A!Goto, A!Answer, A!resumeRegistration
<1>4. \A phase : A!Goto(r, phase) => call'[r].phase = phase
  BY <1>1 DEF A!Goto, Runs, A!Awaiting, A!Answered
<1>5. \A result : A!Answer(r, result) => call'[r].phase = result
  BY <1>1 DEF A!Answer
<1>6. \A u : A!resumeRegistration(r, u) => call'[r].phase \in {"complete", "registered"}
  BY <1>4, <1>5 DEF A!resumeRegistration
<1>7. CASE A!ReadChain(r)
  <2>1. ~ A!ChainAllows(r)
    BY <1>4, <1>7 DEF A!ReadChain
  <2>2. QED
    BY <2>1 DEF A!ChainAllows, A!checkAvailability
<1>8. CASE A!ResolveConflict(r)
  <2>1. A!Answer(r, A!ConflictRefusal(r))
    BY <1>6, <1>8 DEF A!ResolveConflict
  <2>2. \E u \in users : u.username = call[r].name
    BY <1>5, <2>1 DEF A!ConflictRefusal
  <2>3. QED
    BY <2>2 DEF A!checkAvailability, A!isUsernameAvailable
<1>9. CASE A!Find(r)
  BY <1>4, <1>5, <1>6, <1>9 DEF A!Find
<1>10. CASE A!Insert(r) \/ A!completeRegistration(r)
  BY <1>4, <1>5, <1>10 DEF A!Insert, A!completeRegistration
<1>11. CASE A!Delivered(r) \/ A!Fails(r) \/ \E w \in Wallet, n \in Name : A!Start(r, w, n)
  BY <1>1, <1>11 DEF A!Delivered, A!Fails, A!Start, A!Idle, A!At
<1>12. QED
  BY <1>2, <1>3, <1>7, <1>8, <1>9, <1>10, <1>11 DEF AccountStep

(* The request that completes a registration came to it within the window, *)
(* and lands within its timeout.                                           *)
LEMMA EditsStay == AccountsInv /\ A!Next => A!RetryKeepsEdits
<1> SUFFICES ASSUME AccountsInv, A!Next, NEW u \in users
             PROVE  /\ eth[u.wallet] = "other" => eth'[u.wallet] # "wallet"
                    /\ eth[u.wallet] = "none" /\ eth'[u.wallet] = "wallet" =>
                         now < u.created + Window + Skew + DbTimeout
  BY DEF A!RetryKeepsEdits
<1>1. /\ eth \in [Wallet -> A!Eth] /\ u.wallet \in Wallet /\ u.created \in Int
      /\ now \in Nat
      /\ \A v, w \in users : v.username = w.username \/ v.wallet = w.wallet => v = w
  BY AccountNumbers DEF AccountsInv, A!TypeOK, A!User
<1>2. CASE UNCHANGED eth
  BY <1>1, <1>2 DEF A!Eth
<1>3. ASSUME NEW w \in Wallet, A!EditEth(w)
      PROVE  eth'[u.wallet] = "wallet" => eth[u.wallet] = "wallet"
  BY <1>1, <1>3 DEF A!EditEth
<1>4. ASSUME NEW r \in Request, call[r].phase = "complete", eth' = A!FilledEth(r)
      PROVE  /\ eth[u.wallet] = "other" => eth'[u.wallet] # "wallet"
             /\ eth[u.wallet] = "none" /\ eth'[u.wallet] = "wallet" =>
                  now < u.created + Window + Skew + DbTimeout
  <2>1. call[r] \in A!Awaiting /\ RunHolds(call[r])
    BY <1>4, PhaseAwaits DEF AccountsInv, A!TypeOK, Runs
  <2>2. /\ call[r].sent \in Int /\ call[r].wallet \in Wallet
        /\ now - call[r].sent <= DbTimeout
    BY <2>1, AccountNumbers DEF A!Awaiting, RunHolds
  <2>3. \A w \in Wallet :
          eth'[w] = IF w = call[r].wallet /\ eth[w] = "none" THEN "wallet" ELSE eth[w]
    BY <1>1, <1>4, <2>2 DEF A!FilledEth
  <2>4. CASE u.wallet = call[r].wallet
    <3>1. call[r].sent < u.created + Window + Skew
      BY <1>1, <1>4, <2>1, <2>4 DEF RunHolds
    <3>2. now < u.created + Window + Skew + DbTimeout
      BY <1>1, <2>2, <3>1, AccountNumbers
    <3>3. QED
      BY <1>1, <2>3, <3>2
  <2>5. CASE u.wallet # call[r].wallet
    BY <1>1, <2>3, <2>5
  <2>6. QED
    BY <2>4, <2>5
<1>5. QED
  BY <1>1, <1>2, <1>3, <1>4 DEF A!Next, A!Tick, A!Start, A!Find, A!ReadChain, A!Insert,
     A!ResolveConflict, A!completeRegistration, A!Delivered, A!Fails,
     A!RegisterOnchain, A!At

-----------------------------------------------------------------------------
(* A request's way through the API.                                        *)

Word == {"cors", "edgeGuard", "json", "router", "limit", "validate", "handler",
         "requireAuth", "ping", "health", "notFound"}
LEMMA ChainTyped ==
  ASSUME request.route \in H!Route
  PROVE H!Chain(request.route) \in Seq(Word)
<1>1. /\ <<"limit", "validate", "handler">> \in Seq(Word)
      /\ <<"limit", "requireAuth", "handler">> \in Seq(Word)
      /\ <<"limit", "requireAuth", "validate", "handler">> \in Seq(Word)
      /\ <<"requireAuth", "handler">> \in Seq(Word)
      /\ <<"requireAuth", "validate", "handler">> \in Seq(Word)
      /\ <<"ping">> \in Seq(Word)
      /\ <<"health">> \in Seq(Word)
      /\ <<"notFound">> \in Seq(Word)
  BY DEF Word
<1>2. QED
  BY <1>1 DEF H!Route, H!Chain

LEMMA StageAt ==
  ASSUME request.route \in H!Route
  PROVE  /\ Len(H!Stages) = 4 + Len(H!Chain(request.route))
         /\ H!Stages[1] = "cors" /\ H!Stages[2] = "edgeGuard"
         /\ H!Stages[3] = "json" /\ H!Stages[4] = "router"
         /\ \A i \in 5 .. Len(H!Stages) : H!Stages[i] = H!Chain(request.route)[i - 4]
         /\ DOMAIN H!Stages = 1 .. Len(H!Stages)
<1> DEFINE first == <<"cors", "edgeGuard", "json", "router">>
           rest == H!Chain(request.route)
<1>1. /\ first \in Seq(Word) /\ Len(first) = 4
      /\ first[1] = "cors" /\ first[2] = "edgeGuard"
      /\ first[3] = "json" /\ first[4] = "router"
  BY DEF Word
<1>2. rest \in Seq(Word)
  BY ChainTyped
<1>3. H!Stages = first \o rest
  BY DEF H!Stages
<1> HIDE DEF first, rest
<1>4. /\ Len(first \o rest) = 4 + Len(rest)
      /\ \A i \in 1 .. 4 + Len(rest) :
           (first \o rest)[i] = IF i <= 4 THEN first[i] ELSE rest[i - 4]
      /\ first \o rest \in Seq(Word)
  <2>1. /\ first \o rest \in Seq(Word)
        /\ Len(first \o rest) = Len(first) + Len(rest)
        /\ \A i \in 1 .. Len(first) + Len(rest) :
             (first \o rest)[i] = IF i <= Len(first) THEN first[i] ELSE rest[i - Len(first)]
    BY <1>1, <1>2, ConcatProperties
  <2>2. QED
    BY <1>1, <2>1
<1>5. Len(rest) \in Nat
  BY <1>2, LenProperties
<1>6. \A i \in 5 .. Len(H!Stages) : H!Stages[i] = rest[i - 4]
  BY <1>3, <1>4, <1>5
<1>7. DOMAIN H!Stages = 1 .. Len(H!Stages)
  BY <1>3, <1>4, LenProperties
<1>8. QED
  BY <1>1, <1>3, <1>4, <1>5, <1>6, <1>7 DEF rest

(* Of the faults the database reports, exactly the outages are retryable.  *)
LEMMA FaultStatus ==
  ASSUME NEW f \in DOMAIN H!Fault
  PROVE  H!DbError(f) = IF f \in H!Outages THEN 503 ELSE 500
<1>1. f \in {"refused", "paused", "throttled", "schemaCache", "shutdown",
             "connections", "badKey", "missing", "slowQuery"}
  BY DEF H!Fault
<1>2. CASE f = "refused"
  <2>1. H!Fault[f].code = "none" /\ H!Fault[f].status = 0
    BY <1>2 DEF H!Fault
  <2>2. H!IsDatabaseUnavailable(H!Fault[f])
    BY <2>1 DEF H!IsDatabaseUnavailable, H!UnavailableCode
  <2>3. QED
    BY <1>2, <2>2 DEF H!DbError, H!Outages
<1>3. CASE f = "paused"
  <2>1. H!Fault[f].code = "none" /\ H!Fault[f].status = 540
    BY <1>3 DEF H!Fault
  <2>2. H!IsDatabaseUnavailable(H!Fault[f])
    BY <2>1 DEF H!IsDatabaseUnavailable, H!UnavailableCode
  <2>3. QED
    BY <1>3, <2>2 DEF H!DbError, H!Outages
<1>4. CASE f = "throttled"
  <2>1. H!Fault[f].code = "none" /\ H!Fault[f].status = 429
    BY <1>4 DEF H!Fault
  <2>2. H!IsDatabaseUnavailable(H!Fault[f])
    BY <2>1 DEF H!IsDatabaseUnavailable, H!UnavailableCode
  <2>3. QED
    BY <1>4, <2>2 DEF H!DbError, H!Outages
<1>5. CASE f = "schemaCache"
  <2>1. H!Fault[f].code = "PGRST002" /\ H!Fault[f].status = 503
    BY <1>5 DEF H!Fault
  <2>2. H!IsDatabaseUnavailable(H!Fault[f])
    BY <2>1 DEF H!IsDatabaseUnavailable, H!UnavailableCode
  <2>3. QED
    BY <1>5, <2>2 DEF H!DbError, H!Outages
<1>6. CASE f = "shutdown"
  <2>1. H!Fault[f].code = "57P01" /\ H!Fault[f].status = 500
    BY <1>6 DEF H!Fault
  <2>2. H!IsDatabaseUnavailable(H!Fault[f])
    BY <2>1 DEF H!IsDatabaseUnavailable, H!UnavailableCode
  <2>3. QED
    BY <1>6, <2>2 DEF H!DbError, H!Outages
<1>7. CASE f = "connections"
  <2>1. H!Fault[f].code = "53300" /\ H!Fault[f].status = 500
    BY <1>7 DEF H!Fault
  <2>2. H!IsDatabaseUnavailable(H!Fault[f])
    BY <2>1 DEF H!IsDatabaseUnavailable, H!UnavailableCode
  <2>3. QED
    BY <1>7, <2>2 DEF H!DbError, H!Outages
<1>8. CASE f = "badKey"
  <2>1. H!Fault[f].code = "none" /\ H!Fault[f].status = 401
    BY <1>8 DEF H!Fault
  <2>2. ~ H!IsDatabaseUnavailable(H!Fault[f])
    BY <2>1 DEF H!IsDatabaseUnavailable, H!UnavailableCode
  <2>3. QED
    BY <1>8, <2>2 DEF H!DbError, H!Outages
<1>9. CASE f = "missing"
  <2>1. H!Fault[f].code = "42P01" /\ H!Fault[f].status = 404
    BY <1>9 DEF H!Fault
  <2>2. ~ H!IsDatabaseUnavailable(H!Fault[f])
    BY <2>1 DEF H!IsDatabaseUnavailable, H!UnavailableCode
  <2>3. QED
    BY <1>9, <2>2 DEF H!DbError, H!Outages
<1>10. CASE f = "slowQuery"
  <2>1. H!Fault[f].code = "57014" /\ H!Fault[f].status = 500
    BY <1>10 DEF H!Fault
  <2>2. ~ H!IsDatabaseUnavailable(H!Fault[f])
    BY <2>1 DEF H!IsDatabaseUnavailable, H!UnavailableCode
  <2>3. QED
    BY <1>10, <2>2 DEF H!DbError, H!Outages
<1>11. QED
  BY <1>1, <1>2, <1>3, <1>4, <1>5, <1>6, <1>7, <1>8,
     <1>9, <1>10

(* Where a route's stages are: what they rest on comes before they do.     *)
LEMMA StagesInOrder ==
  ASSUME request.route \in H!Route, NEW i \in 1 .. Len(H!Stages)
  PROVE  /\ i = 2 => H!Stages[i] = "edgeGuard"
         /\ H!Limited => H!Stages[i] = "limit" <=> i = 5
         /\ H!Limited => 5 \in 1 .. Len(H!Stages)
         /\ request.route \in {"signIn", "read"} =>
              /\ i = 6 => H!Stages[i] = "validate"
              /\ i <= 7 /\ (i = 7 => H!Stages[i] = "handler")
         /\ request.route \in {"me", "edit"} =>
              /\ i = 5 => H!Stages[i] = "requireAuth"
              /\ H!Stages[i] = "handler" => i > 5
         /\ request.route \in {"logoutAll", "register"} =>
              /\ i = 6 => H!Stages[i] = "requireAuth"
              /\ H!Stages[i] = "handler" => i > 6
         /\ H!Stages[i] \in {"requireAuth", "handler", "ping"} =>
              /\ i >= 5 /\ request.route \notin {"health", "none"}
              /\ H!Limited => i >= 6
              /\ request.route \in {"signIn", "read"} => i = 7
              /\ H!Stages[i] = "ping" <=> request.route = "ping"
         /\ H!Stages[i] = "health" => request.route = "health"
         /\ H!Stages[i] \notin {"handler", "ping", "health", "notFound"} =>
              i + 1 \in 1 .. Len(H!Stages)
<1>1. /\ H!Stages[1] = "cors" /\ H!Stages[2] = "edgeGuard"
      /\ H!Stages[3] = "json" /\ H!Stages[4] = "router"
  BY StageAt
<1>2. CASE request.route = "signIn"
  <2>1. Len(H!Stages) = 7
    BY <1>2, StageAt DEF H!Chain
  <2>2. H!Stages[5] = "limit" /\ H!Stages[6] = "validate" /\ H!Stages[7] = "handler"
    BY <1>2, <2>1, StageAt DEF H!Chain
  <2>3. QED
    BY <1>1, <1>2, <2>1, <2>2 DEF H!Limited
<1>3. CASE request.route = "logoutAll"
  <2>1. Len(H!Stages) = 7
    BY <1>3, StageAt DEF H!Chain
  <2>2. H!Stages[5] = "limit" /\ H!Stages[6] = "requireAuth" /\ H!Stages[7] = "handler"
    BY <1>3, <2>1, StageAt DEF H!Chain
  <2>3. QED
    BY <1>1, <1>3, <2>1, <2>2 DEF H!Limited
<1>4. CASE request.route = "register"
  <2>1. Len(H!Stages) = 8
    BY <1>4, StageAt DEF H!Chain
  <2>2. H!Stages[5] = "limit" /\ H!Stages[6] = "requireAuth" /\ H!Stages[7] = "validate" /\ H!Stages[8] = "handler"
    BY <1>4, <2>1, StageAt DEF H!Chain
  <2>3. QED
    BY <1>1, <1>4, <2>1, <2>2 DEF H!Limited
<1>5. CASE request.route = "me"
  <2>1. Len(H!Stages) = 6
    BY <1>5, StageAt DEF H!Chain
  <2>2. H!Stages[5] = "requireAuth" /\ H!Stages[6] = "handler"
    BY <1>5, <2>1, StageAt DEF H!Chain
  <2>3. QED
    BY <1>1, <1>5, <2>1, <2>2 DEF H!Limited
<1>6. CASE request.route = "edit"
  <2>1. Len(H!Stages) = 7
    BY <1>6, StageAt DEF H!Chain
  <2>2. H!Stages[5] = "requireAuth" /\ H!Stages[6] = "validate" /\ H!Stages[7] = "handler"
    BY <1>6, <2>1, StageAt DEF H!Chain
  <2>3. QED
    BY <1>1, <1>6, <2>1, <2>2 DEF H!Limited
<1>7. CASE request.route = "read"
  <2>1. Len(H!Stages) = 7
    BY <1>7, StageAt DEF H!Chain
  <2>2. H!Stages[5] = "limit" /\ H!Stages[6] = "validate" /\ H!Stages[7] = "handler"
    BY <1>7, <2>1, StageAt DEF H!Chain
  <2>3. QED
    BY <1>1, <1>7, <2>1, <2>2 DEF H!Limited
<1>8. CASE request.route = "ping"
  <2>1. Len(H!Stages) = 5
    BY <1>8, StageAt DEF H!Chain
  <2>2. H!Stages[5] = "ping"
    BY <1>8, <2>1, StageAt DEF H!Chain
  <2>3. QED
    BY <1>1, <1>8, <2>1, <2>2 DEF H!Limited
<1>9. CASE request.route = "health"
  <2>1. Len(H!Stages) = 5
    BY <1>9, StageAt DEF H!Chain
  <2>2. H!Stages[5] = "health"
    BY <1>9, <2>1, StageAt DEF H!Chain
  <2>3. QED
    BY <1>1, <1>9, <2>1, <2>2 DEF H!Limited
<1>10. CASE request.route = "none"
  <2>1. Len(H!Stages) = 5
    BY <1>10, StageAt DEF H!Chain
  <2>2. H!Stages[5] = "notFound"
    BY <1>10, <2>1, StageAt DEF H!Chain
  <2>3. QED
    BY <1>1, <1>10, <2>1, <2>2 DEF H!Limited
<1>11. QED
  BY <1>2, <1>3, <1>4, <1>5, <1>6, <1>7, <1>8, <1>9, <1>10 DEF H!Route

(* What a request has come past, by where it is; and what came of its uses *)
(* of the database: of those it needed, all but the last were fine.        *)
FineSoFar == \A i \in DOMAIN used : used[i].needed => used[i].was = "fine"
CameBy ==
  /\ at > 2 /\ Guarded /\ request.route # "health" => request.edge
  /\ at > 6 /\ request.route \in {"signIn", "read"} => request.valid
  /\ at > 5 /\ request.route \in {"me", "edit"} => request.token = "good"
  /\ at > 6 /\ request.route \in {"logoutAll", "register"} => request.token = "good"
UsedAt ==
  used # <<>> =>
    /\ at >= 5 /\ request.route \notin {"health", "none"}
    /\ H!Limited => at >= 6
    /\ request.route \in {"signIn", "read"} => at = 7
HttpInv ==
  /\ H!TypeOK
  /\ status = 0 => FineSoFar
  /\ H!OutagesAreRetryable
  /\ CameBy /\ UsedAt
  /\ status = 200 => H!Stage \in {"handler", "ping", "health"}

LEMMA HttpInit == H!Init => HttpInv
<1> SUFFICES ASSUME H!Init PROVE HttpInv
  OBVIOUS
<1>1. request \in H!Requests /\ request.route \in H!Route /\ at = 1 /\ status = 0 /\ used = <<>>
  BY DEF H!Init, H!Requests
<1>2. 1 \in 1 .. Len(H!Stages)
  <2>1. Len(H!Stages) = 4 + Len(H!Chain(request.route)) /\ Len(H!Chain(request.route)) \in Nat
    BY <1>1, StageAt, ChainTyped, LenProperties
  <2>2. QED
    BY <2>1
<1>3. used \in Seq([needed : BOOLEAN, was : {"fine"} \cup DOMAIN H!Fault])
      /\ DOMAIN used = {}
  BY <1>1
<1>4. QED
  BY <1>1, <1>2, <1>3 DEF HttpInv, H!TypeOK, FineSoFar, H!OutagesAreRetryable, CameBy, UsedAt

LEMMA PaidFor == HttpInv => H!WorkIsPaidFor
<1> SUFFICES ASSUME HttpInv PROVE H!WorkIsPaidFor
  OBVIOUS
<1>1. request.route \in H!Route /\ at \in 1 .. Len(H!Stages) /\ at \in Int
      /\ DOMAIN H!Stages = 1 .. Len(H!Stages)
  BY StageAt DEF HttpInv, H!TypeOK, H!Requests
<1>2. ASSUME used # <<>>
      PROVE  /\ Guarded => request.edge
             /\ H!Limited => at > CHOOSE i \in DOMAIN H!Stages : H!Stages[i] = "limit"
             /\ request.route \in {"signIn", "read"} => request.valid
  <2>1. Guarded => request.edge
    BY <1>1, <1>2 DEF HttpInv, CameBy, UsedAt
  <2>2. request.route \in {"signIn", "read"} => request.valid
    BY <1>1, <1>2 DEF HttpInv, CameBy, UsedAt
  <2>3. ASSUME H!Limited PROVE at > CHOOSE i \in DOMAIN H!Stages : H!Stages[i] = "limit"
    <3>1. /\ 5 \in DOMAIN H!Stages /\ H!Stages[5] = "limit"
          /\ \A i \in DOMAIN H!Stages : H!Stages[i] = "limit" => i = 5
      BY <1>1, <2>3, StagesInOrder
    <3>2. (CHOOSE i \in DOMAIN H!Stages : H!Stages[i] = "limit") = 5
      BY <3>1
    <3>3. at > 5
      BY <1>1, <1>2, <2>3 DEF HttpInv, UsedAt
    <3>4. QED
      BY <3>2, <3>3
  <2>4. QED
    BY <2>1, <2>2, <2>3
<1>3. ASSUME status = 200, request.route \in {"logoutAll", "register", "me", "edit"}
      PROVE  request.token = "good"
  <2>1. H!Stages[at] = "handler"
    BY <1>1, <1>3, StagesInOrder DEF HttpInv, H!Stage
  <2>2. QED
    BY <1>1, <1>3, <2>1, StagesInOrder DEF HttpInv, CameBy
<1>4. QED
  BY <1>2, <1>3 DEF H!WorkIsPaidFor

Outcome == {"fine"} \cup DOMAIN H!Fault
Use == [needed : BOOLEAN, was : Outcome]

(* The uses so far, with one more.                                         *)
LEMMA OneMoreUse ==
  ASSUME used \in Seq(Use), NEW needed \in BOOLEAN, NEW f \in Outcome,
         H!Uses(needed, f)
  PROVE  /\ used' \in Seq(Use) /\ used' # <<>>
         /\ Len(used) \in Nat /\ DOMAIN used = 1 .. Len(used)
         /\ DOMAIN used' = 1 .. Len(used) + 1
         /\ \A i \in 1 .. Len(used) : used'[i] = used[i]
         /\ used'[Len(used) + 1] = [needed |-> needed, was |-> f]
<1> DEFINE use == [needed |-> needed, was |-> f]
<1>1. used' = Append(used, use) /\ use \in Use
  BY DEF H!Uses, Use
<1> HIDE DEF use
<1>2. QED
  <2>1. /\ used' \in Seq(Use) /\ Len(used') = Len(used) + 1 /\ Len(used) \in Nat
        /\ \A i \in 1 .. Len(used) : used'[i] = used[i]
        /\ used'[Len(used) + 1] = use
    BY <1>1, AppendProperties, LenProperties
  <2>2. DOMAIN used = 1 .. Len(used) /\ DOMAIN used' = 1 .. Len(used) + 1
    BY <2>1, LenProperties
  <2>3. QED
    BY <2>1, <2>2 DEF use

(* A use without which the request goes on, and so one that was fine, are  *)
(* as if nothing had failed.                                               *)
LEMMA StillFine ==
  ASSUME HttpInv, status = 0, NEW needed \in BOOLEAN, NEW f \in Outcome,
         H!Uses(needed, f), needed => f = "fine"
  PROVE  used' \in Seq(Use) /\ used' # <<>> /\ FineSoFar'
<1>1. used \in Seq(Use) /\ FineSoFar
  BY DEF HttpInv, H!TypeOK, Use, Outcome
<1>2. /\ used' \in Seq(Use) /\ used' # <<>>
      /\ Len(used) \in Nat /\ DOMAIN used = 1 .. Len(used)
      /\ DOMAIN used' = 1 .. Len(used) + 1
      /\ \A i \in 1 .. Len(used) : used'[i] = used[i]
      /\ used'[Len(used) + 1] = [needed |-> needed, was |-> f]
  BY <1>1, OneMoreUse
<1>3. FineSoFar'
  <2>1. SUFFICES ASSUME NEW i \in DOMAIN used', used'[i].needed
                 PROVE  used'[i].was = "fine"
    BY DEF FineSoFar
  <2>2. CASE i = Len(used) + 1
    BY <1>2, <2>1, <2>2
  <2>3. CASE i # Len(used) + 1
    <3>1. i \in DOMAIN used /\ used'[i] = used[i]
      BY <1>2, <2>1, <2>3
    <3>2. QED
      BY <1>1, <2>1, <3>1 DEF FineSoFar
  <2>4. QED
    BY <2>2, <2>3
<1>4. QED
  BY <1>2, <1>3

(* A stage that is passed: the next one is there, and what it let by.      *)
LEMMA PassKeeps ==
  ASSUME HttpInv, status = 0, H!Pass, request' = request,
         \/ used' = used
         \/ H!Uses(TRUE, "fine") /\ H!Stage = "requireAuth",
         H!Stage \notin {"handler", "ping", "health", "notFound"},
         H!Stage = "edgeGuard" /\ Guarded /\ request.route # "health" => request.edge,
         H!Stage = "validate" => request.valid,
         H!Stage = "requireAuth" => request.token = "good"
  PROVE  HttpInv'
<1>1. /\ request.route \in H!Route /\ at \in 1 .. Len(H!Stages) /\ at \in Int
      /\ at' = at + 1 /\ status' = 0 /\ H!Stages' = H!Stages
      /\ used \in Seq(Use)
  BY DEF HttpInv, H!TypeOK, H!Requests, H!Pass, H!Stages, Use, Outcome
<1>2. at + 1 \in 1 .. Len(H!Stages)
  BY <1>1, StagesInOrder DEF H!Stage
<1>3. used' \in Seq(Use) /\ FineSoFar'
  <2>1. CASE used' = used
    BY <1>1, <2>1 DEF HttpInv, FineSoFar
  <2>2. CASE H!Uses(TRUE, "fine")
    <3>1. "fine" \in Outcome
      BY DEF Outcome
    <3>2. QED
      BY <2>2, <3>1, StillFine
  <2>3. QED
    BY <2>1, <2>2
<1>4. H!TypeOK'
  BY <1>1, <1>2, <1>3 DEF HttpInv, H!TypeOK, Use, Outcome
<1>5. CameBy'
  <2>1. at = 2 => H!Stage = "edgeGuard"
    BY <1>1, StagesInOrder DEF H!Stage
  <2>2. at = 6 /\ request.route \in {"signIn", "read"} => H!Stage = "validate"
    BY <1>1, StagesInOrder DEF H!Stage
  <2>3. at = 5 /\ request.route \in {"me", "edit"} => H!Stage = "requireAuth"
    BY <1>1, StagesInOrder DEF H!Stage
  <2>4. at = 6 /\ request.route \in {"logoutAll", "register"} => H!Stage = "requireAuth"
    BY <1>1, StagesInOrder DEF H!Stage
  <2>5. QED
    BY <1>1, <2>1, <2>2, <2>3, <2>4 DEF HttpInv, CameBy
<1>6. UsedAt'
  <2>1. CASE used' = used
    <3>1. request.route \in {"signIn", "read"} /\ used # <<>> => FALSE
      <4>1. at = 7 => H!Stage = "handler" \/ request.route \notin {"signIn", "read"}
        BY <1>1, <1>2, StagesInOrder DEF H!Stage
      <4>2. QED
        BY <4>1 DEF HttpInv, UsedAt
    <3>2. QED
      BY <1>1, <2>1, <3>1 DEF HttpInv, UsedAt, H!Limited
  <2>2. CASE H!Stage = "requireAuth"
    <3>1. /\ at >= 5 /\ request.route \notin {"health", "none"}
          /\ H!Limited => at >= 6
          /\ request.route \in {"signIn", "read"} => at = 7
      BY <1>1, <2>2, StagesInOrder DEF H!Stage
    <3>2. request.route \notin {"signIn", "read"}
      BY <1>1, <1>2, <2>2, <3>1, StagesInOrder DEF H!Stage
    <3>3. QED
      BY <1>1, <3>1, <3>2 DEF UsedAt, H!Limited
  <2>3. QED
    BY <2>1, <2>2
<1>7. H!OutagesAreRetryable' /\ (status' = 200 => H!Stage' \in {"handler", "ping", "health"})
  BY <1>1 DEF H!OutagesAreRetryable
<1>8. QED
  BY <1>1, <1>3, <1>4, <1>5, <1>6, <1>7 DEF HttpInv

(* A request that goes on has met no fault in a use it needed.             *)
LEMMA NothingMet ==
  ASSUME HttpInv, status = 0
  PROVE  \A f \in DOMAIN H!Fault : ~ H!Met(f)
<1>1. "fine" \notin DOMAIN H!Fault
  BY DEF H!Fault
<1>2. SUFFICES ASSUME NEW f \in DOMAIN H!Fault, NEW i \in DOMAIN used,
                      used[i] = [needed |-> TRUE, was |-> f]
               PROVE  FALSE
  BY DEF H!Met
<1>3. used[i].was = "fine" /\ used[i].was = f
  BY <1>2 DEF HttpInv, FineSoFar
<1>4. QED
  BY <1>1, <1>3

(* A stage that answers without the database.                              *)
LEMMA RefusalKeeps ==
  ASSUME HttpInv, status = 0, UNCHANGED <<request, used>>,
         NEW code \in {200, 204, 400, 401, 403, 404, 413, 415, 429}, H!Answer(code),
         code = 200 => H!Stage = "health"
  PROVE  HttpInv'
<1>1. /\ H!Stages' = H!Stages /\ at' = at /\ H!Stage' = H!Stage /\ status' = code
      /\ request.route \in H!Route /\ code # 0
  BY DEF H!Stages, H!Stage, H!Answer, HttpInv, H!TypeOK, H!Requests
<1>2. H!TypeOK'
  BY <1>1 DEF HttpInv, H!TypeOK
<1>3. H!OutagesAreRetryable'
  BY <1>1, NothingMet DEF H!OutagesAreRetryable, H!Met
<1>4. CameBy' /\ UsedAt'
  BY <1>1 DEF HttpInv, CameBy, UsedAt, H!Limited
<1>5. QED
  BY <1>1, <1>2, <1>3, <1>4 DEF HttpInv

(* What is answered after a use the request needed.                        *)
AnswerOf(f) ==
  \/ /\ f = "fine" /\ status' \in {200, 401}
     /\ status' = 200 => H!Stage \in {"handler", "ping"}
  \/ /\ f \in DOMAIN H!Fault
     /\ status' = IF H!Stage = "ping" THEN 503 ELSE H!DbError(f)

(* A use whose outcome is the answer.                                      *)
LEMMA UseKeeps ==
  ASSUME HttpInv, status = 0, request' = request, at' = at,
         NEW f \in Outcome, H!Uses(TRUE, f),
         H!Stage \in {"requireAuth", "handler", "ping"},
         AnswerOf(f)
  PROVE  HttpInv'
<1> USE DEF AnswerOf
<1> DEFINE code == status'
<1>1. /\ H!Stages' = H!Stages /\ H!Stage' = H!Stage
      /\ code \in {200, 401, 500, 503}
      /\ request.route \in H!Route /\ used \in Seq(Use)
      /\ at \in 1 .. Len(H!Stages) /\ FineSoFar
  BY DEF H!Stages, H!Stage, HttpInv, H!TypeOK, H!Requests, Use, Outcome, H!DbError
<1>2. /\ "fine" \notin DOMAIN H!Fault
      /\ f \in DOMAIN H!Fault =>
           code = IF f \in H!Outages \/ request.route = "ping" THEN 503 ELSE 500
  <2>1. "fine" \notin DOMAIN H!Fault /\ (f \in DOMAIN H!Fault => f # "fine")
    BY DEF H!Fault
  <2>2. H!Stage = "ping" <=> request.route = "ping"
    BY <1>1, StagesInOrder DEF H!Stage
  <2>3. QED
    BY <2>1, <2>2, FaultStatus
<1>3. /\ used' \in Seq(Use) /\ used' # <<>>
      /\ Len(used) \in Nat /\ DOMAIN used = 1 .. Len(used)
      /\ DOMAIN used' = 1 .. Len(used) + 1
      /\ \A i \in 1 .. Len(used) : used'[i] = used[i]
      /\ used'[Len(used) + 1] = [needed |-> TRUE, was |-> f]
  BY <1>1, OneMoreUse
<1>4. code # 0 /\ H!TypeOK'
  BY <1>1, <1>3 DEF HttpInv, H!TypeOK, Use, Outcome
<1>5. H!OutagesAreRetryable'
  <2>1. ASSUME NEW g \in DOMAIN H!Fault, H!Met(g)' PROVE g = f
    <3>1. PICK i \in DOMAIN used' : used'[i] = [needed |-> TRUE, was |-> g]
      BY <2>1 DEF H!Met
    <3>2. CASE i = Len(used) + 1
      <4>1. used'[i].was = f /\ used'[i].was = g
        BY <1>3, <3>1, <3>2
      <4>2. QED
        BY <4>1
    <3>3. CASE i # Len(used) + 1
      <4>1. i \in 1 .. Len(used)
        BY <1>3, <3>1, <3>3
      <4>2. i \in DOMAIN used /\ used[i] = [needed |-> TRUE, was |-> g]
        BY <1>3, <3>1, <4>1
      <4>3. used[i].needed /\ used[i].was = g
        BY <4>2
      <4>4. used[i].was = "fine"
        BY <1>1, <4>2, <4>3 DEF FineSoFar
      <4>5. QED
        BY <1>2, <4>3, <4>4
    <3>4. QED
      BY <3>2, <3>3
  <2>2. ASSUME code \in {500, 503} PROVE f \in DOMAIN H!Fault /\ H!Met(f)'
    <3>1. f \in DOMAIN H!Fault
      BY <2>2 DEF Outcome
    <3>2. Len(used) + 1 \in DOMAIN used'
      BY <1>3
    <3>3. QED
      BY <1>3, <3>1, <3>2 DEF H!Met
  <2>3. \A g \in DOMAIN H!Fault : H!Met(g)' =>
          status' = IF g \in H!Outages \/ request'.route = "ping" THEN 503 ELSE 500
    BY <1>1, <1>2, <2>1
  <2>4. status' \in {500, 503} => \E g \in DOMAIN H!Fault : H!Met(g)'
    BY <1>1, <2>2
  <2>5. QED
    BY <2>3, <2>4 DEF H!OutagesAreRetryable
<1>6. UsedAt'
  <2>1. /\ at >= 5 /\ request.route \notin {"health", "none"}
        /\ H!Limited => at >= 6
        /\ request.route \in {"signIn", "read"} => at = 7
    BY <1>1, StagesInOrder DEF H!Stage
  <2>2. QED
    BY <1>1, <2>1 DEF UsedAt, H!Limited
<1>7. CameBy'
  BY <1>1 DEF HttpInv, CameBy
<1>8. status' = 200 => H!Stage' \in {"handler", "ping", "health"}
  <2>1. f \in DOMAIN H!Fault => code # 200
    BY <1>2
  <2>2. QED
    BY <1>1, <2>1
<1>9. QED
  BY <1>1, <1>4, <1>5, <1>6, <1>7, <1>8 DEF HttpInv

(* A handler that goes on after a use.                                     *)
LEMMA HandlerStays ==
  ASSUME HttpInv, status = 0, UNCHANGED <<request, at, status>>,
         H!Stage = "handler",
         NEW needed \in BOOLEAN, NEW f \in Outcome, H!Uses(needed, f),
         needed => f = "fine"
  PROVE  HttpInv'
<1>1. /\ H!Stages' = H!Stages /\ H!Stage' = H!Stage
      /\ request.route \in H!Route /\ at \in 1 .. Len(H!Stages)
  BY DEF H!Stages, H!Stage, HttpInv, H!TypeOK, H!Requests
<1>2. used' \in Seq(Use) /\ used' # <<>> /\ FineSoFar'
  BY StillFine
<1>3. H!TypeOK'
  BY <1>1, <1>2 DEF HttpInv, H!TypeOK, Use, Outcome
<1>4. /\ at >= 5 /\ request.route \notin {"health", "none"}
      /\ H!Limited => at >= 6
      /\ request.route \in {"signIn", "read"} => at = 7
  BY <1>1, StagesInOrder DEF H!Stage
<1>5. UsedAt' /\ CameBy'
  BY <1>1, <1>4 DEF HttpInv, UsedAt, CameBy, H!Limited
<1>6. H!OutagesAreRetryable'
  BY DEF H!OutagesAreRetryable
<1>7. QED
  BY <1>1, <1>2, <1>3, <1>5, <1>6 DEF HttpInv

LEMMA HttpKept == HttpInv /\ H!Next => HttpInv'
<1> SUFFICES ASSUME HttpInv, H!Next PROVE HttpInv'
  OBVIOUS
<1>1. CASE H!Passes
  <2>1. /\ status = 0 /\ UNCHANGED <<request, used>>
        /\ H!Stage \in {"cors", "edgeGuard", "json", "router", "validate"}
        /\ \/ H!Refusal[H!Stage] = 0 /\ H!Pass
           \/ H!Refusal[H!Stage] # 0 /\ H!Answer(H!Refusal[H!Stage])
    BY <1>1 DEF H!Passes, H!Refusal
  <2>2. CASE H!Refusal[H!Stage] = 0 /\ H!Pass
    <3>1. H!Stage = "edgeGuard" /\ Guarded /\ request.route # "health" => request.edge
      BY <2>2 DEF H!Refusal
    <3>2. H!Stage = "validate" => request.valid
      BY <2>2 DEF H!Refusal
    <3>3. QED
      BY <2>1, <2>2, <3>1, <3>2, PassKeeps
  <2>3. CASE H!Refusal[H!Stage] # 0 /\ H!Answer(H!Refusal[H!Stage])
    <3>1. PICK code : code = H!Refusal[H!Stage]
      OBVIOUS
    <3>2. code \in {204, 403, 400, 413, 415}
      BY <2>1, <2>3, <3>1 DEF H!Refusal
    <3>3. H!Answer(code)
      BY <2>3, <3>1
    <3>4. QED
      BY <2>1, <3>2, <3>3, RefusalKeeps
  <2>4. QED
    BY <2>1, <2>2, <2>3
<1>2. CASE H!IsLimited
  <2>1. CASE H!Pass
    BY <1>2, <2>1, PassKeeps DEF H!IsLimited
  <2>2. CASE H!Answer(429)
    BY <1>2, <2>2, RefusalKeeps DEF H!IsLimited
  <2>3. QED
    BY <1>2, <2>1, <2>2 DEF H!IsLimited
<1>3. CASE H!Unsigned
  BY <1>3, RefusalKeeps DEF H!Unsigned
<1>4. CASE H!ReadSession
  <2>1. /\ status = 0 /\ H!Stage = "requireAuth" /\ UNCHANGED request
    BY <1>4 DEF H!ReadSession
  <2>2. CASE H!Uses(TRUE, "fine") /\ request.token = "good" /\ H!Pass
    BY <2>1, <2>2, PassKeeps
  <2>3. CASE H!Uses(TRUE, "fine") /\ H!Answer(401)
    <3>1. "fine" \in Outcome /\ AnswerOf("fine") /\ at' = at
      BY <2>3 DEF Outcome, AnswerOf, H!Answer
    <3>2. QED
      BY <2>1, <2>3, <3>1, UseKeeps
  <2>4. ASSUME NEW f \in DOMAIN H!Fault, H!Uses(TRUE, f), H!Answer(H!DbError(f)) PROVE HttpInv'
    <3>1. f \in Outcome /\ AnswerOf(f) /\ at' = at
      BY <2>1, <2>4 DEF Outcome, AnswerOf, H!Answer
    <3>2. QED
      BY <2>1, <2>4, <3>1, UseKeeps
  <2>5. QED
    BY <1>4, <2>2, <2>3, <2>4 DEF H!ReadSession
<1>5. CASE H!Works
  <2>1. status = 0 /\ H!Stage = "handler" /\ UNCHANGED request
    BY <1>5 DEF H!Works
  <2>2. CASE H!Answer(200) /\ UNCHANGED used
    <3>1. /\ H!Stages' = H!Stages /\ at' = at /\ H!Stage' = H!Stage /\ status' = 200
      BY <2>1, <2>2 DEF H!Stages, H!Stage, H!Answer
    <3>2. H!TypeOK' /\ CameBy' /\ UsedAt'
      BY <2>1, <2>2, <3>1 DEF HttpInv, H!TypeOK, CameBy, UsedAt, H!Limited
    <3>3. H!OutagesAreRetryable'
      BY <2>1, <2>2, <3>1, NothingMet DEF H!OutagesAreRetryable, H!Met
    <3>4. QED
      BY <2>1, <3>1, <3>2, <3>3 DEF HttpInv
  <2>3. CASE H!Uses(TRUE, "fine") /\ UNCHANGED <<at, status>>
    <3>1. "fine" \in Outcome
      BY DEF Outcome
    <3>2. QED
      BY <2>1, <2>3, <3>1, HandlerStays
  <2>4. ASSUME NEW f \in Outcome, H!Uses(FALSE, f), UNCHANGED <<at, status>>
        PROVE  HttpInv'
    BY <2>1, <2>4, HandlerStays
  <2>5. ASSUME NEW f \in DOMAIN H!Fault, H!Uses(TRUE, f), H!Answer(H!DbError(f))
        PROVE  HttpInv'
    <3>1. f \in Outcome /\ AnswerOf(f) /\ at' = at
      BY <2>1, <2>5 DEF Outcome, AnswerOf, H!Answer
    <3>2. QED
      BY <2>1, <2>5, <3>1, UseKeeps
  <2>6. QED
    BY <1>5, <2>2, <2>3, <2>4, <2>5 DEF H!Works, Outcome
<1>6. CASE H!NeedsNothing
  <2>1. CASE H!Stage = "health" /\ H!Answer(200)
    BY <1>6, <2>1, RefusalKeeps DEF H!NeedsNothing
  <2>2. CASE H!Stage # "health" /\ H!Answer(404)
    BY <1>6, <2>2, RefusalKeeps DEF H!NeedsNothing
  <2>3. QED
    BY <1>6, <2>1, <2>2 DEF H!NeedsNothing
<1>7. CASE H!Pings
  <2>1. status = 0 /\ H!Stage = "ping" /\ UNCHANGED request
    BY <1>7 DEF H!Pings
  <2>2. CASE H!Uses(TRUE, "fine") /\ H!Answer(200)
    <3>1. "fine" \in Outcome /\ AnswerOf("fine") /\ at' = at
      BY <2>1, <2>2 DEF Outcome, AnswerOf, H!Answer
    <3>2. QED
      BY <2>1, <2>2, <3>1, UseKeeps
  <2>3. ASSUME NEW f \in DOMAIN H!Fault, H!Uses(TRUE, f), H!Answer(503)
        PROVE  HttpInv'
    <3>1. f \in Outcome /\ AnswerOf(f) /\ at' = at
      BY <2>1, <2>3 DEF Outcome, AnswerOf, H!Answer
    <3>2. QED
      BY <2>1, <2>3, <3>1, UseKeeps
  <2>4. QED
    BY <1>7, <2>2, <2>3 DEF H!Pings
<1>8. CASE H!Answered
  <2>1. H!Stages' = H!Stages /\ H!Stage' = H!Stage
    BY <1>8 DEF H!Answered, H!vars, H!Stages, H!Stage
  <2>2. QED
    BY <1>8, <2>1 DEF H!Answered, H!vars, HttpInv, H!TypeOK, FineSoFar, H!OutagesAreRetryable,
       H!Met, CameBy, UsedAt, H!Limited
<1>9. QED
  BY <1>1, <1>2, <1>3, <1>4, <1>5, <1>6, <1>7, <1>8 DEF H!Next

-----------------------------------------------------------------------------
(* The pages of an explorer's logs. What is kept are all logs before the   *)
(* block the next call starts from; a page that isn't full is the rest of  *)
(* them, and a full one has all before its last block.                     *)
LEMMA LeastOf ==
  ASSUME NEW T \in SUBSET Nat, T # {}
  PROVE  \E m \in T : \A n \in T : m <= n
<1>1. PICK m \in T : \A n \in T : ~ (<<n, m>> \in OpToRel(<, Nat))
  BY NatLessThanWellFounded, WFMin
<1>2. \A n \in T : ~ (n < m)
  BY <1>1 DEF OpToRel
<1> QED
  BY <1>2

LEMMA GreatestOf ==
  ASSUME NEW N \in Nat, NEW T \in SUBSET (0 .. N), T # {}
  PROVE  L!Max(T) \in T /\ \A n \in T : n <= L!Max(T)
<1>1. PICK U : U = {n \in Nat : N - n \in T}
  OBVIOUS
<1>2. U \in SUBSET Nat /\ U # {}
  <2>1. PICK n \in T : n \in 0 .. N
    OBVIOUS
  <2>2. N - n \in Nat /\ N - (N - n) = n
    BY <2>1
  <2> QED
    BY <1>1, <2>1, <2>2
<1>3. PICK m \in U : \A n \in U : m <= n
  BY <1>2, LeastOf
<1>4. PICK t \in T : t = N - m /\ m \in Nat /\ t \in Nat
  BY <1>1, <1>3
<1>5. ASSUME NEW n \in T PROVE t >= n
  <2>1. N - n \in Nat /\ N - (N - n) = n /\ n \in Nat
    OBVIOUS
  <2>2. N - n \in U
    BY <1>1, <2>1
  <2>3. m <= N - n
    BY <1>3, <2>2
  <2> QED
    BY <1>4, <2>1, <2>3
<1>6. PICK x : x = L!Max(T)
  OBVIOUS
<1>7. x \in T /\ \A n \in T : x >= n
  BY <1>5, <1>6 DEF L!Max
<1> QED
  BY <1>6, <1>7

LEMMA PageNumbers ==
  /\ Page \in Nat \ {0} /\ MaxPages \in Nat \ {0} /\ MaxBlock \in Nat \ {0}
  /\ MaxLogs \in Nat /\ L!Block = 1 .. MaxBlock
BY ApiConstants DEF L!PageConstants, L!Block

LEMMA SameCardinality == \A T : L!Cardinality(T) = Cardinality(T)
BY Zenon DEF L!Cardinality, Cardinality

LEMMA LogsAre ==
  ASSUME NEW l \in L!Log
  PROVE  /\ l = <<l[1], l[2]>> /\ l[1] \in L!Block /\ l[2] \in 1 .. MaxLogs
         /\ l[1] \in Nat /\ l[2] \in Nat
BY PageNumbers DEF L!Log

LEMMA LogsFinite ==
  ASSUME NEW T, T \subseteq L!Log
  PROVE  IsFiniteSet(T) /\ Cardinality(T) \in Nat
<1>1. IsFiniteSet(L!Block) /\ IsFiniteSet(1 .. MaxLogs)
  BY PageNumbers, FS_Interval
<1>2. IsFiniteSet(L!Log)
  BY <1>1, FS_Product DEF L!Log
<1> QED
  BY <1>2, FS_Subset, FS_CardinalityType

LEMMA OldestOf ==
  ASSUME NEW T, T \subseteq L!Log, T # {}
  PROVE  \E l \in T : \A k \in T : ~ L!Before(k, l)
<1>1. PICK B : B = {l[1] : l \in T}
  OBVIOUS
<1>2. B \in SUBSET Nat /\ B # {}
  BY <1>1, LogsAre
<1>3. PICK b \in B : \A n \in B : b <= n
  BY <1>2, LeastOf
<1>4. PICK J : J = {j \in Nat : <<b, j>> \in T}
  OBVIOUS
<1>5. J \in SUBSET Nat /\ J # {}
  <2>1. PICK l \in T : l[1] = b
    BY <1>1, <1>3
  <2>2. l[2] \in J
    BY <1>4, <2>1, LogsAre
  <2> QED
    BY <1>4, <2>2
<1>6. PICK j \in J : \A n \in J : j <= n
  BY <1>5, LeastOf
<1>7. PICK l \in T : l = <<b, j>>
  BY <1>4, <1>6
<1>8. ASSUME NEW k \in T, L!Before(k, l) PROVE FALSE
  <2>1. k = <<k[1], k[2]>> /\ k[1] \in Nat /\ k[2] \in Nat /\ b \in Nat /\ j \in Nat
    BY <1>2, <1>3, <1>5, <1>6, LogsAre
  <2>2. b <= k[1]
    BY <1>1, <1>3
  <2>3. k[1] = b /\ k[2] < j
    BY <1>7, <1>8, <2>1, <2>2 DEF L!Before
  <2>4. k[2] \in J
    BY <1>4, <2>1, <2>3
  <2> QED
    BY <1>6, <2>1, <2>3, <2>4
<1> QED
  BY <1>8

(* An answer is the oldest logs: what is before one of them is one, and if *)
(* it isn't full it is all of them.                                        *)
LEMMA AnswerIs ==
  ASSUME NEW f
  PROVE  /\ L!Logs(f) \subseteq L!Log /\ L!Answer(f) \subseteq L!Logs(f)
         /\ IsFiniteSet(L!Logs(f)) /\ IsFiniteSet(L!Answer(f))
         /\ Cardinality(L!Answer(f)) \in Nat
<1>1. L!Logs(f) \subseteq L!Log /\ L!Answer(f) \subseteq L!Logs(f)
  BY DEF L!Logs, L!Answer
<1> QED
  BY <1>1, LogsFinite

LEMMA BeforeIsTransitive ==
  ASSUME NEW i \in L!Log, NEW j \in L!Log, NEW k \in L!Log,
         L!Before(i, j), L!Before(j, k)
  PROVE  L!Before(i, k)
BY LogsAre DEF L!Before

LEMMA AnswerIsOldest ==
  ASSUME NEW f, NEW l \in L!Answer(f), NEW k \in L!Logs(f), L!Before(k, l)
  PROVE  k \in L!Answer(f)
<1>1. PICK T : T = {j \in L!Logs(f) : L!Before(j, l)}
  OBVIOUS
<1>2. PICK U : U = {j \in L!Logs(f) : L!Before(j, k)}
  OBVIOUS
<1>3. U \subseteq T /\ T \subseteq L!Log
  BY <1>1, <1>2, AnswerIs, BeforeIsTransitive
<1>4. IsFiniteSet(T) /\ Cardinality(T) \in Nat /\ Cardinality(T) < Page
  BY <1>1, <1>3, LogsFinite, SameCardinality DEF L!Answer
<1>5. Cardinality(U) <= Cardinality(T) /\ Cardinality(U) \in Nat
  BY <1>3, <1>4, FS_Subset, FS_CardinalityType
<1>6. Cardinality(U) < Page
  BY <1>4, <1>5, PageNumbers
<1> QED
  BY <1>2, <1>6, SameCardinality DEF L!Answer

LEMMA NotFullIsRest ==
  ASSUME NEW f, L!NotFull(L!Answer(f))
  PROVE  L!Answer(f) = L!Logs(f)
<1>1. PICK M : M = L!Logs(f) \ L!Answer(f)
  OBVIOUS
<1>2. ASSUME M # {} PROVE FALSE
  <2>1. PICK l \in M : \A k \in M : ~ L!Before(k, l)
    BY <1>1, <1>2, AnswerIs, OldestOf
  <2>2. PICK T : T = {k \in L!Logs(f) : L!Before(k, l)}
    OBVIOUS
  <2>3. T \subseteq L!Answer(f)
    BY <1>1, <2>1, <2>2
  <2>4. Cardinality(T) <= Cardinality(L!Answer(f)) /\ Cardinality(T) \in Nat
    BY <2>3, AnswerIs, FS_Subset, FS_CardinalityType
  <2>5. Cardinality(T) < Page
    BY <2>4, AnswerIs, PageNumbers, SameCardinality DEF L!NotFull
  <2>6. l \in L!Answer(f)
    BY <1>1, <2>1, <2>2, <2>5, SameCardinality DEF L!Answer
  <2> QED
    BY <1>1, <2>1, <2>6
<1> QED
  BY <1>1, <1>2, AnswerIs

LEMMA LogsOfBlock ==
  ASSUME count \in [L!Block -> 0 .. MaxLogs], NEW b \in L!Block,
         NEW T, T \subseteq L!Logs(1), \A l \in T : l[1] = b
  PROVE  /\ IsFiniteSet(T) /\ Cardinality(T) \in Nat
         /\ Cardinality(T) <= count[b] /\ count[b] \in Nat
<1>1. T \subseteq L!Log
  BY DEF L!Logs
<1>2. count[b] \in Nat
  BY PageNumbers
<1>3. PICK n \in Nat : n = count[b]
  BY <1>2
<1>4. T \subseteq {b} \X (1 .. n)
  <2>1. ASSUME NEW l \in T PROVE l \in {b} \X (1 .. n)
    <3>1. l = <<l[1], l[2]>> /\ l[1] = b /\ l[2] \in Nat /\ l[2] \in 1 .. MaxLogs
          /\ l[2] <= n
      BY <1>1, <1>3, LogsAre DEF L!Logs
    <3> QED
      BY <3>1, PageNumbers
  <2> QED
    BY <2>1
<1>5. IsFiniteSet({b}) /\ Cardinality({b}) = 1
  BY FS_Singleton
<1>6. IsFiniteSet(1 .. n) /\ Cardinality(1 .. n) = n
  BY FS_Interval
<1>7. /\ IsFiniteSet({b} \X (1 .. n))
      /\ Cardinality({b} \X (1 .. n)) = Cardinality({b}) * Cardinality(1 .. n)
  BY <1>5, <1>6, FS_Product
<1>8. Cardinality({b} \X (1 .. n)) = n
  BY <1>5, <1>6, <1>7
<1>9. Cardinality(T) <= n
  BY <1>4, <1>7, <1>8, FS_Subset
<1> QED
  BY <1>1, <1>2, <1>3, <1>9, LogsFinite

LEMMA FullPageHas ==
  ASSUME count \in [L!Block -> 0 .. MaxLogs], start \in L!Block,
         ~ L!NotFull(L!Answer(start)), NEW z, z = L!LastBlock(L!Answer(start)),
         NEW K, K = L!KeepWholeBlocks(L!Answer(start))
  PROVE  /\ z \in L!Block /\ start <= z /\ count[z] \in Nat /\ count[z] > 0
         /\ K = {l \in L!Logs(start) : l[1] < z}
         /\ IsFiniteSet(K) /\ Cardinality(K) \in Nat /\ Cardinality(K) >= Page - count[z]
<1>1. PICK a : a = L!Answer(start)
  OBVIOUS
<1>2. /\ a \subseteq L!Logs(start) /\ L!Logs(start) \subseteq L!Log /\ IsFiniteSet(a)
      /\ Cardinality(a) \in Nat /\ Cardinality(a) >= Page /\ start \in Nat /\ start >= 1
  BY <1>1, AnswerIs, PageNumbers, SameCardinality DEF L!NotFull
<1>3. a # {}
  BY <1>2, PageNumbers, FS_EmptySet
<1>4. PICK B : B = {l[1] : l \in a}
  OBVIOUS
<1>5. B \in SUBSET (0 .. MaxBlock) /\ B # {}
  BY <1>2, <1>3, <1>4, LogsAre, PageNumbers
<1>6. z = L!Max(B)
  BY <1>1, <1>4 DEF L!LastBlock
<1>7. z \in B /\ \A n \in B : n <= z
  BY <1>5, <1>6, PageNumbers, GreatestOf
<1>8. PICK x \in a : x[1] = z
  BY <1>4, <1>7
<1>9. /\ x \in L!Log /\ x[1] >= start /\ x[2] <= count[x[1]] /\ x[1] \in L!Block
      /\ x[2] \in 1 .. MaxLogs
  BY <1>2, <1>8, LogsAre DEF L!Logs
<1>10. z \in L!Block /\ z \in Nat /\ start <= z /\ count[z] \in Nat /\ count[z] > 0
  BY <1>8, <1>9, PageNumbers
<1>11. K = {l \in a : l[1] < z}
  BY <1>1 DEF L!KeepWholeBlocks
<1>12. K = {l \in L!Logs(start) : l[1] < z}
  <2>1. ASSUME NEW l \in L!Logs(start), l[1] < z PROVE l \in a
    <3>1. L!Before(l, x)
      BY <1>8, <2>1 DEF L!Before
    <3> QED
      BY <1>1, <1>8, <3>1, AnswerIsOldest
  <2> QED
    BY <1>2, <1>11, <2>1
<1>13. PICK Z : Z = {l \in a : l[1] = z}
  OBVIOUS
<1>14. L!Logs(start) \subseteq L!Logs(1)
  <2>1. \A l \in L!Log : l[1] >= start => l[1] >= 1
    BY <1>2, LogsAre
  <2> QED
    BY <2>1 DEF L!Logs
<1>15. IsFiniteSet(Z) /\ Cardinality(Z) \in Nat /\ Cardinality(Z) <= count[z]
  BY <1>2, <1>10, <1>13, <1>14, LogsOfBlock
<1>16. IsFiniteSet(K) /\ Cardinality(K) \in Nat
  BY <1>2, <1>11, FS_Subset, FS_CardinalityType
<1>17. a = K \cup Z /\ K \cap Z = {}
  <2>1. \A l \in a : l[1] \in Nat /\ l[1] <= z
    BY <1>2, <1>4, <1>7, LogsAre
  <2>2. \A l \in a : l[1] < z \/ l[1] = z
    BY <1>10, <2>1
  <2>3. \A l \in a : ~ (l[1] < z /\ l[1] = z)
    BY <1>10
  <2> QED
    BY <1>11, <1>13, <2>2, <2>3
<1>18. Cardinality(a) = Cardinality(K) + Cardinality(Z) - Cardinality(K \cap Z)
  BY <1>15, <1>16, <1>17, FS_Union
<1>19. Cardinality(K \cap Z) = 0
  BY <1>17, FS_EmptySet
<1>20. Cardinality(K) >= Page - count[z]
  BY <1>2, <1>10, <1>15, <1>16, <1>18, <1>19, PageNumbers
<1> QED
  BY <1>10, <1>12, <1>16, <1>20

Most == L!Max({count[b] : b \in L!Block})

PageInv ==
  /\ L!TypeOK
  /\ state # "done" => out = {l \in L!Logs(1) : l[1] < start}
  /\ state = "done" => out = L!Logs(1)
  /\ state = "fullBlock" => \E b \in L!Block : count[b] >= Page
  /\ state \in {"reading", "tooManyPages"} =>
       /\ page > 0 => count[start] > 0
       /\ Cardinality(out) >= page * (Page - Most)
  /\ state = "tooManyPages" => page = MaxPages

LEMMA MostIs ==
  ASSUME count \in [L!Block -> 0 .. MaxLogs]
  PROVE  Most \in Nat /\ \A b \in L!Block : count[b] \in Nat /\ count[b] <= Most
<1>1. PICK C : C = {count[b] : b \in L!Block}
  OBVIOUS
<1>2. 1 \in L!Block
  BY PageNumbers
<1>3. C \in SUBSET (0 .. MaxLogs) /\ C # {}
  BY <1>1, <1>2
<1>4. L!Max(C) \in C /\ \A n \in C : n <= L!Max(C)
  BY <1>3, PageNumbers, GreatestOf
<1>5. \A b \in L!Block : count[b] \in C
  BY <1>1
<1>6. Most = L!Max(C)
  BY <1>1 DEF Most
<1>7. \A n \in C : n \in Nat
  BY <1>3, PageNumbers
<1> QED
  BY <1>4, <1>5, <1>6, <1>7

LEMMA PageInit == L!Init => PageInv
<1> SUFFICES ASSUME L!Init PROVE PageInv
  OBVIOUS
<1>1. /\ count \in [L!Block -> 0 .. MaxLogs] /\ start = 1 /\ out = {} /\ page = 0
      /\ state = "reading"
  BY DEF L!Init
<1>2. {l \in L!Logs(1) : l[1] < start} = {}
  BY <1>1, LogsAre DEF L!Logs
<1>3. L!TypeOK
  BY <1>1, PageNumbers DEF L!TypeOK
<1>4. Cardinality(out) = 0 /\ Most \in Nat
  BY <1>1, FS_EmptySet, MostIs
<1>5. page * (Page - Most) = 0
  BY <1>1, <1>4, PageNumbers
<1> QED
  BY <1>1, <1>2, <1>3, <1>4, <1>5 DEF PageInv

LEMMA PageRest ==
  ASSUME count' = count
  PROVE  L!Logs(1)' = L!Logs(1) /\ Most' = Most
BY Zenon DEF L!Logs, Most

LEMMA PageStays ==
  ASSUME PageInv, UNCHANGED <<count, start, out, page, state>>
  PROVE  PageInv'
<1>1. L!Logs(1)' = L!Logs(1) /\ Most' = Most
  BY PageRest
<1> QED
  BY <1>1 DEF PageInv, L!TypeOK

LEMMA LastPageKeeps ==
  ASSUME PageInv, L!LastPage
  PROVE  PageInv'
<1>1. /\ state = "reading" /\ page < MaxPages /\ L!NotFull(L!Answer(start))
      /\ out' = out \cup L!Answer(start) /\ state' = "done" /\ page' = page + 1
      /\ count' = count /\ start' = start
  BY DEF L!LastPage
<1>2. L!Logs(1)' = L!Logs(1) /\ Most' = Most
  BY <1>1, PageRest
<1>3. L!TypeOK /\ out = {l \in L!Logs(1) : l[1] < start}
  BY <1>1 DEF PageInv
<1>4. L!Answer(start) = L!Logs(start)
  BY <1>1, NotFullIsRest
<1>5. start \in Nat /\ start >= 1 /\ page \in Nat
  BY <1>3, PageNumbers DEF L!TypeOK
<1>6. L!Logs(start) = {l \in L!Logs(1) : l[1] >= start}
  BY <1>5, LogsAre DEF L!Logs
<1>7. \A l \in L!Logs(1) : l[1] \in Nat
  BY AnswerIs, LogsAre
<1>8. out' = L!Logs(1)
  BY <1>1, <1>3, <1>4, <1>5, <1>6, <1>7
<1>9. page' \in 0 .. MaxPages
  BY <1>1, <1>5, PageNumbers
<1>10. L!TypeOK'
  BY <1>1, <1>2, <1>3, <1>8, <1>9 DEF L!TypeOK
<1> QED
  BY <1>1, <1>2, <1>8, <1>10 DEF PageInv

LEMMA FullPageKeeps ==
  ASSUME PageInv, L!FullPage
  PROVE  PageInv'
<1>1. PICK z : z = L!LastBlock(L!Answer(start))
  OBVIOUS
<1>2. PICK K : K = L!KeepWholeBlocks(L!Answer(start))
  OBVIOUS
<1>3. /\ state = "reading" /\ page < MaxPages /\ ~ L!NotFull(L!Answer(start))
      /\ page' = page + 1 /\ count' = count
      /\ IF z <= start
         THEN state' = "fullBlock" /\ start' = start /\ out' = out
         ELSE out' = out \cup K /\ start' = z /\ state' = state
  BY <1>1, <1>2 DEF L!FullPage, L!Stuck, L!FromLast
<1>4. L!Logs(1)' = L!Logs(1) /\ Most' = Most
  BY <1>3, PageRest
<1>5. /\ L!TypeOK /\ out = {l \in L!Logs(1) : l[1] < start}
      /\ page > 0 => count[start] > 0
      /\ Cardinality(out) >= page * (Page - Most)
  BY <1>3 DEF PageInv
<1>6. /\ count \in [L!Block -> 0 .. MaxLogs] /\ start \in L!Block
      /\ start \in Nat /\ start >= 1 /\ page \in Nat
  BY <1>5, PageNumbers DEF L!TypeOK
<1>7. /\ z \in L!Block /\ start <= z /\ count[z] \in Nat /\ count[z] > 0
      /\ K = {l \in L!Logs(start) : l[1] < z}
      /\ IsFiniteSet(K) /\ Cardinality(K) \in Nat /\ Cardinality(K) >= Page - count[z]
  BY <1>1, <1>2, <1>3, <1>6, FullPageHas
<1>8. z \in Nat /\ page' \in 0 .. MaxPages
  BY <1>3, <1>6, <1>7, PageNumbers
<1>9. \A l \in L!Logs(1) : l[1] \in Nat
  BY AnswerIs, LogsAre
<1>10. L!Logs(start) = {l \in L!Logs(1) : l[1] >= start}
  BY <1>6, LogsAre DEF L!Logs
<1>11. CASE z <= start
  <2>1. z = start /\ state' = "fullBlock" /\ start' = start /\ out' = out
    BY <1>3, <1>6, <1>7, <1>8, <1>11
  <2>2. K = {}
    BY <1>7, <1>8, <1>9, <1>10, <2>1
  <2>3. Cardinality(K) = 0
    BY <2>2, FS_EmptySet
  <2>4. count[z] >= Page
    BY <1>7, <2>3, PageNumbers
  <2>5. \E b \in L!Block : count[b] >= Page
    BY <1>7, <2>4
  <2>6. L!TypeOK'
    BY <1>3, <1>4, <1>5, <1>8, <2>1 DEF L!TypeOK
  <2> QED
    BY <1>3, <1>4, <1>5, <2>1, <2>5, <2>6 DEF PageInv
<1>12. CASE ~ (z <= start)
  <2>1. out' = out \cup K /\ start' = z /\ state' = "reading" /\ start < z
    BY <1>3, <1>6, <1>8, <1>12
  <2>2. out' = {l \in L!Logs(1) : l[1] < z}
    BY <1>5, <1>6, <1>7, <1>8, <1>9, <1>10, <2>1
  <2>3. out \cap K = {}
    BY <1>5, <1>6, <1>7, <1>9, <1>10
  <2>4. IsFiniteSet(out) /\ Cardinality(out) \in Nat
    BY <1>5, AnswerIs, FS_Subset, FS_CardinalityType
  <2>5. Cardinality(out \cup K) = Cardinality(out) + Cardinality(K) - Cardinality(out \cap K)
    BY <1>7, <2>4, FS_Union
  <2>6. Cardinality(out \cap K) = 0
    BY <2>3, FS_EmptySet
  <2>7. Cardinality(out') = Cardinality(out) + Cardinality(K)
    BY <1>7, <2>1, <2>4, <2>5, <2>6
  <2>8. Most \in Nat /\ count[z] <= Most
    BY <1>6, <1>7, MostIs
  <2>9. (page + 1) * (Page - Most) = page * (Page - Most) + (Page - Most)
    BY <1>6, <2>8, PageNumbers
  <2>10. PICK p \in Int : p = page * (Page - Most)
    BY <1>6, <2>8, PageNumbers
  <2>11. Cardinality(out') >= (page + 1) * (Page - Most)
    BY <1>5, <1>7, <2>4, <2>7, <2>8, <2>9, <2>10, PageNumbers
  <2>12. L!TypeOK'
    BY <1>3, <1>4, <1>5, <1>7, <1>8, <2>1, <2>2 DEF L!TypeOK
  <2> QED
    BY <1>3, <1>4, <1>7, <2>1, <2>2, <2>11, <2>12 DEF PageInv
<1> QED
  BY <1>11, <1>12

LEMMA PageKept ==
  ASSUME PageInv, L!Next
  PROVE  PageInv'
<1>1. CASE L!LastPage
  BY <1>1, LastPageKeeps
<1>2. CASE L!FullPage
  BY <1>2, FullPageKeeps
<1>3. CASE L!TooManyPages \/ L!Fails
  <2>1. /\ state = "reading" /\ count' = count /\ start' = start /\ out' = out
        /\ page' = page /\ state' \in {"tooManyPages", "failed"}
        /\ state' = "tooManyPages" => page = MaxPages
    BY <1>3 DEF L!TooManyPages, L!Fails
  <2>2. L!Logs(1)' = L!Logs(1) /\ Most' = Most
    BY <2>1, PageRest
  <2> QED
    BY <2>1, <2>2 DEF PageInv, L!TypeOK
<1>4. CASE L!Ended
  BY <1>4, PageStays DEF L!Ended, L!vars
<1> QED
  BY <1>1, <1>2, <1>3, <1>4 DEF L!Next

LEMMA PageShows ==
  ASSUME PageInv
  PROVE  L!TypeOK /\ L!EveryLog /\ L!GivesUpOnlyThen
<1>1. L!TypeOK /\ L!EveryLog
  BY DEF PageInv, L!EveryLog
<1>2. ASSUME state = "tooManyPages"
      PROVE  L!Cardinality(L!Logs(1)) > MaxPages * (Page - L!Max({count[b] : b \in L!Block}))
  <2>1. /\ page = MaxPages /\ count[start] > 0
        /\ out = {l \in L!Logs(1) : l[1] < start}
        /\ Cardinality(out) >= MaxPages * (Page - Most)
    BY <1>2, PageNumbers DEF PageInv
  <2>2. start \in L!Block /\ count \in [L!Block -> 0 .. MaxLogs] /\ start \in Nat
    BY <1>1, PageNumbers DEF L!TypeOK
  <2>3. PICK x : x = <<start, 1>>
    OBVIOUS
  <2>4. x \in L!Log /\ x[1] = start /\ x[2] = 1
    BY <2>1, <2>2, <2>3, PageNumbers DEF L!Log
  <2>5. x \in L!Logs(1)
    BY <2>1, <2>2, <2>4, PageNumbers DEF L!Logs
  <2>6. x \notin out
    BY <2>1, <2>2, <2>4
  <2>7. IsFiniteSet(out) /\ Cardinality(out) \in Nat
    BY <2>1, AnswerIs, FS_Subset, FS_CardinalityType
  <2>8. IsFiniteSet(out \cup {x}) /\ Cardinality(out \cup {x}) = Cardinality(out) + 1
    BY <2>6, <2>7, FS_AddElement
  <2>9. Cardinality(out \cup {x}) <= Cardinality(L!Logs(1)) /\ Cardinality(L!Logs(1)) \in Nat
    BY <2>1, <2>5, AnswerIs, FS_Subset, FS_CardinalityType
  <2>10. Most \in Nat
    BY <2>2, MostIs
  <2>11. PICK p \in Int : p = MaxPages * (Page - Most)
    BY <2>10, PageNumbers
  <2>12. Cardinality(L!Logs(1)) > MaxPages * (Page - Most)
    BY <2>1, <2>7, <2>8, <2>9, <2>11
  <2> QED
    BY <2>12, SameCardinality DEF Most
<1> QED
  BY <1>1, <1>2 DEF PageInv, L!GivesUpOnlyThen

-----------------------------------------------------------------------------
(* Rate limits: whatever was let through and what its bucket still holds   *)
(* come out of the burst and of what was refilled meanwhile.               *)

(* Who asks with several addresses is one client: its addresses are of one *)
(* /64, or one IPv4 address however it is written.                         *)
OneClientEach ==
  \A v \in I!Asker : \A w \in I!Asker :
    v.who = w.who => I!ClientKey(v.ip) = I!ClientKey(w.ip)

BucketHolds(b) ==
  b = I!None \/ (b \in [tokens : 0 .. I!Full, updated : I!Time] /\ b.updated <= now)

BudgetHolds(v, t) ==
  I!Admitted(v.who, t, now) * Unit + I!Refilled(buckets[I!ClientKey(v.ip)], now)
    <= I!Full + (now - t)

RateInv ==
  /\ I!TypeOK
  /\ buckets = [k \in I!Key |-> buckets[k]]
  /\ \A k \in I!Key : BucketHolds(buckets[k])
  /\ OneClientEach => \A v \in I!Asker : \A t \in 0 .. now : BudgetHolds(v, t)

LEMMA DivisionIs ==
  ASSUME NEW n \in Nat, NEW d \in Nat \ {0}
  PROVE  n \div d \in Nat /\ (n \div d) * d <= n /\ n < (n \div d) * d + d
OBVIOUS

LEMMA LimitNumbers ==
  /\ Limit \in Nat \ {0} /\ Unit \in Nat \ {0} /\ Second \in Nat \ {0}
  /\ MaxTime \in Nat /\ I!Time = 0 .. MaxTime
  /\ I!Full \in Nat /\ I!Full >= Unit
  /\ I!None = [tokens |-> I!Full, updated |-> -1]
<1>1. /\ Limit \in Nat \ {0} /\ Unit \in Nat \ {0} /\ Second \in Nat \ {0}
      /\ MaxTime \in Nat
  BY ApiConstants DEF I!RateLimitConstants
<1>2. Limit * Unit \in Nat /\ Limit * Unit >= Unit
  BY <1>1
<1> QED
  BY <1>1, <1>2 DEF I!Time, I!Full, I!None

(* A bucket refills one for one with time, up to the burst.                *)
LEMMA RefilledIs ==
  ASSUME NEW b, NEW m \in Nat, b = I!None \/ b \in [tokens : 0 .. I!Full, updated : 0 .. m]
  PROVE  /\ I!Refilled(b, m) \in 0 .. I!Full
         /\ \A n \in Nat :
              I!Refilled(b, m + n) = I!Lesser(I!Full, I!Refilled(b, m) + n)
<1>1. CASE b = I!None
  BY <1>1, LimitNumbers DEF I!Refilled, I!Lesser
<1>2. CASE b # I!None
  <2>1. b.tokens \in 0 .. I!Full /\ b.updated \in 0 .. m
    BY <1>2
  <2>2. \A n \in Nat : I!Refilled(b, m + n) = I!Lesser(I!Full, b.tokens + ((m + n) - b.updated))
    BY <1>2, LimitNumbers DEF I!Refilled
  <2>3. I!Refilled(b, m) = I!Lesser(I!Full, b.tokens + (m - b.updated))
    BY <1>2, LimitNumbers DEF I!Refilled
  <2>4. PICK f \in Nat : f = I!Full
    BY LimitNumbers
  <2>5. PICK t \in 0 .. f : t = b.tokens
    BY <2>1, <2>4
  <2>6. PICK d \in Nat : d = m - b.updated
    BY <2>1
  <2>7. I!Refilled(b, m) = (IF f < t + d THEN f ELSE t + d)
    BY <2>3, <2>4, <2>5, <2>6 DEF I!Lesser
  <2>8. I!Refilled(b, m) \in 0 .. I!Full
    BY <2>4, <2>5, <2>6, <2>7
  <2>9. ASSUME NEW n \in Nat
        PROVE  I!Refilled(b, m + n) = I!Lesser(I!Full, I!Refilled(b, m) + n)
    <3>1. (m + n) - b.updated = d + n
      BY <2>1, <2>6
    <3>2. I!Refilled(b, m + n) = (IF f < t + (d + n) THEN f ELSE t + (d + n))
      BY <2>2, <2>4, <2>5, <3>1 DEF I!Lesser
    <3>3. I!Lesser(I!Full, I!Refilled(b, m) + n)
          = (IF f < (IF f < t + d THEN f ELSE t + d) + n THEN f
             ELSE (IF f < t + d THEN f ELSE t + d) + n)
      BY <2>4, <2>7 DEF I!Lesser
    <3>4. QED
      BY <3>2, <3>3
  <2>10. QED
    BY <2>8, <2>9
<1> QED
  BY <1>1, <1>2

LEMMA BucketIs ==
  ASSUME RateInv, NEW k \in I!Key
  PROVE  /\ now \in Nat /\ BucketHolds(buckets[k])
         /\ buckets[k] = I!None \/ buckets[k] \in [tokens : 0 .. I!Full, updated : 0 .. now]
         /\ I!Refilled(buckets[k], now) \in 0 .. I!Full
<1>1. BucketHolds(buckets[k]) /\ now \in I!Time
  BY DEF RateInv, I!TypeOK
<1>2. PICK b : b = buckets[k]
  OBVIOUS
<1>3. now \in Nat
  BY <1>1, LimitNumbers
<1>4. b = I!None \/ b \in [tokens : 0 .. I!Full, updated : 0 .. now]
  BY <1>1, <1>2, <1>3, LimitNumbers DEF BucketHolds
<1> QED
  BY <1>1, <1>2, <1>3, <1>4, RefilledIs

(* Only a bucket that is full is forgotten, as one just made is.           *)
LEMMA KeptIs ==
  ASSUME RateInv, NEW k \in I!Key
  PROVE  /\ I!Kept = [j \in I!Key |-> I!Kept[j]]
         /\ BucketHolds(I!Kept[k])
         /\ I!Kept[k] = I!None \/ I!Kept[k] \in [tokens : 0 .. I!Full, updated : 0 .. now]
         /\ I!Tokens(k) = I!Refilled(buckets[k], now)
<1>1. buckets = [j \in I!Key |-> buckets[j]]
  BY DEF RateInv
<1>2. I!Kept = [j \in I!Key |-> I!Kept[j]]
  BY <1>1 DEF I!Kept
<1>3. \/ I!Kept[k] = buckets[k]
      \/ I!Kept[k] = I!None /\ I!Refilled(buckets[k], now) >= I!Full
  BY <1>1 DEF I!Kept, I!Forgettable
<1>4. /\ now \in Nat /\ BucketHolds(buckets[k])
      /\ buckets[k] = I!None \/ buckets[k] \in [tokens : 0 .. I!Full, updated : 0 .. now]
      /\ I!Refilled(buckets[k], now) \in 0 .. I!Full
  BY BucketIs
<1>5. BucketHolds(I!None) /\ I!Refilled(I!None, now) = I!Full
  BY DEF BucketHolds, I!Refilled
<1>6. I!Tokens(k) = I!Refilled(buckets[k], now)
  BY <1>3, <1>4, <1>5, LimitNumbers DEF I!Tokens
<1> QED
  BY <1>2, <1>3, <1>4, <1>5, <1>6

LEMMA RateInit == I!Init => RateInv
<1> SUFFICES ASSUME I!Init PROVE RateInv
  OBVIOUS
<1>1. /\ now = 0 /\ buckets = [k \in I!Key |-> I!None] /\ pruned = I!Never
      /\ admitted = [s \in I!Subscriber |-> [t \in I!Time |-> 0]]
  BY DEF I!Init
<1>2. I!TypeOK
  BY <1>1, LimitNumbers DEF I!TypeOK
<1>3. \A k \in I!Key : BucketHolds(buckets[k])
  BY <1>1 DEF BucketHolds
<1>4. ASSUME NEW v \in I!Asker, NEW t \in 0 .. now PROVE BudgetHolds(v, t)
  <2>1. v.who \in I!Subscriber /\ I!ClientKey(v.ip) \in I!Key
    BY DEF I!Subscriber, I!Key
  <2>2. t = 0 /\ 0 \in I!Time /\ 0 - 1 < 0 /\ ~ (0 < 0)
    BY <1>1, <1>4, LimitNumbers
  <2>3. admitted[v.who][0] = 0
    BY <1>1, <2>1, <2>2
  <2>4. I!Admitted(v.who, t, now) = 0
    BY <1>1, <2>2, <2>3 DEF I!Admitted, I!UpTo
  <2>5. I!Refilled(buckets[I!ClientKey(v.ip)], now) = I!Full
    BY <1>1, <2>1 DEF I!Refilled
  <2> QED
    BY <1>1, <2>2, <2>4, <2>5, LimitNumbers DEF BudgetHolds
<1> QED
  BY <1>1, <1>2, <1>3, <1>4 DEF RateInv

LEMMA AskerIs ==
  ASSUME NEW v \in I!Asker
  PROVE  v.who \in I!Subscriber /\ I!ClientKey(v.ip) \in I!Key
BY DEF I!Subscriber, I!Key

LEMMA TickRefills ==
  ASSUME RateInv, I!Tick
  PROVE  RateInv'
<1>1. /\ now < MaxTime /\ now' = now + 1 /\ buckets' = buckets /\ pruned' = pruned
      /\ admitted' = [s \in I!Subscriber |->
                        [admitted[s] EXCEPT ![now + 1] = admitted[s][now]]]
  BY DEF I!Tick
<1>2. /\ I!TypeOK /\ now \in Nat /\ now \in I!Time /\ now + 1 \in I!Time
      /\ admitted \in [I!Subscriber -> [I!Time -> Nat]]
  BY <1>1, LimitNumbers DEF RateInv, I!TypeOK
<1>3. ASSUME NEW s \in I!Subscriber
      PROVE  /\ admitted'[s] \in [I!Time -> Nat]
             /\ admitted'[s][now + 1] = admitted[s][now]
             /\ \A t \in I!Time : t # now + 1 => admitted'[s][t] = admitted[s][t]
  <2>1. admitted'[s] = [admitted[s] EXCEPT ![now + 1] = admitted[s][now]]
    BY <1>1
  <2>2. admitted[s] \in [I!Time -> Nat] /\ admitted[s][now] \in Nat
    BY <1>2
  <2> QED
    BY <1>2, <2>1, <2>2
<1>4. I!TypeOK'
  <2>1. admitted' = [s \in I!Subscriber |-> admitted'[s]]
    BY <1>1
  <2>2. admitted' \in [I!Subscriber -> [I!Time -> Nat]]
    BY <1>3, <2>1
  <2> QED
    BY <1>1, <1>2, <2>2 DEF I!TypeOK
<1>5. \A k \in I!Key : BucketHolds(buckets[k])'
  <2>1. ASSUME NEW b, BucketHolds(b)
        PROVE  b = I!None \/ (b \in [tokens : 0 .. I!Full, updated : I!Time] /\ b.updated <= now + 1)
    BY <1>2, <2>1, LimitNumbers DEF BucketHolds
  <2>2. \A k \in I!Key : BucketHolds(buckets[k])
    BY DEF RateInv
  <2> QED
    BY <1>1, <2>1, <2>2 DEF BucketHolds
<1>6. ASSUME OneClientEach, NEW v \in I!Asker, NEW t \in 0 .. now + 1
      PROVE  BudgetHolds(v, t)'
  <2>1. v.who \in I!Subscriber /\ I!ClientKey(v.ip) \in I!Key
    BY AskerIs
  <2>2. PICK b : b = buckets[I!ClientKey(v.ip)]
    OBVIOUS
  <2>3. PICK a \in [I!Time -> Nat] : a = admitted[v.who]
    BY <1>2, <2>1
  <2>4. PICK c \in [I!Time -> Nat] : c = admitted'[v.who]
    BY <1>3, <2>1
  <2>5. c[now + 1] = a[now] /\ \A i \in I!Time : i # now + 1 => c[i] = a[i]
    BY <1>3, <2>1, <2>3, <2>4
  <2>6. /\ b = I!None \/ b \in [tokens : 0 .. I!Full, updated : 0 .. now]
        /\ I!Refilled(b, now) \in 0 .. I!Full
    BY <2>1, <2>2, BucketIs
  <2>7. I!Refilled(b, now + 1) = I!Lesser(I!Full, I!Refilled(b, now) + 1)
    BY <1>2, <2>6, RefilledIs
  <2>8. /\ I!Refilled(b, now + 1) <= I!Refilled(b, now) + 1
        /\ I!Refilled(b, now + 1) <= I!Full /\ I!Refilled(b, now + 1) \in Int
    BY <2>6, <2>7, LimitNumbers DEF I!Lesser
  <2>12. PICK n \in Nat : n = now + 1
    BY <1>2
  <2>9. I!UpTo(v.who, n)' = a[now] /\ now' = n
    BY <1>1, <1>2, <2>4, <2>5, <2>12 DEF I!UpTo
  <2>10. CASE t = now + 1
    <3>1. I!UpTo(v.who, t - 1)' = a[now]
      BY <1>2, <2>4, <2>5, <2>10 DEF I!UpTo
    <3>2. I!Admitted(v.who, t, now)' = 0
      BY <1>1, <1>2, <2>9, <3>1 DEF I!Admitted
    <3> QED
      BY <1>1, <1>2, <2>2, <2>8, <2>10, <3>2, LimitNumbers DEF BudgetHolds
  <2>11. CASE t # now + 1
    <3>1. t \in 0 .. now
      BY <1>2, <1>6, <2>11
    <3>2. t - 1 < 0 \/ (t - 1 \in I!Time /\ t - 1 # now + 1)
      BY <1>2, <3>1, LimitNumbers
    <3>3. I!UpTo(v.who, t - 1)' = I!UpTo(v.who, t - 1)
      BY <2>3, <2>4, <2>5, <3>2 DEF I!UpTo
    <3>4. I!UpTo(v.who, now) = a[now]
      BY <1>2, <2>3 DEF I!UpTo
    <3>5. I!Admitted(v.who, t, now)' = I!Admitted(v.who, t, now)
      BY <1>1, <2>9, <3>3, <3>4 DEF I!Admitted
    <3>6. BudgetHolds(v, t)
      BY <1>6, <3>1 DEF RateInv
    <3>7. I!UpTo(v.who, t - 1) \in Nat
      BY <1>2, <2>3, <3>1, <3>2 DEF I!UpTo
    <3>8. I!Admitted(v.who, t, now) \in Int
      BY <1>2, <2>3, <3>4, <3>7 DEF I!Admitted
    <3>9. PICK p \in Int : p = I!Admitted(v.who, t, now) * Unit
      BY <3>8, LimitNumbers
    <3>12. PICK r \in Nat : r = I!Refilled(b, now)
      BY <2>6, LimitNumbers
    <3>13. PICK u \in Int : u = I!Refilled(b, now + 1)
      BY <2>8
    <3>10. I!Admitted(v.who, t, now) * Unit + I!Refilled(b, now) <= I!Full + (now - t)
      BY <2>2, <3>6 DEF BudgetHolds
    <3>11. I!Admitted(v.who, t, now) * Unit + I!Refilled(b, now + 1) <= I!Full + ((now + 1) - t)
      BY <1>2, <2>8, <3>1, <3>9, <3>10, <3>12, <3>13, LimitNumbers
    <3> QED
      BY <1>1, <2>2, <3>5, <3>11 DEF BudgetHolds
  <2> QED
    BY <2>10, <2>11
<1>7. buckets' = [k \in I!Key |-> buckets'[k]]
  BY <1>1 DEF RateInv
<1> QED
  BY <1>1, <1>4, <1>5, <1>6, <1>7 DEF RateInv

LEMMA CheckRefills ==
  ASSUME RateInv, NEW req \in I!Connections, I!Check(req)
  PROVE  RateInv'
<1>1. PICK w : w = I!Source(req)
  OBVIOUS
<1>2. w \in I!Asker
  BY <1>1 DEF I!Source, I!Connections, I!Asker
<1>3. PICK k : k = I!ClientKey(w.ip)
  OBVIOUS
<1>4. k = I!KeyOf(req) /\ k \in I!Key /\ w.who \in I!Subscriber
  BY <1>1, <1>2, <1>3, AskerIs DEF I!KeyOf
<1>5. PICK nb : nb = [tokens |-> IF I!Allowed(k) THEN I!Tokens(k) - Unit ELSE I!Tokens(k),
                      updated |-> now]
  OBVIOUS
<1>6. PICK more : more = [admitted[w.who] EXCEPT ![now] = admitted[w.who][now] + 1]
  OBVIOUS
<1>7. /\ pruned' = IF I!Prunes THEN now ELSE pruned
      /\ buckets' = [I!Kept EXCEPT ![k] = nb]
      /\ admitted' = IF I!Allowed(k) THEN [admitted EXCEPT ![w.who] = more]
                     ELSE admitted
      /\ now' = now
  BY <1>1, <1>4, <1>5, <1>6 DEF I!Check
<1>8. /\ I!TypeOK /\ now \in Nat /\ now \in I!Time
      /\ admitted \in [I!Subscriber -> [I!Time -> Nat]]
  BY LimitNumbers DEF RateInv, I!TypeOK
<1>9. more \in [I!Time -> Nat]
  BY <1>4, <1>6, <1>8
<1>10. admitted' \in [I!Subscriber -> [I!Time -> Nat]]
  BY <1>4, <1>7, <1>8, <1>9
<1>11. pruned' \in I!Time \cup {I!Never}
  BY <1>7, <1>8 DEF I!TypeOK
<1>12. \A j \in I!Key : BucketHolds(I!Kept[j])
  BY KeptIs
<1>13. I!Kept = [j \in I!Key |-> I!Kept[j]]
  BY <1>4, KeptIs
<1>14. buckets' = [j \in I!Key |-> IF j = k THEN nb ELSE I!Kept[j]]
  BY <1>4, <1>7, <1>13
<1>15. PICK h : h = I!Tokens(k)
  OBVIOUS
<1>16. h \in 0 .. I!Full /\ h = I!Refilled(buckets[k], now)
  BY <1>4, <1>15, KeptIs, BucketIs
<1>17. I!Allowed(k) <=> h >= Unit
  BY <1>15 DEF I!Allowed
<1>18. /\ nb \in [tokens : 0 .. I!Full, updated : I!Time] /\ nb.updated = now
       /\ nb.tokens = (IF h >= Unit THEN h - Unit ELSE h)
  BY <1>5, <1>8, <1>15, <1>16, <1>17, LimitNumbers
<1>19. nb # I!None
  BY <1>8, <1>18, LimitNumbers
<1>20. I!Refilled(nb, now) = nb.tokens
  BY <1>8, <1>16, <1>18, <1>19, LimitNumbers DEF I!Refilled, I!Lesser
<1>21. \A j \in I!Key : BucketHolds(buckets[j])'
  <2>1. BucketHolds(nb)
    BY <1>8, <1>18 DEF BucketHolds
  <2>2. \A j \in I!Key : BucketHolds(buckets'[j])
    BY <1>12, <1>14, <2>1
  <2>3. \A b : BucketHolds(b) => (b = I!None \/ (b \in [tokens : 0 .. I!Full, updated : I!Time] /\ b.updated <= now'))
    BY <1>7 DEF BucketHolds
  <2> QED
    BY <2>2, <2>3 DEF BucketHolds
<1>22. I!TypeOK'
  <2>1. \A j \in I!Key : buckets'[j] \in [tokens : 0 .. I!Full, updated : I!Time] \cup {I!None}
    BY <1>21 DEF BucketHolds
  <2>2. DOMAIN buckets' = I!Key
    BY <1>14
  <2> QED
    BY <1>7, <1>8, <1>10, <1>11, <2>1, <2>2 DEF I!TypeOK
<1>23. ASSUME OneClientEach, NEW v \in I!Asker, NEW t \in 0 .. now
       PROVE  BudgetHolds(v, t)'
  <2>1. v.who \in I!Subscriber /\ I!ClientKey(v.ip) \in I!Key
    BY AskerIs
  <2>2. PICK j \in I!Key : j = I!ClientKey(v.ip)
    BY <2>1
  <2>3. BudgetHolds(v, t)
    BY <1>23 DEF RateInv
  <2>4. PICK a \in [I!Time -> Nat] : a = admitted[v.who]
    BY <1>8, <2>1
  <2>5. PICK c \in [I!Time -> Nat] : c = admitted'[v.who]
    BY <1>10, <2>1
  <2>6. t - 1 < 0 \/ (t - 1 \in I!Time /\ t - 1 # now)
    BY <1>8, LimitNumbers
  <2>7. PICK n \in Nat : n = now
    BY <1>8
  <2>8. PICK low \in Nat : low = I!UpTo(v.who, t - 1)
    BY <2>4, <2>6 DEF I!UpTo
  <2>9. I!Admitted(v.who, t, now) = a[n] - low
    BY <1>8, <2>4, <2>7, <2>8 DEF I!Admitted, I!UpTo
  <2>10. (\A i \in I!Time : i # now => c[i] = a[i]) => I!UpTo(v.who, t - 1)' = low
    BY <2>4, <2>5, <2>6, <2>8 DEF I!UpTo
  <2>11. (\A i \in I!Time : i # now => c[i] = a[i]) => I!Admitted(v.who, t, now)' = c[n] - low
    BY <1>7, <1>8, <2>5, <2>7, <2>10 DEF I!Admitted, I!UpTo
  <2>12. PICK r \in Nat : r = I!Refilled(buckets[j], now)
    BY BucketIs, LimitNumbers
  <2>13. PICK u : u = I!Refilled(buckets'[j], now)
    OBVIOUS
  <2>14. I!Refilled(buckets[j], now)' = u
    BY <1>7, <2>13 DEF I!Refilled
  <2>22. PICK m \in Int : m = a[n] - low
    <3>1. a[n] \in Nat
      BY <1>8, <2>4, <2>7
    <3> QED
      BY <2>8, <3>1
  <2>15. PICK p \in Int : p = (a[n] - low) * Unit
    <3>1. Unit \in Int /\ m * Unit \in Int
      BY <2>22, LimitNumbers
    <3> QED
      BY <2>22, <3>1
  <2>16. p + r <= I!Full + (n - t)
    BY <2>2, <2>3, <2>7, <2>9, <2>12, <2>15 DEF BudgetHolds
  <2>17. ASSUME \A i \in I!Time : i # now => c[i] = a[i],
                (c[n] - low) * Unit + u <= I!Full + (n - t)
         PROVE  BudgetHolds(v, t)'
    BY <1>7, <2>2, <2>7, <2>11, <2>14, <2>17 DEF BudgetHolds
  <2>18. j # k => u = r
    <3>1. ASSUME j # k PROVE u = r
      <4>1. buckets'[j] = I!Kept[j]
        BY <1>14, <3>1
      <4>2. I!Tokens(j) = I!Refilled(buckets[j], now)
        BY KeptIs
      <4> QED
        BY <2>12, <2>13, <4>1, <4>2 DEF I!Tokens
    <3> QED
      BY <3>1
  <2>19. j = k => u = nb.tokens /\ r = h
    BY <1>4, <1>14, <1>16, <1>20, <2>12, <2>13
  <2>20. CASE I!Allowed(k) /\ v.who = w.who
    <3>1. j = k
      BY <1>2, <1>3, <1>23, <2>2, <2>20 DEF OneClientEach
    <3>2. u = r - Unit
      BY <1>17, <1>18, <2>19, <2>20, <3>1
    <3>3. c = more
      BY <1>4, <1>7, <1>8, <2>5, <2>20
    <3>4. c[n] = a[n] + 1 /\ \A i \in I!Time : i # now => c[i] = a[i]
      BY <1>6, <1>8, <2>4, <2>7, <2>20, <3>3
    <3>5. ((a[n] + 1) - low) * Unit = (a[n] - low) * Unit + Unit
      BY <1>8, <2>4, <2>7, LimitNumbers
    <3>6. (c[n] - low) * Unit = p + Unit
      BY <2>15, <3>4, <3>5
    <3>7. (c[n] - low) * Unit + u <= I!Full + (n - t)
      BY <2>16, <3>2, <3>6, LimitNumbers
    <3> QED
      BY <2>17, <3>4, <3>7
  <2>21. CASE ~ (I!Allowed(k) /\ v.who = w.who)
    <3>1. c = a
      BY <1>4, <1>7, <1>8, <2>1, <2>4, <2>5, <2>21
    <3>2. u \in Int /\ u <= r
      BY <1>16, <1>18, <2>12, <2>18, <2>19, LimitNumbers
    <3>3. (c[n] - low) * Unit = p
      BY <2>15, <3>1
    <3>4. (c[n] - low) * Unit + u <= I!Full + (n - t)
      BY <2>7, <2>12, <2>15, <2>16, <3>2, <3>3, LimitNumbers
    <3> QED
      BY <2>17, <3>1, <3>4
  <2> QED
    BY <2>20, <2>21
<1>24. buckets' = [j \in I!Key |-> buckets'[j]]
  BY <1>14
<1> QED
  BY <1>7, <1>21, <1>22, <1>23, <1>24 DEF RateInv

LEMMA RateKept ==
  ASSUME RateInv, I!Next
  PROVE  RateInv'
BY TickRefills, CheckRefills DEF I!Next

LEMMA RateStays ==
  ASSUME RateInv, UNCHANGED <<now, buckets, pruned, admitted>>
  PROVE  RateInv'
BY DEF RateInv, I!TypeOK, BucketHolds, BudgetHolds, I!Admitted, I!UpTo, I!Refilled

(* A refused client's seconds, rounded up, refill what it lacks.           *)
LEMMA WaitIs ==
  ASSUME RateInv
  PROVE  I!WaitIsRight
<1> SUFFICES ASSUME NEW k \in I!Key, ~ I!Allowed(k)
             PROVE  /\ I!Refilled(I!Kept[k], now + I!RetryAfter(k) * Second) >= Unit
                    /\ I!Refilled(I!Kept[k], now + (I!RetryAfter(k) - 1) * Second) < Unit
  BY DEF RateInv, I!WaitIsRight
<1>1. PICK b : b = I!Kept[k]
  OBVIOUS
<1>2. PICK n \in Nat : n = now
  BY BucketIs
<1>3. b = I!None \/ b \in [tokens : 0 .. I!Full, updated : 0 .. n]
  BY <1>1, <1>2, KeptIs
<1>4. /\ I!Refilled(b, n) \in 0 .. I!Full
      /\ \A d \in Nat : I!Refilled(b, n + d) = I!Lesser(I!Full, I!Refilled(b, n) + d)
  BY <1>3, RefilledIs
<1>5. PICK r \in Nat : r = I!Refilled(b, n)
  BY <1>4, LimitNumbers
<1>6. I!Tokens(k) = r /\ r < Unit
  BY <1>1, <1>2, <1>5, LimitNumbers DEF I!Tokens, I!Allowed
<1>7. PICK m \in Nat : m = (Unit - r + Second) - 1
  BY <1>6, LimitNumbers
<1>8. PICK q \in Nat : q = m \div Second
  BY <1>7, DivisionIs, LimitNumbers
<1>9. PICK p \in Nat : p = q * Second
  BY <1>8, LimitNumbers
<1>10. p <= m /\ m < p + Second
  BY <1>7, <1>8, <1>9, DivisionIs, LimitNumbers
<1>11. I!RetryAfter(k) = q
  BY <1>6, <1>7, <1>8, LimitNumbers DEF I!RetryAfter
<1>12. (q - 1) * Second = p - Second
  BY <1>8, <1>9, LimitNumbers
<1>13. p >= Unit - r /\ p - Second \in Nat /\ p - Second < Unit - r
  <2>1. p > 0
    BY <1>6, <1>7, <1>10, LimitNumbers
  <2>2. q > 0
    BY <1>8, <1>9, <2>1, LimitNumbers
  <2>3. q * Second >= Second
    BY <1>8, <2>2, LimitNumbers
  <2> QED
    BY <1>6, <1>7, <1>9, <1>10, <2>3, LimitNumbers
<1>14. I!Refilled(b, n + p) >= Unit
  <2>1. I!Refilled(b, n + p) = I!Lesser(I!Full, r + p)
    BY <1>4, <1>5, <1>9
  <2> QED
    BY <1>5, <1>13, <2>1, LimitNumbers DEF I!Lesser
<1>15. I!Refilled(b, n + (p - Second)) < Unit
  <2>1. PICK d \in Nat : d = p - Second
    BY <1>13
  <2>2. I!Refilled(b, n + d) = I!Lesser(I!Full, r + d)
    BY <1>4, <1>5, <2>1
  <2>3. r + d < Unit
    BY <1>5, <1>13, <2>1, LimitNumbers
  <2>4. I!Lesser(I!Full, r + d) < Unit
    BY <1>5, <2>1, <2>3, LimitNumbers DEF I!Lesser
  <2> QED
    BY <2>1, <2>2, <2>4
<1> QED
  BY <1>1, <1>2, <1>9, <1>11, <1>12, <1>14, <1>15

LEMMA RateShows ==
  ASSUME RateInv
  PROVE  I!TypeOK /\ I!WaitIsRight /\ (OneClientEach => I!WithinBudget)
<1>1. ASSUME OneClientEach, NEW s \in I!Subscriber, NEW t \in 0 .. now
      PROVE  I!Admitted(s, t, now) * Unit <= I!Full + (now - t)
  <2>1. PICK v \in I!Asker : s = v.who
    BY DEF I!Subscriber
  <2>2. BudgetHolds(v, t) /\ now \in Nat /\ admitted \in [I!Subscriber -> [I!Time -> Nat]]
        /\ now \in I!Time
    BY <1>1, LimitNumbers DEF RateInv, I!TypeOK
  <2>3. PICK r \in Nat : r = I!Refilled(buckets[I!ClientKey(v.ip)], now)
    BY AskerIs, BucketIs, LimitNumbers
  <2>4. I!Admitted(s, t, now) \in Int
    <3>1. I!UpTo(s, now) \in Nat
      BY <2>2 DEF I!UpTo
    <3>2. t - 1 < 0 \/ t - 1 \in I!Time
      BY <2>2, LimitNumbers
    <3>3. I!UpTo(s, t - 1) \in Nat
      BY <2>2, <3>2 DEF I!UpTo
    <3> QED
      BY <3>1, <3>3 DEF I!Admitted
  <2>5. PICK p \in Int : p = I!Admitted(s, t, now) * Unit
    BY <2>4, LimitNumbers
  <2>6. p + r <= I!Full + (now - t)
    BY <2>1, <2>2, <2>3, <2>5 DEF BudgetHolds
  <2> QED
    BY <2>2, <2>3, <2>5, <2>6, LimitNumbers
<1>2. OneClientEach => I!WithinBudget
  BY <1>1 DEF I!WithinBudget
<1> QED
  BY <1>2, WaitIs DEF RateInv

-----------------------------------------------------------------------------
(* Records: what the codecs make of a text is what they read back.         *)
Byte == 0 .. 255

LEMMA RecordNumbers == Fill \subseteq Byte /\ Lengths \subseteq 0 .. 255
BY ApiConstants DEF E!RecordConstants, Byte

LEMMA Filled ==
  ASSUME NEW n \in 0 .. 255, NEW b \in Byte
  PROVE  E!Bytes(n, b) \in Seq(Byte) /\ Len(E!Bytes(n, b)) = n
<1>1. E!Bytes(n, b) \in [1 .. n -> Byte]
  BY DEF E!Bytes
<1> QED
  BY <1>1

LEMMA Middle ==
  ASSUME NEW f \in Seq(Byte), NEW h \in Seq(Byte), NEW g \in Seq(Byte)
  PROVE  /\ f \o h \o g \in Seq(Byte)
         /\ Len(f \o h \o g) = Len(f) + Len(h) + Len(g)
         /\ \A i \in 1 .. Len(f) : (f \o h \o g)[i] = f[i]
         /\ SubSeq(f \o h \o g, Len(f) + 1, Len(f) + Len(h)) = h
<1>1. PICK m \in Nat : m = Len(f)
  BY LenProperties
<1>2. PICK n \in Nat : n = Len(h)
  BY LenProperties
<1>3. PICK k \in Nat : k = Len(g)
  BY LenProperties
<1>4. PICK s \in Seq(Byte) : s = f \o h
  BY ConcatProperties
<1>5. /\ Len(s) = m + n
      /\ \A i \in 1 .. m : s[i] = f[i]
      /\ \A i \in m + 1 .. m + n : s[i] = h[i - m]
  <2>1. Len(s) = m + n /\ \A i \in 1 .. m + n : s[i] = IF i <= m THEN f[i] ELSE h[i - m]
    BY <1>1, <1>2, <1>4, ConcatProperties
  <2> QED
    BY <2>1
<1>6. PICK t \in Seq(Byte) : t = s \o g
  BY ConcatProperties
<1>7. Len(t) = m + n + k /\ \A i \in 1 .. m + n : t[i] = s[i]
  <2>1. Len(t) = (m + n) + k
        /\ \A i \in 1 .. (m + n) + k : t[i] = IF i <= m + n THEN s[i] ELSE g[i - (m + n)]
    BY <1>3, <1>5, <1>6, ConcatProperties
  <2> QED
    BY <2>1
<1>8. PICK u : u = SubSeq(t, m + 1, m + n)
  OBVIOUS
<1>9. \A i \in m + 1 .. m + n : t[i] \in Byte
  BY <1>7, ElementOfSeq
<1>10. /\ u \in Seq(Byte) /\ Len(u) = n
       /\ \A i \in 1 .. n : u[i] = t[m + i]
  <2>1. /\ u \in Seq(Byte)
        /\ Len(u) = IF m + 1 <= m + n THEN (m + n) - (m + 1) + 1 ELSE 0
        /\ \A i \in 1 .. (m + n) - (m + 1) + 1 : u[i] = t[(m + 1) + i - 1]
    BY <1>8, <1>9, SubSeqProperties
  <2> QED
    BY <2>1
<1>11. \A i \in 1 .. n : u[i] = h[i]
  <2>1. ASSUME NEW i \in 1 .. n PROVE u[i] = h[i]
    <3>1. m + i \in m + 1 .. m + n /\ m + i \in 1 .. m + n /\ (m + i) - m = i
      OBVIOUS
    <3>2. u[i] = t[m + i] /\ t[m + i] = s[m + i] /\ s[m + i] = h[(m + i) - m]
      BY <1>5, <1>7, <1>10, <3>1
    <3> QED
      BY <3>1, <3>2
  <2> QED
    BY <2>1
<1>12. u = h
  BY <1>2, <1>10, <1>11, SeqEqual
<1>13. \A i \in 1 .. m : t[i] = f[i]
  BY <1>5, <1>7
<1> QED
  BY <1>1, <1>2, <1>3, <1>4, <1>6, <1>7, <1>8, <1>12, <1>13

LEMMA KeyHashScript ==
  ASSUME NEW h \in Seq(Byte), Len(h) = 20
  PROVE  /\ E!P2PKH(h) \in Seq(Byte) /\ Len(E!P2PKH(h)) = 25
         /\ E!Body(E!P2PKH(h), 4, 2) = h
<1>1. PICK f : f = <<118, 169, 20>>
  OBVIOUS
<1>2. f \in Seq(Byte) /\ Len(f) = 3
  BY <1>1 DEF Byte
<1>3. PICK g : g = <<136, 172>>
  OBVIOUS
<1>4. g \in Seq(Byte) /\ Len(g) = 2
  BY <1>3 DEF Byte
<1>5. PICK s : s = f \o h \o g
  OBVIOUS
<1>6. /\ s \in Seq(Byte) /\ Len(s) = Len(f) + Len(h) + Len(g)
      /\ SubSeq(s, Len(f) + 1, Len(f) + Len(h)) = h
  BY <1>2, <1>4, <1>5, Middle
<1>7. Len(s) = 25 /\ SubSeq(s, 4, 23) = h
  BY <1>2, <1>4, <1>6
<1>8. E!P2PKH(h) = s
  BY <1>1, <1>3, <1>5 DEF E!P2PKH
<1>9. Len(s) - 2 = 23
  BY <1>7
<1> QED
  BY <1>6, <1>7, <1>8, <1>9 DEF E!Body

LEMMA ScriptHashScript ==
  ASSUME NEW h \in Seq(Byte), Len(h) = 20
  PROVE  /\ E!P2SH(h) \in Seq(Byte) /\ Len(E!P2SH(h)) = 23
         /\ E!Body(E!P2SH(h), 3, 1) = h
<1>1. PICK f : f = <<169, 20>>
  OBVIOUS
<1>2. f \in Seq(Byte) /\ Len(f) = 2
  BY <1>1 DEF Byte
<1>3. PICK g : g = <<135>>
  OBVIOUS
<1>4. g \in Seq(Byte) /\ Len(g) = 1
  BY <1>3 DEF Byte
<1>5. PICK s : s = f \o h \o g
  OBVIOUS
<1>6. /\ s \in Seq(Byte) /\ Len(s) = Len(f) + Len(h) + Len(g)
      /\ SubSeq(s, Len(f) + 1, Len(f) + Len(h)) = h
  BY <1>2, <1>4, <1>5, Middle
<1>7. Len(s) = 23 /\ SubSeq(s, 3, 22) = h
  BY <1>2, <1>4, <1>6
<1>8. E!P2SH(h) = s
  BY <1>1, <1>3, <1>5 DEF E!P2SH
<1>9. Len(s) - 1 = 22
  BY <1>7
<1> QED
  BY <1>6, <1>7, <1>8, <1>9 DEF E!Body

LEMMA WitnessScript ==
  ASSUME NEW v \in 0 .. 16, NEW p \in Seq(Byte), Len(p) \in 0 .. 255
  PROVE  /\ E!Witness(v, p) \in Seq(Byte) /\ Len(E!Witness(v, p)) = Len(p) + 2
         /\ E!Body(E!Witness(v, p), 3, 0) = p
         /\ E!Witness(v, p)[1] = IF v = 0 THEN 0 ELSE 80 + v
<1>1. PICK f : f = <<IF v = 0 THEN 0 ELSE 80 + v, Len(p)>>
  OBVIOUS
<1>2. f \in Seq(Byte) /\ Len(f) = 2 /\ f[1] = IF v = 0 THEN 0 ELSE 80 + v
  <2>1. PICK i \in Byte : i = IF v = 0 THEN 0 ELSE 80 + v
    BY DEF Byte
  <2>2. PICK j \in Byte : j = Len(p)
    BY DEF Byte
  <2>3. f = <<i, j>>
    BY <1>1, <2>1, <2>2
  <2> QED
    BY <2>1, <2>3
<1>3. PICK s : s = f \o p
  OBVIOUS
<1>4. PICK n \in 0 .. 255 : n = Len(p)
  OBVIOUS
<1>10. PICK e \in Seq(Byte) : e = <<>> /\ Len(e) = 0
  BY EmptySeq
<1>5. s = f \o p \o e
  <2>1. s \in Seq(Byte)
    BY <1>2, <1>3, ConcatProperties
  <2> QED
    BY <1>3, <1>10, <2>1, ConcatEmptySeq
<1>6. /\ s \in Seq(Byte) /\ Len(s) = Len(f) + Len(p) + Len(e)
      /\ \A i \in 1 .. Len(f) : s[i] = f[i]
      /\ SubSeq(s, Len(f) + 1, Len(f) + Len(p)) = p
  BY <1>2, <1>5, Middle
<1>7. Len(s) = n + 2 /\ s[1] = f[1] /\ SubSeq(s, 3, 2 + n) = p
  <2>1. Len(f) = 2 /\ Len(p) = n /\ Len(e) = 0 /\ 1 \in 1 .. 2
    BY <1>2, <1>4, <1>10
  <2>2. Len(s) = 2 + n + 0 /\ s[1] = f[1] /\ SubSeq(s, 2 + 1, 2 + n) = p
    BY <1>6, <2>1
  <2> QED
    BY <2>2
<1>8. E!Witness(v, p) = s
  BY <1>1, <1>3 DEF E!Witness, E!Pushed
<1>9. Len(s) - 0 = 2 + n
  BY <1>7
<1> QED
  BY <1>2, <1>4, <1>6, <1>7, <1>8, <1>9 DEF E!Body

LEMMA SumIs ==
  ASSUME NEW p \in Seq(Byte), Len(p) > 0
  PROVE  E!Checksum(p) \in Seq(Byte) /\ Len(E!Checksum(p)) = 4
<1>1. PICK i \in Byte : i = p[1]
  BY ElementOfSeq, LenProperties
<1>2. PICK j \in Byte : j = p[Len(p)]
  BY ElementOfSeq, LenProperties
<1>3. PICK c \in Byte : c = (3 * i + j) % 256
  BY DEF Byte
<1>4. E!Checksum(p) = E!Bytes(4, c)
  BY <1>1, <1>2, <1>3 DEF E!Checksum
<1>5. 4 \in 0 .. 255
  OBVIOUS
<1> QED
  BY <1>3, <1>4, <1>5, Filled

(* A base58 text of a version and a hash, and its checksum.                *)
LEMMA LegacyIs ==
  ASSUME NEW v \in {0, 5}, NEW h \in Seq(Byte), Len(h) = 20
  PROVE  /\ E!Legacy(v, h).form = "base58"
         /\ Len(E!Legacy(v, h).bytes) = 25 /\ E!Legacy(v, h).bytes[1] = v
         /\ SubSeq(E!Legacy(v, h).bytes, 2, 21) = h
<1>9. PICK y \in Byte : y = v
  BY DEF Byte
<1>1. PICK f : f = <<y>>
  OBVIOUS
<1>2. f \in Seq(Byte) /\ Len(f) = 1 /\ f[1] = y
  BY <1>1
<1>11. PICK q : q = f \o h
  OBVIOUS
<1>3. q \in Seq(Byte) /\ Len(q) = 21
  <2>1. q \in Seq(Byte) /\ Len(q) = Len(f) + Len(h)
    BY <1>2, <1>11, ConcatProperties
  <2>2. Len(f) = 1 /\ Len(h) = 20
    BY <1>2
  <2> QED
    BY <2>1, <2>2
<1>12. PICK g : g = E!Checksum(q)
  OBVIOUS
<1>4. g \in Seq(Byte) /\ Len(g) = 4
  <2>1. Len(q) > 0
    BY <1>3
  <2> QED
    BY <1>3, <1>12, <2>1, SumIs
<1>5. PICK s : s = f \o h \o g
  OBVIOUS
<1>6. /\ s \in Seq(Byte) /\ Len(s) = Len(f) + Len(h) + Len(g)
      /\ \A j \in 1 .. Len(f) : s[j] = f[j]
      /\ SubSeq(s, Len(f) + 1, Len(f) + Len(h)) = h
  <2>1. f \in Seq(Byte) /\ g \in Seq(Byte)
    BY <1>2, <1>4
  <2>2. /\ f \o h \o g \in Seq(Byte)
        /\ Len(f \o h \o g) = Len(f) + Len(h) + Len(g)
        /\ \A j \in 1 .. Len(f) : (f \o h \o g)[j] = f[j]
        /\ SubSeq(f \o h \o g, Len(f) + 1, Len(f) + Len(h)) = h
    BY <2>1, Middle, Zenon
  <2> QED
    BY <1>5, <2>2, Zenon
<1>7. Len(s) = 25 /\ s[1] = y /\ SubSeq(s, 2, 21) = h
  BY <1>2, <1>4, <1>6
<1>8. E!Legacy(v, h) = [form |-> "base58", bytes |-> s]
  BY <1>1, <1>5, <1>9, <1>11, <1>12 DEF E!Legacy, E!Checked, E!Versioned
<1> QED
  BY <1>7, <1>8, <1>9

LEMMA PartOf ==
  ASSUME NEW s \in Seq(Byte), NEW m \in 1 .. Len(s), NEW n \in m .. Len(s)
  PROVE  SubSeq(s, m, n) \in Seq(Byte) /\ Len(SubSeq(s, m, n)) = (n - m) + 1
<1>1. Len(s) \in Nat /\ m \in Int /\ n \in Int /\ m <= n
  BY LenProperties
<1>2. ASSUME NEW i \in m .. n PROVE s[i] \in Byte
  <2>1. i \in 1 .. Len(s)
    BY <1>1
  <2> QED
    BY <2>1, ElementOfSeq
<1>3. /\ SubSeq(s, m, n) \in Seq(Byte)
      /\ Len(SubSeq(s, m, n)) = IF m <= n THEN n - m + 1 ELSE 0
  BY <1>1, <1>2, SubSeqProperties
<1> QED
  BY <1>1, <1>3

(* A base58 text whose checksum holds is what its version and hash encode. *)
LEMMA CheckedIs ==
  ASSUME NEW b \in Seq(Byte), E!IsChecked(b), NEW v \in {0, 5}, b[1] = v
  PROVE  /\ Len(b) = 25
         /\ SubSeq(b, 2, 21) \in Seq(Byte) /\ Len(SubSeq(b, 2, 21)) = 20
         /\ E!Legacy(v, SubSeq(b, 2, 21)) = [form |-> "base58", bytes |-> b]
<1>1. Len(b) = 25 /\ SubSeq(b, 22, 25) = E!Checksum(SubSeq(b, 1, 21))
  BY DEF E!IsChecked
<1>2. PICK h : h = SubSeq(b, 2, 21)
  OBVIOUS
<1>4. h \in Seq(Byte) /\ Len(h) = 20
  <2>1. 2 \in 1 .. Len(b) /\ 21 \in 2 .. Len(b)
    BY <1>1
  <2>2. SubSeq(b, 2, 21) \in Seq(Byte) /\ Len(SubSeq(b, 2, 21)) = (21 - 2) + 1
    BY <2>1, PartOf
  <2> QED
    BY <1>2, <2>2
<1>5. SubSeq(b, 1, 21) = <<b[1]>> \o SubSeq(b, 1 + 1, 21)
  <2>1. 1 \in 1 .. Len(b) /\ 21 \in 1 .. Len(b)
    BY <1>1
  <2> QED
    BY <2>1, SubSeqRecursiveFirst
<1>6. SubSeq(b, 1, 21) = <<v>> \o h
  BY <1>2, <1>5
<1>7. SubSeq(b, 1, 21) \o SubSeq(b, 21 + 1, 25) = SubSeq(b, 1, 25)
  <2>1. 1 \in 1 .. Len(b) + 1 /\ 21 \in (1 - 1) .. Len(b) /\ 25 \in 21 .. Len(b)
    BY <1>1
  <2> QED
    BY <2>1, ConcatAdjacentSubSeq
<1>8. SubSeq(b, 1, 25) = b
  BY <1>1, SubSeqFull
<1>9. <<v>> \o h \o E!Checksum(<<v>> \o h) = b
  <2>1. 21 + 1 = 22
    OBVIOUS
  <2>2. SubSeq(b, 1, 21) \o SubSeq(b, 22, 25) = b
    BY <1>7, <1>8, <2>1
  <2> QED
    BY <1>1, <1>6, <2>2, Zenon
<1> QED
  BY <1>1, <1>2, <1>4, <1>9 DEF E!Legacy, E!Checked, E!Versioned

LEMMA CoinsDiffer ==
  /\ E!ETH # E!SOL /\ E!ETH # E!BTC /\ E!SOL # E!BTC
  /\ E!IsEvm(E!ETH) /\ ~ E!IsEvm(E!SOL) /\ ~ E!IsEvm(E!BTC)
  /\ E!Chain = {E!BTC, E!ETH, E!SOL}
BY DEF E!ETH, E!SOL, E!BTC, E!IsEvm, E!Chain

(* The SDK makes of an address the bytes the API read it from.             *)
LEMMA ScriptReencodes ==
  ASSUME NEW s \in Seq(Byte), E!DecodeBitcoinScript(s) # E!None
  PROVE  /\ E!IsValidAddress(E!BTC, E!DecodeBitcoinScript(s))
         /\ E!RecordValueFor(E!BTC, E!DecodeBitcoinScript(s)) = s
<1>1. PICK t : t = E!DecodeBitcoinScript(s)
  OBVIOUS
<1>2. ASSUME t.form \in {"segwit", "base58"}
      PROVE  /\ E!IsValidAddress(E!BTC, t) = (E!DecodeSegwit(t) \/ E!DecodeBitcoinBase58(t))
             /\ E!IsValidAddress(E!BTC, t) =>
                  E!RecordValueFor(E!BTC, t) =
                    IF t.form = "segwit" THEN E!Witness(t.version, t.bytes)
                    ELSE IF t.bytes[1] = 0 THEN E!P2PKH(SubSeq(t.bytes, 2, 21))
                    ELSE E!P2SH(SubSeq(t.bytes, 2, 21))
  <2>1. E!IsValidAddress(E!BTC, t) = (E!DecodeSegwit(t) \/ E!DecodeBitcoinBase58(t))
    BY CoinsDiffer DEF E!IsValidAddress
  <2> QED
    BY <1>2, <2>1, CoinsDiffer DEF E!RecordValueFor
<1>3. PICK n \in Nat : n = Len(s)
  BY LenProperties
<1>5. CASE n = 25 /\ s = E!P2PKH(E!Body(s, 4, 2))
  <2>1. PICK h : h = SubSeq(s, 4, 23)
    OBVIOUS
  <2>2. E!Body(s, 4, 2) = h
    BY <1>3, <1>5, <2>1 DEF E!Body
  <2>3. h \in Seq(Byte) /\ Len(h) = 20
    <3>1. 4 \in 1 .. Len(s) /\ 23 \in 4 .. Len(s)
      BY <1>3, <1>5
    <3>2. SubSeq(s, 4, 23) \in Seq(Byte) /\ Len(SubSeq(s, 4, 23)) = (23 - 4) + 1
      BY <3>1, PartOf
    <3> QED
      BY <2>1, <3>2
  <2>4. t = E!Legacy(0, h)
    BY <1>1, <1>3, <1>5, <2>2 DEF E!DecodeBitcoinScript
  <2>5. /\ t.form = "base58" /\ Len(t.bytes) = 25 /\ t.bytes[1] = 0
        /\ SubSeq(t.bytes, 2, 21) = h
    BY <2>3, <2>4, LegacyIs
  <2>6. E!IsValidAddress(E!BTC, t)
    BY <1>2, <2>5 DEF E!DecodeBitcoinBase58
  <2>7. E!RecordValueFor(E!BTC, t) = E!P2PKH(h)
    BY <1>2, <2>5, <2>6
  <2> QED
    BY <1>1, <1>5, <2>2, <2>6, <2>7
<1>6. CASE n = 23 /\ s = E!P2SH(E!Body(s, 3, 1))
  <2>1. PICK h : h = SubSeq(s, 3, 22)
    OBVIOUS
  <2>2. E!Body(s, 3, 1) = h
    BY <1>3, <1>6, <2>1 DEF E!Body
  <2>3. h \in Seq(Byte) /\ Len(h) = 20
    <3>1. 3 \in 1 .. Len(s) /\ 22 \in 3 .. Len(s)
      BY <1>3, <1>6
    <3>2. SubSeq(s, 3, 22) \in Seq(Byte) /\ Len(SubSeq(s, 3, 22)) = (22 - 3) + 1
      BY <3>1, PartOf
    <3> QED
      BY <2>1, <3>2
  <2>4. t = E!Legacy(5, h)
    BY <1>1, <1>3, <1>6, <2>2 DEF E!DecodeBitcoinScript
  <2>5. /\ t.form = "base58" /\ Len(t.bytes) = 25 /\ t.bytes[1] = 5
        /\ SubSeq(t.bytes, 2, 21) = h
    BY <2>3, <2>4, LegacyIs
  <2>6. E!IsValidAddress(E!BTC, t)
    BY <1>2, <2>5 DEF E!DecodeBitcoinBase58
  <2>8. t.bytes[1] # 0 /\ t.form # "segwit" /\ t.form \in {"segwit", "base58"}
    BY <2>5
  <2>7. E!RecordValueFor(E!BTC, t) = E!P2SH(h)
    BY <1>2, <2>5, <2>6, <2>8
  <2> QED
    BY <1>1, <1>6, <2>2, <2>6, <2>7
<1>7. ASSUME NEW v \in {0, 1}, s = E!Witness(v, E!Body(s, 3, 0)), n \in {22, 34},
             v = 1 => n = 34, t = E!Bech(v, E!Body(s, 3, 0))
      PROVE  E!IsValidAddress(E!BTC, t) /\ E!RecordValueFor(E!BTC, t) = s
  <2>1. PICK p : p = SubSeq(s, 3, n)
    OBVIOUS
  <2>2. E!Body(s, 3, 0) = p
    BY <1>3, <2>1 DEF E!Body
  <2>3. Len(p) = n - 2
    <3>1. 3 \in 1 .. Len(s) /\ n \in 3 .. Len(s)
      BY <1>3, <1>7
    <3>2. Len(SubSeq(s, 3, n)) = (n - 3) + 1
      BY <3>1, PartOf
    <3> QED
      BY <2>1, <3>2
  <2>4. /\ t.form = "segwit" /\ t.case = "lower" /\ t.version = v /\ t.bytes = p
        /\ t.code = IF v = 0 THEN "bech32" ELSE "bech32m"
    BY <1>7, <2>2 DEF E!Bech
  <2>5. Len(p) \in E!WitnessLengths(v)
    <3>1. CASE v = 0
      BY <1>7, <2>3, <3>1 DEF E!WitnessLengths
    <3>2. CASE v = 1
      <4>1. E!WitnessLengths(v) = 2 .. 40
        BY <3>2 DEF E!WitnessLengths
      <4>2. Len(p) = 32
        BY <1>7, <2>3, <3>2
      <4> QED
        BY <4>1, <4>2
    <3> QED
      BY <3>1, <3>2
  <2>8. v <= 16
    OBVIOUS
  <2>9. E!DecodeSegwit(t)
    BY <2>4, <2>5, <2>8 DEF E!DecodeSegwit
  <2>6. E!IsValidAddress(E!BTC, t)
    BY <1>2, <2>4, <2>9
  <2>7. E!RecordValueFor(E!BTC, t) = E!Witness(v, p)
    BY <1>2, <2>4, <2>6
  <2> QED
    BY <1>7, <2>2, <2>6, <2>7
<1>8. \/ n = 25 /\ s = E!P2PKH(E!Body(s, 4, 2))
      \/ n = 23 /\ s = E!P2SH(E!Body(s, 3, 1))
      \/ n \in {22, 34} /\ s = E!Witness(0, E!Body(s, 3, 0)) /\ t = E!Bech(0, E!Body(s, 3, 0))
      \/ n = 34 /\ s = E!Witness(1, E!Body(s, 3, 0)) /\ t = E!Bech(1, E!Body(s, 3, 0))
  <2>1. CASE n = 25 /\ s = E!P2PKH(E!Body(s, 4, 2))
    BY <2>1
  <2>2. CASE n = 23 /\ s = E!P2SH(E!Body(s, 3, 1))
    BY <2>2
  <2>3. CASE /\ n \in {22, 34} /\ s = E!Witness(0, E!Body(s, 3, 0))
             /\ ~ (n = 34 /\ s = E!Witness(1, E!Body(s, 3, 0)))
    BY <1>1, <1>3, <2>3 DEF E!DecodeBitcoinScript
  <2>4. CASE /\ n = 34 /\ s = E!Witness(1, E!Body(s, 3, 0))
             /\ ~ (n \in {22, 34} /\ s = E!Witness(0, E!Body(s, 3, 0)))
    BY <1>1, <1>3, <2>4 DEF E!DecodeBitcoinScript
  <2>5. ~ (/\ n = 34 /\ s = E!Witness(1, E!Body(s, 3, 0))
           /\ s = E!Witness(0, E!Body(s, 3, 0)))
    <3>1. PICK p : p = SubSeq(s, 3, n)
      OBVIOUS
    <3>2. E!Body(s, 3, 0) = p
      BY <1>3, <3>1 DEF E!Body
    <3>3. ASSUME n = 34 PROVE p \in Seq(Byte) /\ Len(p) = 32
      <4>1. 3 \in 1 .. Len(s) /\ n \in 3 .. Len(s)
        BY <1>3, <3>3
      <4>2. SubSeq(s, 3, n) \in Seq(Byte) /\ Len(SubSeq(s, 3, n)) = (n - 3) + 1
        BY <4>1, PartOf
      <4> QED
        BY <3>1, <3>3, <4>2
    <3>4. n = 34 => E!Witness(0, p)[1] = 0 /\ E!Witness(1, p)[1] = 81
      <4>1. 0 \in 0 .. 16 /\ 1 \in 0 .. 16 /\ 32 \in 0 .. 255
        OBVIOUS
      <4>2. n = 34 => E!Witness(0, p)[1] = IF 0 = 0 THEN 0 ELSE 80 + 0
        BY <3>3, <4>1, WitnessScript
      <4>3. n = 34 => E!Witness(1, p)[1] = IF 1 = 0 THEN 0 ELSE 80 + 1
        BY <3>3, <4>1, WitnessScript
      <4> QED
        BY <4>2, <4>3
    <3> QED
      BY <3>2, <3>4
  <2>6. ~ (\/ n = 25 /\ s = E!P2PKH(E!Body(s, 4, 2))
           \/ n = 23 /\ s = E!P2SH(E!Body(s, 3, 1))
           \/ n \in {22, 34} /\ s = E!Witness(0, E!Body(s, 3, 0))
           \/ n = 34 /\ s = E!Witness(1, E!Body(s, 3, 0)))
        => t = E!None
    BY <1>1, <1>3 DEF E!DecodeBitcoinScript
  <2> QED
    BY <1>1, <2>1, <2>2, <2>3, <2>4, <2>5, <2>6
<1> QED
  BY <1>1, <1>5, <1>6, <1>7, <1>8

LEMMA AddressReencodes ==
  ASSUME NEW c \in E!Chain, NEW s \in Seq(Byte), E!DecodeAddress(c, s) # E!None
  PROVE  E!RecordValueFor(c, E!DecodeAddress(c, s)) = s
<1>1. PICK t : t = E!DecodeAddress(c, s)
  OBVIOUS
<1>2. c \in {E!BTC, E!ETH, E!SOL}
  BY CoinsDiffer
<1>3. CASE c = E!ETH
  <2>1. Len(s) = 20 /\ t = [form |-> "hex", case |-> "checksum", bytes |-> s]
    BY <1>1, <1>3, CoinsDiffer DEF E!DecodeAddress
  <2>2. t.form = "hex" /\ t.bytes = s
    BY <2>1
  <2>3. E!IsValidAddress(c, t)
    BY <1>3, <2>1, <2>2, CoinsDiffer DEF E!IsValidAddress
  <2>4. E!RecordValueFor(c, t) = t.bytes
    BY <1>3, <2>3, CoinsDiffer DEF E!RecordValueFor
  <2> QED
    BY <1>1, <2>2, <2>4
<1>4. CASE c = E!SOL
  <2>1. Len(s) = 32 /\ t = [form |-> "base58", bytes |-> s]
    BY <1>1, <1>4, CoinsDiffer DEF E!DecodeAddress
  <2>2. t.form = "base58" /\ t.bytes = s
    BY <2>1
  <2>3. E!IsValidAddress(c, t)
    BY <1>4, <2>1, <2>2, CoinsDiffer DEF E!IsValidAddress
  <2>4. E!RecordValueFor(c, t) = t.bytes
    BY <1>4, <2>3, CoinsDiffer DEF E!RecordValueFor
  <2> QED
    BY <1>1, <2>2, <2>4
<1>5. CASE c = E!BTC
  <2>1. t = E!DecodeBitcoinScript(s)
    BY <1>1, <1>5, CoinsDiffer DEF E!DecodeAddress
  <2> QED
    BY <1>1, <1>5, <2>1, ScriptReencodes
<1> QED
  BY <1>2, <1>3, <1>4, <1>5

(* A text: its form says which fields it has.                              *)
LEMMA FilledTexts ==
  ASSUME NEW n \in Lengths, NEW b \in Fill
  PROVE  E!Bytes(n, b) \in Seq(Byte) /\ Len(E!Bytes(n, b)) = n /\ n \in 0 .. 255 /\ b \in Byte
<1>1. n \in 0 .. 255 /\ b \in Byte
  BY RecordNumbers
<1> QED
  BY <1>1, Filled

LEMMA PrefixedIs ==
  ASSUME NEW v \in Byte, NEW h \in Seq(Byte)
  PROVE  E!Versioned(v, h) \in Seq(Byte) /\ Len(E!Versioned(v, h)) = Len(h) + 1
<1>1. PICK f : f = <<v>>
  OBVIOUS
<1>2. f \in Seq(Byte) /\ Len(f) = 1
  BY <1>1
<1>3. PICK s : s = f \o h
  OBVIOUS
<1>4. s \in Seq(Byte) /\ Len(s) = Len(f) + Len(h)
  BY <1>2, <1>3, ConcatProperties
<1>5. E!Versioned(v, h) = s
  BY <1>1, <1>3 DEF E!Versioned
<1>6. Len(h) \in Nat
  BY LenProperties
<1> QED
  BY <1>2, <1>4, <1>5, <1>6

LEMMA TextIs ==
  ASSUME NEW t \in E!Text
  PROVE  /\ t.bytes \in Seq(Byte)
         /\ \/ t = [form |-> "hex", case |-> t.case, bytes |-> t.bytes]
            \/ t = [form |-> "base58", bytes |-> t.bytes]
            \/ /\ t = [form |-> "segwit", case |-> t.case, code |-> t.code,
                       version |-> t.version, bytes |-> t.bytes]
               /\ t.code \in {"bech32", "bech32m"} /\ t.version \in {0, 1, 2, 16, 17}
<1>1. CASE t \in E!Hex
  <2>1. t.bytes \in {E!Bytes(n, b) : n \in Lengths, b \in Fill}
        /\ t = [form |-> "hex", case |-> t.case, bytes |-> t.bytes]
    BY <1>1 DEF E!Hex
  <2> QED
    BY <2>1, FilledTexts
<1>2. CASE t \in E!Base58
  <2>1. t = [form |-> "base58", bytes |-> t.bytes]
    BY <1>2 DEF E!Base58
  <2>2. \/ \E n \in Lengths : \E b \in Fill : t.bytes = E!Bytes(n, b)
        \/ \E v \in {0, 5, 111} : \E n \in {19, 20} : \E b \in Fill :
             t.bytes = E!Checked(E!Versioned(v, E!Bytes(n, b)))
        \/ \E v \in {0, 5} : \E b \in Fill : t.bytes = E!Versioned(v, E!Bytes(24, b))
    BY <1>2 DEF E!Base58
  <2>3. ASSUME NEW n \in Lengths, NEW b \in Fill, t.bytes = E!Bytes(n, b)
        PROVE  t.bytes \in Seq(Byte)
    BY <2>3, FilledTexts
  <2>4. ASSUME NEW v \in Byte, NEW n \in 0 .. 255, NEW b \in Byte
        PROVE  /\ E!Versioned(v, E!Bytes(n, b)) \in Seq(Byte)
               /\ Len(E!Versioned(v, E!Bytes(n, b))) > 0
    <3>2. PICK h : h = E!Bytes(n, b)
      OBVIOUS
    <3>3. h \in Seq(Byte) /\ Len(h) = n
      BY <3>2, Filled
    <3>4. PICK s : s = E!Versioned(v, h)
      OBVIOUS
    <3>5. s \in Seq(Byte) /\ Len(s) = Len(h) + 1
      BY <3>3, <3>4, PrefixedIs
    <3>6. Len(s) > 0
      BY <3>3, <3>5
    <3> QED
      BY <3>2, <3>4, <3>5, <3>6
  <2>5. ASSUME NEW v \in {0, 5, 111}, NEW n \in {19, 20}, NEW b \in Fill,
               t.bytes = E!Checked(E!Versioned(v, E!Bytes(n, b)))
        PROVE  t.bytes \in Seq(Byte)
    <3>1. b \in Byte
      BY RecordNumbers DEF Byte
    <3>7. PICK y \in Byte : y = v
      BY DEF Byte
    <3>8. PICK m \in 0 .. 255 : m = n
      OBVIOUS
    <3>2. PICK p : p = E!Versioned(v, E!Bytes(n, b))
      OBVIOUS
    <3>3. p \in Seq(Byte) /\ Len(p) > 0
      <4>1. /\ E!Versioned(y, E!Bytes(m, b)) \in Seq(Byte)
            /\ Len(E!Versioned(y, E!Bytes(m, b))) > 0
        BY <2>4, <3>1
      <4> QED
        BY <3>2, <3>7, <3>8, <4>1
    <3>4. PICK g : g = E!Checksum(p)
      OBVIOUS
    <3>5. g \in Seq(Byte)
      BY <3>3, <3>4, SumIs
    <3>6. p \o g \in Seq(Byte)
      BY <3>3, <3>5, ConcatProperties
    <3> QED
      BY <2>5, <3>2, <3>4, <3>6 DEF E!Checked
  <2>6. ASSUME NEW v \in {0, 5}, NEW b \in Fill, t.bytes = E!Versioned(v, E!Bytes(24, b))
        PROVE  t.bytes \in Seq(Byte)
    <3>1. v \in Byte /\ 24 \in 0 .. 255 /\ b \in Byte
      BY RecordNumbers DEF Byte
    <3> QED
      BY <2>4, <2>6, <3>1
  <2> QED
    BY <2>1, <2>2, <2>3, <2>5, <2>6
<1>3. CASE t \in E!Segwit
  <2>1. /\ t.bytes \in {E!Bytes(n, b) : n \in Lengths, b \in Fill}
        /\ t = [form |-> "segwit", case |-> t.case, code |-> t.code,
                version |-> t.version, bytes |-> t.bytes]
        /\ t.code \in {"bech32", "bech32m"} /\ t.version \in {0, 1, 2, 16, 17}
    BY <1>3 DEF E!Segwit
  <2> QED
    BY <2>1, FilledTexts
<1> QED
  BY <1>1, <1>2, <1>3 DEF E!Text

(* The owner's script reads back as the owner's address.                   *)
LEMMA ScriptReadsBack ==
  ASSUME NEW t \in E!Text, E!EncodeBitcoinScript(t) # E!Refused
  PROVE  /\ E!EncodeBitcoinScript(t) \in Seq(Byte)
         /\ E!Canonical(E!DecodeBitcoinScript(E!EncodeBitcoinScript(t))) = E!Canonical(t)
<1>1. PICK s : s = E!EncodeBitcoinScript(t)
  OBVIOUS
<1>2. PICK b \in Seq(Byte) : b = t.bytes
  BY TextIs
<1>3. PICK n \in Nat : n = Len(b)
  BY LenProperties
<1>4. ASSUME NEW v \in {0, 1}, s = E!Witness(v, b), n \in {20, 32}, v = 1 => n = 32,
             t.form = "segwit", t.version = v,
             t.code = IF v = 0 THEN "bech32" ELSE "bech32m"
      PROVE  s \in Seq(Byte) /\ E!Canonical(E!DecodeBitcoinScript(s)) = E!Canonical(t)
  <2>1. PICK y \in 0 .. 16 : y = v
    OBVIOUS
  <2>2. Len(b) \in 0 .. 255
    <3>1. n \in 0 .. 255
      BY <1>4
    <3> QED
      BY <1>3, <3>1
  <2>3. /\ E!Witness(y, b) \in Seq(Byte) /\ Len(E!Witness(y, b)) = Len(b) + 2
        /\ E!Body(E!Witness(y, b), 3, 0) = b
        /\ E!Witness(y, b)[1] = IF y = 0 THEN 0 ELSE 80 + y
    BY <2>2, WitnessScript
  <2>4. /\ s \in Seq(Byte) /\ Len(s) = n + 2 /\ E!Body(s, 3, 0) = b
        /\ s[1] = IF v = 0 THEN 0 ELSE 81
    <3>1. s = E!Witness(y, b)
      BY <1>4, <2>1
    <3>2. s \in Seq(Byte) /\ Len(s) = n + 2 /\ E!Body(s, 3, 0) = b
      BY <1>3, <2>3, <3>1
    <3>3. s[1] = IF y = 0 THEN 0 ELSE 80 + y
      BY <2>3, <3>1
    <3> QED
      BY <2>1, <3>2, <3>3
  <2>5. v = 1 => s # E!Witness(0, b)
    <3>1. 0 \in 0 .. 16
      OBVIOUS
    <3>2. E!Witness(0, b)[1] = IF 0 = 0 THEN 0 ELSE 80 + 0
      BY <2>2, <3>1, WitnessScript
    <3> QED
      BY <2>4, <3>2
  <2>6. E!DecodeBitcoinScript(s) = E!Bech(v, b)
    <3>1. Len(s) \in {22, 34} /\ Len(s) # 25 /\ Len(s) # 23
      BY <1>4, <2>4
    <3>2. CASE v = 0
      <4>1. s = E!Witness(0, b)
        BY <1>4, <3>2
      <4>2. s # E!Witness(1, b)
        <5>1. 1 \in 0 .. 16
          OBVIOUS
        <5>2. E!Witness(1, b)[1] = IF 1 = 0 THEN 0 ELSE 80 + 1
          BY <2>2, <5>1, WitnessScript
        <5> QED
          BY <2>4, <3>2, <5>2
      <4>3. E!DecodeBitcoinScript(s) = E!Bech(0, b)
        BY <2>4, <3>1, <4>1, <4>2 DEF E!DecodeBitcoinScript
      <4> QED
        BY <3>2, <4>3
    <3>3. CASE v = 1
      <4>1. s = E!Witness(1, b) /\ s # E!Witness(0, b) /\ Len(s) = 34
        BY <1>4, <2>4, <2>5, <3>3
      <4>2. E!DecodeBitcoinScript(s) = E!Bech(1, b)
        BY <2>4, <3>1, <4>1 DEF E!DecodeBitcoinScript
      <4> QED
        BY <3>3, <4>2
    <3> QED
      BY <3>2, <3>3
  <2>7. t = [form |-> "segwit", case |-> t.case, code |-> t.code,
             version |-> v, bytes |-> b]
    BY <1>2, <1>4, TextIs
  <2>8. E!Canonical(t) = [form |-> "segwit", case |-> "lower",
            code |-> IF v = 0 THEN "bech32" ELSE "bech32m", version |-> v, bytes |-> b]
    BY <1>4, <2>7 DEF E!Canonical
  <2>9. E!Canonical(E!Bech(v, b)) = [form |-> "segwit", case |-> "lower",
            code |-> IF v = 0 THEN "bech32" ELSE "bech32m", version |-> v, bytes |-> b]
    BY DEF E!Canonical, E!Bech
  <2> QED
    BY <2>4, <2>6, <2>8, <2>9
<1>5. ASSUME t.form = "base58", E!IsChecked(t.bytes), t.bytes[1] = 0,
             s = E!P2PKH(SubSeq(t.bytes, 2, 21))
      PROVE  s \in Seq(Byte) /\ E!Canonical(E!DecodeBitcoinScript(s)) = E!Canonical(t)
  <2>1. PICK h : h = SubSeq(b, 2, 21)
    OBVIOUS
  <2>2. 0 \in {0, 5}
    OBVIOUS
  <2>3. /\ h \in Seq(Byte) /\ Len(h) = 20
        /\ E!Legacy(0, h) = [form |-> "base58", bytes |-> b]
    BY <1>2, <1>5, <2>1, <2>2, CheckedIs
  <2>4. s \in Seq(Byte) /\ Len(s) = 25 /\ E!Body(s, 4, 2) = h /\ s = E!P2PKH(h)
    BY <1>2, <1>5, <2>1, <2>3, KeyHashScript
  <2>5. E!DecodeBitcoinScript(s) = E!Legacy(0, h)
    BY <2>4 DEF E!DecodeBitcoinScript
  <2>6. t = [form |-> "base58", bytes |-> b]
    BY <1>2, <1>5, TextIs
  <2> QED
    BY <2>3, <2>4, <2>5, <2>6
<1>6. ASSUME t.form = "base58", E!IsChecked(t.bytes), t.bytes[1] = 5,
             s = E!P2SH(SubSeq(t.bytes, 2, 21))
      PROVE  s \in Seq(Byte) /\ E!Canonical(E!DecodeBitcoinScript(s)) = E!Canonical(t)
  <2>1. PICK h : h = SubSeq(b, 2, 21)
    OBVIOUS
  <2>2. 5 \in {0, 5}
    OBVIOUS
  <2>3. /\ h \in Seq(Byte) /\ Len(h) = 20
        /\ E!Legacy(5, h) = [form |-> "base58", bytes |-> b]
    BY <1>2, <1>6, <2>1, <2>2, CheckedIs
  <2>4. s \in Seq(Byte) /\ Len(s) = 23 /\ E!Body(s, 3, 1) = h /\ s = E!P2SH(h)
    BY <1>2, <1>6, <2>1, <2>3, ScriptHashScript
  <2>5. E!DecodeBitcoinScript(s) = E!Legacy(5, h)
    BY <2>4 DEF E!DecodeBitcoinScript
  <2>6. t = [form |-> "base58", bytes |-> b]
    BY <1>2, <1>6, TextIs
  <2> QED
    BY <2>3, <2>4, <2>5, <2>6
<1>7. \/ /\ t.form = "segwit" /\ t.version = 0 /\ t.code = "bech32"
         /\ n \in {20, 32} /\ s = E!Witness(0, b)
      \/ /\ t.form = "segwit" /\ t.version = 1 /\ t.code = "bech32m"
         /\ n = 32 /\ s = E!Witness(1, b)
      \/ /\ t.form = "base58" /\ E!IsChecked(t.bytes) /\ t.bytes[1] = 0
         /\ s = E!P2PKH(SubSeq(t.bytes, 2, 21))
      \/ /\ t.form = "base58" /\ E!IsChecked(t.bytes) /\ t.bytes[1] = 5
         /\ s = E!P2SH(SubSeq(t.bytes, 2, 21))
  BY <1>1, <1>2, <1>3 DEF E!EncodeBitcoinScript
<1> QED
  BY <1>1, <1>4, <1>5, <1>6, <1>7

LEMMA TextReadsBack ==
  ASSUME NEW c, NEW t \in E!Text, E!EncodeAddress(c, t) # E!Refused
  PROVE  /\ E!EncodeAddress(c, t) \in Seq(Byte)
         /\ c \in E!Chain =>
              E!Canonical(E!DecodeAddress(c, E!EncodeAddress(c, t))) = E!Canonical(t)
<1>1. PICK s : s = E!EncodeAddress(c, t)
  OBVIOUS
<1>2. ASSUME E!IsEvm(c), t.form = "hex", Len(t.bytes) = 20, s = t.bytes
      PROVE  s \in Seq(Byte) /\ E!Canonical(E!DecodeAddress(c, s)) = E!Canonical(t)
  <2>1. s \in Seq(Byte)
    BY <1>2, TextIs
  <2>2. E!DecodeAddress(c, s) = [form |-> "hex", case |-> "checksum", bytes |-> s]
    BY <1>2, CoinsDiffer DEF E!DecodeAddress
  <2>3. t = [form |-> "hex", case |-> t.case, bytes |-> s]
    BY <1>2, TextIs
  <2>4. E!Canonical(t) = [form |-> "hex", case |-> "lower", bytes |-> s]
    BY <2>3 DEF E!Canonical
  <2>5. E!Canonical(E!DecodeAddress(c, s)) = [form |-> "hex", case |-> "lower", bytes |-> s]
    BY <2>2 DEF E!Canonical
  <2> QED
    BY <2>1, <2>4, <2>5
<1>3. ASSUME c = E!SOL, t.form = "base58", Len(t.bytes) = 32, s = t.bytes
      PROVE  s \in Seq(Byte) /\ E!Canonical(E!DecodeAddress(c, s)) = E!Canonical(t)
  <2>1. s \in Seq(Byte)
    BY <1>3, TextIs
  <2>2. E!DecodeAddress(c, s) = [form |-> "base58", bytes |-> s]
    BY <1>3, CoinsDiffer DEF E!DecodeAddress
  <2>3. t = [form |-> "base58", bytes |-> s]
    BY <1>3, TextIs
  <2> QED
    BY <2>1, <2>2, <2>3
<1>4. ASSUME c = E!BTC, s = E!EncodeBitcoinScript(t)
      PROVE  s \in Seq(Byte) /\ E!Canonical(E!DecodeAddress(c, s)) = E!Canonical(t)
  <2>1. E!DecodeAddress(c, s) = E!DecodeBitcoinScript(s)
    BY <1>4, CoinsDiffer DEF E!DecodeAddress
  <2>2. E!EncodeBitcoinScript(t) # E!Refused
    BY <1>1, <1>4
  <2> QED
    BY <1>4, <2>1, <2>2, ScriptReadsBack
<1>5. \/ E!IsEvm(c) /\ t.form = "hex" /\ Len(t.bytes) = 20 /\ s = t.bytes
      \/ c = E!SOL /\ t.form = "base58" /\ Len(t.bytes) = 32 /\ s = t.bytes
      \/ c = E!BTC /\ s = E!EncodeBitcoinScript(t)
  BY <1>1, CoinsDiffer DEF E!EncodeAddress
<1> QED
  BY <1>1, <1>2, <1>3, <1>4, <1>5

(* The API stores no address that the SDK would not show.                  *)
LEMMA StoredShown ==
  ASSUME NEW c \in E!Chain, NEW t \in E!Text, E!ApiAccepts(c, t)
  PROVE  E!IsValidAddress(c, E!Canonical(t))
<1>1. PICK u : u = E!Canonical(t)
  OBVIOUS
<1>2. /\ u.form = t.form /\ u.bytes = t.bytes
      /\ t.form = "segwit" => /\ u.case = "lower" /\ u.code = t.code /\ u.version = t.version
  <2>1. CASE t = [form |-> "hex", case |-> t.case, bytes |-> t.bytes]
    <3>1. u = [form |-> "hex", case |-> "lower", bytes |-> t.bytes] /\ t.form = "hex"
      BY <1>1, <2>1 DEF E!Canonical
    <3> QED
      BY <3>1
  <2>2. CASE t = [form |-> "base58", bytes |-> t.bytes]
    <3>1. u = t /\ t.form = "base58"
      BY <1>1, <2>2 DEF E!Canonical
    <3> QED
      BY <3>1
  <2>3. CASE t = [form |-> "segwit", case |-> t.case, code |-> t.code,
                  version |-> t.version, bytes |-> t.bytes]
    <3>1. u = [form |-> "segwit", case |-> "lower", code |-> t.code,
               version |-> t.version, bytes |-> t.bytes]
      BY <1>1, <2>3 DEF E!Canonical
    <3>2. t.form = "segwit"
      BY <2>3
    <3> QED
      BY <3>1, <3>2
  <2> QED
    BY <2>1, <2>2, <2>3, TextIs
<1>3. c \in {E!BTC, E!ETH, E!SOL}
  BY CoinsDiffer
<1>4. CASE c = E!ETH
  <2>1. t.form = "hex" /\ Len(t.bytes) = 20
    BY <1>4, CoinsDiffer DEF E!ApiAccepts
  <2> QED
    BY <1>1, <1>2, <1>4, <2>1, CoinsDiffer DEF E!IsValidAddress
<1>5. CASE c = E!SOL
  <2>1. t.form = "base58" /\ Len(t.bytes) = 32
    BY <1>5, CoinsDiffer DEF E!ApiAccepts
  <2> QED
    BY <1>1, <1>2, <1>5, <2>1, CoinsDiffer DEF E!IsValidAddress
<1>6. CASE c = E!BTC
  <2>1. \/ t.form = "base58" /\ E!IsChecked(t.bytes) /\ t.bytes[1] \in {0, 5}
        \/ /\ t.form = "segwit" /\ t.version <= 16
           /\ (t.version = 0) = (t.code = "bech32")
           /\ Len(t.bytes) \in E!WitnessLengths(t.version)
    BY <1>6, CoinsDiffer DEF E!ApiAccepts
  <2>2. ASSUME t.form = "base58", E!IsChecked(t.bytes), t.bytes[1] \in {0, 5}
        PROVE  E!DecodeBitcoinBase58(u)
    BY <1>2, <2>2 DEF E!IsChecked, E!DecodeBitcoinBase58
  <2>3. ASSUME t.form = "segwit", t.version <= 16, (t.version = 0) = (t.code = "bech32"),
               Len(t.bytes) \in E!WitnessLengths(t.version)
        PROVE  E!DecodeSegwit(u)
    <3>1. t.code \in {"bech32", "bech32m"}
      BY <2>3, TextIs
    <3>2. u.code = IF u.version = 0 THEN "bech32" ELSE "bech32m"
      BY <1>2, <2>3, <3>1
    <3> QED
      BY <1>2, <2>3, <3>2 DEF E!DecodeSegwit
  <2>4. E!IsValidAddress(c, u) = (E!DecodeSegwit(u) \/ E!DecodeBitcoinBase58(u))
    BY <1>6, CoinsDiffer DEF E!IsValidAddress
  <2> QED
    BY <1>1, <2>1, <2>2, <2>3, <2>4
<1> QED
  BY <1>3, <1>4, <1>5, <1>6

RecordInv ==
  /\ E!TypeOK
  /\ value \in Seq(Byte)
  /\ stage = "input" => text = E!None
  /\ text # E!None =>
       E!EncodeAddress(coin, text) # E!Refused /\ value = E!EncodeAddress(coin, text)
  /\ stage \in {"answered", "parsed"} =>
       /\ body.coin = coin /\ body.value = value
       /\ body = [coin |-> body.coin, value |-> body.value,
                  address |-> body.address, shown |-> body.shown]
  /\ parsed = IF stage = "parsed" THEN E!Parse(body) ELSE E!Unparsed

LEMMA BytesType ==
  ASSUME NEW s \in Seq(Byte)
  PROVE  \A i \in DOMAIN s : s[i] \in 0 .. 255
BY LenProperties, ElementOfSeq DEF Byte

LEMMA NoneIsNoText == \A t \in E!Text : t # E!None
<1> SUFFICES ASSUME NEW t \in E!Text PROVE t # E!None
  OBVIOUS
<1>1. t.form \in {"hex", "base58", "segwit"}
  BY TextIs
<1>2. E!None.form = "none"
  BY DEF E!None
<1> QED
  BY <1>1, <1>2

LEMMA RecordInit == E!Init => RecordInv
<1> SUFFICES ASSUME E!Init PROVE RecordInv
  OBVIOUS
<1>1. /\ stage = "input" /\ coin \in E!Coin /\ text = E!None /\ value = <<>>
      /\ parsed = E!Unparsed
  BY DEF E!Init
<1>2. value \in Seq(Byte)
  BY <1>1, EmptySeq
<1>3. \A i \in DOMAIN value : value[i] \in 0 .. 255
  BY <1>2, BytesType
<1>4. parsed.ok \in BOOLEAN
  BY <1>1 DEF E!Unparsed
<1>5. E!TypeOK
  BY <1>1, <1>3, <1>4 DEF E!TypeOK
<1> QED
  BY <1>1, <1>2, <1>5 DEF RecordInv

LEMMA PushIsBytes ==
  ASSUME NEW i \in Byte, NEW n \in Byte, NEW p \in Seq(Byte)
  PROVE  E!Pushed(i, n, p) \in Seq(Byte)
<1>1. PICK f : f = <<i, n>>
  OBVIOUS
<1>2. f \in Seq(Byte)
  BY <1>1
<1>3. f \o p \in Seq(Byte)
  BY <1>2, ConcatProperties
<1> QED
  BY <1>1, <1>3 DEF E!Pushed

LEMMA ScriptsAreBytes ==
  ASSUME NEW h \in Seq(Byte)
  PROVE  E!P2PKH(h) \in Seq(Byte) /\ E!P2SH(h) \in Seq(Byte)
<1>1. PICK f : f = <<118, 169, 20>>
  OBVIOUS
<1>2. PICK g : g = <<136, 172>>
  OBVIOUS
<1>3. f \in Seq(Byte) /\ g \in Seq(Byte)
  BY <1>1, <1>2 DEF Byte
<1>4. f \o h \o g \in Seq(Byte)
  BY <1>3, Middle
<1>5. PICK j : j = <<169, 20>>
  OBVIOUS
<1>6. PICK k : k = <<135>>
  OBVIOUS
<1>7. j \in Seq(Byte) /\ k \in Seq(Byte)
  BY <1>5, <1>6 DEF Byte
<1>8. j \o h \o k \in Seq(Byte)
  BY <1>7, Middle
<1>9. E!P2PKH(h) = f \o h \o g
  BY <1>1, <1>2 DEF E!P2PKH
<1>10. E!P2SH(h) = j \o h \o k
  BY <1>5, <1>6 DEF E!P2SH
<1> QED
  BY <1>4, <1>8, <1>9, <1>10

LEMMA RawIsBytes ==
  ASSUME NEW s \in E!Raw
  PROVE  s \in Seq(Byte)
<1>1. \/ \E n \in Lengths : \E b \in Fill : s = E!Bytes(n, b)
      \/ \E v \in {0, 1, 2, 16} : \E n \in Lengths : \E b \in Fill :
           s = E!Witness(v, E!Bytes(n, b))
      \/ \E i \in {0, 81} : \E m \in {20, 32} : \E n \in Lengths : \E b \in Fill :
           s = E!Pushed(i, m, E!Bytes(n, b))
      \/ \E n \in Lengths : \E b \in Fill : s = E!P2PKH(E!Bytes(n, b))
      \/ \E n \in Lengths : \E b \in Fill : s = E!P2SH(E!Bytes(n, b))
  BY DEF E!Raw
<1>2. ASSUME NEW n \in Lengths, NEW b \in Fill
      PROVE  /\ s = E!Bytes(n, b) => s \in Seq(Byte)
             /\ s = E!P2PKH(E!Bytes(n, b)) => s \in Seq(Byte)
             /\ s = E!P2SH(E!Bytes(n, b)) => s \in Seq(Byte)
  <2>1. PICK p : p = E!Bytes(n, b)
    OBVIOUS
  <2>2. p \in Seq(Byte)
    BY <2>1, FilledTexts
  <2>3. E!P2PKH(p) \in Seq(Byte) /\ E!P2SH(p) \in Seq(Byte)
    BY <2>2, ScriptsAreBytes
  <2> QED
    BY <2>1, <2>2, <2>3
<1>3. ASSUME NEW v \in {0, 1, 2, 16}, NEW n \in Lengths, NEW b \in Fill,
             s = E!Witness(v, E!Bytes(n, b))
      PROVE  s \in Seq(Byte)
  <2>1. PICK p : p = E!Bytes(n, b)
    OBVIOUS
  <2>2. p \in Seq(Byte) /\ Len(p) \in 0 .. 255
    BY <2>1, FilledTexts
  <2>3. PICK y \in 0 .. 16 : y = v
    OBVIOUS
  <2>4. E!Witness(y, p) \in Seq(Byte)
    BY <2>2, WitnessScript
  <2> QED
    BY <1>3, <2>1, <2>3, <2>4
<1>4. ASSUME NEW i \in {0, 81}, NEW m \in {20, 32}, NEW n \in Lengths, NEW b \in Fill,
             s = E!Pushed(i, m, E!Bytes(n, b))
      PROVE  s \in Seq(Byte)
  <2>1. PICK p : p = E!Bytes(n, b)
    OBVIOUS
  <2>2. p \in Seq(Byte)
    BY <2>1, FilledTexts
  <2>3. PICK j \in Byte : j = i
    BY DEF Byte
  <2>4. PICK k \in Byte : k = m
    BY DEF Byte
  <2>5. E!Pushed(j, k, p) \in Seq(Byte)
    BY <2>2, PushIsBytes
  <2> QED
    BY <1>4, <2>1, <2>3, <2>4, <2>5
<1> QED
  BY <1>1, <1>2, <1>3, <1>4

LEMMA EncodesKeeps ==
  ASSUME RecordInv, NEW t \in E!Text, E!Encodes(t)
  PROVE  RecordInv'
<1>1. /\ stage = "input" /\ E!EncodeAddress(coin, t) # E!Refused
      /\ stage' = "stored" /\ text' = t /\ value' = E!EncodeAddress(coin, t)
      /\ coin' = coin /\ body' = body /\ parsed' = parsed
  BY DEF E!Encodes
<1>2. E!TypeOK /\ parsed = E!Unparsed
  BY <1>1 DEF RecordInv
<1>3. value' \in Seq(Byte)
  BY <1>1, TextReadsBack
<1>4. \A i \in DOMAIN value' : value'[i] \in 0 .. 255
  BY <1>3, BytesType
<1>5. E!TypeOK'
  BY <1>1, <1>2, <1>4 DEF E!TypeOK
<1>6. stage' # "input" /\ stage' \notin {"answered", "parsed"} /\ stage' # "parsed"
  BY <1>1
<1>7. E!EncodeAddress(coin', text') # E!Refused /\ value' = E!EncodeAddress(coin', text')
  BY <1>1
<1>8. E!EncodeAddress(coin, text)' = E!EncodeAddress(coin', text')
  BY Zenon
<1>9. E!Parse(body)' = E!Parse(body')
  BY Zenon
<1> QED
  BY <1>1, <1>2, <1>3, <1>5, <1>6, <1>7, <1>8, <1>9 DEF RecordInv

LEMMA SetsRawKeeps ==
  ASSUME RecordInv, E!SetsRaw
  PROVE  RecordInv'
<1>1. /\ stage = "input" /\ value' \in E!Raw /\ stage' = "stored"
      /\ coin' = coin /\ text' = text /\ body' = body /\ parsed' = parsed
  BY DEF E!SetsRaw
<1>2. E!TypeOK /\ parsed = E!Unparsed /\ text = E!None
  BY <1>1 DEF RecordInv
<1>3. value' \in Seq(Byte)
  BY <1>1, RawIsBytes
<1>4. \A i \in DOMAIN value' : value'[i] \in 0 .. 255
  BY <1>3, BytesType
<1>5. E!TypeOK'
  BY <1>1, <1>2, <1>4 DEF E!TypeOK
<1>6. stage' # "input" /\ stage' \notin {"answered", "parsed"} /\ stage' # "parsed"
  BY <1>1
<1> QED
  BY <1>1, <1>2, <1>3, <1>5, <1>6 DEF RecordInv

LEMMA AnswersKeeps ==
  ASSUME RecordInv, E!Answers
  PROVE  RecordInv'
<1>1. /\ stage = "stored" /\ stage' = "answered" /\ body' = E!BuildBody(coin, value)
      /\ coin' = coin /\ text' = text /\ value' = value /\ parsed' = parsed
  BY DEF E!Answers
<1>2. /\ E!TypeOK /\ parsed = E!Unparsed /\ value \in Seq(Byte)
      /\ text # E!None =>
           E!EncodeAddress(coin, text) # E!Refused /\ value = E!EncodeAddress(coin, text)
  BY <1>1 DEF RecordInv
<1>3. PICK b : b = E!BuildBody(coin, value)
  OBVIOUS
<1>4. /\ b.coin = coin /\ b.value = value
      /\ b = [coin |-> b.coin, value |-> b.value, address |-> b.address, shown |-> b.shown]
  BY <1>3 DEF E!BuildBody
<1>5. E!TypeOK'
  BY <1>1, <1>2 DEF E!TypeOK
<1>6. body' = b /\ stage' # "input" /\ stage' # "parsed"
  BY <1>1, <1>3
<1> QED
  BY <1>1, <1>2, <1>4, <1>5, <1>6 DEF RecordInv

LEMMA TamperedKeeps ==
  ASSUME RecordInv, E!Tampered
  PROVE  RecordInv'
<1>1. PICK t : body' \in {[body EXCEPT !.shown = t],
                          [body EXCEPT !.shown = t, !.address = t]}
  BY DEF E!Tampered
<1>2. /\ stage = "answered" /\ stage' = stage
      /\ coin' = coin /\ text' = text /\ value' = value /\ parsed' = parsed
  BY DEF E!Tampered
<1>3. /\ E!TypeOK /\ parsed = E!Unparsed /\ value \in Seq(Byte)
      /\ text # E!None =>
           E!EncodeAddress(coin, text) # E!Refused /\ value = E!EncodeAddress(coin, text)
  BY <1>2 DEF RecordInv
<1>4. PICK a : a = body
  OBVIOUS
<1>5. /\ a.coin = coin /\ a.value = value
      /\ a = [coin |-> a.coin, value |-> a.value, address |-> a.address, shown |-> a.shown]
  BY <1>2, <1>4 DEF RecordInv
<1>6. PICK b : b = body'
  OBVIOUS
<1>7. \/ b = [a EXCEPT !.shown = t]
      \/ b = [a EXCEPT !.shown = t, !.address = t]
  BY <1>1, <1>4, <1>6
<1>8. /\ b.coin = coin /\ b.value = value
      /\ b = [coin |-> b.coin, value |-> b.value, address |-> b.address, shown |-> b.shown]
  <2>1. CASE b = [a EXCEPT !.shown = t]
    <3>1. b = [coin |-> a.coin, value |-> a.value, address |-> a.address, shown |-> t]
      BY <1>5, <2>1
    <3> QED
      BY <1>5, <3>1
  <2>2. CASE b = [a EXCEPT !.shown = t, !.address = t]
    <3>1. b = [coin |-> a.coin, value |-> a.value, address |-> t, shown |-> t]
      BY <1>5, <2>2
    <3> QED
      BY <1>5, <3>1
  <2> QED
    BY <1>7, <2>1, <2>2
<1>9. E!TypeOK'
  BY <1>2, <1>3 DEF E!TypeOK
<1>10. body' = b /\ stage' # "input" /\ stage' # "parsed"
  BY <1>2, <1>6
<1> QED
  BY <1>2, <1>3, <1>8, <1>9, <1>10 DEF RecordInv

LEMMA ParsesKeeps ==
  ASSUME RecordInv, E!Parses
  PROVE  RecordInv'
<1>1. /\ stage = "answered" /\ stage' = "parsed" /\ parsed' = E!Parse(body)
      /\ coin' = coin /\ text' = text /\ value' = value /\ body' = body
  BY DEF E!Parses
<1>2. /\ E!TypeOK /\ value \in Seq(Byte)
      /\ text # E!None =>
           E!EncodeAddress(coin, text) # E!Refused /\ value = E!EncodeAddress(coin, text)
      /\ body.coin = coin /\ body.value = value
      /\ body = [coin |-> body.coin, value |-> body.value,
                 address |-> body.address, shown |-> body.shown]
  BY <1>1 DEF RecordInv
<1>3. E!Parse(body).ok \in BOOLEAN
  BY DEF E!Parse, E!Unparsed
<1>4. E!TypeOK'
  BY <1>1, <1>2, <1>3 DEF E!TypeOK
<1>5. stage' # "input"
  BY <1>1
<1>6. E!Parse(body)' = E!Parse(body)
  BY <1>1, Zenon
<1> QED
  BY <1>1, <1>2, <1>4, <1>5, <1>6 DEF RecordInv

LEMMA RecordStays ==
  ASSUME RecordInv, UNCHANGED <<stage, coin, text, value, body, parsed>>
  PROVE  RecordInv'
<1>1. E!TypeOK'
  BY DEF RecordInv, E!TypeOK
<1>2. E!Parse(body)' = E!Parse(body)
  BY Zenon
<1> QED
  BY <1>1, <1>2 DEF RecordInv

LEMMA RecordKept ==
  ASSUME RecordInv, E!Next
  PROVE  RecordInv'
<1>1. CASE E!Shown
  BY <1>1, RecordStays DEF E!Shown, E!vars
<1> QED
  BY <1>1, EncodesKeeps, SetsRawKeeps, AnswersKeeps, TamperedKeeps, ParsesKeeps DEF E!Next

LEMMA UntouchedAgrees ==
  ASSUME RecordInv, E!Untouched
  PROVE  /\ E!Agrees(body)
         /\ coin \in E!Chain => E!Parse(body).address = E!DecodeAddress(coin, value)
<1>1. PICK a : a = E!DecodeAddress(coin, value)
  OBVIOUS
<1>2. PICK b : b = body
  OBVIOUS
<1>3. /\ b.coin = coin /\ b.value = value /\ b.address = a
      /\ b.shown = IF coin \in E!Chain THEN a ELSE E!None
  BY <1>1, <1>2 DEF E!Untouched, E!BuildBody
<1>4. coin \in E!Chain /\ a # E!None => E!RecordValueFor(coin, a) = value
  BY <1>1, AddressReencodes DEF RecordInv
<1>5. E!Agrees(b)
  BY <1>3, <1>4 DEF E!Agrees
<1>6. E!Parse(b).address = b.shown
  BY <1>5 DEF E!Parse
<1> QED
  BY <1>1, <1>2, <1>3, <1>5, <1>6

LEMMA RecordShows ==
  ASSUME RecordInv
  PROVE  E!TypeOK /\ E!RecordsReadBack /\ E!StoredIsShown
<1>1. E!TypeOK
  BY DEF RecordInv
<1>2. E!StoredIsShown
  BY StoredShown DEF E!StoredIsShown
<1>3. ASSUME stage = "parsed", E!Untouched
      PROVE  parsed.ok
  <2>1. parsed = E!Parse(body) /\ E!Agrees(body)
    BY <1>3, UntouchedAgrees DEF RecordInv
  <2>2. E!Parse(body) = [ok |-> TRUE, address |-> body.shown]
    BY <2>1 DEF E!Parse
  <2> QED
    BY <2>1, <2>2
<1>4. ASSUME stage = "parsed", E!Untouched, text # E!None, coin \in E!Chain
      PROVE  E!Canonical(parsed.address) = E!Canonical(text)
  <2>1. parsed = E!Parse(body)
    BY <1>4 DEF RecordInv
  <2>2. E!Parse(body).address = E!DecodeAddress(coin, value)
    BY <1>4, UntouchedAgrees
  <2>3. text \in E!Text
    BY <1>1, <1>4 DEF E!TypeOK
  <2>4. E!EncodeAddress(coin, text) # E!Refused /\ value = E!EncodeAddress(coin, text)
    BY <1>4 DEF RecordInv
  <2> QED
    BY <1>4, <2>1, <2>2, <2>3, <2>4, TextReadsBack
<1>5. ASSUME parsed.ok, parsed.address # E!None
      PROVE  E!RecordValueFor(coin, parsed.address) = value
  <2>1. stage = "parsed" /\ parsed = E!Parse(body)
    <3>1. parsed # E!Unparsed
      <4>1. ~ E!Unparsed.ok
        BY DEF E!Unparsed
      <4> QED
        BY <1>5, <4>1
    <3> QED
      BY <3>1 DEF RecordInv
  <2>2. PICK b : b = body
    OBVIOUS
  <2>3. b.coin = coin /\ b.value = value
    BY <2>1, <2>2 DEF RecordInv
  <2>4. E!Agrees(b) /\ parsed.address = b.shown
    BY <1>5, <2>1, <2>2 DEF E!Parse, E!Unparsed
  <2>5. E!RecordValueFor(b.coin, b.shown) = b.value
    BY <1>5, <2>4 DEF E!Agrees
  <2> QED
    BY <2>3, <2>4, <2>5
<1>6. E!RecordsReadBack
  BY <1>3, <1>4, <1>5 DEF E!RecordsReadBack
<1> QED
  BY <1>1, <1>2, <1>6

-----------------------------------------------------------------------------
(* The services together: each part's invariant, while it is that part.    *)
ApiInv ==
  /\ part = "sessions" => SessionsInv
  /\ part = "accounts" => AccountsInv
  /\ part = "addresses" => AddressesInv
  /\ part = "resolve" => ResolveInv
  /\ part = "pages" => PageInv
  /\ part = "limits" => RateInv
  /\ part = "http" => HttpInv
  /\ part = "records" => RecordInv

LEMMA ApiInit == Init => ApiInv
<1> SUFFICES ASSUME Init PROVE ApiInv
  OBVIOUS
<1>1. /\ part = "sessions" => S!Init
      /\ part = "accounts" => A!Init
      /\ part = "addresses" => D!Init
      /\ part = "resolve" => R!Init
      /\ part = "pages" => L!Init
      /\ part = "limits" => I!Init
      /\ part = "http" => H!Init
      /\ part = "records" => E!Init
  BY DEF Init
<1>2. QED
  BY <1>1, SessionsInit, AccountsInit, AddressesInit, ResolveInit, PageInit, RateInit,
     HttpInit, RecordInit DEF ApiInv

LEMMA SessionsRest ==
  ASSUME SessionsInv, UNCHANGED <<version, tokens, revoked, call>>
  PROVE  SessionsInv'
  BY DEF SessionsInv, S!TypeOK, Past, HoldsPast

LEMMA AccountsRest ==
  ASSUME AccountsInv, UNCHANGED <<now, users, eth, onchain, call>>
  PROVE  AccountsInv'
  BY DEF AccountsInv, A!TypeOK, RunHolds, A!Owns

LEMMA AddressesRest ==
  ASSUME AddressesInv, UNCHANGED <<mapping, challenge, challenges, consumed, call>>
  PROVE  AddressesInv'
  BY TablesUnchanged DEF TablesHold, AddressesInv, D!TypeOK, D!VerifiedIsHeld,
     D!ConsumedOnce, HoldsProof

LEMMA ResolveRest ==
  ASSUME ResolveInv,
         UNCHANGED <<now, db, chain, dbEnd, chainEnd, cache, viewer, call>>
  PROVE  ResolveInv'
<1>1. WorldHolds' /\ WorldGoesOn
  BY WorldStays DEF ResolveInv
<1>2. QED
  BY <1>1, CallsStay, CopiesStay DEF ResolveInv

LEMMA HttpRest ==
  ASSUME HttpInv, UNCHANGED <<request, at, status, used>>
  PROVE  HttpInv'
<1>1. H!Stages' = H!Stages /\ H!Stage' = H!Stage
  BY DEF H!Stages, H!Stage
<1>2. QED
  BY <1>1 DEF HttpInv, H!TypeOK, FineSoFar, H!OutagesAreRetryable, H!Met,
     CameBy, UsedAt, H!Limited

(* A step is one of its part's, or leaves every service as it is.          *)
LEMMA OneStep ==
  ASSUME [Next]_all
  PROVE  /\ part' = part
         /\ \/ UNCHANGED all
            \/ /\ part = "sessions" => S!Next
               /\ part = "accounts" => A!Next
               /\ part = "addresses" => D!Next
               /\ part = "resolve" => R!Next
               /\ part = "pages" => L!Next
               /\ part = "limits" => I!Next
               /\ part = "http" => H!Next
               /\ part = "records" => E!Next
  BY DEF Next, Only, all

LEMMA ApiKept == ApiInv /\ [Next]_all => ApiInv'
<1> SUFFICES ASSUME ApiInv, [Next]_all PROVE ApiInv'
  OBVIOUS
<1>1. part' = part
  BY OneStep
<1>2. CASE UNCHANGED all
  <2>1. /\ UNCHANGED <<version, tokens, revoked, call>>
        /\ UNCHANGED <<now, users, eth, onchain, call>>
        /\ UNCHANGED <<mapping, challenge, challenges, consumed, call>>
        /\ UNCHANGED <<now, db, chain, dbEnd, chainEnd, cache, viewer, call>>
        /\ UNCHANGED <<count, start, out, page, state>>
        /\ UNCHANGED <<now, buckets, pruned, admitted>>
        /\ UNCHANGED <<request, at, status, used>>
        /\ UNCHANGED <<stage, coin, text, value, body, parsed>>
    BY <1>2 DEF all, sessions, accounts, addresses, resolve, pages, limits, http, records
  <2>2. QED
    BY <1>1, <2>1, SessionsRest, AccountsRest, AddressesRest, ResolveRest, PageStays,
       RateStays, HttpRest, RecordStays DEF ApiInv
<1>3. CASE /\ part = "sessions" => S!Next
           /\ part = "accounts" => A!Next
           /\ part = "addresses" => D!Next
           /\ part = "resolve" => R!Next
           /\ part = "pages" => L!Next
           /\ part = "limits" => I!Next
           /\ part = "http" => H!Next
           /\ part = "records" => E!Next
  BY <1>1, <1>3, SessionsKept, AccountsKept, AddressesKept, ResolveKept, PageKept,
     RateKept, HttpKept, RecordKept DEF ApiInv
<1>4. QED
  BY <1>2, <1>3, OneStep

LEMMA ApiHolds == Spec => []ApiInv
  BY ApiInit, ApiKept, PTL DEF Spec

(* Which service a run follows is chosen once.                             *)
PartIsOne ==
  part \in {"sessions", "accounts", "addresses", "resolve", "pages",
            "limits", "http", "records"}

(* What the resolve cache's invariant says of each variable is its type.   *)
LEMMA ResolveTypes == ResolveInv => R!TypeOK
  BY DEF ResolveInv, WorldHolds, CallsHold, CopiesHold, TrueFrom, R!TypeOK

(* No step goes over to another service.                                   *)
LEMMA PartIs == Spec => []PartIsOne
<1>1. Init => PartIsOne
  BY DEF Init, PartIsOne
<1>2. PartIsOne /\ [Next]_all => PartIsOne'
  <2>1. SUFFICES ASSUME PartIsOne, [Next]_all PROVE PartIsOne'
    OBVIOUS
  <2>2. part' = part
    BY <2>1, OneStep
  <2>3. QED
    BY <2>1, <2>2 DEF PartIsOne
<1>3. QED
  BY <1>1, <1>2, PTL DEF Spec

(* Every service's state has its types, the service a run follows being any *)
(* (the columns and the requests' fields, api/v1).                         *)
THEOREM ServicesTypeCorrect == Spec => []TypeOK
<1>1. /\ SessionsInv => S!TypeOK
      /\ AccountsInv => A!TypeOK
      /\ AddressesInv => D!TypeOK
      /\ HttpInv => H!TypeOK
  BY DEF SessionsInv, AccountsInv, AddressesInv, HttpInv
<1>2. ApiInv /\ PartIsOne => TypeOK
  BY <1>1, ResolveTypes, PageShows, RateShows, RecordShows
     DEF ApiInv, PartIsOne, TypeOK
<1>3. QED
  BY <1>2, PartIs, ApiHolds, PTL

(* A revoked token is no session, and what came round the edge or past a   *)
(* limiter reaches nothing (authService.ts:268, routes/index.ts:16).       *)
THEOREM RefusedStayOutAlways == Spec => []RefusedStayOut
<1>1. ApiInv => RefusedStayOut
  BY RevokedAreOut, PaidFor DEF ApiInv, RefusedStayOut
<1>2. QED
  BY <1>1, ApiHolds, PTL

(* A registration's answer is so, and an outage's answer is a 503 and no   *)
(* other fault's is (userService.ts:170, dbErrors.ts:35).                  *)
THEOREM AnswersAlwaysTrue == Spec => []AnswersAreTrue
<1>1. HttpInv => H!OutagesAreRetryable
  BY DEF HttpInv
<1>2. ApiInv => AnswersAreTrue
  BY <1>1, AnswersStayTrue DEF ApiInv, AnswersAreTrue
<1>3. QED
  BY <1>2, ApiHolds, PTL

(* An address is "verified" only if its own key signed, and a challenge    *)
(* lets one submission go on (verificationService.ts:143, 179).            *)
THEOREM AddressesAlwaysProved == Spec => []AddressesAreProved
<1>1. ApiInv => AddressesAreProved
  BY DEF ApiInv, AddressesInv, AddressesAreProved
<1>2. QED
  BY <1>1, ApiHolds, PTL

(* Caches answer within their windows whatever ran beside a fill, and a    *)
(* mutation's answer shows it (walletService.ts:59, walletController.ts:31)*)
THEOREM AnswersAlwaysWithinWindow == Spec => []AnswersWithinWindow
<1>1. ApiInv => AnswersWithinWindow
  BY ResolveShows DEF ApiInv, AnswersWithinWindow
<1>2. QED
  BY <1>1, ApiHolds, PTL

(* Of these, only the budget asks who a subscriber is: a range's logs are  *)
(* whole and given up only then, a refused client waits long enough and no *)
(* longer, and a record reads back as what was typed, whatever addresses   *)
(* anybody has (onchainEventsService.ts, rateLimit.ts:60-65, codec.ts).    *)
THEOREM LogsWaitsAndRecordsAreRight ==
  Spec => [](/\ part = "pages" => L!EveryLog /\ L!GivesUpOnlyThen
             /\ part = "limits" => I!WaitIsRight
             /\ part = "records" => E!RecordsReadBack /\ E!StoredIsShown)
<1> DEFINE Right ==
      /\ part = "pages" => L!EveryLog /\ L!GivesUpOnlyThen
      /\ part = "limits" => I!WaitIsRight
      /\ part = "records" => E!RecordsReadBack /\ E!StoredIsShown
<1>1. ApiInv => Right
  BY PageShows, RateShows, RecordShows DEF ApiInv
<1>2. QED
  BY <1>1, ApiHolds, PTL

(* With the budget beside them: nobody gets more than the burst and what   *)
(* is refilled meanwhile, if the addresses a subscriber has are of one     *)
(* /64, or one IPv4 address, and so of one bucket (rateLimit.ts:43-83).    *)
THEOREM NothingIsEverMiscounted ==
  ASSUME OneClientEach
  PROVE  Spec => []NothingIsMiscounted
<1>1. ApiInv => NothingIsMiscounted
  BY PageShows, RateShows, RecordShows DEF ApiInv, NothingIsMiscounted
<1>2. QED
  BY <1>1, ApiHolds, PTL

(* What one request may not do to another's.                               *)
THEOREM WritesAlwaysKeepTheirWord == Spec => WritesKeepTheirWord
<1> DEFINE Kept ==
      /\ part = "sessions" => S!OnlyRevokesEnd
      /\ part = "accounts" => A!OfferedIsNotRefused /\ A!RetryKeepsEdits
      /\ part = "addresses" => D!NewerSurvives
<1>1. ApiInv /\ [Next]_all => [Kept]_all
  <2> SUFFICES ASSUME ApiInv, [Next]_all, ~ UNCHANGED all PROVE Kept
    OBVIOUS
  <2>1. /\ part = "sessions" => S!Next
        /\ part = "accounts" => A!Next
        /\ part = "addresses" => D!Next
    BY OneStep
  <2>2. AddressesInv => D!TypeOK
    BY DEF AddressesInv
  <2>3. QED
    BY <2>1, <2>2, OnlyRevokes, RefusalsAgree, EditsStay, NewerStays DEF ApiInv
<1>2. QED
  BY <1>1, ApiHolds, PTL DEF Spec, WritesKeepTheirWord
=============================================================================
