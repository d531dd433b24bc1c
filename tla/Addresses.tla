------------------------------ MODULE Addresses -----------------------------
(***************************************************************************)
(* An account's address on one chain and the proof that its owner controls *)
(* it: walletService.ts and verificationService.ts, as requests that run   *)
(* concurrently and share only wallet_mappings and                         *)
(* address_verification_nonces. Every query is keyed by (user, chain), so  *)
(* accounts and chains don't meet.                                         *)
(***************************************************************************)
CONSTANTS
  Address,   \* valid addresses of the chain, canonical
  Held,      \* those whose keys the account's owner holds
  Owner,     \* the wallet the owner signs in with, when the chain is its own
  Nonce,     \* the nonces of challenges: each is drawn once
  Request    \* the requests that may be in progress together

AddressesConstants == Held \subseteq Address /\ Owner \in Held

VARIABLES
  mapping,     \* wallet_mappings: {} or {a row}
  challenge,   \* address_verification_nonces: {} or {a row}
  issued,      \* every challenge stored: its message may have been signed
  call,        \* request -> its handler
  consumed     \* nonce -> the requests that went on with it
               \* (read by the properties only)

vars == <<mapping, challenge, issued, call, consumed>>

Row == [address : Address, verified : BOOLEAN]
Challenge == [address : Address, nonce : Nonce]

Idle == [phase |-> "idle"]
Call ==
  {Idle}
  \cup [phase : {"read", "save"}, address : Address]               \* addAddress
  \cup [phase : {"remove", "map"}]                                 \* removeAddress,
  \cup [phase : {"store"}, challenge : Challenge]                  \* createVerification...
  \cup [phase : {"load"}, by : Held, signed : Challenge]           \* verifyAddress
  \cup [phase : {"consume", "update"}, by : Held, signed : Challenge, challenge : Challenge]

(* The primary key and unique(user_id, chain).                             *)
AtMostOne(S) == \A a, b \in S : a = b
TypeOK ==
  /\ mapping \subseteq Row /\ AtMostOne(mapping)
  /\ challenge \subseteq Challenge /\ AtMostOne(challenge)
  /\ issued \subseteq Challenge
  /\ \A c, d \in issued : c.nonce = d.nonce => c = d
  /\ call \in [Request -> Call]
  /\ consumed \in [Nonce -> SUBSET Request]

Init ==
  /\ mapping = {} /\ challenge = {} /\ issued = {}
  /\ call = [r \in Request |-> Idle]
  /\ consumed = [n \in Nonce |-> {}]

-----------------------------------------------------------------------------
Begin(r, c) ==
  /\ call[r] = Idle
  /\ call' = [call EXCEPT ![r] = c]
Goto(r, c) == call' = [call EXCEPT ![r] = c]
End(r) == Goto(r, Idle)
Tables == <<mapping, challenge, issued, consumed>>

Mapped(a) == \E row \in mapping : row.address = a

StartAdd(r, a) == Begin(r, [phase |-> "read", address |-> a]) /\ UNCHANGED Tables
(* The stored address is compared before anything is written.              *)
AddReads(r) ==
  /\ call[r].phase = "read"
  /\ IF Mapped(call[r].address)
     THEN End(r)
     ELSE Goto(r, [phase |-> "save", address |-> call[r].address])
  /\ UNCHANGED Tables

(* A new address starts unverified, except the owner wallet.               *)
StartsAlways(a) == TRUE
StartsVerified(a) == a = Owner
Saved(r) ==
  mapping' = {[address |-> call[r].address, verified |-> StartsVerified(call[r].address)]}
AddSaves(r) ==
  /\ call[r].phase = "save"
  /\ Saved(r)
  /\ End(r)
  /\ UNCHANGED <<challenge, issued, consumed>>

StartRemove(r) == Begin(r, [phase |-> "remove"]) /\ UNCHANGED Tables
RemoveDeletes(r) ==
  /\ call[r].phase = "remove"
  /\ mapping' = {}
  /\ End(r)
  /\ UNCHANGED <<challenge, issued, consumed>>

StartChallenge(r) == Begin(r, [phase |-> "map"]) /\ UNCHANGED Tables
(* ADDRESS_NOT_FOUND, or a challenge for the address mapped now.           *)
ChallengeMaps(r, n) ==
  /\ call[r].phase = "map"
  /\ \/ mapping = {} /\ End(r)
     \/ /\ \A c \in issued : c.nonce # n
        /\ \A s \in Request : call[s].phase = "store" => call[s].challenge.nonce # n
        /\ \E row \in mapping :
             Goto(r, [phase |-> "store",
                      challenge |-> [address |-> row.address, nonce |-> n]])
  /\ UNCHANGED Tables

Beside(c) == challenge \cup {c}
Replacing(c) == {c}
Stored(r) ==
  /\ challenge' = Replacing(call[r].challenge)
  /\ issued' = issued \cup {call[r].challenge}
ChallengeStores(r) ==
  /\ call[r].phase = "store"
  /\ Stored(r)
  /\ End(r)
  /\ UNCHANGED <<mapping, consumed>>

(* A signature that some key of the owner's made over some message issued. *)
StartVerify(r, by, signed) ==
  /\ signed \in issued
  /\ Begin(r, [phase |-> "load", by |-> by, signed |-> signed])
  /\ UNCHANGED Tables

VerifyLoads(r) ==
  /\ call[r].phase = "load"
  /\ \/ challenge = {} /\ End(r)
     \/ \E c \in challenge :
          Goto(r, [phase |-> "consume", by |-> call[r].by,
                   signed |-> call[r].signed, challenge |-> c])
  /\ UNCHANGED Tables

(* The message checked is rebuilt from the challenge that was loaded.      *)
SignedItself(c) == c.by = c.signed.address
SignatureValid(c) == c.signed = c.challenge /\ c.by = c.challenge.address

AnyOne(r) == challenge
ThisExactOne(r) == challenge \cap {call[r].challenge}
NeverConsumedBefore(gone) == FALSE
ConsumedBefore(gone) == gone = {}
(* The conditional delete decides; what is left is signature and age.      *)
VerifyConsumes(r) ==
  /\ call[r].phase = "consume"
  /\ LET gone == ThisExactOne(r) IN
     /\ challenge' = challenge \ gone
     /\ IF ConsumedBefore(gone)
        THEN End(r) /\ UNCHANGED consumed
        ELSE /\ consumed' = [consumed EXCEPT ![call[r].challenge.nonce] = @ \cup {r}]
             /\ \/ End(r)   \* CHALLENGE_EXPIRED or INVALID_SIGNATURE
                \/ SignatureValid(call[r]) /\ Goto(r, [call[r] EXCEPT !.phase = "update"])
  /\ UNCHANGED <<mapping, issued>>

AnyRow(r) == mapping
RowVerified(r) == {row \in mapping : row.address = call[r].challenge.address}
(* ... where address = the challenge's; no such row: ADDRESS_CHANGED.      *)
Updated(r) ==
  mapping' = (mapping \ RowVerified(r))
             \cup {[row EXCEPT !.verified = TRUE] : row \in RowVerified(r)}
VerifyUpdates(r) ==
  /\ call[r].phase = "update"
  /\ Updated(r)
  /\ End(r)
  /\ UNCHANGED <<challenge, issued, consumed>>

(* Any query fails, or the machine dies; a write may have been applied.    *)
Fails(r) ==
  /\ call[r] # Idle
  /\ End(r)
  /\ \/ UNCHANGED Tables
     \/ call[r].phase = "save" /\ Saved(r) /\ UNCHANGED <<challenge, issued, consumed>>
     \/ call[r].phase = "remove" /\ mapping' = {} /\ UNCHANGED <<challenge, issued, consumed>>
     \/ call[r].phase = "store" /\ Stored(r) /\ UNCHANGED <<mapping, consumed>>
     \/ /\ call[r].phase = "consume"
        /\ challenge' = challenge \ ThisExactOne(r)
        /\ UNCHANGED <<mapping, issued, consumed>>
     \/ call[r].phase = "update" /\ Updated(r) /\ UNCHANGED <<challenge, issued, consumed>>

(* completeRegistration of a retried registration (Accounts).              *)
DefaultAddress ==
  /\ mapping = {}
  /\ mapping' = {[address |-> Owner, verified |-> TRUE]}
  /\ UNCHANGED <<challenge, issued, call, consumed>>

Next ==
  \/ \E r \in Request :
       \/ \E a \in Address : StartAdd(r, a)
       \/ AddReads(r) \/ AddSaves(r) \/ StartRemove(r) \/ RemoveDeletes(r)
       \/ StartChallenge(r) \/ (\E n \in Nonce : ChallengeMaps(r, n)) \/ ChallengeStores(r)
       \/ \E by \in Held, signed \in issued : StartVerify(r, by, signed)
       \/ VerifyLoads(r) \/ VerifyConsumes(r) \/ VerifyUpdates(r) \/ Fails(r)
  \/ DefaultAddress

Spec == Init /\ [][Next]_vars

-----------------------------------------------------------------------------
(* "Verified" is only ever shown for an address whose key signed, however  *)
(* the address was changed, removed or added again between the challenge,  *)
(* the signature and the update (verificationService.ts:179).              *)
VerifiedIsHeld == \A row \in mapping : row.verified => row.address \in Held

(* A challenge lets one submission go on, of any number racing with it     *)
(* (verificationService.ts:143) ...                                        *)
ConsumedOnce == \A n \in Nonce : AtMostOne(consumed[n])

(* ... and goes only by being used or replaced: the submission of an older *)
(* one never takes it along.                                               *)
NewerSurvives ==
  \A c \in challenge, r \in Request :
    call[r].phase = "consume" /\ call[r].challenge # c /\ call'[r] # call[r]
      => c \in challenge'
=============================================================================
