------------------------------- MODULE Accounts -----------------------------
(***************************************************************************)
(* Registering a username: src/services/userService.ts on machines that    *)
(* share the database (unique usernames, unique owner wallets) and read    *)
(* the registry, with retries of registrations whose answer was lost.      *)
(***************************************************************************)
EXTENDS Integers

CONSTANTS
  Wallet,     \* signed-in wallets
  Name,       \* valid, unreserved usernames; others are refused at once
  Request,    \* the register requests that may be in progress together
  Window,     \* REGISTER_RETRY_WINDOW_MS
  Skew,       \* how far a machine's clock may be from the database's
  DbTimeout,  \* SUPABASE_TIMEOUT_MS: a database request lands within it or never
  MaxTime     \* bound: the last instant explored

AccountsConstants ==
  Window \in Nat \ {0} /\ Skew \in Nat /\ DbTimeout \in Nat /\ MaxTime \in Nat

VARIABLES
  now,      \* the database's clock
  users,    \* the rows of users
  eth,      \* wallet -> its account's ethereum address, see Eth
  onchain,  \* name -> the owners it may have in the registry, at most one
  call      \* request -> its registerUsername

vars == <<now, users, eth, onchain, call>>

User == [username : Name, wallet : Wallet, created : 0 .. MaxTime]
(* None mapped, the owner wallet itself, or another address.               *)
Eth == {"none", "wallet", "other"}
Refusal == {"WALLET_HAS_USERNAME", "USERNAME_TAKEN", "USERNAME_TAKEN_ONCHAIN"}

(* A phase names the query awaited; `known`: the row was there when the    *)
(* request began (read by the properties only).                            *)
Idle == [phase |-> "idle"]
Awaiting == [phase : {"find", "chain", "insert", "conflict", "complete"},
             wallet : Wallet, name : Name, sent : 0 .. MaxTime, known : BOOLEAN]
Answered == [phase : {"registered"} \cup Refusal, wallet : Wallet, name : Name,
             known : BOOLEAN]

TypeOK ==
  /\ now \in 0 .. MaxTime
  /\ users \subseteq User
  /\ \A u, v \in users : u.username = v.username \/ u.wallet = v.wallet => u = v
  /\ eth \in [Wallet -> Eth]
  /\ onchain \in [Name -> SUBSET Wallet]
  /\ call \in [Request -> {Idle} \cup Awaiting \cup Answered]

Init ==
  /\ now = 0
  /\ users = {}
  /\ eth = [w \in Wallet |-> "none"]
  /\ onchain = [n \in Name |-> {}]
  /\ call = [r \in Request |-> Idle]

-----------------------------------------------------------------------------
At(r, phase) == call[r].phase = phase
Owns(w, n) == \E u \in users : u.wallet = w /\ u.username = n
Of(w) == {u \in users : u.wallet = w}

Overdue(r) == call[r] \in Awaiting /\ now - call[r].sent >= DbTimeout
Tick ==
  /\ now < MaxTime
  /\ \A r \in Request : ~ Overdue(r)
  /\ now' = now + 1
  /\ UNCHANGED <<users, eth, onchain, call>>

Goto(r, phase) == call' = [call EXCEPT ![r].phase = phase, ![r].sent = now]
Answer(r, result) ==
  call' = [call EXCEPT ![r] = [phase |-> result, wallet |-> call[r].wallet,
                               name |-> call[r].name, known |-> call[r].known]]

(* The retry window is measured with this machine's clock.                 *)
AlwaysInWindow(u, clock) == TRUE
InWindow(u, clock) == clock - u.created < Window
resumeRegistration(r, u) ==
  \E clock \in now - Skew .. now + Skew :
    IF InWindow(u, clock) THEN Goto(r, "complete") ELSE Answer(r, "registered")

(* What the claim page is told of a name before it registers it: at most   *)
(* one chain read, which the registration repeats.                         *)
isUsernameAvailable(n) == \A u \in users : u.username # n
checkAvailability(n, w) ==
  IF ~ isUsernameAvailable(n) THEN "TAKEN"
  ELSE IF ~ onchain[n] \subseteq {w} THEN "TAKEN_ONCHAIN"
  ELSE "AVAILABLE"

Start(r, w, n) ==
  /\ At(r, "idle")
  /\ call' = [call EXCEPT ![r] = [phase |-> "find", wallet |-> w, name |-> n,
                                  sent |-> now, known |-> Owns(w, n)]]
  /\ UNCHANGED <<now, users, eth, onchain>>

(* findByWallet.                                                           *)
Find(r) ==
  /\ At(r, "find")
  /\ LET existing == Of(call[r].wallet) IN
     \/ existing = {} /\ Goto(r, "chain")
     \/ \E u \in existing :
          IF u.username = call[r].name
          THEN resumeRegistration(r, u)
          ELSE Answer(r, "WALLET_HAS_USERNAME")
  /\ UNCHANGED <<now, users, eth, onchain>>

(* getOnchainOwner; a chain that can't be read lets the registration go on.*)
ChainFree(r) == onchain[call[r].name] = {}
ChainAllows(r) == onchain[call[r].name] \subseteq {call[r].wallet}
ReadChain(r) ==
  /\ At(r, "chain")
  /\ \/ Goto(r, "insert")   \* ChainAllows, or the read failed
     \/ ~ ChainAllows(r) /\ Answer(r, "USERNAME_TAKEN_ONCHAIN")
  /\ UNCHANGED <<now, users, eth, onchain>>

UniqueNameOnly(u, r) == u.username = call[r].name
Conflicts(u, r) == u.username = call[r].name \/ u.wallet = call[r].wallet
Row(r) == [username |-> call[r].name, wallet |-> call[r].wallet, created |-> now]
Inserted(r) == users' = users \cup {Row(r)}

Insert(r) ==
  /\ At(r, "insert")
  /\ IF \E u \in users : Conflicts(u, r)
     THEN Goto(r, "conflict") /\ UNCHANGED users
     ELSE Goto(r, "complete") /\ Inserted(r)
  /\ UNCHANGED <<now, eth, onchain>>

(* The violated constraint names the refusal, unless the row is this       *)
(* wallet's own. (With both violated the message names the username's.)    *)
ConflictRefusal(r) ==
  IF \E u \in users : u.username = call[r].name
  THEN "USERNAME_TAKEN" ELSE "WALLET_HAS_USERNAME"
NoOwnRow(r) == {}
OwnRow(r) == {u \in Of(call[r].wallet) : u.username = call[r].name}
ResolveConflict(r) ==
  /\ At(r, "conflict")
  /\ \/ OwnRow(r) = {} /\ Answer(r, ConflictRefusal(r))
     \/ \E u \in OwnRow(r) : resumeRegistration(r, u)
  /\ UNCHANGED <<now, users, eth, onchain>>

(* The default address, best effort: `on conflict do nothing`.             *)
OverwriteEth(r) == [eth EXCEPT ![call[r].wallet] = "wallet"]
FilledEth(r) == [eth EXCEPT ![call[r].wallet] = IF @ = "none" THEN "wallet" ELSE @]
completeRegistration(r) ==
  /\ At(r, "complete")
  /\ eth' = FilledEth(r) \/ eth' = eth
  /\ Answer(r, "registered")
  /\ UNCHANGED <<now, users, onchain>>

(* The client is answered; or any query fails, or the machine dies, and    *)
(* the client may retry. A write may have been applied all the same.       *)
Delivered(r) ==
  /\ call[r] \in Answered
  /\ call' = [call EXCEPT ![r] = Idle]
  /\ UNCHANGED <<now, users, eth, onchain>>
Fails(r) ==
  /\ call[r] \in Awaiting
  /\ call' = [call EXCEPT ![r] = Idle]
  /\ \/ UNCHANGED <<users, eth>>
     \/ /\ At(r, "insert") /\ \A u \in users : ~ Conflicts(u, r)
        /\ Inserted(r) /\ UNCHANGED eth
     \/ At(r, "complete") /\ eth' = FilledEth(r) /\ UNCHANGED users
  /\ UNCHANGED <<now, onchain>>

(* Meanwhile the owner edits the account (Addresses) and names are taken   *)
(* in the registry (PaytagRegistry).                                       *)
EditEth(w) ==
  /\ Of(w) # {}
  /\ \E a \in {"none", "other"} : eth' = [eth EXCEPT ![w] = a]
  /\ UNCHANGED <<now, users, onchain, call>>
RegisterOnchain(w, n) ==
  /\ onchain[n] = {}
  /\ onchain' = [onchain EXCEPT ![n] = {w}]
  /\ UNCHANGED <<now, users, eth, call>>

Next ==
  \/ Tick
  \/ \E r \in Request :
       \/ \E w \in Wallet, n \in Name : Start(r, w, n)
       \/ Find(r) \/ ReadChain(r) \/ Insert(r) \/ ResolveConflict(r)
       \/ completeRegistration(r) \/ Delivered(r) \/ Fails(r)
  \/ \E w \in Wallet : EditEth(w)
  \/ \E w \in Wallet, n \in Name : RegisterOnchain(w, n)

Spec == Init /\ [][Next]_vars

-----------------------------------------------------------------------------
(* What a registration is told is so, whatever ran beside it: success is   *)
(* of one's own row, a name is TAKEN by someone else and a wallet HAS      *)
(* another name; and a retry of a registration that had committed is never *)
(* told its own name is taken, not even on-chain (userService.ts:170).     *)
AnswersAreTrue ==
  \A r \in Request :
    LET c == call[r] IN
    /\ c.phase = "registered" => Owns(c.wallet, c.name)
    /\ c.phase \in {"USERNAME_TAKEN", "WALLET_HAS_USERNAME"} => ~ Owns(c.wallet, c.name)
    /\ c.phase = "USERNAME_TAKEN" => \E u \in users : u.username = c.name
    /\ c.phase = "WALLET_HAS_USERNAME" => Of(c.wallet) # {}
    /\ c.phase \in Refusal => ~ c.known

(* The check behind the claim page and the registration agree: a name is   *)
(* refused only while the check would not offer it to that wallet, so a    *)
(* retry after a fresh check is never refused the same way for ever        *)
(* (userService.ts:116).                                                   *)
OfferedIsNotRefused ==
  \A r \in Request :
    /\ call[r] \in Awaiting
    /\ call'[r].phase \in {"USERNAME_TAKEN", "USERNAME_TAKEN_ONCHAIN"}
    => checkAvailability(call[r].name, call[r].wallet) # "AVAILABLE"

(* Once the retry window is over, no registration, retried, replayed or    *)
(* still under way, gives the account an address its owner doesn't have    *)
(* (userService.ts:246); and none ever replaces one (userService.ts:257).  *)
RetryKeepsEdits ==
  \A u \in users :
    /\ eth[u.wallet] = "other" => eth'[u.wallet] # "wallet"
    /\ eth[u.wallet] = "none" /\ eth'[u.wallet] = "wallet"
         => now < u.created + Window + Skew + DbTimeout
=============================================================================
