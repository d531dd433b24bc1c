----------------------------- MODULE ClaimWizard ----------------------------
(***************************************************************************)
(* Claiming a name in the browser: components/claim/ClaimWizard.tsx on the *)
(* route of one name. Its effects are actions of their own, its calls are  *)
(* answered, refused or lost, wallets come and go, and the session is the  *)
(* one all tabs share (WebSession). The server's part of register and      *)
(* available is that of Accounts. Reserved and ill-formed names end like   *)
(* taken ones.                                                             *)
(***************************************************************************)
EXTENDS Integers

CONSTANTS
  Wallet,   \* wallets of the user
  None      \* nothing, or somebody else's

NoWallet == None \notin Wallet \cup {"this", "another"}

VARIABLES
  step,         \* the step on screen
  error,        \* where the error of step "error" was, and whether it says nothing was written
  unavailable,  \* why the name is not to be had, and the wallet that was checked with
  existing,     \* the name a wallet_taken wallet has
  resumedFor,   \* the wallet whose session has been resumed
  check,        \* the availability check under way
  recheck,      \* the one for a wallet connected since
  resume,       \* the wallet of the session asked about when resuming
  sign,         \* handleSign under way
  register,     \* the registration under way
  address,      \* the wallet connected
  session,      \* the stored session: its wallet and the name noted with it
  account,      \* server: which name each wallet has
  taken,        \* server: somebody else has this name
  late,         \* registrations given up on that may still arrive
  chainOwner    \* who owns the name on chain: a wallet, nobody, or another

vars == <<step, error, unavailable, existing, resumedFor, check, recheck, resume,
          sign, register, address, session, account, taken, late, chainOwner>>
server == <<account, taken, late, chainOwner>>

Step == {"checking", "unavailable", "connect", "resuming", "sign", "register",
         "wallet_taken", "error", "done"}
Names == {"this", "another", None}
Nobody == "nobody"
WalletOrNone == Wallet \cup {None}
Session == [wallet : Wallet, name : Names]
Reasons == {"TAKEN", "TAKEN_ONCHAIN"}

TypeOK ==
  /\ step \in Step
  /\ error \in [at : {0, 2, 3}, nothing : BOOLEAN]
  /\ unavailable \in [reason : Reasons, with : WalletOrNone]
  /\ existing \in Names /\ resumedFor \in WalletOrNone
  /\ check.is \in {"none", "me", "available"} /\ check.with \in WalletOrNone
  /\ recheck.with \in WalletOrNone /\ recheck.pending \in BOOLEAN
  /\ resume \in WalletOrNone
  /\ sign.is \in {"none", "wallet", "me"} /\ sign.with \in WalletOrNone
  /\ register.is \in {"none", "sent", "ok", "another", "alternatives"} \cup Reasons
  /\ register.with \in WalletOrNone
  /\ address \in WalletOrNone /\ session \in Session \cup {None}
  /\ account \in [Wallet -> Names] /\ taken \in BOOLEAN /\ late \subseteq Wallet
  /\ chainOwner \in Wallet \cup {None, Nobody}
  /\ taken => \A w \in Wallet : account[w] # "this"
  /\ step = "checking" <=> check.is # "none"
  /\ step = "wallet_taken" => existing # None

Idle == [is |-> "none", with |-> None]
Asks(is, w) == [is |-> is, with |-> w]

(* The steps, with what they show. The code leaves what the other steps    *)
(* show in place, unread until they are shown again with something new.    *)
NoError == [at |-> 0, nothing |-> FALSE]
NoReason == [reason |-> "TAKEN", with |-> None]
Shows(s, e, u, x) == step' = s /\ error' = e /\ unavailable' = u /\ existing' = x
Steps(s) == Shows(s, NoError, NoReason, None)
Fails(at, nothing) == Shows("error", [at |-> at, nothing |-> nothing], NoReason, None)
Unavailable(reason, w) == Shows("unavailable", NoError, [reason |-> reason, with |-> w], None)
WalletTaken(name) == Shows("wallet_taken", NoError, NoReason, name)
Stays == UNCHANGED <<step, error, unavailable, existing>>

(* The first effect: a session is asked about before the name.             *)
Checking(s) == IF s # None THEN Asks("me", s.wallet) ELSE Asks("available", address)

Init ==
  /\ step = "checking" /\ error = NoError
  /\ unavailable = NoReason /\ existing = None
  /\ resumedFor = None
  /\ address \in WalletOrNone
  /\ session \in {None} \cup {[wallet |-> w, name |-> None] : w \in Wallet}
  /\ check = Checking(session)
  /\ recheck = [with |-> None, pending |-> FALSE] /\ resume = None
  /\ sign = Idle /\ register = Idle
  /\ account \in [Wallet -> {"another", None}] /\ taken \in BOOLEAN /\ late = {}
  /\ chainOwner \in Wallet \cup {None, Nobody}

(* updateAuth, on whatever session is stored now.                          *)
Notes(name) == session' = IF session = None THEN None ELSE [session EXCEPT !.name = name]

(* What can be pressed at each step; connecting is a change of the wallet. *)
Offered ==
  CASE step = "connect" -> {"connect"}
    [] step = "sign" -> IF sign.is = "none" THEN {"sign"} ELSE {}
    [] step = "unavailable" ->
         IF unavailable.reason = "TAKEN_ONCHAIN" THEN {"use another wallet"} ELSE {}
    [] step = "wallet_taken" -> {"use another wallet"}
    [] step = "error" -> {"try again"}
    [] step \in {"checking", "resuming", "register", "done"} -> {}

-----------------------------------------------------------------------------
(* The server.                                                             *)

NameTaken == taken \/ \E w \in Wallet : account[w] = "this"
OnChainFor(w) == chainOwner \in {Nobody, w}

Answer(w) == CASE NameTaken -> "TAKEN"
               [] ~ NameTaken /\ ~ OnChainFor(w) -> "TAKEN_ONCHAIN"
               [] OTHER -> "available"

RefusesRetries(w) == IF account[w] # None THEN "another" ELSE Answer(w)

(* A wallet that has this name gets it again.                              *)
Registered(w) == CASE account[w] = "this" -> "ok"
                   [] account[w] = "another" -> "another"
                   [] OTHER -> Answer(w)

Creates(w) == account' = IF Registered(w) = "available" THEN [account EXCEPT ![w] = "this"]
                         ELSE account

-----------------------------------------------------------------------------
(* Whether the name is to be had.                                          *)

CheckMe ==
  /\ check.is = "me"
  /\ \/ /\ account[check.with] = "this"
        /\ Notes("this") /\ Steps("done") /\ check' = Idle
     \/ /\ session' \in {session, None}  \* another name, no answer, or a 401
        /\ check' = Asks("available", address)
        /\ Stays
  /\ UNCHANGED <<resumedFor, recheck, resume, sign, register, address, server>>

(* checkedWith is the wallet connected when the answer came.               *)
CheckAvailable ==
  /\ check.is = "available" /\ check' = Idle
  /\ \/ Answer(check.with) = "available" /\ Steps("connect")
     \/ Answer(check.with) # "available" /\ Unavailable(Answer(check.with), address)
     \/ Fails(0, FALSE)
  /\ UNCHANGED <<resumedFor, recheck, resume, sign, register, address, session, server>>

MustRecheck ==
  /\ step = "unavailable" /\ unavailable.reason = "TAKEN_ONCHAIN"
  /\ address # None /\ unavailable.with # address

Recheck ==
  /\ MustRecheck /\ recheck.with # address
  /\ recheck' = [with |-> address, pending |-> TRUE]
  /\ Stays
  /\ UNCHANGED <<resumedFor, check, resume, sign,
                 register, address, session, server>>

Rechecked ==
  /\ MustRecheck /\ recheck = [with |-> address, pending |-> TRUE]
  /\ recheck' = [recheck EXCEPT !.pending = FALSE]
  /\ \/ Answer(address) = "available" /\ Steps("connect")
     \/ Answer(address) # "available" /\ Unavailable(Answer(address), address)
     \/ Stays
  /\ UNCHANGED <<resumedFor, check, resume, sign, register, address, session, server>>

-----------------------------------------------------------------------------
(* From a wallet to a session.                                             *)

RouteToAny(name) ==
  IF name # None THEN Steps("done") /\ Notes(name)
  ELSE Steps("register") /\ UNCHANGED session

(* routeByOwnership                                                        *)
Route(name) ==
  CASE name = "this" -> Steps("done") /\ Notes(name)
    [] name = "another" -> WalletTaken(name) /\ Notes(name)
    [] OTHER -> Steps("register") /\ UNCHANGED session

WalletWentAway ==
  /\ step = "sign" /\ address = None
  /\ Steps("connect")
  /\ UNCHANGED <<resumedFor, check, recheck, resume, sign, register, address, session, server>>

(* A wallet with a session is not asked to sign again.                     *)
Resumes == session # None /\ session.wallet = address /\ resumedFor # address

Connected ==
  /\ step = "connect" /\ address # None
  /\ IF Resumes THEN Steps("resuming") /\ resumedFor' = address /\ resume' = address
     ELSE Steps("sign") /\ UNCHANGED <<resumedFor, resume>>
  /\ UNCHANGED <<check, recheck, sign, register, address, session, server>>

Resumed ==
  /\ resume # None /\ resume' = None
  /\ \/ Route(account[resume])
     \/ Steps("sign") /\ session' \in {session, None}  \* no answer, or a 401
  /\ UNCHANGED <<resumedFor, check, recheck, sign, register, address, server>>

(* handleSign, up to the signature; its button is disabled meanwhile.      *)
Sign ==
  /\ "sign" \in Offered /\ address # None
  /\ sign' = Asks("wallet", address)
  /\ Stays
  /\ UNCHANGED <<resumedFor, check, recheck, resume,
                 register, address, session, server>>

(* No nonce or no verification is an error, a rejection is not.            *)
SignFails ==
  /\ sign.is = "wallet" /\ sign' = Idle
  /\ Fails(2, FALSE) \/ Stays
  /\ UNCHANGED <<resumedFor, check, recheck, resume, register, address, session, server>>

Verified ==
  /\ sign.is = "wallet" /\ sign' = Asks("me", sign.with)
  /\ session' = [wallet |-> sign.with, name |-> None]
  /\ resumedFor' = sign.with
  /\ UNCHANGED <<step, error, unavailable, existing, check, recheck, resume, register,
                 address, server>>

SignedIn ==
  /\ sign.is = "me" /\ sign' = Idle
  /\ \/ Route(account[sign.with])
     \/ Fails(2, FALSE) /\ session' \in {session, None}
  /\ UNCHANGED <<resumedFor, check, recheck, resume, register, address, server>>

-----------------------------------------------------------------------------
(* Registering: the effect of step "register", once at a time.             *)

Register ==
  /\ step = "register" /\ register.is = "none"
  /\ IF session # None
     THEN register' = Asks("sent", session.wallet) /\ Stays
     ELSE Steps("sign") /\ UNCHANGED register
  /\ UNCHANGED <<resumedFor, check, recheck, resume, sign,
                 address, session, server>>

(* The request arrives. "available" is the answer that creates.            *)
Arrives ==
  /\ register.is = "sent"
  /\ Creates(register.with)
  /\ register' = [register EXCEPT !.is =
                    LET answer == Registered(register.with)
                    IN IF answer = "available" THEN "ok" ELSE answer]
  /\ Stays
  /\ UNCHANGED <<resumedFor, check, recheck, resume,
                 sign, address, session, taken, late, chainOwner>>

LeftSet == Asks("left", None)
(* registering.current = false, whatever happened.                         *)
Ended == Idle

Answered ==
  /\ \/ /\ register.is = "ok" /\ register' = Ended
        /\ Notes("this") /\ Steps("done")
     \/ /\ register.is \in Reasons
        /\ register' = Asks("alternatives", None)
        /\ Stays /\ UNCHANGED session
     \/ /\ register.is = "another" /\ register' = Ended  \* /me says which
        /\ \/ /\ session # None /\ account[session.wallet] # None
              /\ WalletTaken(account[session.wallet]) /\ Notes(account[session.wallet])
           \/ Fails(3, FALSE) /\ UNCHANGED session
  /\ UNCHANGED <<resumedFor, check, recheck, resume, sign, address, server>>

(* The alternatives may be checked with one wallet and noted for another.  *)
Alternatives ==
  /\ register.is = "alternatives" /\ register' = Ended
  /\ \E reason \in Reasons : Unavailable(reason, address)
  /\ UNCHANGED <<resumedFor, check, recheck, resume, sign, address, session, server>>

Expired ==
  /\ register.is = "sent" /\ register' = Ended
  /\ Steps("sign") /\ session' = None
  /\ UNCHANGED <<resumedFor, check, recheck, resume, sign, address, server>>

(* No answer, or a 5xx: the request may have arrived, or arrive later.     *)
GivesUp ==
  /\ register.is \in {"sent", "ok", "another"} \cup Reasons /\ register' = Ended
  /\ \E nothing \in BOOLEAN : Fails(3, nothing)
  /\ late' = late \cup (IF register.is = "sent" THEN {register.with} ELSE {})
  /\ UNCHANGED <<resumedFor, check, recheck, resume, sign, address, session,
                 account, taken, chainOwner>>

ArrivesLate ==
  /\ \E w \in late : Creates(w) /\ late' = late \ {w}
  /\ Stays
  /\ UNCHANGED <<resumedFor, check, recheck, resume,
                 sign, register, address, session, taken, chainOwner>>

-----------------------------------------------------------------------------
(* The user, other tabs and other people.                                  *)

UseAnotherWallet ==
  /\ "use another wallet" \in Offered
  /\ Steps("connect")
  /\ session' = None /\ address' = None /\ resumedFor' = None
  /\ recheck' = [with |-> None, pending |-> FALSE]
  /\ UNCHANGED <<check, resume, sign, register, server>>

RetryUnchecked ==
  /\ "try again" \in Offered
  /\ Steps(CASE error.at = 0 -> "checking"
             [] error.at = 3 /\ session # None -> "register"
             [] OTHER -> IF address = None THEN "connect" ELSE "sign")
  /\ UNCHANGED <<resumedFor, check, recheck, resume, sign, register, address, session, server>>

Retry ==
  /\ "try again" \in Offered
  /\ \/ error.at = 0 /\ Steps("checking") /\ check' = Checking(session)
     \/ error.at = 3 /\ session # None /\ Steps("register") /\ UNCHANGED check
     \/ /\ error.at = 2 \/ (error.at = 3 /\ session = None)
        /\ Steps(IF address = None THEN "connect" ELSE "sign") /\ UNCHANGED check
  /\ UNCHANGED <<resumedFor, recheck, resume, sign, register, address, session, server>>

(* A change of wallet cancels the recheck made for another.                *)
SwitchWallet ==
  /\ address' \in WalletOrNone \ {address}
  /\ recheck' = [with |-> None, pending |-> FALSE]
  /\ Stays
  /\ UNCHANGED <<resumedFor, check, resume, sign,
                 register, session, server>>

(* The header, the dashboard or another tab signs in or out.               *)
OtherSession ==
  /\ session' \in {None} \cup {[wallet |-> w, name |-> None] : w \in Wallet}
  /\ session' # session
  /\ Stays
  /\ UNCHANGED <<resumedFor, check, recheck, resume,
                 sign, register, address, server>>

OtherClaim ==
  /\ ~ NameTaken /\ taken' = TRUE
  /\ Stays
  /\ UNCHANGED <<resumedFor, check, recheck, resume,
                 sign, register, address, session, account, late, chainOwner>>

Answers == CheckMe \/ CheckAvailable \/ Resumed \/ Answered \/ Alternatives \/ Expired \/ GivesUp
Effects == Recheck \/ WalletWentAway \/ Connected \/ Register

Next ==
  \/ Answers \/ Effects
  \/ Rechecked \/ Sign \/ SignFails \/ Verified \/ SignedIn
  \/ Arrives \/ ArrivesLate
  \/ UseAnotherWallet \/ Retry \/ SwitchWallet \/ OtherSession \/ OtherClaim

Spec == Init /\ [][Next]_vars

(* The SDK gives up on its calls in time, and React runs its effects.      *)
FairSpec ==
  Spec /\ WF_vars(CheckAvailable) /\ WF_vars(Alternatives) /\ WF_vars(Effects)

-----------------------------------------------------------------------------
(* "@name is yours." is only said when a wallet of the user has it         *)
(* (ClaimDone.tsx), through lost answers, retries and races.               *)
DoneIsTrue == step = "done" => \E w \in Wallet : account[w] = "this"

(* A registration that is asked for again, after an answer that was lost,  *)
(* is never refused because the first one was made: a retry is safe.       *)
RetriesAreSafe ==
  register.is \in Reasons \cup {"another"} => account[register.with] # "this"

(* "The registry didn't respond in time. Nothing was written": what the    *)
(* wizard says when a call brought no answer, which it cannot know.        *)
NothingWasWritten ==
  step = "error" /\ error.nothing => \A w \in Wallet : account[w] # "this"

(* "This wallet already owns ..." is only said when a wallet of the user   *)
(* has another name, never of a retried claim whose answer was lost: that  *)
(* one is a success (services/userService.ts, resumeRegistration).         *)
TakenIsAnother == step = "wallet_taken" => \E w \in Wallet : account[w] = "another"

(* The page's own calls of /me and /register have no timeout and cannot be *)
(* aborted: that they end is the network's part.                           *)
CallsEnd ==
  WF_vars(CheckMe) /\ WF_vars(Resumed) /\ WF_vars(Answered \/ Expired \/ GivesUp)

(* The steps with a spinner and no button end, if the calls they wait for  *)
(* do (ClaimWizard.tsx, registering.current).                              *)
SpinnersEnd ==
  CallsEnd => \A s \in {"checking", "resuming", "register"} : step = s ~> step # s
=============================================================================
