------------------------------ MODULE Sessions ------------------------------
(***************************************************************************)
(* Session tokens and "sign out everywhere": users.session_version, read   *)
(* by sign-in and by every authenticated request, bumped by                *)
(* revokeAllSessions, on machines that share only the database.            *)
(***************************************************************************)
EXTENDS Integers

CONSTANTS
  Wallet,      \* wallets, with or without an account
  Request,     \* the requests that may be in progress together
  MaxVersion   \* bound: how often sessions may be revoked

SessionsConstants == MaxVersion \in Nat

(* "No row" of maybeSingle.                                                *)
NoAccount == -1
Version == 0 .. MaxVersion
Token == [wallet : Wallet, sv : Version]

VARIABLES
  version,   \* wallet -> users.session_version, NoAccount if it has no row
  tokens,    \* the tokens signed and not expired: what holders present
  call,      \* request -> its handler
  revoked    \* tokens signed before a revoke began that has since succeeded
             \* (read by the properties only)

vars == <<version, tokens, call, revoked>>

Idle == [phase |-> "idle"]
Call ==
  {Idle}
  \cup [phase : {"sign", "register"}, token : Token]
  \cup [phase : {"load"}, wallet : Wallet, before : SUBSET Token]
  \cup [phase : {"bump"}, wallet : Wallet, before : SUBSET Token, current : Version]

TypeOK ==
  /\ version \in [Wallet -> Version \cup {NoAccount}]
  /\ tokens \subseteq Token
  /\ call \in [Request -> Call]
  /\ revoked \subseteq Token

Init ==
  /\ version = [w \in Wallet |-> NoAccount]
  /\ tokens = {}
  /\ call = [r \in Request |-> Idle]
  /\ revoked = {}

-----------------------------------------------------------------------------
(* requireAuth: no account means nothing to compare against.               *)
Admits(t) == version[t.wallet] \in {NoAccount, t.sv}

AsIs(v) == v
OrOne(v) == IF v = NoAccount THEN 1 ELSE v
OrZero(v) == IF v = NoAccount THEN 0 ELSE v

Goto(r, c) == call' = [call EXCEPT ![r] = c]
End(r) == Goto(r, Idle)

(* The nonce is spent (SignIn) and the version is read ...                 *)
SignInReads(r, w) ==
  /\ call[r].phase = "idle"
  /\ Goto(r, [phase |-> "sign", token |-> [wallet |-> w, sv |-> OrZero(version[w])]])
  /\ UNCHANGED <<version, tokens, revoked>>

(* ... and the token signed when the answer arrives.                       *)
signSessionToken(r) ==
  /\ call[r].phase = "sign"
  /\ tokens' = tokens \cup {call[r].token}
  /\ End(r)
  /\ UNCHANGED <<version, revoked>>

Expire(t) ==
  /\ t \in tokens
  /\ tokens' = tokens \ {t}
  /\ UNCHANGED <<version, call, revoked>>

(* registerUsername, behind requireAuth: session_version defaults to 0.    *)
WithAccount(w) == [version EXCEPT ![w] = IF @ = NoAccount THEN 0 ELSE @]

RegisterAdmitted(r, t) ==
  /\ call[r].phase = "idle"
  /\ t \in tokens /\ Admits(t)
  /\ Goto(r, [phase |-> "register", token |-> t])
  /\ UNCHANGED <<version, tokens, revoked>>

Registers(r) ==
  /\ call[r].phase = "register"
  /\ version' = WithAccount(call[r].token.wallet)
  /\ End(r)
  /\ UNCHANGED <<tokens, revoked>>

(* logoutAll: requireAuth's read, the service's own read, and the update   *)
(* that is conditional on it.                                              *)
LogoutAdmitted(r, t) ==
  /\ call[r].phase = "idle"
  /\ t \in tokens /\ Admits(t)
  /\ Goto(r, [phase |-> "load", wallet |-> t.wallet,
              before |-> {u \in tokens : u.wallet = t.wallet}])
  /\ UNCHANGED <<version, tokens, revoked>>

RevokeLoads(r) ==
  /\ call[r].phase = "load"
  /\ LET w == call[r].wallet IN
     IF version[w] = NoAccount
     THEN End(r)
     ELSE /\ version[w] < MaxVersion
          /\ Goto(r, [phase |-> "bump", wallet |-> w,
                      before |-> call[r].before, current |-> version[w]])
  /\ UNCHANGED <<version, tokens, revoked>>

(* The update's WHERE and SET.                                             *)
AsLoadedOrNot(r) == TRUE
SameAsLoaded(r) == version[call[r].wallet] = call[r].current
BumpedVersion(r) ==
  [version EXCEPT ![call[r].wallet] =
     IF SameAsLoaded(r) THEN call[r].current + 1 ELSE @]

RevokeBumps(r) ==
  /\ call[r].phase = "bump"
  /\ version' = BumpedVersion(r)
  /\ revoked' = revoked \cup call[r].before
  /\ End(r)
  /\ UNCHANGED tokens

(* Any awaited query fails; an update may have been applied all the same.  *)
Fails(r) ==
  /\ call[r].phase # "idle"
  /\ \/ version' = version
     \/ call[r].phase = "bump" /\ version' = BumpedVersion(r)
     \/ /\ call[r].phase = "register"
        /\ version' = WithAccount(call[r].token.wallet)
  /\ End(r)
  /\ UNCHANGED <<tokens, revoked>>

Next ==
  \E r \in Request :
    \/ \E w \in Wallet : SignInReads(r, w)
    \/ signSessionToken(r)
    \/ \E t \in Token : Expire(t) \/ RegisterAdmitted(r, t) \/ LogoutAdmitted(r, t)
    \/ Registers(r) \/ RevokeLoads(r) \/ RevokeBumps(r) \/ Fails(r)

Spec == Init /\ [][Next]_vars

-----------------------------------------------------------------------------
(* Once a "sign out everywhere" has answered, no token signed before it    *)
(* began is admitted again, through concurrent revokes, one that found its *)
(* row already bumped, sign-ins in between and a late registration         *)
(* (authService.ts:268, middleware/auth.ts:15).                            *)
RevokedStayOut == \A t \in revoked : ~ Admits(t)

(* And nothing else ends a session: not registering an account after       *)
(* signing in without one, nor a revoke that loses to another.             *)
OnlyRevokesEnd ==
  \A t \in tokens : Admits(t) /\ ~ Admits(t)' =>
     version[t.wallet] # NoAccount /\ version'[t.wallet] > version[t.wallet]
=============================================================================
