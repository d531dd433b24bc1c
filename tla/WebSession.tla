----------------------------- MODULE WebSession -----------------------------
(***************************************************************************)
(* The web app's session: lib/auth.ts keeps it in the storage all tabs     *)
(* share, useAuthState.ts and components/dashboard/Dashboard.tsx copy it   *)
(* and ask /me which name it owns, through the one request at a time of    *)
(* lib/api.ts. Every tab here is one page with the header and the          *)
(* dashboard; the wallet is one extension.                                 *)
(***************************************************************************)
EXTENDS Integers, Sequences

CONSTANTS
  Tab,        \* open tabs
  Wallet,     \* wallets of the extension
  Holder,     \* those that had a name before all this
  None,       \* nothing
  MaxTokens   \* bound: sign-ins

ASSUME SessionConstants ==
  /\ Holder \subseteq Wallet /\ None \notin Wallet /\ MaxTokens \in Nat

VARIABLES
  storage,     \* paytag_auth_v1: a token, and whose name is noted with it
  auth,        \* each tab's copy
  unheard,     \* tabs whose storage event is on its way
  flight,      \* each tab's /me under way: its token and what it answers
  waiting,     \* who in the tab awaits it
  settled,     \* the dashboard's meSettled
  signing,     \* the wallet each tab has asked to sign in, or None
  connected,   \* the wallet connected, or None
  issued,      \* the wallets of the tokens issued so far
  live,        \* tokens neither expired nor revoked
  owners       \* wallets that own a name

vars == <<storage, auth, unheard, flight, waiting, settled, signing, connected,
          issued, live, owners>>
tabs == <<auth, flight, waiting, settled>>
server == <<issued, live, owners>>

Token == 1 .. MaxTokens
Auth == [token : {0} \cup Token, name : Wallet \cup {None}]
Waiter == {"header", "dashboard"}

(* What /me may answer: nothing yet, whose token it is and whether that    *)
(* wallet has a name, that the token is no good, or no answer at all.      *)
Pending == [is |-> "pending"]
Me(w, name) == [is |-> "me", wallet |-> w, name |-> name]
Refused == [is |-> "401"]
Lost == [is |-> "lost"]

NoFlight == [token |-> 0, answer |-> Lost]

TypeOK ==
  /\ storage \in Auth /\ auth \in [Tab -> Auth]
  /\ unheard \subseteq Tab
  /\ \A t \in Tab :
       /\ flight[t].token \in {0} \cup Token
       /\ flight[t].answer \in {Pending, Refused, Lost}
                                 \cup {Me(w, name) : w \in Wallet, name \in Wallet \cup {None}}
       /\ flight[t].token = 0 => waiting[t] = {}
       /\ auth[t].token # 0 /\ ~ settled[t] => "dashboard" \in waiting[t]
  /\ waiting \in [Tab -> SUBSET Waiter] /\ settled \in [Tab -> BOOLEAN]
  /\ signing \in [Tab -> Wallet \cup {None}] /\ connected \in Wallet \cup {None}
  /\ issued \in Seq(Wallet) /\ live \subseteq 1 .. Len(issued)
  /\ owners \subseteq Wallet

SignedOut == [token |-> 0, name |-> None]

Init ==
  /\ storage = SignedOut /\ auth = [t \in Tab |-> SignedOut]
  /\ unheard = {} /\ flight = [t \in Tab |-> NoFlight]
  /\ waiting = [t \in Tab |-> {}] /\ settled = [t \in Tab |-> FALSE]
  /\ signing = [t \in Tab |-> None] /\ connected = None
  /\ issued = <<>> /\ live = {} /\ owners = Holder

-----------------------------------------------------------------------------
(* What a tab does with a new copy of the session.                         *)

(* meSingleFlight: whoever asks joins the request under way, whichever     *)
(* token that one was sent with.                                           *)
Joined(f, token) == IF f.token # 0 THEN f ELSE [token |-> token, answer |-> Pending]

(* What the dashboard asked has been answered, or failed.                  *)
SettledWith(a, w) == a.token # 0 /\ "dashboard" \notin w

(* The dashboard's /me effect runs when its token changes; what awaited    *)
(* for the former one is cancelled. f and w are the request under way and  *)
(* those who await it.                                                     *)
Sees(t, a, f, w) ==
  /\ auth' = [auth EXCEPT ![t] = a]
  /\ CASE a.token = auth[t].token ->
            /\ flight' = [flight EXCEPT ![t] = f] /\ waiting' = [waiting EXCEPT ![t] = w]
            /\ settled' = [settled EXCEPT ![t] = SettledWith(a, w)]
       [] a.token # auth[t].token /\ a.token = 0 ->
            /\ flight' = [flight EXCEPT ![t] = f]
            /\ waiting' = [waiting EXCEPT ![t] = w \ {"dashboard"}]
            /\ settled' = [settled EXCEPT ![t] = FALSE]
       [] OTHER ->
            /\ flight' = [flight EXCEPT ![t] = Joined(f, a.token)]
            /\ waiting' = [waiting EXCEPT ![t] = w \cup {"dashboard"}]
            /\ settled' = [settled EXCEPT ![t] = FALSE]

(* saveAuth and clearAuth. This tab hears its own event at once, the       *)
(* others a storage event if anything changed.                             *)
Tells(t, a) == unheard' = IF a = storage THEN unheard ELSE unheard \cup (Tab \ {t})

WritesUnheard(t, a, f, w) ==
  storage' = a /\ Tells(t, a) /\ Sees(t, auth[t], f, w)

Writes(t, a, f, w) ==
  storage' = a /\ Tells(t, a) /\ Sees(t, a, f, w)

Write(t, a) == Writes(t, a, flight[t], waiting[t])

Hear(t) ==
  /\ t \in unheard
  /\ unheard' = unheard \ {t}
  /\ Sees(t, storage, flight[t], waiting[t])
  /\ UNCHANGED <<storage, signing, connected, server>>

LoadHeaderOnly(t) ==
  /\ auth' = [auth EXCEPT ![t] = storage]
  /\ unheard' = unheard \ {t}
  /\ flight' = [flight EXCEPT ![t] = IF storage.token = 0 THEN NoFlight
                                     ELSE Joined(NoFlight, storage.token)]
  /\ waiting' = [waiting EXCEPT ![t] = IF storage.token = 0 THEN {} ELSE {"header"}]
  /\ settled' = [settled EXCEPT ![t] = FALSE]
  /\ signing' = [signing EXCEPT ![t] = None]
  /\ UNCHANGED <<storage, connected, server>>

(* A reload: the header asks with the token it finds, and so does the      *)
(* dashboard, in one request. What the page before it asked is gone.       *)
Load(t) ==
  /\ auth' = [auth EXCEPT ![t] = storage]
  /\ unheard' = unheard \ {t}
  /\ flight' = [flight EXCEPT ![t] = IF storage.token = 0 THEN NoFlight
                                     ELSE Joined(NoFlight, storage.token)]
  /\ waiting' = [waiting EXCEPT ![t] = IF storage.token = 0 THEN {} ELSE Waiter]
  /\ settled' = [settled EXCEPT ![t] = FALSE]
  /\ signing' = [signing EXCEPT ![t] = None]
  /\ UNCHANGED <<storage, connected, server>>

-----------------------------------------------------------------------------
(* /me.                                                                    *)

Answer(t) ==
  /\ flight[t].token # 0 /\ flight[t].answer = Pending
  /\ LET k == flight[t].token
         wallet == issued[k]
     IN flight' = [flight EXCEPT ![t].answer =
          IF k \in live THEN Me(wallet, IF wallet \in owners THEN wallet ELSE None) ELSE Refused]
  /\ UNCHANGED <<storage, auth, unheard, waiting, settled, signing, connected, server>>

SyncAnyWallet(current, me) ==
  IF current.token = 0 THEN current ELSE [current EXCEPT !.name = me.name]

(* syncAuthWithServer                                                      *)
Sync(current, me) ==
  CASE current.token = 0 -> current
    [] current.token # 0 /\ issued[current.token] # me.wallet -> SignedOut
    [] OTHER -> [current EXCEPT !.name = me.name]

TheTabs(t) == auth[t]
Current(t) == storage

(* request clears the session on a 401, and those who await a name write   *)
(* it; mePending is cleared before they do. An answer may be lost.         *)
Deliver(t) ==
  /\ flight[t].token # 0
  /\ \E answer \in {flight[t].answer, Lost} \ {Pending} :
     LET next == CASE answer = Refused -> SignedOut
                   [] answer.is = "me" /\ waiting[t] # {} -> Sync(Current(t), answer)
                   [] OTHER -> storage
     IN IF answer = Refused \/ next # storage
        THEN Writes(t, next, NoFlight, {})
        ELSE Sees(t, auth[t], NoFlight, {}) /\ UNCHANGED <<storage, unheard>>
  /\ UNCHANGED <<signing, connected, server>>

-----------------------------------------------------------------------------
(* Signing in and out.                                                     *)

SwitchWallet ==
  /\ connected' \in (Wallet \cup {None}) \ {connected}
  /\ UNCHANGED <<storage, unheard, tabs, signing, server>>

(* The dashboard's effect of a wallet that went away or changed.           *)
DropSession(t) ==
  /\ auth[t].token # 0 /\ connected # issued[auth[t].token]
  /\ Write(t, SignedOut)
  /\ UNCHANGED <<signing, connected, server>>

(* The screens of the dashboard, in the order it decides them.             *)
Screen(t) ==
  CASE connected = None -> "connect"
    [] connected # None /\ auth[t].token = 0 -> "sign"
    [] connected # None /\ auth[t].token # 0 /\ auth[t].name = None ->
         IF settled[t] THEN "no_name" ELSE "loading"
    [] OTHER -> "dashboard"

SignIn(t) ==
  /\ Screen(t) = "sign" /\ signing[t] = None
  /\ signing' = [signing EXCEPT ![t] = connected]
  /\ UNCHANGED <<storage, unheard, tabs, connected, server>>

Verified(t) ==
  /\ signing[t] # None /\ Len(issued) < MaxTokens
  /\ signing' = [signing EXCEPT ![t] = None]
  /\ issued' = Append(issued, signing[t]) /\ live' = live \cup {Len(issued) + 1}
  /\ Write(t, [token |-> Len(issued) + 1, name |-> None])
  /\ UNCHANGED <<connected, owners>>

SignInFails(t) ==
  /\ signing[t] # None
  /\ signing' = [signing EXCEPT ![t] = None]
  /\ UNCHANGED <<storage, unheard, tabs, connected, server>>

(* The header's and the dashboard's, also after signing out everywhere.    *)
SignOut(t) ==
  /\ auth[t].token # 0
  /\ Write(t, SignedOut)
  /\ connected' = None
  /\ UNCHANGED <<signing, server>>

(* On the server: "sign out everywhere", here or on another device, or the *)
(* token expires; and a name claimed elsewhere.                            *)
Revoke ==
  /\ \E w \in Wallet : live' = {k \in live : issued[k] # w} /\ live' # live
  /\ UNCHANGED <<storage, unheard, tabs, signing, connected, issued, owners>>

Claim ==
  /\ \E w \in Wallet \ owners : owners' = owners \cup {w}
  /\ UNCHANGED <<storage, unheard, tabs, signing, connected, issued, live>>

Next ==
  \/ \E t \in Tab : \/ Hear(t) \/ Load(t) \/ Answer(t) \/ Deliver(t)
                    \/ DropSession(t) \/ SignIn(t) \/ Verified(t) \/ SignInFails(t) \/ SignOut(t)
  \/ SwitchWallet \/ Revoke \/ Claim

Spec == Init /\ [][Next]_vars

-----------------------------------------------------------------------------
(* The name noted with a token is the name of the token's wallet, whatever *)
(* the /me answers of other sessions say (lib/auth.ts, syncAuthWithServer: *)
(* "rather than silently mixing").                                         *)
NeverMixed ==
  storage.name # None => storage.name = issued[storage.token] /\ storage.name \in owners

(* A token gets into the storage only when a signature was just verified:  *)
(* no late answer, in any tab, signs a signed-out browser in again.        *)
LateSignsNobodyIn ==
  storage'.token \notin {0, storage.token} => storage'.token = Len(issued) + 1
NoLateSignIn == [][LateSignsNobodyIn]_vars

(* A tab shows what the storage holds as soon as the storage events that   *)
(* are on their way have come (lib/auth.ts, subscribeAuth).                *)
TabsAgree == \A t \in Tab \ unheard : auth[t] = storage
=============================================================================
