----------------------------- MODULE PayAdapters ----------------------------
(***************************************************************************)
(* What the adapters of lib/pay know of their wallets: useSolanaPay.ts of  *)
(* Phantom, which is injected late, switches account and disconnects by    *)
(* itself, useBitcoinPay.ts of a wallet that tells nothing between two     *)
(* requests, and useEvmPay.ts of one whose chain wagmi follows; the tab's  *)
(* note of session.ts, and where a payment that was confirmed on screen    *)
(* ends up (solana.ts, bitcoin.ts). Payments has the stages.               *)
(***************************************************************************)
EXTENDS Naturals, FiniteSets

CONSTANTS
  Payee,       \* for each payee, the chains that have an address: the tabs
  Key,         \* accounts of the wallets
  Network,     \* networks a payment can be sent on
  Other,       \* networks of wallets Paytag does not send on
  None,        \* nothing
  MaxPayments  \* bound: payments sent

PayAdaptersConstants ==
  /\ \A tabs \in Payee : tabs # {} /\ tabs \subseteq {"ethereum", "solana", "bitcoin"}
  /\ Network # {} /\ Network \cap Other = {} /\ None \notin Key \cup Network \cup Other
  /\ MaxPayments \in Nat

VARIABLES
  chain,    \* the tab open: its adapter is mounted
  wallet,   \* each wallet: whether it is there, trusts this site, its
            \* account and its network
  events,   \* what Phantom has told and the page has not heard yet
  status,   \* the mounted adapter's
  shown,    \* the account it shows
  timer,    \* Phantom is looked for once more
  asking,   \* connect is under way
  network,  \* the network chosen, or the preference before connecting
  session,  \* session.ts: the wallets connected in this page
  confirm,  \* a send under way: what was on screen, or None
  payments  \* what was sent: on which chain, shown where, landed where

vars == <<chain, wallet, events, status, shown, timer, asking, network,
          session, confirm, payments>>
adapter == <<status, shown, timer, asking, network>>

Payable == DOMAIN wallet
Status == {"detecting", "not_installed", "disconnected", "connecting", "connected"}
Wallets == [there : BOOLEAN, trusts : BOOLEAN, key : Key, network : Network \cup Other]

TypeOK ==
  /\ chain \in Payable /\ Payable \in Payee /\ wallet \in [Payable -> Wallets]
  /\ events \in {<<>>} \cup {<<k>> : k \in Key \cup {None}}
  /\ status \in Status /\ shown \in Key \cup {None}
  /\ timer \in BOOLEAN /\ asking \in BOOLEAN /\ network \in Network
  /\ session \in [{"solana", "bitcoin"} -> Key \cup {None}]
  /\ confirm = None \/ confirm \in [chain : Payable, network : Network, key : Key]
  /\ payments \subseteq [chain : Payable, shown : Network, at : Network \cup Other]
  /\ status = "connected" => shown # None

-----------------------------------------------------------------------------
(* Mounting an adapter: what it finds in its wallet, or in the session.    *)

Trusted(c) == wallet[c].there /\ wallet[c].trusts

Notes(c, k) == session' = [session EXCEPT ![c] = k]

(* applyDetection                                                          *)
Detects ==
  IF Trusted("solana")
  THEN /\ status' = "connected" /\ shown' = wallet["solana"].key
       /\ Notes("solana", wallet["solana"].key)
  ELSE /\ status' = "disconnected" /\ UNCHANGED <<shown, session>>

StatusOn(c, s) ==
  CASE c = "solana" /\ ~ wallet[c].there -> "detecting"
    [] c = "bitcoin" /\ s[c] # None -> "connected"
    [] c # "bitcoin" /\ Trusted(c) -> "connected"
    [] OTHER -> "disconnected"
ShownOn(c, s) ==
  IF StatusOn(c, s) # "connected" THEN None
  ELSE IF c = "bitcoin" THEN s[c] ELSE wallet[c].key
SessionOn(c, s) ==
  IF c = "solana" /\ StatusOn(c, s) = "connected"
  THEN [s EXCEPT ![c] = wallet[c].key] ELSE s

Mounts(c) ==
  /\ status' = StatusOn(c, session) /\ shown' = ShownOn(c, session)
  /\ session' = SessionOn(c, session) /\ timer' = (status' = "detecting")
  /\ asking' = FALSE /\ events' = <<>> /\ network' \in Network

NoSession == [c \in {"solana", "bitcoin"} |-> None]

Init ==
  /\ \E tabs \in Payee : wallet \in [tabs -> {w \in Wallets : w.trusts => w.there}]
  /\ chain \in Payable
  /\ status = StatusOn(chain, NoSession) /\ shown = ShownOn(chain, NoSession)
  /\ session = SessionOn(chain, NoSession) /\ timer = (status = "detecting")
  /\ asking = FALSE /\ events = <<>> /\ network \in Network
  /\ confirm = None /\ payments = {}

(* The panel locks its tabs while a send is under way (Payments).          *)
PickTab ==
  /\ confirm = None
  /\ \E c \in Payable \ {chain} : chain' = c /\ Mounts(c)
  /\ UNCHANGED <<wallet, confirm, payments>>

(* The second look at Phantom.                                             *)
LooksAgain ==
  /\ timer /\ timer' = FALSE
  /\ IF wallet["solana"].there THEN Detects
     ELSE status' = "not_installed" /\ UNCHANGED <<shown, session>>
  /\ UNCHANGED <<chain, wallet, events, asking, network, confirm, payments>>

(* "Check again"                                                           *)
Recheck ==
  /\ chain = "solana" /\ status = "not_installed"
  /\ IF wallet["solana"].there THEN Detects /\ timer' = FALSE
     ELSE status' = "detecting" /\ timer' = TRUE /\ UNCHANGED <<shown, session>>
  /\ UNCHANGED <<chain, wallet, events, asking, network, confirm, payments>>

-----------------------------------------------------------------------------
(* The wallets, which their user opens.                                    *)

Installed == chain = "solana" /\ status \notin {"detecting", "not_installed"}

(* Phantom tells the pages it trusts, wagmi follows the EVM wallet, and    *)
(* nothing follows the Bitcoin one.                                        *)
Tells(c, k) ==
  CASE c = "solana" /\ Installed -> events' = <<k>> /\ UNCHANGED <<status, shown>>
    [] c = "ethereum" /\ chain = "ethereum" ->
         /\ shown' = k /\ status' = (IF k = None THEN "disconnected" ELSE "connected")
         /\ UNCHANGED events
    [] OTHER -> UNCHANGED <<events, status, shown>>

Injected ==
  /\ \E c \in Payable : ~ wallet[c].there /\ wallet' = [wallet EXCEPT ![c].there = TRUE]
  /\ UNCHANGED <<chain, events, adapter, session, confirm, payments>>

SwitchAccount ==
  /\ events = <<>>
  /\ \E c \in Payable, k \in Key :
       /\ Trusted(c) /\ wallet[c].key # k /\ wallet' = [wallet EXCEPT ![c].key = k]
       /\ Tells(c, k)
  /\ UNCHANGED <<chain, timer, asking, network, session, confirm, payments>>

Disconnect ==
  /\ events = <<>>
  /\ \E c \in Payable :
       /\ Trusted(c) /\ wallet' = [wallet EXCEPT ![c].trusts = FALSE]
       /\ Tells(c, None)
  /\ UNCHANGED <<chain, timer, asking, network, session, confirm, payments>>

SwitchNetwork ==
  /\ \E c \in Payable, n \in Network \cup Other :
       /\ wallet[c].there /\ wallet[c].network # n
       /\ wallet' = [wallet EXCEPT ![c].network = n]
  /\ UNCHANGED <<chain, events, adapter, session, confirm, payments>>

(* onAccountChanged and onDisconnect                                       *)
Hears ==
  /\ Installed /\ events # <<>>
  /\ events' = <<>>
  /\ LET k == events[1] IN
       /\ shown' = k /\ Notes("solana", k)
       /\ status' = IF k = None THEN "disconnected" ELSE status
  /\ UNCHANGED <<chain, wallet, timer, asking, network, confirm, payments>>

-----------------------------------------------------------------------------
(* connect and the network toggle.                                         *)

Connect ==
  /\ status = "disconnected" /\ ~ asking
  /\ status' = "connecting" /\ asking' = TRUE
  /\ UNCHANGED <<chain, wallet, events, shown, timer, network, session, confirm, payments>>

Connected ==
  /\ asking /\ asking' = FALSE /\ wallet[chain].there /\ events = <<>>
  /\ wallet' = [wallet EXCEPT ![chain].trusts = TRUE]
  /\ status' = "connected" /\ shown' = wallet[chain].key
  /\ IF chain = "ethereum" THEN UNCHANGED session ELSE Notes(chain, wallet[chain].key)
  /\ UNCHANGED <<chain, events, timer, network, confirm, payments>>

ConnectFails ==
  /\ asking /\ asking' = FALSE
  /\ status' = IF chain = "solana" /\ ~ wallet[chain].there THEN "not_installed"
               ELSE "disconnected"
  /\ UNCHANGED <<chain, wallet, events, shown, timer, network, session, confirm, payments>>

SetNetwork ==
  /\ confirm = None
  /\ network' \in Network \ {network}
  /\ UNCHANGED <<chain, wallet, events, status, shown, timer, asking, session, confirm, payments>>

-----------------------------------------------------------------------------
(* A payment.                                                              *)

(* What the review shows: for EVM the wallet's own network, when supported.*)
ShownNetwork ==
  IF chain = "ethereum" /\ wallet[chain].network \in Network
  THEN wallet[chain].network ELSE network
UnsupportedNetwork == chain = "ethereum" /\ wallet[chain].network \notin Network

Confirm ==
  /\ status = "connected" /\ confirm = None /\ ~ UnsupportedNetwork
  /\ Cardinality(payments) < MaxPayments
  /\ confirm' = [chain |-> chain, network |-> ShownNetwork, key |-> shown]
  /\ UNCHANGED <<chain, wallet, events, adapter, session, payments>>

AnyNetwork(c, n) == TRUE
(* sendTransaction refuses a wallet on another chain than the one named;   *)
(* Phantom can't send a transaction whose blockhash is another network's;  *)
(* the Bitcoin wallet takes no network.                                    *)
Accepts(c, n) == c = "bitcoin" \/ wallet[c].network = n

Signs(c) == IF c = "solana" THEN wallet[c].key = confirm.key ELSE TRUE

Sends ==
  /\ confirm # None
  /\ LET c == confirm.chain IN
       /\ wallet[c].there /\ (c # "bitcoin" => Trusted(c))
       /\ Accepts(c, confirm.network) /\ Signs(c)
       /\ payments' = payments \cup
            {[chain |-> c, shown |-> confirm.network, at |-> wallet[c].network]}
  /\ confirm' = None
  /\ UNCHANGED <<chain, wallet, events, adapter, session>>

SendFails ==
  /\ confirm # None /\ confirm' = None
  /\ UNCHANGED <<chain, wallet, events, adapter, session, payments>>

Next ==
  \/ PickTab \/ LooksAgain \/ Recheck
  \/ Injected \/ SwitchAccount \/ Disconnect \/ SwitchNetwork \/ Hears
  \/ Connect \/ Connected \/ ConnectFails \/ SetNetwork
  \/ Confirm \/ Sends \/ SendFails

Spec == Init /\ [][Next]_vars

-----------------------------------------------------------------------------
(* A payment lands on the network that was on screen when it was           *)
(* confirmed, though the wallet's own network can change until it signs;   *)
(* Bitcoin's is the wallet's choice (lib/bitcoin.ts:97 "UI hint only").    *)
LandsWhereShown ==
  \A p \in payments : p.chain # "bitcoin" => p.at = p.shown

(* The account a page shows as connected is the wallet's, once the page    *)
(* has heard what the wallet told it (useSolanaPay.ts, "Follow account     *)
(* switches and disconnects made inside Phantom"); the session's note of   *)
(* it is the same.                                                         *)
ShowsTheAccount ==
  chain # "bitcoin" /\ status = "connected" /\ events = <<>> =>
    /\ Trusted(chain) /\ shown = wallet[chain].key
    /\ chain = "solana" => session["solana"] = shown
=============================================================================
