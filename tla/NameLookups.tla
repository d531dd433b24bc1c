----------------------------- MODULE NameLookups ----------------------------
(***************************************************************************)
(* The pages that ask about a name, or a wallet's names, as the user types *)
(* and the wallet changes: components/ClaimInput.tsx, with the preview of  *)
(* landing/LandingHero.tsx, and components/onchain's ManageNames.tsx and   *)
(* LookupPanel.tsx. A request is sent for what the page shows then; by the *)
(* time it answers the page may show something else. A behaviour stays on  *)
(* one page.                                                               *)
(***************************************************************************)
EXTENDS Naturals, FiniteSets

CONSTANTS
  Name,       \* well-formed names, normalized
  Partial,    \* drafts too short to be one, and the empty draft
  Ill,        \* drafts that can't become one
  Reserved,   \* names nobody may claim
  Wallet,     \* wallets of the extension
  None,       \* nothing
  MaxAsked,   \* bound: requests at a time
  MaxChanges  \* bound: names registered or moved meanwhile

NameLookupsConstants ==
  /\ Reserved \subseteq Name /\ None \notin Name \cup Wallet
  /\ Name \cap Wallet = {} /\ Partial \cap Ill = {}
  /\ MaxAsked \in Nat /\ MaxChanges \in Nat

VARIABLES
  page,      \* "claim", "names" or "look up"
  wallet,    \* the wallet connected, or None
  value,     \* what the input holds
  timer,     \* the debounced check is to be sent
  asked,     \* the requests under way
  shows,     \* status, load and result: what the page says, and of what
  preview,   \* the name on the landing page's card, or None
  sent,      \* where the form or the input led to, or None
  accounts,  \* names of accounts
  holder,    \* the on-chain owner of each name
  changes    \* changes so far (bounded by MaxChanges)

vars == <<page, wallet, value, timer, asked, shows, preview, sent, accounts,
          holder, changes>>
server == <<accounts, holder, changes>>

Draft == Name \cup Partial \cup Ill
Verdict == {"available", "taken", "onchain", "reserved"}

(* What a request is about: a name for a wallet, or a wallet.              *)
NoKey == [name |-> None, wallet |-> None]
Key == [name : Name \cup {None}, wallet : Wallet \cup {None}]
NoAnswer == [is |-> "none"]

Says(is, of) == [is |-> is, of |-> of, names |-> {}]
Idle == Says("idle", NoKey)

TypeOK ==
  /\ page \in {"claim", "names", "look up"}
  /\ wallet \in Wallet \cup {None} /\ value \in Draft \cup Wallet /\ timer \in BOOLEAN
  /\ \A r \in asked : r.of \in Key /\ r.aborted \in BOOLEAN
  /\ shows.is \in Verdict \cup {"idle", "invalid", "checking", "offline",
                                "loading", "ready", "error", "reverse"}
  /\ shows.of \in Key /\ shows.names \subseteq Name
  /\ preview \in Name \cup {None} /\ sent \in Key
  /\ accounts \subseteq Name /\ holder \in [Name -> Wallet \cup {None}]
  /\ changes \in 0 .. MaxChanges
  /\ timer => page = "claim" /\ value \in Name

Init ==
  /\ page \in {"claim", "names", "look up"}
  /\ wallet = None /\ value \in Partial /\ timer = FALSE /\ asked = {}
  /\ shows = (IF page = "names" THEN Says("loading", NoKey) ELSE Idle)
  /\ preview = None /\ sent = NoKey
  /\ accounts = {} /\ holder = [n \in Name |-> None] /\ changes = 0

-----------------------------------------------------------------------------
(* The answers. /available ...                                             *)
Available(n, w) ==
  CASE n \in Reserved -> "reserved"
    [] n \in accounts \ Reserved -> "taken"
    [] n \notin accounts \cup Reserved /\ holder[n] \notin {None, w} -> "onchain"
    [] OTHER -> "available"

(* ... /names and /reverse: here a wallet's primary name is any it owns.   *)
Owned(w) == {n \in Name : holder[n] = w}

AnswerOf(of) ==
  IF page = "claim" THEN [is |-> Available(of.name, of.wallet), of |-> of, names |-> {}]
  ELSE [is |-> IF page = "names" THEN "ready" ELSE "reverse",
        of |-> of, names |-> Owned(of.wallet)]

Registered ==
  /\ changes < MaxChanges /\ changes' = changes + 1
  /\ \/ \E n \in Name \ (accounts \cup Reserved) :
          accounts' = accounts \cup {n} /\ UNCHANGED holder
     \/ \E n \in Name, w \in Wallet :
          holder[n] # w /\ holder' = [holder EXCEPT ![n] = w] /\ UNCHANGED accounts
  /\ UNCHANGED <<page, wallet, value, timer, asked, shows, preview, sent>>

Send(of) == [of |-> of, aborted |-> FALSE, answer |-> NoAnswer]
Aborted == {[r EXCEPT !.aborted = TRUE] : r \in asked}

Respond ==
  /\ \E r \in asked :
       /\ r.answer = NoAnswer
       /\ \E answer \in {AnswerOf(r.of), Says("lost", r.of)} :
            asked' = (asked \ {r}) \cup {[r EXCEPT !.answer = answer]}
  /\ UNCHANGED <<page, wallet, value, timer, shows, preview, sent, server>>

-----------------------------------------------------------------------------
(* The claim input: every change of the draft or of the wallet drops the   *)
(* check for the former one and starts another after a pause.              *)

Previewed(says) ==
  preview' = IF says.is = "available" THEN value' ELSE None

Rechecks(v) ==
  /\ asked' = Aborted
  /\ timer' = (v \in Name)
  /\ shows' = CASE v \in Partial -> Idle
                [] v \in Ill -> Says("invalid", NoKey)
                [] OTHER -> Says("checking", NoKey)
  /\ Previewed(shows')

(* Typing, or taking a suggestion.                                         *)
Type ==
  /\ page = "claim"
  /\ value' \in Draft \ {value}
  /\ Rechecks(value')
  /\ UNCHANGED <<page, wallet, sent, server>>

TimerFires ==
  /\ timer /\ Cardinality(asked) < MaxAsked
  /\ timer' = FALSE
  /\ asked' = asked \cup {Send([name |-> value, wallet |-> wallet])}
  /\ UNCHANGED <<page, wallet, value, shows, preview, sent, server>>

HeedsAll(r) == TRUE
Heeds(r) == ~ r.aborted

Drop(r) ==
  asked' = asked \ {r} /\ UNCHANGED <<shows, preview>>

Checked ==
  /\ page = "claim"
  /\ \E r \in asked :
       /\ r.answer # NoAnswer
       /\ UNCHANGED value
       /\ \/ Heeds(r) /\ asked' = asked \ {r}
             /\ shows' = (IF r.answer.is = "lost" THEN Says("offline", NoKey) ELSE r.answer)
             /\ Previewed(shows')
          \/ ~ Heeds(r) /\ Drop(r)
  /\ UNCHANGED <<page, wallet, timer, sent, server>>

(* Only a name found free, or the visitor's to claim with another wallet,  *)
(* goes on to the claim flow.                                              *)
Submit ==
  /\ page = "claim" /\ shows.is \in {"available", "onchain"}
  /\ sent' = [name |-> value, wallet |-> wallet]
  /\ UNCHANGED <<page, wallet, value, timer, asked, shows, preview, server>>

-----------------------------------------------------------------------------
(* My names: loaded for each account, and again after each change of one.  *)

Loads(w) ==
  /\ asked' = Aborted \cup (IF w = None THEN {} ELSE {Send([name |-> None, wallet |-> w])})
  /\ shows' = IF w = None \/ (shows.is = "ready" /\ shows.of.wallet = w) THEN shows
              ELSE Says("loading", NoKey)

(* A card's onChanged, and "Try again".                                    *)
Refresh ==
  /\ page = "names" /\ wallet # None /\ Cardinality(asked) < MaxAsked
  /\ shows.is \in {"ready", "error"}
  /\ Loads(wallet)
  /\ UNCHANGED <<page, wallet, value, timer, preview, sent, server>>

Loaded ==
  /\ page = "names"
  /\ \E r \in asked :
       /\ r.answer # NoAnswer
       /\ \/ Heeds(r) /\ asked' = asked \ {r} /\ UNCHANGED preview
             /\ shows' = (IF r.answer.is = "lost" THEN Says("error", NoKey) ELSE r.answer)
          \/ ~ Heeds(r) /\ Drop(r)
  /\ UNCHANGED <<page, wallet, value, timer, sent, server>>

-----------------------------------------------------------------------------
(* The look-up: a name opens its page, an address is asked about. Typing   *)
(* clears the result and cancels nothing.                                  *)

Edit ==
  /\ page = "look up"
  /\ value' \in (Draft \cup Wallet) \ {value}
  /\ shows' = Idle
  /\ UNCHANGED <<page, wallet, timer, asked, preview, sent, server>>

Look ==
  /\ page = "look up" /\ value \notin Partial
  /\ CASE value \in Wallet ->
            /\ Cardinality(asked) < MaxAsked
            /\ asked' = asked \cup {Send([name |-> None, wallet |-> value])}
            /\ shows' = Says("loading", NoKey) /\ UNCHANGED sent
       [] value \in Name ->
            sent' = [name |-> value, wallet |-> None] /\ UNCHANGED <<asked, shows>>
       [] OTHER ->
            shows' = Says("error", NoKey) /\ UNCHANGED <<asked, sent>>
  /\ UNCHANGED <<page, wallet, value, timer, preview, server>>

Looked ==
  /\ page = "look up"
  /\ \E r \in asked :
       /\ r.answer # NoAnswer
       /\ asked' = asked \ {r}
       /\ shows' = IF r.answer.is = "lost" THEN Says("error", NoKey) ELSE r.answer
  /\ UNCHANGED <<page, wallet, value, timer, preview, sent, server>>

-----------------------------------------------------------------------------
(* The wallet connects, disconnects or switches account.                   *)
SwitchWallet ==
  /\ page # "look up" /\ Cardinality(asked) < MaxAsked
  /\ wallet' \in (Wallet \cup {None}) \ {wallet}
  /\ \/ page = "claim" /\ UNCHANGED value /\ Rechecks(value)
     \/ page = "names" /\ Loads(wallet') /\ UNCHANGED <<value, timer, preview>>
  /\ UNCHANGED <<page, sent, server>>

Next ==
  \/ Registered \/ Respond
  \/ Type \/ TimerFires \/ Checked \/ Submit
  \/ Refresh \/ Loaded
  \/ Edit \/ Look \/ Looked
  \/ SwitchWallet

Spec == Init /\ [][Next]_vars

-----------------------------------------------------------------------------
(* What a page says is about what it shows: no verdict of a draft since    *)
(* edited, or asked for another wallet, and no names of another account,   *)
(* however late an answer comes (ClaimInput.tsx:128, ManageNames.tsx:44    *)
(* "never let its late result land on the new account").                   *)
SaysOfShown ==
  /\ page = "claim" /\ shows.is \in Verdict => shows.of = [name |-> value, wallet |-> wallet]
  /\ page = "names" /\ wallet # None /\ shows.is = "ready" => shows.of.wallet = wallet
  /\ preview # None => preview = value /\ shows.is = "available"

(* The claim flow is entered only with a name that was checked, as it is   *)
(* written and for the wallet connected (ClaimInput.tsx:158).              *)
ChecksFirst ==
  page = "claim" /\ sent' # sent => shows.of = sent' /\ sent'.name \notin Reserved
=============================================================================
