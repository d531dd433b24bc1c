------------------------------- MODULE Prices -------------------------------
(***************************************************************************)
(* The price beside an amount: the cache of web/lib/prices.ts that every   *)
(* flow of a page shares, its one request at a time, and a flow's copy,    *)
(* refreshed while it is enabled (not on a testnet). Time passes in ticks  *)
(* of TTL_MS; a request settles in the tick it was sent.                   *)
(***************************************************************************)
EXTENDS Naturals

CONSTANTS
  Price,   \* prices a source may tell
  Flow,    \* the flows of a page
  None,    \* no price
  Stale,   \* STALE_MS, in ticks
  MaxNow   \* bound: the time

PricesConstants == None \notin Price /\ Stale \in Nat \ {0} /\ MaxNow \in Nat

VARIABLES
  now,       \* the time, in ticks
  cached,    \* the price last told, and when: older than Stale counts as none
  inflight,  \* the flows that await the request under way
  enabled,   \* flows that show a price
  price,     \* each flow's: the price, and when it was told, or None
  due        \* flows whose timer has not run in this tick

vars == <<now, cached, inflight, enabled, price, due>>

NoPrice == [of |-> None, at |-> 0]
Told == [of : Price, at : 0 .. MaxNow]

TypeOK ==
  /\ now \in 0 .. MaxNow /\ cached \in Told \cup {NoPrice}
  /\ inflight \subseteq Flow /\ enabled \subseteq Flow /\ due \subseteq enabled
  /\ price \in [Flow -> Told \cup {NoPrice}]

Init ==
  /\ now = 0 /\ cached = NoPrice /\ inflight = {} /\ enabled = {} /\ due = {}
  /\ price = [f \in Flow |-> NoPrice]

(* freshCached, for less than one tick and for less than Stale of them.    *)
AnyCached(age) == cached
FreshCached(age) == IF cached # NoPrice /\ now - cached.at < age THEN cached ELSE NoPrice

Shows(flows, told) == price' = [f \in Flow |-> IF f \in flows THEN told ELSE price[f]]

(* load: at once from the cache, or with the request under way.            *)
Loads(f) ==
  IF FreshCached(1) # NoPrice
  THEN Shows({f}, FreshCached(1)) /\ UNCHANGED inflight
  ELSE inflight' = inflight \cup {f} /\ UNCHANGED price

Enable(f) ==
  /\ f \notin enabled
  /\ enabled' = enabled \cup {f}
  /\ Loads(f)
  /\ UNCHANGED <<now, cached, due>>

Timer(f) ==
  /\ f \in due /\ due' = due \ {f}
  /\ Loads(f)
  /\ UNCHANGED <<now, cached, enabled>>

(* Another network, or the flow is gone: what it awaits is cancelled.      *)
Disable(f) ==
  /\ f \in enabled
  /\ enabled' = enabled \ {f} /\ due' = due \ {f}
  /\ Shows({f}, NoPrice)
  /\ UNCHANGED <<now, cached, inflight>>

Responds ==
  /\ inflight # {}
  /\ \E p \in Price : cached' = [of |-> p, at |-> now]
  /\ Shows(inflight \cap enabled, cached')
  /\ inflight' = {}
  /\ UNCHANGED <<now, enabled, due>>

(* A slightly old price, and none after that.                              *)
Fails ==
  /\ inflight # {}
  /\ Shows(inflight \cap enabled, FreshCached(Stale))
  /\ inflight' = {}
  /\ UNCHANGED <<now, cached, enabled, due>>

Tick ==
  /\ now < MaxNow /\ inflight = {} /\ due = {}
  /\ now' = now + 1 /\ due' = enabled
  /\ UNCHANGED <<cached, inflight, enabled, price>>

Done == now = MaxNow /\ inflight = {} /\ due = {} /\ UNCHANGED vars

Next ==
  \/ \E f \in Flow : Enable(f) \/ Timer(f) \/ Disable(f)
  \/ Responds \/ Fails \/ Tick \/ Done

Spec == Init /\ [][Next]_vars

-----------------------------------------------------------------------------
(* A price is never shown longer than STALE_MS and one refresh after it    *)
(* was told, through any run of failed refreshes and whichever flow asked  *)
(* (prices.ts, "a slightly old price beats hiding the fiat line"), and     *)
(* never by a flow that shows none.                                        *)
PriceIsRecent ==
  \A f \in Flow :
    price[f] # NoPrice => f \in enabled /\ now - price[f].at <= Stale
=============================================================================
