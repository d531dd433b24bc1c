------------------------------ MODULE Payments ------------------------------
(***************************************************************************)
(* Paying a name from the web app: the lookup of app/send/page.tsx, the    *)
(* chain tabs of components/PayPanel.tsx, the stages of                    *)
(* components/pay/PayFlow.tsx and the adapters' send and                   *)
(* waitForConfirmation (lib/pay). A wallet that fails a send has not sent. *)
(* A flow is one mounted PayFlow: another name or tab mounts a new one.    *)
(***************************************************************************)
EXTENDS Integers, Sequences

CONSTANTS
  Name,          \* names that resolve
  Chain,         \* chains every name has an address on
  Waits,         \* those whose adapter has waitForConfirmation
  Amount,        \* amounts to type
  None,          \* nothing
  MaxFlows,      \* bound: flows mounted
  MaxPayments    \* bound: payments sent

PaymentConstants ==
  /\ Waits \subseteq Chain /\ Chain # {}
  /\ None \notin Name \cup Amount
  /\ MaxFlows \in Nat \ {0} /\ MaxPayments \in Nat

VARIABLES
  typed,      \* the name in the field, or None
  lookups,    \* lookups started: for which name, and whether aborted since
  found,      \* the resolution shown, or None
  busy,       \* PayPanel: the tabs are locked
  flow,       \* the PayFlow mounted: its chain, stage, amount and payment
  connected,  \* its adapter's wallet
  fee,        \* the fee on screen: of which amount, or None
  estimates,  \* estimates under way: of which amount, and whether cancelled
  runs,       \* onConfirm calls under way: what their closure has, and what they sent
  payments    \* payments sent: by which flow, where, and what became of them

vars == <<typed, lookups, found, busy, flow, connected, fee, estimates, runs, payments>>
page == <<typed, lookups, found>>
fees == <<fee, estimates>>

Stage == {"form", "review", "signing", "confirming", "unconfirmed", "success"}
Flows == 1 .. MaxFlows

TypeOK ==
  /\ typed \in Name \cup {None} /\ found \in Name \cup {None}
  /\ lookups \subseteq [name : Name, aborted : BOOLEAN]
  /\ busy \in BOOLEAN /\ connected \in BOOLEAN
  /\ flow \in [id : Flows, chain : Chain, stage : Stage,
               amount : Amount \cup {None}, sent : 0 .. MaxPayments]
  /\ fee \in Amount \cup {None}
  /\ estimates \subseteq [amount : Amount, cancelled : BOOLEAN]
  /\ runs \subseteq [flow : Flows, name : Name, chain : Chain,
                     sent : 0 .. MaxPayments]
  /\ payments \in Seq([flow : Flows, name : Name,
                       fate : {"waiting", "mined", "reverted", "replaced"}])
  /\ \A r1, r2 \in runs : r1.flow = r2.flow => r1 = r2

Fresh(id, c) == [id |-> id, chain |-> c, stage |-> "form", amount |-> None, sent |-> 0]

Init ==
  /\ typed = None /\ lookups = {} /\ found = None
  /\ busy = FALSE /\ connected \in BOOLEAN
  /\ flow \in {Fresh(1, c) : c \in Chain}
  /\ fee = None /\ estimates = {} /\ runs = {} /\ payments = <<>>

Shown == found # None
Mounted(r) == Shown /\ r.flow = flow.id

(* What the panel's body is, in the order PayFlow decides it.              *)
SuccessShown == Shown /\ flow.stage = "success"
UnconfirmedShown == Shown /\ flow.stage = "unconfirmed"
FormShown == Shown /\ connected /\ flow.stage = "form"
ReviewShown == Shown /\ connected /\ flow.stage = "review"

-----------------------------------------------------------------------------
(* The page.                                                               *)

Cancelled == {[e EXCEPT !.cancelled = TRUE] : e \in estimates}
Abandoned == estimates' = Cancelled /\ fee' = None

(* Every keystroke aborts the lookup under way, drops the resolution and,  *)
(* with it, the panel.                                                     *)
Type ==
  /\ \E n \in (Name \cup {None}) \ {typed} :
       /\ typed' = n
       /\ lookups' = {[l EXCEPT !.aborted = TRUE] : l \in lookups}
                       \cup (IF n = None THEN {} ELSE {[name |-> n, aborted |-> FALSE]})
  /\ found' = None
  /\ Abandoned
  /\ UNCHANGED <<busy, flow, connected, runs, payments>>

EvenIfAborted(l) == TRUE
Answers(l) == ~ l.aborted

(* A new panel, with nothing busy.                                         *)
Found ==
  /\ \E l \in lookups :
       /\ Answers(l) /\ lookups' = lookups \ {l}
       /\ found' = l.name
  /\ flow.id < MaxFlows
  /\ \E c \in Chain : flow' = Fresh(flow.id + 1, c)
  /\ busy' = FALSE
  /\ Abandoned
  /\ UNCHANGED <<typed, connected, runs, payments>>

(* Not a paytag, no connection, or nobody waits for the answer any more.   *)
LookupEnds ==
  /\ \E l \in lookups : lookups' = lookups \ {l}
  /\ UNCHANGED <<typed, found, busy, flow, connected, fees, runs, payments>>

Selectable == ~ busy

PickTab ==
  /\ Shown /\ Selectable /\ flow.id < MaxFlows
  /\ \E c \in Chain \ {flow.chain} : flow' = Fresh(flow.id + 1, c)
  /\ Abandoned
  /\ UNCHANGED <<page, busy, connected, runs, payments>>

-----------------------------------------------------------------------------
(* The form and the review.                                                *)

WhileSigning(stage) == stage = "signing"
Busy(stage) == stage \in {"signing", "confirming"}

(* The stage, with the effect that tells the panel.                        *)
Goes(f) == flow' = f /\ busy' = Busy(f.stage)
To(stage) == [flow EXCEPT !.stage = stage]

(* The effect of a wallet that went away: a review goes back to the form.  *)
WalletComesOrGoes ==
  /\ connected' = ~ connected
  /\ IF flow.stage = "review" /\ connected
     THEN Goes(To("form")) /\ Abandoned
     ELSE UNCHANGED <<flow, busy, fees>>
  /\ UNCHANGED <<page, runs, payments>>

SetAmount ==
  /\ FormShown
  /\ \E a \in Amount : flow' = [flow EXCEPT !.amount = a]
  /\ UNCHANGED <<page, busy, connected, fees, runs, payments>>

(* Entering the review asks for the fee of this amount, coming back to it  *)
(* from a signature that failed too.                                       *)
Estimates ==
  /\ fee' = None
  /\ estimates' = Cancelled \cup {[amount |-> flow.amount, cancelled |-> FALSE]}

Review ==
  /\ FormShown /\ flow.amount # None
  /\ Goes(To("review")) /\ Estimates
  /\ UNCHANGED <<page, connected, runs, payments>>

EvenIfCancelled(e) == TRUE
Wanted(e) == ~ e.cancelled

Estimated ==
  /\ \E e \in estimates, fails \in BOOLEAN :
       /\ fee' = IF Wanted(e) /\ ~ fails THEN e.amount ELSE fee
       /\ estimates' = estimates \ {e}
  /\ UNCHANGED <<page, busy, flow, connected, runs, payments>>

Edit ==
  /\ ReviewShown
  /\ Goes(To("form")) /\ Abandoned
  /\ UNCHANGED <<page, connected, runs, payments>>

-----------------------------------------------------------------------------
(* onConfirm, which goes on when its flow is no longer mounted.            *)

ConfirmTwice ==
  /\ ReviewShown
  /\ runs' = runs \cup {[flow |-> flow.id, name |-> found, chain |-> flow.chain,
                         sent |-> 0]}
  /\ UNCHANGED <<page, busy, flow, connected, fees, payments>>

Confirm ==
  /\ ReviewShown
  /\ Goes(To("signing"))
  /\ runs' = runs \cup {[flow |-> flow.id, name |-> found, chain |-> flow.chain,
                         sent |-> 0]}
  /\ estimates' = Cancelled
  /\ UNCHANGED <<page, connected, fee, payments>>


Dispatch(r, f) == IF Mounted(r) THEN Goes(f) ELSE UNCHANGED <<flow, busy>>

BackTo(stage) == IF connected THEN stage ELSE "form"

SignFails ==
  /\ \E r \in runs :
       /\ r.sent = 0 /\ runs' = runs \ {r}
       /\ Dispatch(r, To(BackTo("review")))
       /\ IF ~ Mounted(r) THEN UNCHANGED fees
          ELSE IF connected THEN Estimates ELSE Abandoned
  /\ UNCHANGED <<page, connected, payments>>

Sent ==
  /\ Len(payments) < MaxPayments
  /\ \E r \in runs :
       /\ r.sent = 0
       /\ payments' = Append(payments, [flow |-> r.flow, name |-> r.name,
                                        fate |-> "waiting"])
       /\ IF r.chain \in Waits
          THEN /\ runs' = (runs \ {r}) \cup {[r EXCEPT !.sent = Len(payments) + 1]}
               /\ Dispatch(r, [To("confirming") EXCEPT !.sent = Len(payments) + 1])
          ELSE /\ runs' = runs \ {r}
               /\ Dispatch(r, [To("success") EXCEPT !.sent = Len(payments) + 1])
  /\ UNCHANGED <<page, connected, fees>>

(* The chain, and the wallet that may replace or cancel what it sent.      *)
Meets ==
  /\ \E i \in DOMAIN payments, fate \in {"mined", "reverted", "replaced"} :
       payments[i].fate = "waiting" /\ payments' = [payments EXCEPT ![i].fate = fate]
  /\ UNCHANGED <<page, busy, flow, connected, fees, runs>>

AnyReceipt(p) == p.fate # "waiting"
(* The receipt of whatever was mined in its place did not revert.          *)
Succeeded(p) == p.fate \in {"mined", "replaced"}

Confirmed ==
  /\ \E r \in runs :
       /\ r.sent # 0 /\ Succeeded(payments[r.sent])
       /\ runs' = runs \ {r}
       /\ Dispatch(r, To("success"))
  /\ UNCHANGED <<page, connected, fees, payments>>

ReviewAgain == "review"
AfterNoAnswer == "unconfirmed"

(* Reverted, not confirmed in time, or no connection.                      *)
Unconfirmed ==
  /\ \E r \in runs :
       /\ r.sent # 0
       /\ runs' = runs \ {r}
       /\ Dispatch(r, To(AfterNoAnswer))
  /\ UNCHANGED <<page, connected, fees, payments>>

(* "Send another"                                                          *)
Reset ==
  /\ SuccessShown \/ UnconfirmedShown
  /\ Goes([Fresh(flow.id, flow.chain) EXCEPT !.sent = 0])
  /\ UNCHANGED <<page, connected, fees, runs, payments>>

Next ==
  \/ Type \/ Found \/ LookupEnds \/ PickTab
  \/ WalletComesOrGoes \/ SetAmount \/ Review \/ Estimated \/ Edit
  \/ Confirm \/ SignFails \/ Sent \/ Meets \/ Confirmed \/ Unconfirmed \/ Reset

Spec == Init /\ [][Next]_vars
-----------------------------------------------------------------------------
(* Whoever the panel pays is who the field names now: the answer of a      *)
(* lookup the user has typed past is dropped (app/send/page.tsx, the       *)
(* AbortController of the search effect).                                  *)
PaysWhoIsTyped == Shown => found = typed

(* The fee beside an amount to confirm was estimated for that amount, also *)
(* when the user went back, changed it, and the first estimate came last   *)
(* (PayFlow.tsx, the estimate effect).                                     *)
FeeIsForAmount ==
  Shown /\ flow.stage = "review" /\ fee # None => fee = flow.amount

(* A flow never leads to a second payment before the user has closed the   *)
(* outcome of the first: a wait that failed is no failed payment           *)
(* (PayFlow.tsx, "unconfirmed").                                           *)
OfferedOnce ==
  Shown /\ flow.stage \in {"form", "review", "signing"} =>
    /\ flow.sent = 0
    /\ \A r \in runs : r.flow = flow.id => r.sent = 0

(* While the name in the field is left alone, nothing takes the flow of a  *)
(* payment under way off the screen: no tab, and no lookup answered late   *)
(* (lib/pay/types.ts, onBusyChange: "Lets the shell lock the chain tabs    *)
(* while a transaction is in flight"). Typing does, whatever is under way: *)
(* the payment goes on and its page says nothing of it.                    *)
StaysMounted ==
  \A r \in runs, q \in runs' :
    q.flow = r.flow /\ Mounted(r) /\ typed' = typed => Mounted(q)'

(* Where the adapter waits, success is shown of a payment that is settled  *)
(* and did not revert (lib/pay/useEvmPay.ts, waitForConfirmation).         *)
SuccessIsSettled ==
  SuccessShown /\ flow.chain \in Waits =>
    payments[flow.sent].fate \notin {"waiting", "reverted"}

(* ... and that was paid: what lib/pay/types.ts and meta.ts say of success *)
(* ("Confirmed on ..."), and the code does not keep when the wallet's user *)
(* cancels or replaces the transaction: the receipt waited for is then the *)
(* replacement's.                                                          *)
SuccessMeansPaid ==
  SuccessShown /\ flow.chain \in Waits =>
    payments[flow.sent].fate = "mined"
=============================================================================
