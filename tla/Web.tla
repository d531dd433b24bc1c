-------------------------------- MODULE Web --------------------------------
(***************************************************************************)
(* The web app's pages that act for the user: tabs that sign in and out    *)
(* ("session", WebSession), a payment to a name that is being typed        *)
(* ("pay", Payments), the wallets behind it ("adapt", PayAdapters), the    *)
(* price beside it ("price", Prices), a claim ("claim", ClaimWizard) and   *)
(* the status page ("status", StatusReport). A behaviour is one of the     *)
(* part it starts as, and the others stay as they are.                     *)
(***************************************************************************)
EXTENDS WebSession

CONSTANTS
  Name, Chain, Waits, Amount, MaxFlows, MaxPayments,  \* Payments
  Payee, Key, Network, Other,                         \* PayAdapters
  Price, Flow, Stale, MaxNow,                         \* Prices
  User,                                               \* ClaimWizard's wallets
  Old                                                 \* StatusReport

VARIABLES
  part,
  session, payments,                               \* shared by two parts
  typed, lookups, found, busy, flow, plugged, fee, estimates, runs, \* Payments
  chain, wallet, events, status, shown, timer, asking, network, confirm,
                                                             \* PayAdapters
  now, cached, inflight, enabled, price, due,                     \* Prices
  step, error, unavailable, existing, resumedFor, check, recheck, resume,
  sign, register, address, account, taken, late, chainOwner, \* ClaimWizard
  up, probes, pending, down, smooth                         \* StatusReport

P == INSTANCE Payments WITH connected <- plugged
A == INSTANCE PayAdapters
V == INSTANCE Prices
C == INSTANCE ClaimWizard WITH Wallet <- User
S == INSTANCE StatusReport
ASSUME WebHolds ==
  /\ P!PaymentConstants /\ A!PayAdaptersConstants /\ V!PricesConstants
  /\ C!NoWallet /\ S!NoAnswer

pay == <<typed, lookups, found, busy, flow, plugged, fee, estimates, runs>>
adapt == <<chain, wallet, events, status, shown, timer, asking, network, confirm>>
prices == <<now, cached, inflight, enabled, price, due>>
claim == <<step, error, unavailable, existing, resumedFor, check, recheck, resume,
           sign, register, address, account, taken, late, chainOwner>>
report == <<up, probes, pending, down, smooth>>
all ==
  <<part, vars, session, payments, pay, adapt, prices, claim, report>>

NoPay ==
  /\ typed = 0 /\ lookups = 0 /\ found = 0 /\ busy = 0 /\ flow = 0
  /\ plugged = 0 /\ fee = 0 /\ estimates = 0 /\ runs = 0
NoAdapt ==
  /\ chain = 0 /\ wallet = 0 /\ events = 0 /\ status = 0 /\ shown = 0
  /\ timer = 0 /\ asking = 0 /\ network = 0 /\ confirm = 0
NoPrice ==
  /\ now = 0 /\ cached = 0 /\ inflight = 0 /\ enabled = 0
  /\ price = 0 /\ due = 0
NoClaim ==
  /\ step = 0 /\ error = 0 /\ unavailable = 0 /\ existing = 0
  /\ resumedFor = 0 /\ check = 0 /\ recheck = 0 /\ resume = 0
  /\ sign = 0 /\ register = 0 /\ address = 0 /\ account = 0
  /\ taken = 0 /\ late = 0 /\ chainOwner = 0
NoReport == up = 0 /\ probes = 0 /\ pending = 0 /\ down = 0 /\ smooth = 0

WebInit ==
  /\ part \in {"session", "pay", "adapt", "price", "claim", "status"}
  /\ Init
  /\ IF part = "pay" THEN P!Init ELSE NoPay
  /\ IF part = "adapt" THEN A!Init ELSE NoAdapt
  /\ IF part = "price" THEN V!Init ELSE NoPrice
  /\ IF part = "claim" THEN C!Init ELSE NoClaim
  /\ IF part = "status" THEN S!Init ELSE NoReport
  /\ part \notin {"adapt", "claim"} => session = 0
  /\ part \notin {"adapt", "pay"} => payments = 0

Only(p) ==
  /\ part' = part
  /\ p # "session" => UNCHANGED vars
  /\ p # "pay" => UNCHANGED pay
  /\ p # "adapt" => UNCHANGED adapt
  /\ p # "price" => UNCHANGED prices
  /\ p # "claim" => UNCHANGED claim
  /\ p # "status" => UNCHANGED report
  /\ p \notin {"adapt", "claim"} => UNCHANGED session
  /\ p \notin {"adapt", "pay"} => UNCHANGED payments

SignsIn == part = "session" /\ Next /\ Only("session")
Pays == part = "pay" /\ P!Next /\ Only("pay")
Adapts == part = "adapt" /\ A!Next /\ Only("adapt")
Asks == part = "price" /\ V!Next /\ Only("price")
Claims == part = "claim" /\ C!Next /\ Only("claim")
Reports == part = "status" /\ S!Next /\ Only("status")

WebNext == SignsIn \/ Pays \/ Adapts \/ Asks \/ Claims \/ Reports
WebSpec == WebInit /\ [][WebNext]_all
PaySpec == part = "pay" /\ WebInit /\ [][Pays]_all
ClaimSpec == part = "claim" /\ WebInit /\ [][Claims]_all

-----------------------------------------------------------------------------
(* What each page keeps is what its stage says (auth.ts, PayFlow.tsx,      *)
(* lib/pay, prices.ts, ClaimWizard.tsx, status.ts).                        *)
WebTypeOK ==
  CASE part = "session" -> TypeOK
    [] part = "pay" -> P!TypeOK
    [] part = "adapt" -> A!TypeOK
    [] part = "price" -> V!TypeOK
    [] part = "claim" -> C!TypeOK
    [] part = "status" -> S!TypeOK
(* The header, the dashboard and every tab show one session (lib/auth.ts). *)
SessionIsOne == NeverMixed /\ TabsAgree
(* A payment goes to who is on screen, for the fee, on the network and     *)
(* from the account on screen, at a price that is not old (PayFlow.tsx,    *)
(* lib/pay, prices.ts).                                                    *)
PaymentsAreSafe ==
  /\ part = "pay" =>
       P!PaysWhoIsTyped /\ P!FeeIsForAmount /\ P!OfferedOnce /\ P!SuccessIsSettled
  /\ part = "adapt" => A!LandsWhereShown /\ A!ShowsTheAccount
  /\ part = "price" => V!PriceIsRecent
(* "@name is yours" and "This wallet already owns ..." are so, a claim     *)
(* retried is never refused for having been made (ClaimWizard.tsx), and    *)
(* a system that is down is shown as down (status.ts).                     *)
PagesSayTrue ==
  /\ part = "claim" => C!DoneIsTrue /\ C!TakenIsAnother /\ C!RetriesAreSafe
  /\ part = "status" => S!DownShows
(* What is under way is left to end: an answer about a session that is     *)
(* over signs nobody in (lib/auth.ts), and while the name in the field is  *)
(* left alone, a payment under way stays on screen (PayPanel.tsx).         *)
UnderWayIsKept == NoLateSignIn /\ [][part = "pay" => P!StaysMounted]_all
(* See Payments: what the success screen says of a cancelled payment       *)
(* (PayFlow.tsx).                                                          *)
SuccessMeansPaid == part = "pay" => P!SuccessMeansPaid
(* See ClaimWizard: what the wizard says of a registration it has no       *)
(* answer of (ClaimWizard.tsx).                                            *)
NothingWasWritten == part = "claim" => C!NothingWasWritten
=============================================================================
