---------------------------- MODULE Reservations ----------------------------
(***************************************************************************)
(* The two-step registration of one name in the web app:                   *)
(* components/onchain/RegisterPanel.tsx, the saved secrets of              *)
(* lib/onchain/registration.ts and the writes of useOnchainTx.ts, while    *)
(* the wallet is switched, the page reloaded and answers come late.        *)
(* Chain time and the device's clock are one clock: the panel measures     *)
(* their offset. A commit lands within the grace, or never.                *)
(***************************************************************************)
EXTENDS Integers, Sequences, SequencesExt

CONSTANTS
  Wallet,     \* accounts of the user's wallet
  None,       \* nothing registered, saved or shown
  MinAge,     \* MIN_COMMITMENT_AGE
  MaxAge,     \* MAX_COMMITMENT_AGE
  Grace,      \* PENDING_COMMIT_GRACE_MS
  MaxNow,     \* bound: ticks
  MaxMade,    \* bound: reservations made
  MaxSent,    \* bound: transactions sent
  MaxChecks   \* bound: refreshStep reads under way

ASSUME ReservationConstants ==
  /\ MinAge \in Nat /\ MaxAge \in Nat /\ Grace \in Nat
  /\ MinAge <= MaxAge
  /\ MaxNow \in Nat \ {0} /\ MaxMade \in Nat /\ MaxSent \in Nat
  /\ MaxChecks \in Nat \ {0}
  /\ None \notin Nat

VARIABLES
  now,        \* time
  winner,     \* the reservation that registered the name, or None
  commit,     \* the registry's commitments: sender -> reservation -> time
  sent,       \* the transactions broadcast
  made,       \* the reservations made: owner and savedAt
  store,      \* localStorage: wallet -> its saved reservation
  wallet,     \* the wallet on screen (currentKey, with the one name)
  step,       \* the panel's step
  checks,     \* the refreshStep reads under way
  placing,    \* transactions confirmed, whose block is being read
  tx,         \* useOnchainTx's state and what it runs
  registered  \* the optimistic "registered"

vars == <<now, winner, commit, sent, made, store, wallet, step, checks,
          placing, tx, registered>>
chain == <<winner, commit, sent>>
panel == <<wallet, step, checks, placing, registered>>

Time == 0 .. MaxNow
Id == 1 .. MaxMade
Phases == {"missing", "waiting", "ready", "expired"}
Statuses == {"idle", "simulating", "signing", "pending", "indexed", "failed"}

Step(kind, r, until) == [kind |-> kind, r |-> r, until |-> until]
NoStep == Step("none", None, 0)
Shows(kind) == step.kind = kind
Idle == [status |-> "idle", kind |-> "none", r |-> None, id |-> 0]

TypeOK ==
  /\ now \in Time /\ winner \in DOMAIN made \cup {None}
  /\ commit \in [Wallet -> [Id -> Time]]
  /\ sent \in Seq([kind : {"commit", "register"}, r : Id, by : Wallet,
                   fate : {"waiting", "mined", "reverted", "cancelled", "replaced"}])
  /\ made \in Seq([owner : Wallet, savedAt : Time])
  /\ store \in [Wallet -> DOMAIN made \cup {None}]
  /\ wallet \in Wallet
  /\ step \in [kind : {"none", "checking", "confirming", "waiting", "ready"},
               r : DOMAIN made \cup {None}, until : 0 .. MaxNow + MinAge]
  /\ checks \in Seq([r : DOMAIN made, answer : Phases \cup {"none", "failed"}])
  /\ Len(checks) <= MaxChecks
  /\ placing \subseteq DOMAIN sent
  /\ tx \in [status : Statuses, kind : {"none", "commit", "register"},
             r : DOMAIN made \cup {None}, id : 0 .. MaxSent]
  /\ registered \in BOOLEAN
  /\ \A w \in Wallet : store[w] # None => made[store[w]].owner = w

Init ==
  /\ now = 1 /\ winner = None /\ commit = [w \in Wallet |-> [r \in Id |-> 0]]
  /\ sent = <<>> /\ made = <<>> /\ store = [w \in Wallet |-> None]
  /\ wallet \in Wallet /\ step = NoStep /\ checks = <<>> /\ placing = {}
  /\ tx = Idle /\ registered = FALSE

AnyReservation(r) == TRUE
IsCurrent(r) == made[r].owner = wallet
Age(r) == now - made[r].savedAt
SavedByName(w, r) == [x \in Wallet |-> r]
SavedFor(w, r) == [store EXCEPT ![w] = r]
Cleared(r) == [store EXCEPT ![made[r].owner] = None]
Busy == tx.status \in {"simulating", "signing", "pending"}

-----------------------------------------------------------------------------
(* The chain and the wallet.                                               *)

(* An answer is used in the tick it was read in, and before the panel's    *)
(* next look, which is seconds later.                                      *)
Quiet == \A i \in DOMAIN checks : checks[i].answer = "none"

Tick ==
  /\ now < MaxNow /\ now' = now + 1
  /\ Quiet
  /\ UNCHANGED <<chain, made, store, panel, tx>>

Meets(i, fate) ==
  /\ sent[i].fate = "waiting"
  /\ sent' = [sent EXCEPT ![i].fate = fate]
  /\ UNCHANGED <<now, made, store, panel, tx>>

(* The registry keeps a commitment under the account that sent it.         *)
CommitLands ==
  \E i \in DOMAIN sent :
    /\ sent[i].kind = "commit" /\ Age(sent[i].r) < Grace
    /\ Meets(i, "mined")
    /\ commit' = [commit EXCEPT ![sent[i].by][sent[i].r] = now]
    /\ UNCHANGED winner

(* commitmentTime(owner, commitment): what another account sent is none.   *)
Committed(r) == commit[made[r].owner][r]
Ripe(r) == Committed(r) > 0 /\ now >= Committed(r) + MinAge
Stale(r) == Committed(r) > 0 /\ now > Committed(r) + MaxAge

(* PaytagRegistry.register                                                 *)
Registers(i) ==
  /\ sent[i].by = made[sent[i].r].owner /\ winner = None
  /\ Ripe(sent[i].r) /\ ~ Stale(sent[i].r)

RegisterLands ==
  \E i \in DOMAIN sent :
    /\ sent[i].kind = "register"
    /\ IF Registers(i)
       THEN Meets(i, "mined") /\ winner' = sent[i].r
       ELSE Meets(i, "reverted") /\ UNCHANGED winner
    /\ UNCHANGED commit

Undone ==
  \E i \in DOMAIN sent, fate \in {"cancelled", "replaced"} :
    Meets(i, fate) /\ UNCHANGED <<winner, commit>>

-----------------------------------------------------------------------------
(* What is saved is checked against the chain before it is used.           *)

(* reservationPhase, read at a node that may not have the latest block.    *)
PhasesRead(r) ==
  LET phase == IF Committed(r) = 0 \/ winner = r THEN "missing"
               ELSE IF ~ Ripe(r) THEN "waiting"
               ELSE IF Stale(r) THEN "expired" ELSE "ready"
  IN {phase} \cup (IF Committed(r) = now THEN {"missing"} ELSE {})

Asked(r) == Append(checks, [r |-> r, answer |-> "none"])
MayAsk == Len(checks) < MaxChecks

(* The panel shows another wallet, or is mounted again.                    *)
PicksUp(w) ==
  IF store[w] = None THEN step' = NoStep /\ UNCHANGED checks
  ELSE /\ MayAsk /\ checks' = Asked(store[w])
       /\ step' = Step("checking", None, 0)

SwitchWallet ==
  /\ \E w \in Wallet \ {wallet} : wallet' = w /\ PicksUp(w)
  /\ UNCHANGED <<now, chain, made, store, placing, tx, registered>>

Reload ==
  /\ checks' = IF store[wallet] = None THEN <<>>
               ELSE <<[r |-> store[wallet], answer |-> "none"]>>
  /\ step' = IF store[wallet] = None THEN NoStep ELSE Step("checking", None, 0)
  /\ placing' = {} /\ tx' = Idle /\ registered' = FALSE
  /\ UNCHANGED <<now, chain, made, store, wallet>>

ReadAnswers ==
  /\ \E i \in DOMAIN checks :
       /\ checks[i].answer = "none"
       /\ \E p \in PhasesRead(checks[i].r) \cup {"failed"} :
            checks' = [checks EXCEPT ![i].answer = p]
  /\ UNCHANGED <<now, chain, made, store, wallet, step, placing, tx, registered>>

(* refreshStep, after its reads.                                           *)
Always(r) == TRUE
WithinGrace(r) == Age(r) < Grace

Decide(r, p) ==
  CASE p = "missing" /\ WithinGrace(r) ->
         step' = Step("confirming", r, 0) /\ UNCHANGED store
    [] (p = "missing" /\ ~ WithinGrace(r)) \/ p = "expired" ->
         step' = NoStep /\ store' = Cleared(r)
    [] p = "waiting" ->
         step' = Step("waiting", r, Committed(r) + MinAge) /\ UNCHANGED store
    [] OTHER -> step' = Step("ready", r, 0) /\ UNCHANGED store

RefreshedAt(i) ==
  /\ i \in DOMAIN checks /\ checks[i].answer # "none"
  /\ checks' = RemoveAt(checks, i)
  /\ IF IsCurrent(checks[i].r) THEN Decide(checks[i].r, checks[i].answer)
     ELSE UNCHANGED <<step, store>>
  /\ UNCHANGED <<now, chain, made, wallet, placing, tx, registered>>

Refreshed == \E i \in 1 .. MaxChecks : RefreshedAt(i)

(* While a commit is on its way, look again every few seconds.             *)
LookAgain ==
  /\ Shows("confirming") /\ MayAsk /\ Quiet
  /\ checks' = Asked(step.r) /\ step' = Step("checking", None, 0)
  /\ UNCHANGED <<now, chain, made, store, wallet, placing, tx, registered>>

Countdown ==
  /\ Shows("waiting") /\ now >= step.until
  /\ step' = Step("ready", step.r, 0)
  /\ UNCHANGED <<now, chain, made, store, wallet, checks, placing, tx, registered>>

-----------------------------------------------------------------------------
(* The two writes.                                                         *)

JustRegistered == registered /\ tx.status = "indexed"

Running(kind, r) == [status |-> "simulating", kind |-> kind, r |-> r, id |-> 0]

Reserve ==
  /\ Shows("none") /\ ~ Busy /\ ~ JustRegistered
  /\ Len(made) < MaxMade /\ now + Grace <= MaxNow  \* bounds
  /\ made' = Append(made, [owner |-> wallet, savedAt |-> now])
  /\ store' = SavedFor(wallet, Len(made) + 1)
  /\ tx' = Running("commit", Len(made) + 1)
  /\ registered' = FALSE
  /\ UNCHANGED <<now, chain, wallet, step, checks, placing>>

Register ==
  /\ Shows("ready") /\ ~ Busy /\ ~ JustRegistered /\ IsCurrent(step.r)
  /\ tx' = Running("register", step.r)
  /\ registered' = FALSE
  /\ UNCHANGED <<now, chain, made, store, wallet, step, checks, placing>>

RunFails == tx' = [tx EXCEPT !.status = "failed"]

(* onFailed of reserve: the secret is dropped when the commit certainly    *)
(* did not land.                                                           *)
CommitDead ==
  /\ store' = Cleared(tx.r) /\ UNCHANGED step

CommitUnsure ==
  /\ UNCHANGED store
  /\ IF IsCurrent(tx.r) THEN step' = Step("confirming", tx.r, 0) ELSE UNCHANGED step

(* onFailed of register: the reservation is dropped when it cannot be      *)
(* used any more, on whichever wallet the panel has moved to.              *)
RevealFails(dropped) ==
  /\ registered' = FALSE
  /\ IF dropped THEN store' = Cleared(tx.r) /\ step' = NoStep
     ELSE UNCHANGED <<store, step>>

Settled(r) == Age(r) > Grace
(* CommitmentTooOld, or CommitmentNotFound from a node that may lag.       *)
CannotBeUsed(r) == Stale(r) \/ ("missing" \in PhasesRead(r) /\ Settled(r))

SimulationFails ==
  /\ tx.status = "simulating" /\ RunFails
  /\ IF tx.kind = "commit" THEN CommitDead /\ UNCHANGED registered
     ELSE \E dropped \in BOOLEAN : RevealFails(dropped) /\ (dropped => CannotBeUsed(tx.r))
  /\ UNCHANGED <<now, chain, made, wallet, checks, placing>>

(* Simulated as the wallet that was on screen.                             *)
Simulated ==
  /\ tx.status = "simulating"
  /\ tx.kind = "register" => Ripe(tx.r) /\ ~ Stale(tx.r) /\ winner = None
  /\ tx' = [tx EXCEPT !.status = "signing"]
  /\ UNCHANGED <<now, chain, made, store, panel>>

NotSubmitted ==
  /\ tx.status = "signing" /\ RunFails
  /\ IF tx.kind = "commit" THEN CommitDead /\ UNCHANGED registered
     ELSE RevealFails(FALSE)
  /\ UNCHANGED <<now, winner, commit, made, wallet, checks, placing>>

WalletRefuses == NotSubmitted /\ UNCHANGED sent

(* Signed by the wallet that is connected by then.                         *)
Broadcast ==
  /\ tx.status = "signing" /\ Len(sent) < MaxSent
  /\ sent' = Append(sent, [kind |-> tx.kind, r |-> tx.r, by |-> wallet, fate |-> "waiting"])

(* The wallet broadcasts and then fails to say so: "not submitted".        *)
SubmittedUnheard == Broadcast /\ NotSubmitted

Submitted ==
  /\ Broadcast
  /\ tx' = [tx EXCEPT !.status = "pending", !.id = Len(sent) + 1]
  /\ registered' = (tx.kind = "register")
  /\ UNCHANGED <<now, winner, commit, made, store, wallet, step, checks, placing>>

Fate == sent[tx.id].fate
AnyReceipt == Fate # "waiting"
Succeeded == Fate = "mined"

(* "unknown" errors: no receipt in time, or another transaction's.         *)
Unsure == tx.status = "pending" /\ Fate \in {"waiting", "replaced", "mined"}
NotHeardOf == tx.status = "pending"
Dead == tx.status = "pending" /\ Fate \in {"reverted", "cancelled"}

ReceiptFails ==
  /\ RunFails
  /\ \/ tx.kind = "commit" /\ Dead /\ CommitDead /\ UNCHANGED registered
     \/ tx.kind = "commit" /\ Unsure /\ CommitUnsure /\ UNCHANGED registered
     \/ tx.kind = "register" /\ (Dead \/ Unsure) /\ RevealFails(FALSE)
  /\ UNCHANGED <<now, chain, made, wallet, checks, placing>>

CommitConfirmed ==
  /\ tx.kind = "commit" /\ tx.status = "pending" /\ Succeeded
  /\ tx' = [tx EXCEPT !.status = "indexed"]
  /\ placing' = placing \cup {tx.id}
  /\ UNCHANGED <<now, chain, made, store, wallet, step, checks, registered>>

(* The block of the commit is read, whoever sent it, which starts the      *)
(* countdown.                                                              *)
BlockTime(i) == commit[sent[i].by][sent[i].r]

Placed ==
  /\ \E i \in placing :
       /\ placing' = placing \ {i}
       /\ IF IsCurrent(sent[i].r)
          THEN step' = Step("waiting", sent[i].r, BlockTime(i) + MinAge)
          ELSE UNCHANGED step
  /\ UNCHANGED <<now, chain, made, store, wallet, checks, tx, registered>>

PlacingFails ==
  /\ MayAsk
  /\ \E i \in placing :
       /\ placing' = placing \ {i}
       /\ IF IsCurrent(sent[i].r)
          THEN checks' = Asked(sent[i].r) /\ step' = Step("checking", None, 0)
          ELSE UNCHANGED <<checks, step>>
  /\ UNCHANGED <<now, chain, made, store, wallet, tx, registered>>

RegisterConfirmed ==
  /\ tx.kind = "register" /\ tx.status = "pending" /\ Succeeded
  /\ tx' = [tx EXCEPT !.status = "indexed"]
  /\ store' = Cleared(tx.r) /\ step' = NoStep
  /\ UNCHANGED <<now, chain, made, wallet, checks, placing, registered>>

Next ==
  \/ Tick \/ CommitLands \/ RegisterLands \/ Undone
  \/ SwitchWallet \/ Reload \/ ReadAnswers \/ Refreshed \/ LookAgain \/ Countdown
  \/ Reserve \/ Register \/ SimulationFails \/ Simulated \/ WalletRefuses
  \/ Submitted \/ SubmittedUnheard \/ ReceiptFails \/ CommitConfirmed \/ Placed \/ PlacingFails
  \/ RegisterConfirmed

Spec == Init /\ [][Next]_vars

(* Reads are answered or fail, what waits for them runs, timers go off,    *)
(* and time passes between the looks, which are seconds apart.             *)
FairSpec ==
  /\ Spec
  /\ SF_vars(Tick) /\ WF_vars(ReadAnswers) /\ WF_vars(LookAgain)
  /\ \A i \in 1 .. MaxChecks : WF_vars(RefreshedAt(i))

-----------------------------------------------------------------------------
(* isCurrent: however late a read, a receipt or a block is answered, the   *)
(* step on screen is never that of another wallet's reservation.           *)
StepIsOnScreen == step.r # None => made[step.r].owner = wallet

(* "@name is yours": shown when this page's own call registered it.        *)
YoursIsTrue == JustRegistered => winner = tx.r

(* "Drop the secret when the commit certainly didn't land": what is saved  *)
(* is of no more use. A commit on chain is until it expires or the name is *)
(* taken, and one under way until the grace is over, if it is the owner's: *)
(* another account's is no commitment of this reservation.                 *)
UnderWay(r) ==
  /\ Age(r) < Grace
  /\ \E i \in DOMAIN sent :
       /\ sent[i].r = r /\ sent[i].kind = "commit" /\ sent[i].fate = "waiting"
       /\ sent[i].by = made[r].owner
Useful(r) ==
  winner = None /\ (UnderWay(r) \/ (Committed(r) > 0 /\ ~ Stale(r)))
Drops(w, r) == store[w] = r /\ store'[w] = None

(* An older reservation of the same wallet the panel has not let go of.    *)
InPlay == {checks[i].r : i \in DOMAIN checks} \cup {sent[i].r : i \in placing}
            \cup {step.r, tx.r}
OlderInPlay(r) ==
  \E q \in InPlay \ {None} : made[q].owner = made[r].owner /\ q < r

(* The one step in which the page cannot know: the wallet broadcast the    *)
(* commit and answered with an error.                                      *)
Unheard == sent' # sent /\ tx'.status = "failed"

(* Judged by what is so once it is dropped.                                *)
UsefulSecretsStay ==
  [][\A w \in Wallet, r \in DOMAIN made :
       Drops(w, r) => ~ Useful(r)' \/ OlderInPlay(r) \/ Unheard]_vars

(* "Drop the secret when the commit certainly didn't land: never sent      *)
(* (simulation, wallet or funds error), rejected, or reverted."            *)
SecretsStay ==
  [][\A w \in Wallet, r \in DOMAIN made : Drops(w, r) => ~ Useful(r)']_vars

(* A panel that is left alone does not wait for a commit forever.          *)
Waiting == Shows("checking") \/ Shows("confirming")
WaitingEnds ==
  (<>[][~ SwitchWallet /\ ~ Reload]_vars) => []<>(~ Waiting)
=============================================================================
