----------------------------- MODULE RecordEdits ----------------------------
(***************************************************************************)
(* One record of an owned name, as the web app edits and shows it:         *)
(* components/onchain/NameCard.tsx, the write it runs                      *)
(* (lib/onchain/useOnchainTx.ts, txMachine.ts) and the reads that follow   *)
(* (lib/onchain/reads.ts). The chain, the wallet and the API's cached      *)
(* copies are the surroundings. A tick is half of WRITE_FRESH_MS.          *)
(***************************************************************************)
EXTENDS Integers, Sequences

CONSTANTS
  Value,      \* addresses a record can hold
  NoValue,    \* a record that is not set
  None,       \* nothing: no overlay, no data, no read, no block noted
  Fresh,      \* WRITE_FRESH_MS, in ticks
  CopyTtl,    \* how long the API may answer from a copy, in ticks
  Retries,    \* BEHIND_RETRIES
  MaxHeight,  \* bound: blocks with a change of the record
  MaxWrites   \* bound: transactions this page sends

EditConstants ==
  /\ NoValue \notin Value /\ None \notin Value \cup {NoValue} /\ None \notin Nat
  /\ None \notin [answer : Nat \cup {None}, tries : Nat]
  /\ Fresh \in Nat \ {0} /\ CopyTtl \in Nat /\ Retries \in Nat
  /\ MaxHeight \in Nat \ {0} /\ MaxWrites \in Nat
  /\ CopyTtl <= Fresh  \* "every API cache entry from before the write has expired"

VARIABLES
  chain,     \* block -> the record's value and the transaction that set it
  settled,   \* the block every node of the API has reached
  copy,      \* block -> how long an API copy of the record at it is left
  sent,      \* the page's transactions: value and fate
  tx,        \* useOnchainTx's state
  overlay,   \* the value shown before a fresh read confirms it, or None
  data,      \* the block of the last read shown, or None
  read,      \* the read under way, or None
  loadError, \* "Couldn't load records.", which offers to retry
  note       \* lastWrite: its block, and how long it still counts (0: no more)

vars == <<chain, settled, copy, sent, tx, overlay, data, read, loadError, note>>
world == <<chain, settled, copy>>
screen == <<overlay, data>>
load == <<read, loadError>>

Recordable == Value \cup {NoValue}
Block == 1 .. MaxHeight
Fates == {"waiting", "mined", "repriced", "reverted", "cancelled", "replaced"}
Statuses == {"idle", "simulating", "signing", "pending", "indexed", "failed"}

TypeOK ==
  /\ chain \in Seq([value : Recordable, by : 0 .. MaxWrites])
  /\ Len(chain) \in Block /\ settled \in 1 .. Len(chain)
  /\ copy \in [Block -> 0 .. CopyTtl]
  /\ sent \in Seq([value : Recordable, fate : Fates]) /\ Len(sent) <= MaxWrites
  /\ tx \in [status : Statuses, value : Recordable, id : 0 .. MaxWrites,
             block : Block \cup {None}, nothing : BOOLEAN]
  /\ overlay \in Recordable \cup {None}
  /\ data \in Block \cup {None}
  /\ read = None \/ read \in [answer : Block \cup {None}, tries : 0 .. Retries]
  /\ loadError \in BOOLEAN
  /\ note = None \/ note \in [block : Block, left : 0 .. Fresh]
  /\ overlay # None => tx.status = "pending"

Idle == [status |-> "idle", value |-> NoValue, id |-> 0,
         block |-> None, nothing |-> FALSE]

Asking == [answer |-> None, tries |-> 0]

(* The card is mounted and asks for the records.                           *)
Init ==
  /\ chain = <<[value |-> NoValue, by |-> 0]>>
  /\ settled = 1 /\ copy = [b \in Block |-> 0]
  /\ sent = <<>> /\ tx = Idle
  /\ overlay = None /\ data = None /\ read = Asking /\ loadError = FALSE
  /\ note = None

-----------------------------------------------------------------------------
(* The chain, the wallet's transactions and the API's copies.              *)

Extended(v, id) == chain' = Append(chain, [value |-> v, by |-> id])

Elsewhere ==
  /\ Len(chain) < MaxHeight
  /\ \E v \in Recordable : Extended(v, 0)
  /\ UNCHANGED <<settled, copy, sent, tx, screen, load, note>>

Meets(id, fate) ==
  /\ sent[id].fate = "waiting"
  /\ sent' = [sent EXCEPT ![id].fate = fate]
  /\ UNCHANGED <<settled, copy, tx, screen, load, note>>

(* The call takes effect, sped up on the way or not.                       *)
TakesEffect ==
  \E id \in DOMAIN sent, fate \in {"mined", "repriced"} :
    Len(chain) < MaxHeight /\ Meets(id, fate) /\ Extended(sent[id].value, id)

NeverHappens ==
  \E id \in DOMAIN sent, fate \in {"reverted", "cancelled", "replaced"} :
    Meets(id, fate) /\ UNCHANGED chain

Less(n) == IF n > 0 THEN n - 1 ELSE 0

Tick ==
  /\ settled' = Len(chain)
  /\ copy' = [b \in Block |-> Less(copy[b])]
  /\ note' = IF note = None THEN None ELSE [note EXCEPT !.left = Less(@)]
  /\ UNCHANGED <<chain, sent, tx, screen, load>>

-----------------------------------------------------------------------------
(* Reads.                                                                  *)

TheBlockBefore == IF note # None /\ note.left > 0 THEN note.block - 1 ELSE None
MinBlock == IF note # None /\ note.left > 0 THEN note.block ELSE None

Acceptable(b) == MinBlock # None => b >= MinBlock

Unanswered == read # None /\ read.answer = None

(* A copy, or a node, that has the block that was asked for.               *)
Answered ==
  /\ Unanswered
  /\ \E b \in 1 .. Len(chain) :
       /\ Acceptable(b)
       /\ \/ copy[b] > 0 /\ UNCHANGED copy
          \/ b >= settled /\ copy' = [copy EXCEPT ![b] = CopyTtl]
       /\ read' = [read EXCEPT !.answer = b]
  /\ UNCHANGED <<chain, settled, sent, tx, screen, loadError, note>>

GivesUp == read' = None /\ loadError' = TRUE

(* 503 ONCHAIN_BEHIND: asked again a few times while a write is recent.    *)
Behind ==
  /\ Unanswered
  /\ \E b \in settled .. Len(chain) : ~ Acceptable(b)
  /\ IF read.tries < Retries
     THEN read' = [read EXCEPT !.tries = @ + 1] /\ UNCHANGED loadError
     ELSE GivesUp
  /\ UNCHANGED <<world, sent, tx, screen, note>>

(* Any other failure: the card offers to retry.                            *)
ReadFails ==
  /\ Unanswered /\ GivesUp
  /\ UNCHANGED <<world, sent, tx, screen, note>>

Delivered ==
  /\ read # None /\ read.answer # None
  /\ data' = read.answer /\ read' = None
  /\ UNCHANGED <<world, sent, tx, overlay, loadError, note>>

(* A reload aborts the read under way, whose answer is then dropped.       *)
KeepOlder(r) == IF r = None THEN Asking ELSE r
Restarted(r) == Asking
Reloads == read' = Restarted(read) /\ loadError' = FALSE

Refetch ==
  /\ loadError /\ Reloads
  /\ UNCHANGED <<world, sent, tx, screen, note>>

(* The page is left and opened again, with no write under way.             *)
Busy == tx.status \in {"simulating", "signing", "pending"}
Remount ==
  /\ ~ Busy /\ tx' = Idle /\ overlay' = None /\ data' = None
  /\ read' = Asking /\ loadError' = FALSE
  /\ UNCHANGED <<world, sent, note>>

-----------------------------------------------------------------------------
(* The write.                                                              *)

StartEdit ==
  /\ ~ Busy /\ data # None /\ tx' = Idle
  /\ UNCHANGED <<world, sent, screen, load, note>>

Save ==
  /\ ~ Busy /\ data # None
  /\ \E v \in Recordable :
       tx' = [Idle EXCEPT !.status = "simulating", !.value = v]
  /\ UNCHANGED <<world, sent, screen, load, note>>

NotRolledBack == overlay
RolledBack == None

Failure(nothing) ==
  /\ tx' = [tx EXCEPT !.status = "failed", !.nothing = nothing]
  /\ overlay' = RolledBack
  /\ UNCHANGED <<world, data, load, note>>

(* The simulation, or the wallet, refuses: nothing was broadcast.          *)
Refused ==
  /\ tx.status \in {"simulating", "signing"}
  /\ Failure(FALSE) /\ UNCHANGED sent

Simulated ==
  /\ tx.status = "simulating"
  /\ tx' = [tx EXCEPT !.status = "signing"]
  /\ UNCHANGED <<world, sent, screen, load, note>>

Broadcast ==
  /\ tx.status = "signing" /\ Len(sent) < MaxWrites
  /\ sent' = Append(sent, [value |-> tx.value, fate |-> "waiting"])

Submitted ==
  /\ Broadcast
  /\ tx' = [tx EXCEPT !.status = "pending", !.id = Len(sent) + 1]
  /\ overlay' = tx.value
  /\ UNCHANGED <<world, data, load, note>>

(* The wallet broadcasts and then fails to say so.                         *)
SubmittedUnheard == Broadcast /\ Failure(FALSE)

Fate == sent[tx.id].fate
SpeedUpsToo(fate) == fate # "mined"
NeverReplaced(fate) == FALSE
ReplacedBy(fate) == fate \in {"cancelled", "replaced"}

HasReceipt == tx.status = "pending" /\ Fate # "waiting"
Undone == ReplacedBy(Fate) \/ Fate = "reverted"

(* "Nothing changed."                                                      *)
FailsOnReceipt == HasReceipt /\ Undone /\ Failure(TRUE) /\ UNCHANGED sent

(* The block the receipt names. A cancelling transaction has one too.      *)
ReceiptBlock ==
  IF \E b \in DOMAIN chain : chain[b].by = tx.id
  THEN CHOOSE b \in DOMAIN chain : chain[b].by = tx.id
  ELSE Len(chain)

Later(b) == IF note # None /\ note.block > b THEN note.block ELSE b

(* Mined, confirmed and indexed in one go: the block is noted, the overlay *)
(* is dropped and the records are read again.                              *)
Indexed ==
  /\ HasReceipt /\ ~ Undone
  /\ tx' = [tx EXCEPT !.status = "indexed", !.block = ReceiptBlock]
  /\ note' = [block |-> Later(ReceiptBlock), left |-> Fresh]
  /\ overlay' = None /\ Reloads
  /\ UNCHANGED <<world, sent, data>>

(* "The transaction may yet confirm", or the receipt could not be read.    *)
NoReceipt == tx.status = "pending" /\ Failure(FALSE) /\ UNCHANGED sent

Next ==
  \/ Elsewhere \/ TakesEffect \/ NeverHappens \/ Tick
  \/ Answered \/ Behind \/ ReadFails \/ Delivered \/ Refetch \/ Remount
  \/ StartEdit \/ Save \/ Refused \/ Simulated
  \/ Submitted \/ SubmittedUnheard \/ FailsOnReceipt \/ Indexed \/ NoReceipt

Spec == Init /\ [][Next]_vars

-----------------------------------------------------------------------------
(* "Every read after a write asks the API for at least that block, so it   *)
(* reflects the write ... instead of a copy cached from before it": no     *)
(* read that is answered once a write is noted is from before its block,   *)
(* although the page stops asking for it after WRITE_FRESH_MS.             *)
ReadsReflectTheWrite ==
  Delivered /\ note # None => data' >= note.block

(* What was on screen before the write stays there, its overlay gone, but  *)
(* only while it is read again, or with "Couldn't load records.".          *)
OldIsReadAgain ==
  note # None /\ data # None /\ data < note.block => read # None \/ loadError

(* Done means done: the call this page asked for, and no other that took   *)
(* its place in the wallet, set the record in the block that is named.     *)
IndexedIsWritten ==
  tx.status = "indexed" => chain[tx.block] = [value |-> tx.value, by |-> tx.id]

(* "Nothing changed." is said only of a write that never takes effect.     *)
NothingChangedIsTrue ==
  tx.nothing => \A b \in DOMAIN chain : chain[b].by # tx.id
=============================================================================
