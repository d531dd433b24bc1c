----------------------------- MODULE NamePages ------------------------------
(***************************************************************************)
(* The pages that manage names and addresses: the two-step registration of *)
(* a name ("reserve", Reservations), a record of an owned name ("edit",    *)
(* RecordEdits), the account's addresses ("book", AddressBook) and the     *)
(* pages that ask about what is typed ("look", NameLookups). A behaviour   *)
(* is one of the part it starts as, and the others stay as they are.       *)
(***************************************************************************)
EXTENDS Reservations

CONSTANTS
  Value, NoValue, Fresh, CopyTtl, Retries, MaxHeight, MaxWrites, \* RecordEdits
  Chain, Verifiable, Address, Own, Before, MaxEdits,             \* AddressBook
  Name, Partial, Ill, Reserved, MaxAsked, MaxMoves               \* NameLookups

VARIABLES
  part,
  copy, changes,                                   \* shared by two parts
  record, settled, sends, edit, overlay, data, read,
  loadError, note,                                 \* RecordEdits
  rows, shown, mode, draft, call, loading, were, quiet,      \* AddressBook
  page, account, value, timer, asked, shows, preview, led, accounts, holder
                                                             \* NameLookups

E == INSTANCE RecordEdits WITH chain <- record, sent <- sends, tx <- edit
K == INSTANCE AddressBook WITH server <- rows, MaxChanges <- MaxEdits
L == INSTANCE NameLookups WITH wallet <- account, sent <- led,
       MaxChanges <- MaxMoves
ASSUME PagesHold ==
  E!EditConstants /\ K!AddressBookConstants /\ L!NameLookupsConstants

edits == <<record, settled, sends, edit, overlay, data, read, loadError, note>>
book == <<rows, shown, mode, draft, call, loading, were, quiet>>
look == <<page, account, value, timer, asked, shows, preview, led, accounts, holder>>
all == <<part, copy, changes, vars, edits, book, look>>

NoEdit ==
  /\ record = 0 /\ settled = 0 /\ sends = 0 /\ edit = 0
  /\ overlay = 0 /\ data = 0 /\ read = 0 /\ loadError = 0 /\ note = 0
NoBook ==
  /\ rows = 0 /\ shown = 0 /\ mode = 0 /\ draft = 0 /\ call = 0
  /\ loading = 0 /\ were = 0 /\ quiet = 0
NoLook ==
  /\ page = 0 /\ account = 0 /\ value = 0 /\ timer = 0 /\ asked = 0
  /\ shows = 0 /\ preview = 0 /\ led = 0 /\ accounts = 0 /\ holder = 0

PagesInit ==
  /\ part \in {"reserve", "edit", "book", "look"}
  /\ Init
  /\ IF part = "edit" THEN E!Init ELSE NoEdit
  /\ IF part = "book" THEN K!Init ELSE NoBook
  /\ IF part = "look" THEN L!Init ELSE NoLook
  /\ part \notin {"edit", "book"} => copy = 0
  /\ part \notin {"book", "look"} => changes = 0

Reserves ==
  part = "reserve" /\ Next /\ UNCHANGED <<part, copy, changes, edits, book, look>>
Edits == part = "edit" /\ E!Next /\ UNCHANGED <<part, changes, vars, book, look>>
Books == part = "book" /\ K!Next /\ UNCHANGED <<part, vars, edits, look>>
Looks == part = "look" /\ L!Next /\ UNCHANGED <<part, copy, vars, edits, book>>

PagesNext == Reserves \/ Edits \/ Books \/ Looks
PagesSpec == PagesInit /\ [][PagesNext]_all

-----------------------------------------------------------------------------
(* What each page keeps is what its stage says (RegisterPanel.tsx,         *)
(* NameCard.tsx, AddressManager.tsx, ClaimInput.tsx).                      *)
PagesTypeOK ==
  CASE part = "reserve" -> TypeOK
    [] part = "edit" -> E!TypeOK
    [] part = "book" -> K!TypeOK
    [] part = "look" -> L!TypeOK
(* What a page says of a name, a record or an address is so, or was so     *)
(* when it asked (RegisterPanel.tsx, NameCard.tsx, AddressManager.tsx,     *)
(* LookupPanel.tsx). A record from before a write is left on screen only   *)
(* while it is read again, or with the error that offers to.               *)
PagesAreTrue ==
  /\ StepIsOnScreen /\ YoursIsTrue
  /\ part = "edit" => E!IndexedIsWritten /\ E!NothingChangedIsTrue /\ E!OldIsReadAgain
  /\ part = "book" => K!RowsWereTrue /\ K!ConfirmedIsShown
  /\ part = "look" => L!SaysOfShown
(* No read that a card is given once a write is noted is from before the   *)
(* write, and no claim is entered with a verdict on a former draft or for  *)
(* another wallet (reads.ts, NameCard.tsx, ClaimInput.tsx).                *)
NoStaleAnswerIsUsed ==
  [][/\ part = "edit" => E!ReadsReflectTheWrite
     /\ part = "look" => L!ChecksFirst]_all
=============================================================================
