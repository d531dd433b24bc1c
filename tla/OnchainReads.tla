---------------------------- MODULE OnchainReads ----------------------------
(***************************************************************************)
(* The API's on-chain answers about one name: the list of names an account *)
(* holds (namesByOwner, over currentEvents) and the lookups (resolveOnchain *)
(* and reverseOnchain, over LookupCache), with registrationsOf below both. *)
(* The events table fills as EventSync shows: it holds the canonical rows  *)
(* of every block up to the cursor, and perhaps of a few more.             *)
(***************************************************************************)
EXTENDS Integers

CONSTANTS
  Request,        \* the requests in progress on one machine
  Account, Me,    \* who may hold the name; the account asked about
  Nobody,         \* the owner of a name that is not registered
  None,           \* an empty cache entry, a registration not found
  Confirmations,  \* ONCHAIN_CONFIRMATIONS
  ReorgDepth,     \* the deepest reorganisation
  Lag,            \* how far behind the head an RPC node may be
  Chunk,          \* ONCHAIN_LOG_CHUNK_BLOCKS
  TailChunks,     \* TAIL_MAX_CHUNKS
  MaxBlock, MaxForks  \* bounds: the height, and the forks of one height

Height == 1 .. MaxBlock
Owner == Account \cup {Nobody}
(* The block of the NameRegistered event: its timestamp is answered.       *)
Registration == [block : Height, fork : 0 .. MaxForks]
Lookup == [owner : Owner, block : 0 .. MaxBlock]

ASSUME ReadsConstants ==
  /\ Me \in Account /\ Nobody \notin Account
  /\ None \notin Registration \cup Lookup
  /\ Confirmations \in Nat /\ ReorgDepth \in 0 .. Confirmations
  /\ Lag \in 0 .. Confirmations
  /\ Chunk \in Nat \ {0} /\ TailChunks \in Nat \ {0}
  /\ MaxBlock \in Nat /\ MaxForks \in Nat

VARIABLES
  head,    \* the chain's height
  owner,   \* height -> the name's owner after that block
  fork,    \* height -> which block is canonical there
  stored,  \* the events of blocks 1 .. stored are in onchain_events
  synced,  \* last_synced_block
  kept,    \* the registration this machine remembers
  cache,   \* this machine's lookup of the name
  call     \* request -> its handler

chainVars == <<head, owner, fork>>
vars == <<head, owner, fork, stored, synced, kept, cache, call>>

Phase == {"idle", "list", "listAgain", "cursor", "events", "names", "namesAgain",
          "stored", "head", "headAgain", "storedAgain", "regCursor", "regTail",
          "answered"}
(* min is 0 without minBlock. short, owed and was are read by the          *)
(* properties only: a chunk of the tail came without its last blocks, the  *)
(* answer must show the name, and the name was Me's meanwhile.             *)
Call == [phase : Phase, kind : {"list", "lookup"}, min : 0 .. MaxBlock,
         head : 0 .. MaxBlock, reached : 0 .. MaxBlock, end : 0 .. MaxBlock, select : BOOLEAN,
         found : BOOLEAN, fresh : BOOLEAN, owner : Owner, block : 0 .. MaxBlock,
         reg : Registration \cup {None}, freshReg : Registration \cup {None},
         since : 0 .. MaxBlock, short : BOOLEAN, owed : BOOLEAN, was : BOOLEAN]

Idle == [phase |-> "idle", kind |-> "list", min |-> 0, head |-> 0, reached |-> 0, end |-> 0,
         select |-> TRUE, found |-> FALSE, fresh |-> FALSE, owner |-> Nobody,
         block |-> 0, reg |-> None, freshReg |-> None, since |-> 0,
         short |-> FALSE, owed |-> FALSE, was |-> FALSE]

OwnerAt(h) == IF h = 0 THEN Nobody ELSE owner[h]

TypeOK ==
  /\ head \in 0 .. MaxBlock
  /\ owner \in [Height -> Owner] /\ fork \in [Height -> 0 .. MaxForks]
  /\ synced \in 0 .. head /\ stored \in 0 .. head
  /\ kept \in Registration \cup {None}
  /\ cache \in Lookup \cup {None}
  /\ call \in [Request -> Call]
  /\ \A r \in Request :
       /\ call[r].phase = "events" => call[r].head >= call[r].min
       /\ call[r].reg # None => call[r].phase = "answered"

Init ==
  /\ head = 0
  /\ owner = [b \in Height |-> Nobody] /\ fork = [b \in Height |-> 0]
  /\ stored = 0 /\ synced = 0
  /\ kept = None /\ cache = None
  /\ call = [r \in Request |-> Idle]

-----------------------------------------------------------------------------
(* The chain, and the table                                                *)

(* Nobody unregisters a name.                                              *)
MayFollow(a, b) == a = Nobody \/ b # Nobody

(* The requests after the chain changed: `os` are the owners in its new    *)
(* blocks, o the last one, `safe` the requests whose write is still where  *)
(* it was.                                                                 *)
Witnessed(os, o, safe) ==
  [r \in Request |->
     IF call[r].phase \in {"idle", "answered"} THEN call[r]
     ELSE [call[r] EXCEPT !.was = @ \/ Me \in os,
                          !.owed = @ /\ o = Me /\ r \in safe]]

Mine ==
  /\ head < MaxBlock
  /\ head' = head + 1
  /\ \E o \in Owner :
       /\ MayFollow(OwnerAt(head), o)
       /\ owner' = [owner EXCEPT ![head + 1] = o]
       /\ call' = Witnessed({o}, o, Request)
  /\ UNCHANGED <<fork, stored, synced, kept, cache>>

(* The last `depth` blocks are replaced.                                   *)
Reorg ==
  \E depth \in 1 .. ReorgDepth : \E new \in [head - depth + 1 .. head -> Owner] :
    /\ depth <= head
    /\ \A b \in DOMAIN new :
         /\ fork[b] < MaxForks
         /\ MayFollow(IF b - 1 \in DOMAIN new THEN new[b - 1] ELSE OwnerAt(b - 1), new[b])
    /\ owner' = [b \in Height |-> IF b \in DOMAIN new THEN new[b] ELSE owner[b]]
    /\ fork' = [b \in Height |-> IF b \in DOMAIN new THEN fork[b] + 1 ELSE fork[b]]
    /\ call' = Witnessed({new[b] : b \in DOMAIN new}, new[head],
                 {r \in Request : call[r].kind = "list" /\ call[r].since <= head - depth
                                  /\ \A b \in DOMAIN new : new[b] = Me})
    /\ UNCHANGED <<head, stored, synced, kept, cache>>

(* catchUp, on any machine: the rows of the blocks below the margin go in, *)
(* then the cursor follows.                                                *)
RowsStored ==
  \E to \in stored + 1 .. head - Confirmations : stored' = to
  /\ UNCHANGED <<chainVars, synced, kept, cache, call>>
BeforeItsRows(to) == to <= head - Confirmations
AfterItsRows(to) == to <= stored
CursorAdvances ==
  \E to \in synced + 1 .. head : AfterItsRows(to) /\ synced' = to
  /\ UNCHANGED <<chainVars, stored, kept, cache, call>>

TransferredTo(a, b) == owner[b] = a /\ OwnerAt(b - 1) # a
RegisteredAt(b) == owner[b] # Nobody /\ OwnerAt(b - 1) = Nobody
(* The registration in these blocks.                                       *)
RegistrationIn(blocks) ==
  IF \E b \in blocks : RegisteredAt(b)
  THEN [block |-> CHOOSE b \in blocks : RegisteredAt(b),
        fork |-> fork[CHOOSE b \in blocks : RegisteredAt(b)]]
  ELSE None

(* The height of the RPC node that answers.                                *)
NodeHeight == {h \in 0 .. head : h >= head - Lag}

Lesser(a, b) == IF a < b THEN a ELSE b
Larger(a, b) == IF a > b THEN a ELSE b
-----------------------------------------------------------------------------
(* A request                                                               *)

Set(r, c) == call' = [call EXCEPT ![r] = c]
(* A cache entry may expire, or be pruned, at any moment.                  *)
Forget ==
  /\ cache # None \/ kept # None
  /\ \/ cache' = None /\ UNCHANGED kept
     \/ kept' = None /\ UNCHANGED cache   \* more than MAX_REMEMBERED
  /\ UNCHANGED <<chainVars, stored, synced, call>>

(* What the caller may count on. It names the block of its write, or none: *)
(* then what the cursor has passed is still in the lists. A lookup may be  *)
(* answered from a block that was read before a reorganisation of it.      *)
HeldSince == IF \E b \in 1 .. head : \A x \in b .. head : owner[x] = Me
             THEN CHOOSE b \in 1 .. head : /\ \A x \in b .. head : owner[x] = Me
                                           /\ OwnerAt(b - 1) # Me
             ELSE MaxBlock + 1
Owed(kind, min) ==
  IF kind = "list" THEN HeldSince <= Larger(min, synced)
  ELSE min > 0 /\ HeldSince <= min /\ \A b \in min .. head : fork[b] = 0

Asked(kind, min) ==
  [Idle EXCEPT !.kind = kind, !.min = min, !.since = IF Owed(kind, min) THEN Larger(min, synced) ELSE 0,
               !.owed = Owed(kind, min),
               !.was = \E h \in NodeHeight : OwnerAt(h) = Me]

AnyHit(min) == cache # None
UsableFor(min) == cache # None /\ (min > 0 => cache.block >= min)

StartList(r) ==
  /\ call[r].phase = "idle"
  /\ \E min \in 0 .. head : Set(r, [Asked("list", min) EXCEPT !.phase = "list"])
  /\ UNCHANGED <<chainVars, stored, synced, kept, cache>>

StartLookup(r) ==
  /\ call[r].phase = "idle"
  /\ \E min \in 0 .. head :
       LET asked == Asked("lookup", min) IN
       IF UsableFor(min)
       THEN Set(r, [asked EXCEPT !.phase = "answered", !.owner = cache.owner])
       ELSE Set(r, [asked EXCEPT !.phase = "names"])
  /\ UNCHANGED <<chainVars, stored, synced, kept, cache>>

AnyHeight(h, min) == TRUE
HighEnough(h, min) == h >= min

(* headAtLeast: asked again once when the node is behind minBlock, then    *)
(* refused. currentEvents and registrationsOf both start with it.          *)
HeadAtLeast(r, first, again, next) ==
  /\ call[r].phase \in {first, again}
  /\ \E h \in NodeHeight :
       IF HighEnough(h, call[r].min)
       THEN Set(r, [call[r] EXCEPT !.phase = next, !.head = h])
       ELSE Set(r, IF call[r].phase = first THEN [call[r] EXCEPT !.phase = again]
                   ELSE Idle)
  /\ UNCHANGED <<chainVars, stored, synced, kept, cache>>

(* syncIfDue has ended, well or not, and the cursor is read.               *)
ReadCursor(r, from, next) ==
  /\ call[r].phase = from
  /\ Set(r, [call[r] EXCEPT !.phase = next, !.reached = synced,
                            !.end = Lesser(call[r].head, synced + TailChunks * Chunk)])
  /\ UNCHANGED <<chainVars, stored, synced, kept, cache>>

(* currentEvents: the stored rows and the tail are read side by side.      *)
WithOrBeforeCursor(r) == call[r].phase \in {"cursor", "events"} /\ call[r].select
AfterCursor(r) == call[r].phase = "events" /\ call[r].select
SelectStored(r) ==
  /\ AfterCursor(r)
  /\ Set(r, [call[r] EXCEPT !.select = FALSE,
                            !.found = @ \/ \E b \in 1 .. stored : TransferredTo(Me, b)])
  /\ UNCHANGED <<chainVars, stored, synced, kept, cache>>

(* tail: eth_getLogs, one chunk per call. A node that has not got the last *)
(* blocks of the chunk fails, or answers with the logs it has.             *)
InTail(r) == call[r].phase \in {"events", "regTail"} /\ call[r].reached < call[r].end
TailChunk(r) ==
  /\ InTail(r)
  /\ LET to == Lesser(call[r].reached + Chunk, call[r].end) IN
     \E h \in NodeHeight :
       LET blocks == call[r].reached + 1 .. Lesser(to, h) IN
       Set(r, [call[r] EXCEPT
                 !.reached = to,
                 !.fresh = @ \/ (call[r].phase = "events"
                                /\ \E b \in blocks : TransferredTo(Me, b)),
                 !.freshReg = IF call[r].phase = "regTail" /\ @ = None
                              THEN RegistrationIn(blocks) ELSE @,
                 !.short = @ \/ (call[r].phase = "events" /\ call[r].min > 0 /\ h < to)])
  /\ UNCHANGED <<chainVars, stored, synced, kept, cache>>

(* tailFor: without minBlock a failed tail is an empty one.                *)
TailFails(r) ==
  /\ InTail(r)
  /\ call[r].min = 0
  /\ Set(r, [call[r] EXCEPT !.reached = call[r].end, !.freshReg = None,
                            !.fresh = FALSE])
  /\ UNCHANGED <<chainVars, stored, synced, kept, cache>>

TailRead(r) == call[r].reached >= call[r].end
StoppedShort(r) == call[r].min > 0 /\ call[r].end < call[r].min

(* What has been read of the events is used up.                            *)
Done(r) == [call[r] EXCEPT !.head = 0, !.reached = 0, !.end = 0, !.freshReg = None,
                           !.found = @ \/ call[r].fresh, !.fresh = FALSE]

ListCandidates(r) ==
  /\ call[r].phase = "events" /\ ~ call[r].select /\ TailRead(r)
  /\ Set(r, CASE StoppedShort(r) -> Idle
              [] ~ StoppedShort(r) /\ (call[r].found \/ call[r].fresh)
                   -> [Done(r) EXCEPT !.phase = "names"]
              [] OTHER -> [Done(r) EXCEPT !.phase = "answered"])
  /\ UNCHANGED <<chainVars, stored, synced, kept, cache>>

(* A lookup is cached with the block its owner was read at.                *)
Answer(r, c) ==
  /\ Set(r, [c EXCEPT !.phase = "answered", !.head = 0, !.reached = 0, !.end = 0,
                      !.freshReg = None, !.block = 0])
  /\ cache' = IF c.kind = "lookup"
              THEN [owner |-> c.owner, block |-> c.block]
              ELSE cache

Unchecked(o) == TRUE
Holds(o) == o = Me
Wanted(c) == IF c.kind = "list" THEN Holds(c.owner) ELSE c.owner # Nobody

(* readNames: the owner now, read again once if the node is behind         *)
(* minBlock; then the registration, from memory when it is there.          *)
ReadNames(r) ==
  /\ call[r].phase \in {"names", "namesAgain"}
  /\ \E h \in NodeHeight :
       LET c == [call[r] EXCEPT !.owner = OwnerAt(h), !.reg = kept,
                                  !.block = IF call[r].kind = "lookup" THEN h ELSE 0] IN
       CASE h < c.min ->
              /\ Set(r, IF c.phase = "names" THEN [call[r] EXCEPT !.phase = "namesAgain"]
                        ELSE Idle)
              /\ UNCHANGED cache
         [] h >= c.min /\ Wanted(c) /\ kept = None ->
              Set(r, [c EXCEPT !.phase = "stored"]) /\ UNCHANGED cache
         [] h >= c.min /\ Wanted(c) /\ kept # None -> Answer(r, c)
         [] OTHER -> Answer(r, [c EXCEPT !.reg = None])
  /\ UNCHANGED <<chainVars, stored, synced, kept>>

(* take: remembered for good, and answered.                                *)
Take(r, reg) == kept' = reg /\ Answer(r, [call[r] EXCEPT !.reg = reg])

(* Once before the chain is asked, and once after.                         *)
StoredRegistration(r, from, next) ==
  /\ call[r].phase = from
  /\ LET reg == RegistrationIn(1 .. stored) IN
     IF reg # None THEN Take(r, reg)
     ELSE Set(r, [call[r] EXCEPT !.phase = next]) /\ UNCHANGED <<kept, cache>>
  /\ UNCHANGED <<chainVars, stored, synced>>

(* Not even in the tail: a list leaves the name out, a lookup is refused.  *)
TailRegistration(r) ==
  /\ call[r].phase = "regTail" /\ TailRead(r)
  /\ IF ~ StoppedShort(r) /\ call[r].freshReg # None THEN Take(r, call[r].freshReg)
     ELSE /\ Set(r, IF StoppedShort(r) \/ call[r].kind = "lookup" THEN Idle
                    ELSE [Done(r) EXCEPT !.phase = "answered"])
          /\ UNCHANGED <<kept, cache>>
  /\ UNCHANGED <<chainVars, stored, synced>>

(* The database, or every RPC, fails: a 503.                               *)
Fails(r) ==
  /\ call[r].phase \notin {"idle", "answered"}
  /\ Set(r, Idle)
  /\ UNCHANGED <<chainVars, stored, synced, kept, cache>>
Delivered(r) ==
  /\ call[r].phase = "answered"
  /\ Set(r, Idle)
  /\ UNCHANGED <<chainVars, stored, synced, kept, cache>>

Next ==
  \/ Mine \/ Reorg \/ RowsStored \/ CursorAdvances \/ Forget
  \/ \E r \in Request :
       \/ StartList(r) \/ StartLookup(r)
       \/ HeadAtLeast(r, "list", "listAgain", "cursor")
       \/ ReadCursor(r, "cursor", "events")
       \/ SelectStored(r) \/ TailChunk(r) \/ TailFails(r)
       \/ ListCandidates(r) \/ ReadNames(r)
       \/ StoredRegistration(r, "stored", "head")
       \/ HeadAtLeast(r, "head", "headAgain", "storedAgain")
       \/ StoredRegistration(r, "storedAgain", "regCursor")
       \/ ReadCursor(r, "regCursor", "regTail")
       \/ TailRegistration(r)
       \/ Fails(r) \/ Delivered(r)

Spec == Init /\ [][Next]_vars

-----------------------------------------------------------------------------
(* Properties                                                              *)

Answered(r, kind) == call[r].phase = "answered" /\ call[r].kind = kind
Listed(r) == Holds(call[r].owner) /\ call[r].reg # None

(* Past its events, a list has nominated every name its account has held   *)
(* since the block the caller waits for, or has been refused: the rows are *)
(* selected after the cursor, and the tail follows on from there, however  *)
(* the sync moves (currentEvents). A chunk that came without its last      *)
(* blocks may miss the write: nothing in the code tells one from another. *)
NominatesWrite == \A r \in Request :
  call[r].kind = "list" /\ call[r].owed /\ ~ call[r].short
    /\ call[r].phase \notin {"idle", "list", "listAgain", "cursor", "events"}
    => call[r].found

(* "a 503 (the app retries) rather than a list silently missing the write" *)
(* (tailFor). registrationsOf looks in the table before it reads the       *)
(* cursor: a sync between the two moves the event out of the tail.         *)
ListShowsWrite ==
  \A r \in Request : Answered(r, "list") /\ call[r].min > 0 /\ call[r].owed => Listed(r)

(* Without minBlock, a name held since before the cursor is in the list    *)
(* whatever became of the tail ("lists serve what's there", syncIfDue).    *)
ListShowsStored ==
  \A r \in Request : Answered(r, "list") /\ call[r].min = 0 /\ call[r].owed => Listed(r)

(* "a missed, stale or reorged row can make a list miss a name for a       *)
(* while, but never show a wrong one" (onchainEventsService.ts:19): a      *)
(* listed name was its account's at some moment of the request.            *)
NeverAWrongOne == \A r \in Request :
  Answered(r, "list") /\ call[r].owner # Nobody /\ call[r].reg # None => call[r].was

(* "A caller that just wrote passes `minBlock` and skips any entry read    *)
(* before that block" (LOOKUP_TTL_MS): it never gets the owner of before   *)
(* its write, though slower readers fill the cache after faster ones.      *)
LookupShowsWrite ==
  \A r \in Request : Answered(r, "lookup") /\ call[r].owed => call[r].owner = Me

(* What a caller may count on, of a list and of a lookup.                  *)
ReadsAreSound ==
  NominatesWrite /\ ListShowsStored /\ NeverAWrongOne /\ LookupShowsWrite
=============================================================================
