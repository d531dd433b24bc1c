------------------------------ MODULE EventSync ------------------------------
(***************************************************************************)
(* How the API's machines copy the contracts' events into the database:    *)
(* catchUp of src/services/onchainEventsService.ts, the lease and cursor   *)
(* functions of migration 0008, and the chain, the RPC nodes and the       *)
(* Blockscout explorer they read.  Every request may fail before or after  *)
(* it takes effect, and a machine may stop at any step.                    *)
(***************************************************************************)
EXTENDS Integers

CONSTANTS
  Machine,        \* the machines (and backfill scripts) that may sync
  NoToken,        \* lease_token null
  Orphan,         \* the token of a call that has ended without releasing
  Confirmations,  \* ONCHAIN_CONFIRMATIONS: the reorg margin
  ReorgDepth,     \* the deepest reorganisation of the chain
  Lag,            \* how far behind the head an RPC node may be
  Lease,          \* LEASE_SECONDS, in ticks
  Chunk,          \* ONCHAIN_LOG_CHUNK_BLOCKS
  MaxChunks,      \* ONCHAIN_MAX_CHUNKS_PER_REQUEST
  MaxBlock,       \* bound: the highest block explored
  MaxForks        \* bound: how often one height is reorganised

ASSUME SyncConstants ==
  /\ NoToken \notin Machine /\ Orphan \notin Machine
  /\ Confirmations \in Nat /\ ReorgDepth \in Nat /\ Lag \in Nat
  /\ Lease \in Nat /\ Chunk \in Nat \ {0} /\ MaxChunks \in Nat \ {0}
  /\ MaxBlock \in Nat /\ MaxForks \in Nat

(* What the margin is for: neither a reorganisation nor a lagging node     *)
(* reaches below head - Confirmations.                                     *)
ASSUME MarginSuffices == ReorgDepth <= Confirmations /\ Lag <= Confirmations

VARIABLES
  head,       \* the chain's height
  fork,       \* height -> which block is canonical there, once mined
  table,      \* onchain_events: at most one row per (block, log index)
  synced,     \* last_synced_block
  token,      \* lease_token
  leaseLeft,  \* lease_until - now, -1 once it has passed
  sync        \* machine -> its catchUp in progress

dbVars == <<table, synced, token, leaseLeft>>
vars == <<head, fork, table, synced, token, leaseLeft, sync>>

Height == 1 .. MaxBlock
(* A block stands for the events in it: a fork has others.                 *)
Row == [block : Height, fork : 0 .. MaxForks]
RowOf(b) == [block |-> b, fork |-> fork[b]]

Phase == {"idle", "lease", "blockscout", "rpc", "insert", "advance", "release"}
Via == {"blockscout", "rpc"}

Call == [phase : Phase, target : Int, cursor : 0 .. MaxBlock, to : 0 .. MaxBlock,
         rows : SUBSET Row, via : Via, chunks : 0 .. MaxChunks]

Idle == [phase |-> "idle", target |-> 0, cursor |-> 0, to |-> 0, rows |-> {},
         via |-> "rpc", chunks |-> 0]

TypeOK ==
  /\ head \in 0 .. MaxBlock
  /\ fork \in [Height -> 0 .. MaxForks]
  /\ table \subseteq Row
  /\ synced \in 0 .. MaxBlock
  /\ token \in Machine \cup {NoToken, Orphan}
  /\ leaseLeft \in -1 .. Lease
  /\ sync \in [Machine -> Call]

Init ==
  /\ head = 0
  /\ fork = [b \in Height |-> 0]
  /\ table = {}
  /\ synced = 0
  /\ token = NoToken
  /\ leaseLeft = -1
  /\ sync = [m \in Machine |-> Idle]

-----------------------------------------------------------------------------
(* The chain, and time                                                     *)

Mine ==
  /\ head < MaxBlock
  /\ head' = head + 1
  /\ UNCHANGED <<fork, dbVars, sync>>

(* The last `depth` blocks are replaced.                                   *)
Reorg ==
  \E depth \in 1 .. ReorgDepth :
    /\ depth <= head
    /\ \A b \in head - depth + 1 .. head : fork[b] < MaxForks
    /\ fork' = [b \in Height |->
                  IF b \in head - depth + 1 .. head THEN fork[b] + 1 ELSE fork[b]]
    /\ UNCHANGED <<head, dbVars, sync>>

Tick ==
  /\ leaseLeft >= 0
  /\ leaseLeft' = leaseLeft - 1
  /\ UNCHANGED <<head, fork, table, synced, token, sync>>

(* The height of the RPC node that answers.                                *)
NodeHeight == {h \in 0 .. head : h >= head - Lag}

-----------------------------------------------------------------------------
(* catchUp, one step per request it awaits                                 *)

Goto(m, phase) == sync' = [sync EXCEPT ![m].phase = phase]
End(m) == sync' = [sync EXCEPT ![m] = Idle]
(* A call that ends without releasing leaves its token behind.             *)
Abandon(m) == token' = IF token = m THEN Orphan ELSE token

TargetAtHead(h) == h
TargetOf(h) == h - Confirmations

(* readHead; one catchUp at a time on a machine.                           *)
Start(m) ==
  /\ sync[m].phase = "idle"
  /\ \E h \in NodeHeight :
       sync' = [sync EXCEPT ![m] = [Idle EXCEPT !.phase = "lease",
                                                !.target = TargetOf(h)]]
  /\ UNCHANGED <<head, fork, dbVars>>

FreeOnlyWhenReleased == token = NoToken
Free == leaseLeft < 0

(* onchain_sync_try_lease answered: the lease, or null when it is held.    *)
TryLease(m) ==
  /\ sync[m].phase = "lease"
  /\ IF Free
     THEN /\ token' = m
          /\ leaseLeft' = Lease
          /\ sync' = [sync EXCEPT
                        ![m].cursor = synced,
                        ![m].phase = IF synced >= sync[m].target THEN "release"
                                     ELSE "blockscout"]
     ELSE /\ End(m)
          /\ UNCHANGED <<token, leaseLeft>>
  /\ UNCHANGED <<head, fork, table, synced>>

(* It failed, perhaps after it was granted: nothing releases the lease.    *)
TryLeaseFails(m) ==
  /\ sync[m].phase = "lease"
  /\ \/ UNCHANGED <<token, leaseLeft>>
     \/ Free /\ token' = Orphan /\ leaseLeft' = Lease
  /\ End(m)
  /\ UNCHANGED <<head, fork, table, synced>>

AnyIndexing(gaps) == TRUE
FinishedIndexing(gaps) == gaps = {}

Lesser(a, b) == IF a < b THEN a ELSE b

(* The call has fetched the rows of the blocks after its cursor, up to to. *)
Hold(m, to, rows, via) ==
  sync' = [sync EXCEPT ![m] = [@ EXCEPT !.to = to, !.rows = rows, !.via = via,
                                        !.phase = "insert"]]

(* Blockscout answers: it has indexed up to `indexed` but for some gaps.   *)
(* One that says it hasn't finished, or fails, leaves the rest to the RPC. *)
Blockscout(m) ==
  /\ sync[m].phase = "blockscout"
  /\ \E indexed \in 0 .. head : \E gaps \in SUBSET (1 .. indexed) :
       LET to == Lesser(indexed, sync[m].target)
       IN IF FinishedIndexing(gaps) /\ to > sync[m].cursor
          THEN Hold(m, to, {RowOf(b) : b \in (sync[m].cursor + 1 .. to) \ gaps},
                    "blockscout")
          ELSE Goto(m, "rpc")
  /\ UNCHANGED <<head, fork, dbVars>>

(* One eth_getLogs chunk, from a node that may be behind the head.         *)
Rpc(m) ==
  /\ sync[m].phase = "rpc"
  /\ LET to == Lesser(sync[m].cursor + Chunk, sync[m].target)
     IN \E h \in NodeHeight :
          Hold(m, to, {RowOf(b) : b \in {x \in sync[m].cursor + 1 .. to : x <= h}}, "rpc")
  /\ UNCHANGED <<head, fork, dbVars>>

RpcFails(m) ==
  /\ sync[m].phase = "rpc"
  /\ Goto(m, "release")
  /\ UNCHANGED <<head, fork, dbVars>>

(* insertRows ignores rows whose key is already there.                     *)
Insert(rows) ==
  table' = table \cup {r \in rows : \A s \in table : s.block # r.block}

InsertRows(m) ==
  /\ sync[m].phase = "insert"
  /\ Insert(sync[m].rows)
  /\ Goto(m, "advance")
  /\ UNCHANGED <<head, fork, synced, token, leaseLeft>>

(* An exception on the Blockscout path, from the database too, falls       *)
(* through to the RPC; on the RPC path it ends the call.                   *)
AdvanceAnyway(via) == "advance"
AfterError(via) == IF via = "blockscout" THEN "rpc" ELSE "release"

(* Some batches went in, or all of them and the answer was lost.           *)
InsertFails(m) ==
  /\ sync[m].phase = "insert"
  /\ \E part \in SUBSET sync[m].rows : Insert(part)
  /\ Goto(m, AfterError(sync[m].via))
  /\ UNCHANGED <<head, fork, synced, token, leaseLeft>>

LiveHolder(m) == token = m /\ leaseLeft >= 0

MovedTo(to) == to
MovedForward(to) == IF to > synced THEN to ELSE synced

(* onchain_sync_advance in the database.                                   *)
DbAdvance(m) ==
  IF LiveHolder(m)
  THEN synced' = MovedForward(sync[m].to) /\ leaseLeft' = Lease
  ELSE UNCHANGED <<synced, leaseLeft>>

ChunksLeftInclusive(n) == n <= MaxChunks
ChunksLeft(n) == n < MaxChunks

Advance(m) ==
  /\ sync[m].phase = "advance"
  /\ DbAdvance(m)
  /\ LET chunks == IF sync[m].via = "rpc" THEN sync[m].chunks + 1 ELSE sync[m].chunks
         more == sync[m].to < sync[m].target /\ ChunksLeft(chunks)
     IN IF LiveHolder(m)
        THEN sync' = [sync EXCEPT ![m].cursor = sync[m].to,
                                  ![m].chunks = chunks,
                                  ![m].phase = IF more THEN "rpc" ELSE "release"]
        ELSE Goto(m, "release")   \* busy: the lease was lost
  /\ UNCHANGED <<head, fork, table, token>>

(* The call failed, perhaps after the cursor moved: the local cursor is    *)
(* then behind the database's.                                             *)
AdvanceFails(m) ==
  /\ sync[m].phase = "advance"
  /\ DbAdvance(m) \/ UNCHANGED <<synced, leaseLeft>>
  /\ Goto(m, AfterError(sync[m].via))
  /\ UNCHANGED <<head, fork, table, token>>

Release(m) ==
  /\ sync[m].phase = "release"
  /\ IF token = m THEN token' = NoToken /\ leaseLeft' = -1
                  ELSE UNCHANGED <<token, leaseLeft>>
  /\ End(m)
  /\ UNCHANGED <<head, fork, table, synced>>

(* The release never arrives (it is only logged), or the machine stops.    *)
Crash(m) ==
  /\ sync[m].phase # "idle"
  /\ Abandon(m)
  /\ End(m)
  /\ UNCHANGED <<head, fork, table, synced, leaseLeft>>

Progress(m) ==
  Start(m) \/ TryLease(m) \/ Blockscout(m) \/ Rpc(m) \/ InsertRows(m)
  \/ Advance(m) \/ Release(m)

Fault(m) ==
  TryLeaseFails(m) \/ RpcFails(m) \/ InsertFails(m) \/ AdvanceFails(m) \/ Crash(m)

Next ==
  \/ Mine \/ Reorg \/ Tick
  \/ \E m \in Machine : Progress(m) \/ Fault(m)

Spec == Init /\ [][Next]_vars

(* Requests keep coming to every machine, and time passes.                 *)
FairSpec ==
  /\ Spec
  /\ WF_vars(Mine) /\ WF_vars(Tick)
  /\ \A m \in Machine : WF_vars(Progress(m))

-----------------------------------------------------------------------------
(* Properties                                                              *)

(* "Every block up to and including this one is in onchain_events": the    *)
(* canonical events of every block the cursor has passed are stored,       *)
(* whatever was reorganised, failed, timed out or crashed on the way.      *)
CursorCovered == \A b \in 1 .. synced : RowOf(b) \in table

(* No row of an orphaned block is ever stored: inserts ignore rows already *)
(* there, so such a row would hide the canonical one for good.             *)
OnlyCanonicalRows == \A r \in table : r.block <= head /\ r = RowOf(r.block)

(* The cursor never moves back, even when a call whose advance was applied *)
(* but not answered goes on from its older local cursor.                   *)
CursorNeverBack == [][synced' >= synced]_vars

(* A fault that leaves what an answer would have left is no fault here.    *)
FaultStep == \E m \in Machine : Fault(m) /\ ~ Progress(m)
ExpiryStep == Tick /\ leaseLeft' < 0 /\ token \in Machine

(* Once faults stop, and a running call no longer outlives its lease, the  *)
(* table catches up to the reorg margin of what the RPC shows: a lease     *)
(* left by a dead machine, or by a lost answer, delays it but no more.     *)
CatchesUp ==
  <>[][~ FaultStep /\ ~ ExpiryStep]_vars
    => <>(synced >= MaxBlock - Lag - Confirmations)
=============================================================================
