--------------------------- MODULE EventSyncProofs ---------------------------
(***************************************************************************)
(* Proofs about EventSync for every number of machines, margin, chunk      *)
(* size, cap and lease: the table holds the canonical events of every      *)
(* block the cursor has passed, and nothing else below the reorg margin.   *)
(***************************************************************************)
EXTENDS EventSync, TLAPS

USE DEF RowOf, Row, Height, Phase, Via

(* Out of every reorganisation's reach.                                    *)
Deep(b) == b <= head - Confirmations

CursorDeep == synced = 0 \/ Deep(synced)
TableDeep == \A r \in table : Deep(r.block) /\ r.fork = fork[r.block]

(* A call in progress only handles deep blocks its cursor is already past, *)
(* or holds the rows that take it further.                                 *)
CallOK(m) ==
  LET s == sync[m]
  IN /\ s.phase # "idle" => Deep(s.target)
     /\ s.cursor <= synced
     /\ s.phase \in {"blockscout", "rpc", "insert", "advance"} => s.cursor < s.target
     /\ s.phase \in {"lease", "blockscout", "rpc", "insert", "advance"} =>
          s.chunks < MaxChunks
     /\ s.phase \in {"insert", "advance"} => s.cursor < s.to /\ s.to <= s.target
     /\ s.phase = "insert" =>
          /\ \A r \in s.rows : Deep(r.block) /\ r.fork = fork[r.block]
          /\ \A b \in s.cursor + 1 .. s.to : RowOf(b) \in s.rows
     /\ s.phase = "advance" => \A b \in 1 .. s.to : RowOf(b) \in table

IInv ==
  /\ TypeOK
  /\ CursorDeep
  /\ TableDeep
  /\ CursorCovered
  /\ \A m \in Machine : CallOK(m)

-----------------------------------------------------------------------------
(* What an insert does: a row goes in unless its block already has one.    *)

LEMMA InsertAdds ==
  ASSUME IInv, NEW rows \in SUBSET Row, Insert(rows),
         \A r \in rows : Deep(r.block) /\ r.fork = fork[r.block]
  PROVE  /\ table' \subseteq Row
         /\ table \subseteq table'
         /\ rows \subseteq table'
         /\ \A r \in table' : Deep(r.block) /\ r.fork = fork[r.block]
  <1>1. \A r \in rows, s \in table : s.block = r.block => s = r
    BY DEF IInv, TypeOK, TableDeep
  <1> QED
    BY <1>1 DEF IInv, TypeOK, TableDeep, Insert

(* A call that takes no step itself stays sound while the others move the  *)
(* chain, the table and the cursor forward.                                *)
LEMMA OthersKeepCall ==
  ASSUME IInv, NEW m \in Machine,
         sync'[m] = sync[m],
         head' \in Nat, head' >= head,
         synced' \in Nat, synced' >= synced,
         table \subseteq table',
         \A b \in Height : Deep(b) => fork'[b] = fork[b]
  PROVE  CallOK(m)'
  <1> DEFINE s == sync[m]
  <1>1. /\ s.target \in Int /\ s.cursor \in 0 .. MaxBlock /\ s.to \in 0 .. MaxBlock
        /\ s.rows \subseteq Row /\ head \in Nat /\ synced \in Nat
    BY SyncConstants DEF IInv, TypeOK, Call
  <1>2. CallOK(m)
    BY DEF IInv
  <1>3. Confirmations \in Nat /\ MaxBlock \in Nat
    BY SyncConstants
  <1>4. s.phase # "idle" => s.target <= head' - Confirmations
    BY <1>1, <1>2, <1>3 DEF CallOK, Deep
  <1>5. s.phase = "insert" =>
          /\ \A r \in s.rows : r.block <= head' - Confirmations /\ r.fork = fork'[r.block]
          /\ \A b \in s.cursor + 1 .. s.to :
               [block |-> b, fork |-> fork'[b]] \in s.rows
    <2> SUFFICES ASSUME s.phase = "insert"
                 PROVE  /\ \A r \in s.rows : r.block <= head' - Confirmations
                                             /\ r.fork = fork'[r.block]
                        /\ \A b \in s.cursor + 1 .. s.to :
                             [block |-> b, fork |-> fork'[b]] \in s.rows
      OBVIOUS
    <2>1. \A b \in s.cursor + 1 .. s.to : b \in Height /\ Deep(b)
      BY <1>1, <1>2, <1>3 DEF CallOK, Deep
    <2>2. \A b \in s.cursor + 1 .. s.to : [block |-> b, fork |-> fork[b]] \in s.rows
      BY <1>2 DEF CallOK
    <2> QED
      BY <1>1, <1>2, <1>3, <2>1, <2>2 DEF CallOK, Deep
  <1>6. s.phase = "advance" =>
          \A b \in 1 .. s.to : [block |-> b, fork |-> fork'[b]] \in table'
    <2> SUFFICES ASSUME s.phase = "advance", NEW b \in 1 .. s.to
                 PROVE  [block |-> b, fork |-> fork'[b]] \in table'
      OBVIOUS
    <2>1. b \in Height /\ Deep(b)
      BY <1>1, <1>2, <1>3 DEF CallOK, Deep
    <2>2. [block |-> b, fork |-> fork[b]] \in table
      BY <1>2 DEF CallOK
    <2> QED
      BY <2>1, <2>2
  <1>7. s.cursor <= synced'
    BY <1>1, <1>2 DEF CallOK
  <1> QED
    BY <1>2, <1>4, <1>5, <1>6, <1>7 DEF CallOK, Deep

(* A step of one machine's call preserves the invariant when what it       *)
(* stores and how far it moves the cursor are sound.                       *)
LEMMA StepOfCall ==
  ASSUME IInv, NEW m \in Machine,
         UNCHANGED <<head, fork>>,
         TypeOK', synced' >= synced, table \subseteq table',
         CursorDeep', TableDeep', CursorCovered',
         \A n \in Machine \ {m} : sync'[n] = sync[n],
         CallOK(m)'
  PROVE  IInv'
  <1> SUFFICES ASSUME NEW n \in Machine, n # m
               PROVE  CallOK(n)'
    BY DEF IInv
  <1>1. head' \in Nat /\ head' >= head /\ synced' \in Nat
    BY SyncConstants DEF IInv, TypeOK
  <1> QED
    BY <1>1, OthersKeepCall

(* ... and in particular when it stores nothing and leaves the cursor.     *)
LEMMA LocalStepOfCall ==
  ASSUME IInv, NEW m \in Machine,
         UNCHANGED <<head, fork, table, synced>>,
         TypeOK',
         \A n \in Machine \ {m} : sync'[n] = sync[n],
         CallOK(m)'
  PROVE  IInv'
  <1>1. synced' >= synced /\ table \subseteq table'
    BY SyncConstants DEF IInv, TypeOK
  <1>2. CursorDeep' /\ TableDeep' /\ CursorCovered'
    BY DEF IInv, CursorDeep, TableDeep, CursorCovered, Deep
  <1> QED
    BY <1>1, <1>2, StepOfCall

-----------------------------------------------------------------------------
(* One lemma per action.                                                   *)

LEMMA InitSound == Init => IInv
  <1> SUFFICES ASSUME Init PROVE IInv
    OBVIOUS
  <1>1. TypeOK
    BY SyncConstants DEF Init, TypeOK, Idle, Call
  <1>2. CursorDeep /\ TableDeep /\ CursorCovered
    BY DEF Init, CursorDeep, TableDeep, CursorCovered
  <1>3. \A m \in Machine : CallOK(m)
    <2>1. \A m \in Machine : sync[m].phase = "idle" /\ sync[m].cursor = 0
      BY DEF Init, Idle
    <2> SUFFICES ASSUME NEW m \in Machine PROVE CallOK(m)
      OBVIOUS
    <2> QED
      BY <2>1 DEF Init, CallOK
  <1> QED
    BY <1>1, <1>2, <1>3 DEF IInv

LEMMA MineKeeps ==
  ASSUME IInv, Mine
  PROVE  IInv'
  <1>1. /\ head \in Nat /\ head' = head + 1 /\ head' \in 0 .. MaxBlock
        /\ Confirmations \in Nat /\ synced \in Nat
    BY SyncConstants DEF IInv, TypeOK, Mine
  <1>2. TypeOK'
    BY <1>1 DEF IInv, TypeOK, Mine, dbVars
  <1>3. CursorDeep' /\ TableDeep' /\ CursorCovered'
    BY <1>1 DEF IInv, TypeOK, CursorDeep, TableDeep, CursorCovered, Deep, Mine, dbVars
  <1>4. \A m \in Machine : CallOK(m)'
    BY <1>1, OthersKeepCall DEF Mine, dbVars
  <1> QED
    BY <1>2, <1>3, <1>4 DEF IInv

LEMMA ReorgKeeps ==
  ASSUME IInv, Reorg
  PROVE  IInv'
  <1>1. PICK depth \in 1 .. ReorgDepth :
          /\ depth <= head
          /\ \A b \in head - depth + 1 .. head : fork[b] < MaxForks
          /\ fork' = [b \in Height |->
                        IF b \in head - depth + 1 .. head THEN fork[b] + 1 ELSE fork[b]]
    BY DEF Reorg
  <1>2. /\ head \in Nat /\ synced \in Nat /\ head <= MaxBlock
        /\ Confirmations \in Nat /\ ReorgDepth \in Nat /\ ReorgDepth <= Confirmations
        /\ MaxBlock \in Nat /\ MaxForks \in Nat
    BY SyncConstants, MarginSuffices DEF IInv, TypeOK
  <1>3. \A b \in Height : Deep(b) => fork'[b] = fork[b]
    BY <1>1, <1>2 DEF Deep
  <1>4. fork' \in [Height -> 0 .. MaxForks]
    BY <1>1, <1>2 DEF IInv, TypeOK
  <1>5. TypeOK'
    BY <1>4 DEF IInv, TypeOK, Reorg, dbVars
  <1>6. CursorDeep'
    BY DEF IInv, CursorDeep, Deep, Reorg, dbVars
  <1>7. TableDeep'
    BY <1>3 DEF IInv, TypeOK, TableDeep, Deep, Reorg, dbVars
  <1>8. CursorCovered'
    <2>1. \A b \in 1 .. synced : b \in Height /\ Deep(b)
      BY <1>2 DEF IInv, TypeOK, CursorDeep, Deep
    <2> QED
      BY <1>3, <2>1 DEF IInv, CursorCovered, Reorg, dbVars
  <1>9. \A m \in Machine : CallOK(m)'
    BY <1>2, <1>3, OthersKeepCall DEF Reorg, dbVars
  <1> QED
    BY <1>5, <1>6, <1>7, <1>8, <1>9 DEF IInv

LEMMA TickKeeps ==
  ASSUME IInv, Tick
  PROVE  IInv'
  <1>1. TypeOK'
    BY SyncConstants DEF IInv, TypeOK, Tick
  <1>2. CursorDeep' /\ TableDeep' /\ CursorCovered'
    BY DEF IInv, CursorDeep, TableDeep, CursorCovered, Deep, Tick
  <1>3. \A m \in Machine : CallOK(m)'
    BY DEF IInv, CallOK, Deep, Tick
  <1> QED
    BY <1>1, <1>2, <1>3 DEF IInv

(* Before it has rows to store, a call owes little.                        *)
LEMMA RowlessCallOK ==
  ASSUME NEW m \in Machine, NEW c, sync'[m] = c,
         c.phase \in {"idle", "lease", "blockscout", "rpc", "release"},
         c.phase # "idle" => c.target <= head' - Confirmations,
         c.cursor <= synced',
         c.phase \in {"blockscout", "rpc"} => c.cursor < c.target,
         c.phase \in {"lease", "blockscout", "rpc"} => c.chunks < MaxChunks
  PROVE  CallOK(m)'
  BY DEF CallOK, Deep

(* Ending a call, or letting it release its lease, is always sound.        *)
LEMMA EndedCallOK ==
  ASSUME IInv, NEW m \in Machine, End(m)
  PROVE  /\ sync' \in [Machine -> Call]
         /\ synced' >= 0 => CallOK(m)'
  <1>1. sync'[m] = Idle
    BY DEF IInv, TypeOK, End
  <1>2. Idle \in Call
    BY SyncConstants DEF Idle, Call
  <1>3. sync'[m].phase = "idle" /\ sync'[m].cursor = 0
    BY <1>1 DEF Idle
  <1> QED
    BY <1>2, <1>3 DEF IInv, TypeOK, End, CallOK

LEMMA StartKeeps ==
  ASSUME IInv, NEW m \in Machine, Start(m)
  PROVE  IInv'
  <1>1. PICK h \in NodeHeight :
          sync' = [sync EXCEPT ![m] = [Idle EXCEPT !.phase = "lease",
                                                   !.target = TargetOf(h)]]
    BY DEF Start
  <1>2. h \in Nat /\ h <= head /\ Confirmations \in Nat /\ head \in Nat
    BY SyncConstants DEF NodeHeight, IInv, TypeOK
  <1> DEFINE s == sync'[m]
  <1>3. s = [phase |-> "lease", target |-> h - Confirmations, cursor |-> 0, to |-> 0,
             rows |-> {}, via |-> "rpc", chunks |-> 0]
    BY <1>1 DEF IInv, TypeOK, Idle, TargetOf
  <1>4. s \in Call
    BY <1>2, <1>3, SyncConstants DEF Call
  <1>5. sync' = [sync EXCEPT ![m] = s]
    BY <1>1 DEF IInv, TypeOK
  <1>6. TypeOK'
    BY <1>4, <1>5 DEF IInv, TypeOK, Start, dbVars
  <1>7. CallOK(m)'
    <2>1. /\ s.phase = "lease" /\ s.target <= head - Confirmations
          /\ s.cursor = 0 /\ s.chunks < MaxChunks
      BY <1>2, <1>3, SyncConstants
    <2>2. head' = head /\ synced' = synced /\ synced \in Nat
      BY SyncConstants DEF IInv, TypeOK, Start, dbVars
    <2> QED
      BY <2>1, <2>2, RowlessCallOK
  <1> QED
    BY <1>5, <1>6, <1>7, LocalStepOfCall DEF Start, dbVars, IInv, TypeOK

LEMMA TryLeaseKeeps ==
  ASSUME IInv, NEW m \in Machine, TryLease(m) \/ TryLeaseFails(m)
  PROVE  IInv'
  <1>1. \A n \in Machine \ {m} : sync'[n] = sync[n]
    BY DEF IInv, TypeOK, TryLease, TryLeaseFails, End
  <1>2. UNCHANGED <<head, fork, table, synced>>
    BY DEF TryLease, TryLeaseFails
  <1>3. CASE End(m)
    <2>1. TypeOK'
      <3>1. token' \in Machine \cup {NoToken, Orphan} /\ leaseLeft' \in -1 .. Lease
        BY SyncConstants DEF IInv, TypeOK, TryLease, TryLeaseFails
      <3>2. sync' \in [Machine -> Call]
        BY <1>3, EndedCallOK
      <3> QED
        BY <1>2, <3>1, <3>2 DEF IInv, TypeOK
    <2>2. CallOK(m)'
      BY <1>2, <1>3, EndedCallOK DEF IInv, TypeOK
    <2> QED
      BY <1>1, <1>2, <2>1, <2>2, LocalStepOfCall
  <1>4. CASE ~ End(m)
    <2> DEFINE s == sync[m]
    <2>1. /\ s.phase = "lease"
          /\ token' = m /\ leaseLeft' = Lease
          /\ sync' = [sync EXCEPT
                        ![m].cursor = synced,
                        ![m].phase = IF synced >= sync[m].target THEN "release"
                                     ELSE "blockscout"]
      BY <1>4 DEF TryLease, TryLeaseFails
    <2>2. /\ s \in Call /\ synced \in 0 .. MaxBlock /\ sync \in [Machine -> Call]
          /\ CallOK(m) /\ MaxChunks \in Nat \ {0} /\ Lease \in Nat /\ head \in Nat
      BY SyncConstants DEF IInv, TypeOK
    <2>3. sync'[m] = [s EXCEPT !.cursor = synced,
                               !.phase = IF synced >= s.target THEN "release"
                                         ELSE "blockscout"]
      BY <2>1, <2>2
    <2>4. sync'[m] \in Call
      BY <2>2, <2>3 DEF Call
    <2>5. TypeOK'
      BY <1>2, <2>1, <2>4, SyncConstants DEF IInv, TypeOK
    <2>6. CallOK(m)'
      <3>1. sync'[m].cursor = synced /\ sync'[m].target = s.target /\ sync'[m].chunks = s.chunks
        BY <2>2, <2>3 DEF Call
      <3>2. sync'[m].phase = IF synced >= s.target THEN "release" ELSE "blockscout"
        BY <2>2, <2>3 DEF Call
      <3>3. /\ s.target <= head' - Confirmations /\ synced' = synced /\ s.target \in Int
            /\ s.chunks < MaxChunks
        BY <1>2, <2>1, <2>2 DEF CallOK, Deep, Call
      <3> QED
        BY <2>2, <3>1, <3>2, <3>3, RowlessCallOK
    <2> QED
      BY <1>1, <1>2, <2>5, <2>6, LocalStepOfCall
  <1> QED
    BY <1>3, <1>4

(* What a call in progress knows, and what a step that only changes its    *)
(* phase leaves of it.                                                     *)
LEMMA CallFacts ==
  ASSUME IInv, NEW m \in Machine
  PROVE  /\ sync \in [Machine -> Call] /\ sync[m] \in Call /\ CallOK(m)
         /\ head \in 0 .. MaxBlock /\ synced \in 0 .. MaxBlock
         /\ MaxBlock \in Nat /\ MaxForks \in Nat /\ MaxChunks \in Nat \ {0}
         /\ Confirmations \in Nat /\ Lag \in Nat /\ Lag <= Confirmations
         /\ Chunk \in Nat \ {0} /\ Lease \in Nat
  BY SyncConstants, MarginSuffices DEF IInv, TypeOK

LEMMA GotoFacts ==
  ASSUME IInv, NEW m \in Machine, NEW phase \in Phase, Goto(m, phase)
  PROVE  /\ sync' \in [Machine -> Call]
         /\ \A n \in Machine \ {m} : sync'[n] = sync[n]
         /\ sync'[m] = [sync[m] EXCEPT !.phase = phase]
         /\ sync'[m].phase = phase /\ sync'[m].target = sync[m].target
         /\ sync'[m].cursor = sync[m].cursor /\ sync'[m].to = sync[m].to
         /\ sync'[m].rows = sync[m].rows /\ sync'[m].via = sync[m].via
         /\ sync'[m].chunks = sync[m].chunks
  <1>1. sync'[m] = [sync[m] EXCEPT !.phase = phase]
    BY CallFacts DEF Goto
  <1>2. sync'[m] \in Call
    BY <1>1, CallFacts DEF Call
  <1>3. /\ sync'[m].phase = phase /\ sync'[m].target = sync[m].target
        /\ sync'[m].cursor = sync[m].cursor /\ sync'[m].to = sync[m].to
        /\ sync'[m].rows = sync[m].rows /\ sync'[m].via = sync[m].via
        /\ sync'[m].chunks = sync[m].chunks
    BY <1>1, CallFacts DEF Call
  <1> QED
    BY <1>1, <1>2, <1>3, CallFacts DEF Goto

(* A call that goes back to the RPC, or to its release, is sound.          *)
LEMMA GotoRowlessOK ==
  ASSUME IInv, NEW m \in Machine, NEW phase \in {"rpc", "release"}, Goto(m, phase),
         head' = head, synced' >= synced, synced' \in Int,
         sync[m].phase \in {"blockscout", "rpc", "insert", "advance"}
  PROVE  CallOK(m)'
  <1>1. phase \in Phase
    OBVIOUS
  <1>2. /\ sync[m].target <= head' - Confirmations /\ sync[m].cursor <= synced'
        /\ sync[m].cursor < sync[m].target /\ sync[m].chunks < MaxChunks
    BY CallFacts DEF CallOK, Deep, Call
  <1> QED
    BY <1>1, <1>2, GotoFacts, RowlessCallOK

LEMMA RpcFailsKeeps ==
  ASSUME IInv, NEW m \in Machine, RpcFails(m)
  PROVE  IInv'
  <1>1. Goto(m, "release") /\ UNCHANGED <<head, fork, table, synced, token, leaseLeft>>
    BY DEF RpcFails, dbVars
  <1>2. TypeOK'
    BY <1>1, GotoFacts DEF IInv, TypeOK
  <1>3. CallOK(m)'
    BY <1>1, CallFacts, GotoRowlessOK DEF RpcFails
  <1> QED
    BY <1>1, <1>2, <1>3, GotoFacts, LocalStepOfCall

(* A call that comes to hold the rows of (cursor, to].                     *)
LEMMA HoldingKeeps ==
  ASSUME IInv, NEW m \in Machine, NEW to \in Int, NEW via \in Via, NEW rows,
         UNCHANGED <<head, fork, table, synced, token, leaseLeft>>,
         sync[m].phase \in {"blockscout", "rpc"},
         sync[m].cursor < to, to <= sync[m].target,
         \A b \in sync[m].cursor + 1 .. to : RowOf(b) \in rows,
         \A r \in rows : \E b \in sync[m].cursor + 1 .. to : r = RowOf(b),
         Hold(m, to, rows, via)
  PROVE  IInv'
  <1> DEFINE s == sync[m]
  <1>1. /\ s \in Call /\ sync \in [Machine -> Call]
        /\ s.target \in Int /\ s.cursor \in 0 .. MaxBlock /\ s.target <= head - Confirmations
        /\ head \in 0 .. MaxBlock /\ MaxBlock \in Nat /\ Confirmations \in Nat
        /\ s.chunks < MaxChunks /\ s.cursor <= synced /\ synced \in Nat
    BY CallFacts DEF Call, CallOK, Deep
  <1> HIDE DEF s
  <1>2. \A b \in s.cursor + 1 .. to : b \in Height /\ Deep(b)
    BY <1>1 DEF Deep, s
  <1>3. to \in 0 .. MaxBlock
    BY <1>1 DEF s
  <1>4. \A r \in rows : r \in Row /\ Deep(r.block) /\ r.fork = fork[r.block]
    BY <1>2 DEF IInv, TypeOK, s
  <1>5. sync'[m] = [s EXCEPT !.to = to, !.rows = rows, !.via = via, !.phase = "insert"]
    BY <1>1 DEF s, Hold
  <1>6. sync'[m] \in Call
    BY <1>1, <1>3, <1>4, <1>5 DEF Call
  <1>7. /\ sync'[m].phase = "insert" /\ sync'[m].target = s.target
        /\ sync'[m].cursor = s.cursor /\ sync'[m].to = to
        /\ sync'[m].rows = rows /\ sync'[m].chunks = s.chunks
    BY <1>1, <1>5 DEF Call
  <1>8. \A n \in Machine \ {m} : sync'[n] = sync[n]
    BY <1>1 DEF Hold
  <1>9. TypeOK'
    BY <1>1, <1>6 DEF IInv, TypeOK, Hold
  <1>10. CallOK(m)'
    <2>1. \A r \in rows : r.block <= head' - Confirmations /\ r.fork = fork'[r.block]
      BY <1>4 DEF Deep
    <2>2. \A b \in s.cursor + 1 .. to : [block |-> b, fork |-> fork'[b]] \in rows
      BY DEF s
    <2>3. s.target <= head' - Confirmations /\ s.cursor <= synced' /\ s.cursor < to
          /\ to <= s.target /\ s.cursor < s.target
      BY <1>1 DEF s
    <2> QED
      BY <1>1, <1>7, <2>1, <2>2, <2>3 DEF CallOK, Deep
  <1> QED
    BY <1>8, <1>9, <1>10, LocalStepOfCall

LEMMA BlockscoutKeeps ==
  ASSUME IInv, NEW m \in Machine, Blockscout(m)
  PROVE  IInv'
  <1>1. sync[m].phase = "blockscout" /\ UNCHANGED <<head, fork, table, synced, token, leaseLeft>>
    BY DEF Blockscout, dbVars
  <1>2. CASE Goto(m, "rpc")
    <2>1. TypeOK'
      BY <1>1, <1>2, GotoFacts DEF IInv, TypeOK
    <2>2. CallOK(m)'
      BY <1>1, <1>2, CallFacts, GotoRowlessOK
    <2> QED
      BY <1>1, <1>2, <2>1, <2>2, GotoFacts, LocalStepOfCall
  <1>3. CASE ~ Goto(m, "rpc")
    <2>0. PICK indexed \in 0 .. head : \E gaps \in SUBSET (1 .. indexed) :
            /\ FinishedIndexing(gaps)
            /\ Lesser(indexed, sync[m].target) > sync[m].cursor
            /\ Hold(m, Lesser(indexed, sync[m].target),
                    {RowOf(b) : b \in (sync[m].cursor + 1 ..
                                         Lesser(indexed, sync[m].target)) \ gaps},
                    "blockscout")
      BY <1>3 DEF Blockscout
    <2>1. PICK gaps \in SUBSET (1 .. indexed) :
            /\ FinishedIndexing(gaps)
            /\ Lesser(indexed, sync[m].target) > sync[m].cursor
            /\ Hold(m, Lesser(indexed, sync[m].target),
                    {RowOf(b) : b \in (sync[m].cursor + 1 ..
                                         Lesser(indexed, sync[m].target)) \ gaps},
                    "blockscout")
      BY <2>0
    <2> DEFINE to == Lesser(indexed, sync[m].target)
               rows == {RowOf(b) : b \in (sync[m].cursor + 1 .. to) \ gaps}
    <2>2. indexed \in Int /\ sync[m].target \in Int /\ sync[m].cursor \in Int
      BY CallFacts DEF Call
    <2>3. to \in Int /\ sync[m].cursor < to /\ to <= sync[m].target
      BY <2>1, <2>2 DEF Lesser
    <2>4. rows = {RowOf(b) : b \in sync[m].cursor + 1 .. to}
      BY <2>1 DEF FinishedIndexing
    <2>5. Hold(m, to, rows, "blockscout")
      BY <2>1
    <2> HIDE DEF to, rows
    <2>6. /\ \A b \in sync[m].cursor + 1 .. to : RowOf(b) \in rows
          /\ \A r \in rows : \E b \in sync[m].cursor + 1 .. to : r = RowOf(b)
      BY <2>4
    <2> QED
      BY <1>1, <2>3, <2>5, <2>6, HoldingKeeps
  <1> QED
    BY <1>2, <1>3

(* What the margin is for: a lagging node still answers for deep blocks.   *)
LEMMA RpcKeeps ==
  ASSUME IInv, NEW m \in Machine, Rpc(m)
  PROVE  IInv'
  <1> DEFINE to == Lesser(sync[m].cursor + Chunk, sync[m].target)
  <1>1. sync[m].phase = "rpc" /\ UNCHANGED <<head, fork, table, synced, token, leaseLeft>>
    BY DEF Rpc, dbVars
  <1>2. PICK h \in NodeHeight :
          Hold(m, to, {RowOf(b) : b \in {x \in sync[m].cursor + 1 .. to : x <= h}}, "rpc")
    BY DEF Rpc
  <1> DEFINE rows == {RowOf(b) : b \in {x \in sync[m].cursor + 1 .. to : x <= h}}
  <1>3. /\ sync[m].target \in Int /\ sync[m].cursor \in Nat /\ Chunk \in Nat \ {0}
        /\ sync[m].cursor < sync[m].target /\ sync[m].target <= head - Confirmations
        /\ head \in Nat /\ Confirmations \in Nat /\ Lag \in Nat /\ Lag <= Confirmations
        /\ h \in Nat /\ h >= head - Lag
    BY <1>1, CallFacts DEF Call, CallOK, Deep, NodeHeight
  <1>4. to \in Int /\ sync[m].cursor < to /\ to <= sync[m].target
    BY <1>3 DEF Lesser
  <1>5. Hold(m, to, rows, "rpc")
    BY <1>2
  <1>6. /\ \A b \in sync[m].cursor + 1 .. to : RowOf(b) \in rows
        /\ \A r \in rows : \E b \in sync[m].cursor + 1 .. to : r = RowOf(b)
    <2> HIDE DEF to
    <2>1. \A b \in sync[m].cursor + 1 .. to : b <= h
      BY <1>3, <1>4
    <2> QED
      BY <2>1
  <1> HIDE DEF to, rows
  <1> QED
    BY <1>1, <1>4, <1>5, <1>6, HoldingKeeps

(* Rows a call inserts are deep and canonical, so the table stays so, and  *)
(* what the cursor has passed stays in it.                                 *)
LEMMA InsertSafe ==
  ASSUME IInv, NEW m \in Machine, sync[m].phase = "insert",
         NEW part \in SUBSET sync[m].rows, Insert(part),
         UNCHANGED <<head, fork, synced>>
  PROVE  /\ table' \subseteq Row /\ table \subseteq table' /\ part \subseteq table'
         /\ TableDeep' /\ CursorCovered' /\ CursorDeep'
  <1>1. sync[m].rows \subseteq Row
    BY CallFacts DEF Call
  <1>2. \A r \in part : Deep(r.block) /\ r.fork = fork[r.block]
    BY CallFacts DEF CallOK
  <1>3. /\ table' \subseteq Row /\ table \subseteq table' /\ part \subseteq table'
        /\ \A r \in table' : Deep(r.block) /\ r.fork = fork[r.block]
    BY <1>1, <1>2, InsertAdds
  <1>4. TableDeep'
    BY <1>3 DEF TableDeep, Deep
  <1>5. CursorCovered' /\ CursorDeep'
    BY <1>3 DEF IInv, CursorCovered, CursorDeep, Deep
  <1> QED
    BY <1>3, <1>4, <1>5

LEMMA InsertFailsKeeps ==
  ASSUME IInv, NEW m \in Machine, InsertFails(m)
  PROVE  IInv'
  <1>1. /\ sync[m].phase = "insert" /\ Goto(m, AfterError(sync[m].via))
        /\ UNCHANGED <<head, fork, synced, token, leaseLeft>>
    BY DEF InsertFails
  <1>2. PICK part \in SUBSET sync[m].rows : Insert(part)
    BY DEF InsertFails
  <1>3. AfterError(sync[m].via) \in {"rpc", "release"}
    BY DEF AfterError
  <1>4. synced' >= synced /\ synced' \in Int
    BY <1>1, CallFacts
  <1>5. TypeOK'
    BY <1>1, <1>2, <1>3, GotoFacts, InsertSafe DEF IInv, TypeOK
  <1>6. CallOK(m)'
    BY <1>1, <1>3, <1>4, GotoRowlessOK
  <1> QED
    BY <1>1, <1>2, <1>3, <1>4, <1>5, <1>6, GotoFacts, InsertSafe, StepOfCall

LEMMA InsertRowsKeeps ==
  ASSUME IInv, NEW m \in Machine, InsertRows(m)
  PROVE  IInv'
  <1> DEFINE s == sync[m]
  <1>1. /\ s.phase = "insert" /\ Goto(m, "advance") /\ Insert(s.rows)
        /\ UNCHANGED <<head, fork, synced, token, leaseLeft>>
    BY DEF InsertRows
  <1>2. /\ table' \subseteq Row /\ table \subseteq table' /\ s.rows \subseteq table'
        /\ TableDeep' /\ CursorCovered' /\ CursorDeep'
    BY <1>1, InsertSafe
  <1>3. /\ sync' \in [Machine -> Call] /\ \A n \in Machine \ {m} : sync'[n] = sync[n]
        /\ sync'[m].phase = "advance" /\ sync'[m].target = s.target
        /\ sync'[m].cursor = s.cursor /\ sync'[m].to = s.to /\ sync'[m].chunks = s.chunks
    BY <1>1, GotoFacts
  <1>4. TypeOK'
    BY <1>1, <1>2, <1>3 DEF IInv, TypeOK
  <1>5. \A b \in 1 .. s.to : RowOf(b)' \in table'
    <2> SUFFICES ASSUME NEW b \in 1 .. s.to
                 PROVE  [block |-> b, fork |-> fork[b]] \in table'
      BY <1>1
    <2>1. s.cursor \in Nat /\ s.to \in Nat /\ synced \in Nat /\ s.cursor <= synced
      BY CallFacts DEF Call, CallOK
    <2>2. CASE b <= s.cursor
      BY <1>2, <2>1, <2>2 DEF IInv, CursorCovered
    <2>3. CASE b > s.cursor
      <3>1. b \in s.cursor + 1 .. s.to
        BY <2>1, <2>3
      <3> QED
        BY <1>1, <1>2, <3>1, CallFacts DEF CallOK
    <2> QED
      BY <2>1, <2>2, <2>3
  <1>6. CallOK(m)'
    <2>1. /\ s.target <= head' - Confirmations /\ s.cursor <= synced'
          /\ s.cursor < s.target /\ s.chunks < MaxChunks
          /\ s.cursor < s.to /\ s.to <= s.target
      BY <1>1, CallFacts DEF CallOK, Deep
    <2> QED
      BY <1>3, <1>5, <2>1 DEF CallOK, Deep
  <1>7. synced' >= synced
    BY <1>1, CallFacts
  <1> QED
    BY <1>1, <1>2, <1>3, <1>4, <1>6, <1>7, StepOfCall

(* Whether the database moved the cursor or not, all below it is stored.   *)
LEMMA CursorMoveSafe ==
  ASSUME IInv, NEW m \in Machine, sync[m].phase = "advance",
         UNCHANGED <<head, fork, table, token>>,
         DbAdvance(m) \/ UNCHANGED <<synced, leaseLeft>>
  PROVE  /\ synced' \in 0 .. MaxBlock /\ synced' >= synced
         /\ leaseLeft' \in -1 .. Lease
         /\ CursorDeep' /\ TableDeep' /\ CursorCovered'
         /\ DbAdvance(m) /\ LiveHolder(m) => synced' >= sync[m].to
  <1> DEFINE s == sync[m]
  <1>1. /\ s.to \in 0 .. MaxBlock /\ s.to <= head - Confirmations
        /\ \A b \in 1 .. s.to : RowOf(b) \in table
    BY CallFacts DEF Call, CallOK, Deep
  <1>2. /\ synced' \in {synced, s.to} /\ synced' >= synced
        /\ DbAdvance(m) /\ LiveHolder(m) => synced' >= s.to
    BY <1>1, CallFacts DEF DbAdvance, MovedForward
  <1>3. leaseLeft' \in -1 .. Lease
    BY CallFacts DEF DbAdvance, IInv, TypeOK
  <1>4. CursorDeep'
    BY <1>1, <1>2, CallFacts DEF IInv, CursorDeep, Deep
  <1>5. TableDeep'
    BY DEF IInv, TableDeep, Deep
  <1>6. CursorCovered'
    BY <1>1, <1>2 DEF IInv, CursorCovered
  <1> QED
    BY <1>1, <1>2, <1>3, <1>4, <1>5, <1>6, CallFacts

LEMMA AdvanceFailsKeeps ==
  ASSUME IInv, NEW m \in Machine, AdvanceFails(m)
  PROVE  IInv'
  <1>1. /\ sync[m].phase = "advance" /\ Goto(m, AfterError(sync[m].via))
        /\ UNCHANGED <<head, fork, table, token>>
        /\ DbAdvance(m) \/ UNCHANGED <<synced, leaseLeft>>
    BY DEF AdvanceFails
  <1>2. AfterError(sync[m].via) \in {"rpc", "release"}
    BY DEF AfterError
  <1>3. /\ synced' \in 0 .. MaxBlock /\ synced' >= synced /\ leaseLeft' \in -1 .. Lease
        /\ CursorDeep' /\ TableDeep' /\ CursorCovered'
    BY <1>1, CursorMoveSafe
  <1>4. TypeOK'
    BY <1>1, <1>2, <1>3, GotoFacts DEF IInv, TypeOK
  <1>5. CallOK(m)'
    BY <1>1, <1>2, <1>3, GotoRowlessOK
  <1> QED
    BY <1>1, <1>2, <1>3, <1>4, <1>5, GotoFacts, StepOfCall

LEMMA AdvanceKeeps ==
  ASSUME IInv, NEW m \in Machine, Advance(m)
  PROVE  IInv'
  <1> DEFINE s == sync[m]
             chunks == IF s.via = "rpc" THEN s.chunks + 1 ELSE s.chunks
             phase == IF s.to < s.target /\ ChunksLeft(chunks) THEN "rpc" ELSE "release"
  <1>1. /\ s.phase = "advance" /\ DbAdvance(m) /\ UNCHANGED <<head, fork, table, token>>
    BY DEF Advance
  <1>2. /\ synced' \in 0 .. MaxBlock /\ synced' >= synced /\ leaseLeft' \in -1 .. Lease
        /\ CursorDeep' /\ TableDeep' /\ CursorCovered'
        /\ LiveHolder(m) => synced' >= s.to
    BY <1>1, CursorMoveSafe
  <1>3. CASE ~ LiveHolder(m)
    <2>1. Goto(m, "release")
      BY <1>3 DEF Advance
    <2>2. TypeOK'
      BY <1>1, <1>2, <2>1, GotoFacts DEF IInv, TypeOK
    <2>3. CallOK(m)'
      BY <1>1, <1>2, <2>1, GotoRowlessOK
    <2> QED
      BY <1>1, <1>2, <2>1, <2>2, <2>3, GotoFacts, StepOfCall
  <1>4. CASE LiveHolder(m)
    <2>1. sync' = [sync EXCEPT ![m].cursor = s.to, ![m].chunks = chunks, ![m].phase = phase]
      BY <1>4 DEF Advance
    <2>2. /\ s \in Call /\ sync \in [Machine -> Call] /\ s.chunks \in 0 .. MaxChunks
          /\ s.chunks < MaxChunks /\ MaxChunks \in Nat /\ s.to \in 0 .. MaxBlock
          /\ s.target \in Int /\ s.target <= head' - Confirmations
      BY <1>1, CallFacts DEF Call, CallOK, Deep
    <2>3. chunks \in 0 .. MaxChunks /\ phase \in {"rpc", "release"}
      BY <2>2
    <2>4. phase = "rpc" => s.to < s.target /\ chunks < MaxChunks
      BY DEF ChunksLeft
    <2> HIDE DEF chunks, phase
    <2>5. sync'[m] = [s EXCEPT !.cursor = s.to, !.chunks = chunks, !.phase = phase]
      BY <2>1, <2>2
    <2>6. sync'[m] \in Call
      BY <2>2, <2>3, <2>5 DEF Call
    <2>7. /\ sync'[m].cursor = s.to /\ sync'[m].chunks = chunks /\ sync'[m].phase = phase
          /\ sync'[m].target = s.target
      BY <2>2, <2>5 DEF Call
    <2>8. \A n \in Machine \ {m} : sync'[n] = sync[n]
      BY <2>1, <2>2
    <2>9. TypeOK'
      BY <1>1, <1>2, <2>1, <2>2, <2>6 DEF IInv, TypeOK
    <2>10. CallOK(m)'
      BY <1>2, <1>4, <2>2, <2>3, <2>4, <2>7, RowlessCallOK
    <2> QED
      BY <1>1, <1>2, <2>8, <2>9, <2>10, StepOfCall
  <1> QED
    BY <1>3, <1>4

LEMMA EndKeeps ==
  ASSUME IInv, NEW m \in Machine, Release(m) \/ Crash(m)
  PROVE  IInv'
  <1>1. End(m) /\ UNCHANGED <<head, fork, table, synced>>
    BY DEF Release, Crash
  <1>2. token' \in Machine \cup {NoToken, Orphan} /\ leaseLeft' \in -1 .. Lease
    BY SyncConstants DEF IInv, TypeOK, Release, Crash, Abandon
  <1>3. TypeOK'
    BY <1>1, <1>2, EndedCallOK DEF IInv, TypeOK
  <1>4. CallOK(m)'
    BY <1>1, EndedCallOK, CallFacts
  <1>5. \A n \in Machine \ {m} : sync'[n] = sync[n]
    BY <1>1, CallFacts DEF End
  <1> QED
    BY <1>1, <1>3, <1>4, <1>5, LocalStepOfCall

LEMMA NextKeeps ==
  ASSUME IInv, [Next]_vars
  PROVE  IInv'
  <1>1. CASE Mine \/ Reorg \/ Tick
    BY <1>1, MineKeeps, ReorgKeeps, TickKeeps
  <1>2. ASSUME NEW m \in Machine, Progress(m)
        PROVE  IInv'
    BY <1>2, StartKeeps, TryLeaseKeeps, BlockscoutKeeps, RpcKeeps, InsertRowsKeeps,
       AdvanceKeeps, EndKeeps DEF Progress
  <1>3. ASSUME NEW m \in Machine, Fault(m)
        PROVE  IInv'
    BY <1>3, TryLeaseKeeps, RpcFailsKeeps, InsertFailsKeeps, AdvanceFailsKeeps, EndKeeps
    DEF Fault
  <1>4. CASE UNCHANGED vars
    BY <1>4 DEF vars, dbVars, IInv, TypeOK, CursorDeep, TableDeep, CursorCovered,
                CallOK, Deep
  <1> QED
    BY <1>1, <1>2, <1>3, <1>4 DEF Next

-----------------------------------------------------------------------------
(* The invariant holds in every reachable state.                           *)
THEOREM SyncInvariant == Spec => []IInv
  <1> QED
    BY InitSound, NextKeeps, PTL DEF Spec

(* Every variable keeps its type, the chunk counter its cap and the cursor *)
(* a block that exists.                                                    *)
THEOREM SyncTypeCorrect == Spec => []TypeOK
  <1>1. IInv => TypeOK
    BY DEF IInv
  <1> QED
    BY <1>1, SyncInvariant, PTL

(* What migration 0008 promises of last_synced_block: every canonical      *)
(* event up to it is stored, whatever failed, expired or crashed.          *)
THEOREM CursorCoveredCorrect == Spec => []CursorCovered
  <1>1. IInv => CursorCovered
    BY DEF IInv
  <1> QED
    BY <1>1, SyncInvariant, PTL

(* No row of an orphaned block is ever stored.                             *)
THEOREM OnlyCanonicalRowsCorrect == Spec => []OnlyCanonicalRows
  <1>1. IInv => OnlyCanonicalRows
    <2> SUFFICES ASSUME IInv, NEW r \in table
                 PROVE  r.block <= head /\ r = RowOf(r.block)
      BY DEF OnlyCanonicalRows
    <2>1. /\ r \in Row /\ r.block <= head - Confirmations /\ r.fork = fork[r.block]
          /\ head \in Nat /\ Confirmations \in Nat
      BY SyncConstants DEF IInv, TypeOK, TableDeep, Deep
    <2> QED
      BY <2>1
  <1> QED
    BY <1>1, SyncInvariant, PTL

(* The cursor never moves back.                                            *)
THEOREM CursorNeverBackCorrect == Spec => CursorNeverBack
  <1>1. ASSUME IInv, [Next]_vars
        PROVE  [synced' >= synced]_vars
    <2>1. synced \in Int
      BY <1>1, SyncConstants DEF IInv, TypeOK
    <2>2. \A m \in Machine : sync[m].to \in Int
      BY <1>1, CallFacts DEF Call
    <2>3. CASE Mine \/ Reorg \/ Tick
      BY <2>1, <2>3 DEF Mine, Reorg, Tick, dbVars
    <2>4. ASSUME NEW m \in Machine, Progress(m) \/ Fault(m)
          PROVE  synced' >= synced
      <3>1. CASE Advance(m) \/ AdvanceFails(m)
        BY <2>1, <2>2, <3>1 DEF Advance, AdvanceFails, DbAdvance, MovedForward
      <3>2. CASE ~ (Advance(m) \/ AdvanceFails(m))
        <4>1. synced' = synced
          <5>1. CASE Progress(m)
            BY <3>2, <5>1 DEF Progress, Start, TryLease, Blockscout, Rpc, InsertRows, Release,
                              dbVars
          <5>2. CASE Fault(m)
            BY <3>2, <5>2 DEF Fault, TryLeaseFails, RpcFails, InsertFails, Crash, dbVars
          <5> QED
            BY <2>4, <5>1, <5>2
        <4> QED
          BY <2>1, <4>1
      <3> QED
        BY <3>1, <3>2
    <2> QED
      BY <1>1, <2>3, <2>4 DEF Next
  <1> QED
    BY <1>1, SyncInvariant, PTL DEF Spec, CursorNeverBack
=============================================================================
