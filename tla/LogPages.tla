------------------------------- MODULE LogPages -----------------------------
(***************************************************************************)
(* blockscoutLogs of src/services/onchainEventsService.ts: one contract's  *)
(* logs of a range of blocks, read from an explorer that answers at most   *)
(* BLOCKSCOUT_PAGE of them per call, oldest first.                         *)
(***************************************************************************)
EXTENDS Integers, FiniteSetsExt

CONSTANTS
  Page,      \* BLOCKSCOUT_PAGE
  MaxPages,  \* BLOCKSCOUT_MAX_PAGES
  MaxBlock,  \* bound: the last block of the range
  MaxLogs    \* bound: the logs of one block

PageConstants ==
  /\ Page \in Nat \ {0} /\ MaxPages \in Nat \ {0}
  /\ MaxBlock \in Nat \ {0} /\ MaxLogs \in Nat

VARIABLES
  count,  \* block -> how many logs the contract emitted in it
  start,  \* the block the next call starts from
  out,    \* the logs kept so far
  page,   \* the calls answered
  state   \* reading, done, or why it threw

vars == <<count, start, out, page, state>>

Block == 1 .. MaxBlock
Log == Block \X (1 .. MaxLogs)
Logs(from) == {l \in Log : l[1] >= from /\ l[2] <= count[l[1]]}
Before(k, l) == k[1] < l[1] \/ (k[1] = l[1] /\ k[2] < l[2])
(* One answer: the oldest logs from a block on, up to a page of them.      *)
Answer(from) ==
  {l \in Logs(from) : Cardinality({k \in Logs(from) : Before(k, l)}) < Page}

TypeOK ==
  /\ count \in [Block -> 0 .. MaxLogs]
  /\ start \in Block
  /\ out \subseteq Logs(1)
  /\ page \in 0 .. MaxPages
  /\ state \in {"reading", "done", "fullBlock", "tooManyPages", "failed"}
  /\ \A l \in out : state = "reading" => l[1] < start

Init ==
  /\ count \in [Block -> 0 .. MaxLogs]
  /\ start = 1 /\ out = {} /\ page = 0 /\ state = "reading"

LastBlock(logs) == Max({l[1] : l \in logs})
KeepAll(logs) == logs
KeepWholeBlocks(logs) == {l \in logs : l[1] < LastBlock(logs)}
AfterLast(logs) == LastBlock(logs) + 1
FromLast(logs) == LastBlock(logs)

NearlyStuck(logs) == LastBlock(logs) <= start + 1
Stuck(logs) == LastBlock(logs) <= start
NotFull(logs) == Cardinality(logs) < Page

(* No logs, or a page that isn't full: these were the last ones.           *)
LastPage ==
  /\ state = "reading" /\ page < MaxPages
  /\ NotFull(Answer(start))
  /\ out' = out \cup Answer(start)
  /\ state' = "done" /\ page' = page + 1
  /\ UNCHANGED <<count, start>>

(* A full page may end in the middle of its last block, which is read      *)
(* again; a block that starts the page and fills it can't be.              *)
FullPage ==
  /\ state = "reading" /\ page < MaxPages
  /\ ~ NotFull(Answer(start))
  /\ page' = page + 1
  /\ IF Stuck(Answer(start))
     THEN state' = "fullBlock" /\ UNCHANGED <<start, out>>
     ELSE /\ out' = out \cup KeepWholeBlocks(Answer(start))
          /\ start' = FromLast(Answer(start))
          /\ UNCHANGED state
  /\ UNCHANGED count

TooManyPages ==
  /\ state = "reading" /\ page = MaxPages
  /\ state' = "tooManyPages"
  /\ UNCHANGED <<count, start, out, page>>

(* An error answer, or none within BLOCKSCOUT_TIMEOUT_MS.                  *)
Fails ==
  /\ state = "reading" /\ page < MaxPages
  /\ state' = "failed"
  /\ UNCHANGED <<count, start, out, page>>

Ended == state # "reading" /\ UNCHANGED vars

Next == LastPage \/ FullPage \/ TooManyPages \/ Fails \/ Ended

Spec == Init /\ [][Next]_vars

-----------------------------------------------------------------------------
(* "Every log `address` emitted in [from, to]": what is returned leaves    *)
(* none out, however the blocks fall over the pages, though the first may  *)
(* be cut at both of its ends.                                             *)
EveryLog == state = "done" => out = Logs(1)

(* It gives up on a range only when a page cannot hold one of its blocks,  *)
(* or when the pages, each of which moves on by a block, run out.          *)
GivesUpOnlyThen ==
  /\ state = "fullBlock" => \E b \in Block : count[b] >= Page
  /\ state = "tooManyPages" =>
       Cardinality(Logs(1)) > MaxPages * (Page - Max({count[b] : b \in Block}))
=============================================================================
