---------------------------- MODULE ReadersProofs ---------------------------
(***************************************************************************)
(* Proofs about Readers for any requests, accounts, margins, chunks and    *)
(* callers: what the API's lists and lookups show a caller that waits for  *)
(* its write, where nodes refuse to answer past their own height, and how  *)
(* old the SDK's answers can be.                                           *)
(***************************************************************************)
EXTENDS Readers, WellFoundedInduction, TLAPS

(* A set of numbers that is not empty has a least one.                     *)
LEMMA LeastNumber ==
  ASSUME NEW T, T \subseteq Nat, T # {}
  PROVE  \E x \in T : \A y \in T : x <= y
<1>1. PICK x \in T : \A y \in T : <<y, x>> \notin OpToRel(<, Nat)
  BY WFMin, NatLessThanWellFounded
<1>2. ASSUME NEW y \in T PROVE x <= y
  <2> SUFFICES ASSUME ~ (x <= y) PROVE FALSE
    OBVIOUS
  <2>1. y < x /\ x \in Nat /\ y \in Nat
    BY <1>2
  <2>2. <<y, x>> \in {ss \in Nat \X Nat : ss[1] < ss[2]}
    BY <2>1
  <2>3. <<y, x>> \in OpToRel(<, Nat)
    BY <2>2 DEF OpToRel
  <2> QED
    BY <1>1, <1>2, <2>3
<1> QED
  BY <1>1, <1>2

-----------------------------------------------------------------------------
(* The invariant of a request                                              *)

(* No chunk of its tail lacked the last blocks it was asked for, or what   *)
(* the caller waits for is not in the tail.                                *)
Whole(c) == ~ c.short \/ c.min = 0
Running(c) == c.phase \notin {"idle", "answered"}
Listing == {"list", "listAgain", "cursor", "events"}
LookingUp == {"head", "headAgain", "storedAgain", "regCursor", "regTail"}

(* Since block b the name is Me's, and transferred to Me there.            *)
HeldFrom(b) ==
  b \in 1 .. head /\ OwnerAt(b - 1) # Me /\ \A x \in b .. head : owner[x] = Me

(* The write a caller waits for is on the chain, in a block it waits for   *)
(* or the cursor had passed. What has been read includes it, or the rows   *)
(* that have not been selected yet do.                                     *)
WriteIsAhead(c) ==
  \E b \in 1 .. head :
    /\ HeldFrom(b)
    /\ c.kind = "lookup" => b <= c.min
    /\ c.kind = "list" =>
         /\ b <= c.since /\ c.since <= head
         /\ c.since <= c.min \/ c.since <= synced
         /\ c.phase = "events" =>
              /\ c.since <= c.min \/ c.since <= c.reached
              /\ b <= c.reached /\ Whole(c) => c.found \/ c.fresh \/ (c.select /\ b <= stored)

(* What a list owes, from the phases before: it has the name among its     *)
(* candidates, and finds its registration in the table.                    *)
ListOwes(c) ==
  c.kind = "list" /\ c.owed =>
    /\ c.phase \notin {"idle"} \cup Listing /\ Whole(c) => c.found
    /\ c.min = 0 =>
         /\ c.phase = "events" => c.found \/ c.select
         /\ c.phase \notin LookingUp
         /\ c.phase = "answered" => c.owner = Me /\ c.reg # None

(* The owner that was read, and the block it was read at unless that was   *)
(* replaced since.                                                         *)
OwnerRead(c) ==
  /\ c.phase \in {"stored"} \cup LookingUp =>
       /\ Wanted(c)
       /\ c.kind = "list" => c.was
       /\ c.kind = "lookup" /\ c.owed => c.owner = Me
  /\ c.block <= head
  /\ c.block > 0 /\ fork[c.block] = 0 => owner[c.block] = c.owner

Answers(c) ==
  c.phase = "answered" =>
    /\ c.kind = "list" /\ c.owner # Nobody /\ c.reg # None => c.was
    /\ c.kind = "lookup" /\ c.owed => c.owner = Me

CallHolds(c) ==
  /\ c \in Call
  /\ c.phase \in {"cursor", "events"} => c.head >= c.min
  /\ c.reg # None => c.phase = "answered"
  /\ c.min <= head
  /\ c.phase \in Listing => c.kind = "list"
  /\ c.phase \in Listing \ {"events"} => c.select
  /\ Running(c) => \A h \in NodeHeight : OwnerAt(h) = Me => c.was
  /\ Running(c) /\ c.owed => WriteIsAhead(c)
  /\ ListOwes(c) /\ OwnerRead(c) /\ Answers(c)

(* The chain and the copies of it.                                         *)
ChainHolds ==
  /\ head \in 0 .. MaxBlock
  /\ owner \in [Height -> Owner] /\ fork \in [Height -> 0 .. MaxForks]
  /\ synced \in Nat /\ stored \in Nat /\ synced <= stored
  /\ stored = 0 \/ stored + Confirmations <= head
  /\ \A h \in 1 .. head : MayFollow(OwnerAt(h - 1), owner[h])
CacheHolds ==
  /\ kept \in Registration \cup {None}
  /\ cache \in Lookup \cup {None}
  /\ cache # None =>
       /\ cache.block <= head
       /\ cache.block > 0 /\ fork[cache.block] = 0 => owner[cache.block] = cache.owner

ReadsInv ==
  /\ ChainHolds /\ CacheHolds
  /\ call \in [Request -> Call]
  /\ \A r \in Request : CallHolds(call[r])

-----------------------------------------------------------------------------
(* Facts about the chain                                                   *)

LEMMA ReadsNumbers ==
  /\ Confirmations \in Nat /\ Lag \in Nat /\ Lag <= Confirmations
  /\ ReorgDepth \in Nat /\ ReorgDepth <= Confirmations
  /\ Chunk \in Nat /\ TailChunks \in Nat /\ TailChunks * Chunk \in Nat
  /\ MaxBlock \in Nat /\ MaxForks \in Nat
  /\ Me \in Owner /\ Nobody \in Owner /\ Me # Nobody
  BY ReadsConstants DEF Owner

LEMMA OwnersTyped ==
  ASSUME ChainHolds
  PROVE  /\ \A h \in 0 .. head : OwnerAt(h) \in Owner
         /\ \A h \in NodeHeight : h \in 0 .. head
  BY ReadsNumbers DEF ChainHolds, OwnerAt, Height, NodeHeight

(* A name that is held was registered, in that block or before it.         *)
LEMMA FirstRegistration ==
  ASSUME ChainHolds, NEW h \in 1 .. head, owner[h] # Nobody
  PROVE  \E x \in 1 .. h : RegisteredAt(x)
<1> DEFINE T == {x \in 1 .. h : owner[x] # Nobody}
<1>0. head \in Nat /\ h \in Nat /\ h <= head /\ 1 <= h
  BY DEF ChainHolds
<1>1. PICK x \in T : \A y \in T : x <= y
  <2>1. T \subseteq Nat /\ h \in T
    BY <1>0
  <2> QED
    BY <2>1, LeastNumber
<1>2. OwnerAt(x - 1) = Nobody
  <2>1. CASE x = 1
    BY <2>1 DEF OwnerAt
  <2>2. CASE x # 1
    <3>1. x - 1 \in 1 .. h /\ x - 1 # 0 /\ ~ (x <= x - 1)
      BY <1>0, <1>1, <2>2
    <3> QED
      BY <1>1, <3>1 DEF OwnerAt
  <2> QED
    BY <2>1, <2>2
<1> QED
  BY <1>1, <1>2 DEF RegisteredAt

LEMMA RegistrationFound ==
  ASSUME ChainHolds, NEW B, B \subseteq Height
  PROVE  /\ RegistrationIn(B) \in Registration \cup {None}
         /\ (\E b \in B : RegisteredAt(b)) => RegistrationIn(B) # None
<1>1. CASE \E b \in B : RegisteredAt(b)
  <2> DEFINE b == CHOOSE x \in B : RegisteredAt(x)
  <2>1. b \in B
    BY <1>1
  <2>2. [block |-> b, fork |-> fork[b]] \in Registration
    BY <2>1 DEF Registration, ChainHolds
  <2>3. RegistrationIn(B) = [block |-> b, fork |-> fork[b]]
    BY <1>1 DEF RegistrationIn
  <2> QED
    BY <2>2, <2>3, ReadsConstants
<1>2. CASE ~ \E b \in B : RegisteredAt(b)
  BY <1>2 DEF RegistrationIn
<1> QED
  BY <1>1, <1>2

(* The block HeldSince chooses is one the name was transferred in.         *)
LEMMA HeldSinceFound ==
  ASSUME ChainHolds, NEW n \in Nat, n <= head, HeldSince <= n
  PROVE  HeldSince \in 1 .. head /\ HeldFrom(HeldSince)
<1> DEFINE Since(b) == \A x \in b .. head : owner[x] = Me
           T == {b \in 1 .. head : Since(b)}
<1>0. head \in Nat /\ head <= MaxBlock
  BY ReadsNumbers DEF ChainHolds
<1>1. \E b \in 1 .. head : Since(b)
  BY <1>0, ReadsNumbers DEF HeldSince
<1>2. T \subseteq Nat /\ T # {}
  BY <1>1
<1>3. PICK b \in T : \A y \in T : b <= y
  BY <1>2, LeastNumber
<1>4. b \in 1 .. head /\ Since(b)
  BY <1>3
<1>5. OwnerAt(b - 1) # Me
  <2>1. CASE b = 1
    BY <2>1, ReadsNumbers DEF OwnerAt
  <2>2. CASE b # 1
    <3>1. b - 1 \in 1 .. head /\ b - 1 # 0 /\ ~ (b <= b - 1)
      BY <1>0, <1>4, <2>2
    <3>2. b - 1 \notin T
      BY <1>3, <3>1
    <3>3. ~ Since(b - 1)
      BY <3>1, <3>2
    <3>4. PICK x \in b - 1 .. head : owner[x] # Me
      BY <3>3
    <3>5. x \in b .. head \/ x = b - 1
      BY <1>0, <1>4, <3>4
    <3>6. owner[b - 1] # Me
      BY <1>4, <3>4, <3>5
    <3> QED
      BY <3>1, <3>6 DEF OwnerAt
  <2> QED
    BY <2>1, <2>2
<1>6. HeldSince = CHOOSE c \in 1 .. head : Since(c) /\ OwnerAt(c - 1) # Me
  BY <1>1 DEF HeldSince
<1>7. HeldSince \in 1 .. head /\ Since(HeldSince) /\ OwnerAt(HeldSince - 1) # Me
  BY <1>4, <1>5, <1>6
<1> QED
  BY <1>7 DEF HeldFrom

-----------------------------------------------------------------------------
(* Steps that leave the chain as it is                                     *)

(* A request that does not move is as good as before when the table grows. *)
LEMMA CallStays ==
  ASSUME ChainHolds, UNCHANGED chainVars,
         stored' \in Nat, synced' \in Nat, stored <= stored', synced <= synced',
         NEW c, CallHolds(c)
  PROVE  CallHolds(c)'
<1>1. WriteIsAhead(c) => WriteIsAhead(c)'
  <2> SUFFICES ASSUME WriteIsAhead(c) PROVE WriteIsAhead(c)'
    OBVIOUS
  <2>1. PICK b \in 1 .. head :
          /\ HeldFrom(b)
          /\ c.kind = "lookup" => b <= c.min
          /\ c.kind = "list" =>
               /\ b <= c.since /\ c.since <= head
               /\ c.since <= c.min \/ c.since <= synced
               /\ c.phase = "events" =>
                    /\ c.since <= c.min \/ c.since <= c.reached
                    /\ b <= c.reached /\ Whole(c) => c.found \/ c.fresh \/ (c.select /\ b <= stored)
    BY DEF WriteIsAhead, Whole
  <2>2. HeldFrom(b)'
    BY <2>1 DEF HeldFrom, OwnerAt, chainVars
  <2>3. b \in Nat /\ c.since \in Nat /\ stored \in Nat /\ synced \in Nat
    BY ReadsNumbers DEF ChainHolds, CallHolds, Call
  <2> QED
    BY <2>1, <2>2, <2>3 DEF WriteIsAhead, chainVars
<1> QED
  BY <1>1 DEF CallHolds, chainVars, NodeHeight, OwnerAt, ListOwes, Whole, OwnerRead, Answers,
              Wanted, Holds, Running

LEMMA CallIs ==
  ASSUME NEW s \in Request, NEW c, call'[s] = c, CallHolds(c)'
  PROVE  CallHolds(call[s])'
  BY DEF CallHolds, WriteIsAhead, ListOwes, Whole, OwnerRead, Answers, Running, Wanted

(* The step of one request, seen from the others.                          *)
LEMMA OneCall ==
  ASSUME ReadsInv, UNCHANGED <<chainVars, stored, synced>>, CacheHolds',
         NEW r \in Request, NEW d, CallHolds(d), call' = [call EXCEPT ![r] = d]
  PROVE  ReadsInv'
<1>0. /\ ChainHolds /\ stored \in Nat /\ synced \in Nat
      /\ call \in [Request -> Call] /\ d \in Call
  BY DEF ReadsInv, ChainHolds, CallHolds
<1>1. ChainHolds'
  BY <1>0 DEF ChainHolds, chainVars, OwnerAt
<1>2. CallHolds(d)'
  BY <1>0, CallStays
<1>3. ASSUME NEW s \in Request PROVE CallHolds(call[s])'
  <2>1. CASE s = r
    <3>1. call'[s] = d
      BY <1>0, <2>1
    <3> QED
      BY <1>2, <3>1, CallIs
  <2>2. CASE s # r
    <3>1. PICK c : c = call[s]
      OBVIOUS
    <3>2. call'[s] = c /\ CallHolds(c)
      BY <2>2, <3>1 DEF ReadsInv
    <3>3. CallHolds(c)'
      BY <1>0, <3>2, CallStays
    <3> QED
      BY <3>2, <3>3, CallIs
  <2> QED
    BY <2>1, <2>2
<1>4. call' \in [Request -> Call]
  BY <1>0
<1> QED
  BY <1>1, <1>3, <1>4 DEF ReadsInv

(* The step of the table, the cursor or the copies.                        *)
LEMMA NoCall ==
  ASSUME ReadsInv, UNCHANGED chainVars, ChainHolds', CacheHolds', call' = call,
         stored <= stored', synced <= synced'
  PROVE  ReadsInv'
<1>0. ChainHolds /\ stored' \in Nat /\ synced' \in Nat
  BY DEF ReadsInv, ChainHolds
<1>1. ASSUME NEW s \in Request PROVE CallHolds(call[s])'
  <2>1. PICK c : c = call[s]
    OBVIOUS
  <2>2. call'[s] = c /\ CallHolds(c)
    BY <2>1 DEF ReadsInv
  <2>3. CallHolds(c)'
    BY <1>0, <2>2, CallStays
  <2> QED
    BY <2>2, <2>3, CallIs
<1> QED
  BY <1>1 DEF ReadsInv

LEMMA RowsStoredKeeps == ReadsInv /\ RowsStored => ReadsInv'
<1> SUFFICES ASSUME ReadsInv, RowsStored PROVE ReadsInv'
  OBVIOUS
<1>1. PICK to \in stored + 1 .. head - Confirmations : stored' = to
  BY DEF RowsStored
<1>2. UNCHANGED <<chainVars, synced, kept, cache, call>>
  BY DEF RowsStored
<1>3. stored' \in Nat /\ stored <= stored' /\ stored' + Confirmations <= head
  BY <1>1, ReadsNumbers DEF ReadsInv, ChainHolds
<1>4. ChainHolds'
  BY <1>2, <1>3 DEF ReadsInv, ChainHolds, chainVars, OwnerAt
<1>5. CacheHolds'
  BY <1>2 DEF ReadsInv, CacheHolds, chainVars
<1> QED
  BY <1>2, <1>3, <1>4, <1>5, NoCall DEF ReadsInv, ChainHolds

LEMMA CursorAdvancesKeeps == ReadsInv /\ CursorAdvances => ReadsInv'
<1> SUFFICES ASSUME ReadsInv, CursorAdvances PROVE ReadsInv'
  OBVIOUS
<1>1. PICK to \in synced + 1 .. head : to <= stored /\ synced' = to
  BY DEF CursorAdvances, AfterItsRows
<1>2. UNCHANGED <<chainVars, stored, kept, cache, call>>
  BY DEF CursorAdvances
<1>3. synced' \in Nat /\ synced <= synced' /\ synced' <= stored
  BY <1>1 DEF ReadsInv, ChainHolds
<1>4. ChainHolds'
  BY <1>2, <1>3 DEF ReadsInv, ChainHolds, chainVars, OwnerAt
<1>5. CacheHolds'
  BY <1>2 DEF ReadsInv, CacheHolds, chainVars
<1> QED
  BY <1>2, <1>3, <1>4, <1>5, NoCall DEF ReadsInv, ChainHolds

LEMMA ForgetKeeps == ReadsInv /\ Forget => ReadsInv'
<1> SUFFICES ASSUME ReadsInv, Forget PROVE ReadsInv'
  OBVIOUS
<1>1. UNCHANGED <<chainVars, stored, synced, call>>
  BY DEF Forget
<1>2. ChainHolds'
  BY <1>1 DEF ReadsInv, ChainHolds, chainVars, OwnerAt
<1>3. CacheHolds'
  BY <1>1 DEF ReadsInv, CacheHolds, chainVars, Forget
<1> QED
  BY <1>1, <1>2, <1>3, NoCall DEF ReadsInv, ChainHolds

-----------------------------------------------------------------------------
(* Steps of the chain                                                      *)

(* A request that sees the chain change.                                   *)
Sees(c, mine, kept_) ==
  IF c.phase \in {"idle", "answered"} THEN c
  ELSE [c EXCEPT !.was = @ \/ mine, !.owed = @ /\ kept_]

LEMMA SeesFields ==
  ASSUME NEW c \in Call, NEW mine \in BOOLEAN, NEW k \in BOOLEAN, Running(c)
  PROVE  LET d == Sees(c, mine, k) IN
         /\ d \in Call
         /\ d.short = c.short
         /\ d.phase = c.phase /\ d.kind = c.kind /\ d.min = c.min /\ d.head = c.head
         /\ d.reached = c.reached /\ d.select = c.select /\ d.found = c.found
         /\ d.fresh = c.fresh /\ d.owner = c.owner /\ d.block = c.block
         /\ d.reg = c.reg /\ d.since = c.since
         /\ d.was = (c.was \/ mine) /\ d.owed = (c.owed /\ k)
  BY DEF Sees, Running, Call

(* What is kept of a request when the chain changes: blocks read keep what *)
(* was read, or are replaced, and what is owed stays where it was.         *)
LEMMA SeesHolds ==
  ASSUME ChainHolds, ChainHolds', head <= head', UNCHANGED <<stored, synced>>,
         NEW mine \in BOOLEAN, NEW k \in BOOLEAN,
         NEW c, CallHolds(c), NEW d, d = Sees(c, mine, k),
         \A b \in 1 .. head : owner'[b] = owner[b] \/ fork'[b] > 0,
         \A b \in 1 .. head : fork'[b] = 0 => fork[b] = 0,
         \A h \in NodeHeight' : OwnerAt(h)' = Me => mine \/ (h \in NodeHeight /\ OwnerAt(h) = Me),
         k /\ c.owed /\ Running(c) =>
           \A b \in 1 .. head :
             HeldFrom(b) /\ (c.kind = "list" => b <= c.since /\ c.since <= head)
               => HeldFrom(b)'
  PROVE  CallHolds(d)'
<1>0. /\ c \in Call /\ head \in Nat /\ head' \in Nat /\ c.block \in Nat /\ c.min \in Nat
      /\ c.since \in Nat
  BY ReadsNumbers DEF CallHolds, Call, ChainHolds
<1>1. OwnerRead(c)'
  BY <1>0 DEF CallHolds, OwnerRead, Wanted
<1>2. CASE ~ Running(c)
  <2>1. d = c
    BY <1>2 DEF Sees, Running
  <2> QED
    BY <1>0, <1>1, <1>2, <2>1 DEF CallHolds, ListOwes, Whole, Answers, Running
<1>3. CASE Running(c)
  <2>1. /\ d \in Call
        /\ d.short = c.short
        /\ d.phase = c.phase /\ d.kind = c.kind /\ d.min = c.min /\ d.head = c.head
        /\ d.reached = c.reached /\ d.select = c.select /\ d.found = c.found
        /\ d.fresh = c.fresh /\ d.owner = c.owner /\ d.block = c.block
        /\ d.reg = c.reg /\ d.since = c.since
        /\ d.was = (c.was \/ mine) /\ d.owed = (c.owed /\ k)
    BY <1>0, <1>3, SeesFields
  <2>2. d.owed => WriteIsAhead(d)'
    <3> SUFFICES ASSUME c.owed, k PROVE WriteIsAhead(d)'
      BY <2>1
    <3>1. PICK b \in 1 .. head :
            /\ HeldFrom(b)
            /\ c.kind = "lookup" => b <= c.min
            /\ c.kind = "list" =>
                 /\ b <= c.since /\ c.since <= head
                 /\ c.since <= c.min \/ c.since <= synced
                 /\ c.phase = "events" =>
                      /\ c.since <= c.min \/ c.since <= c.reached
                      /\ b <= c.reached /\ Whole(c) => c.found \/ c.fresh \/ (c.select /\ b <= stored)
      BY <1>3 DEF CallHolds, WriteIsAhead
    <3>2. HeldFrom(b)' /\ b \in 1 .. head'
      BY <1>0, <1>3, <3>1
    <3>3. d.kind = "lookup" => b <= d.min
      BY <2>1, <3>1
    <3>7. c.kind = "list" => c.since <= head'
      BY <1>0, <3>1
    <3>5. d.kind = "list" => b <= d.since /\ d.since <= head'
      BY <2>1, <3>1, <3>7
    <3>6. d.kind = "list" => d.since <= d.min \/ d.since <= synced'
      BY <2>1, <3>1
    <3>4. d.kind = "list" /\ d.phase = "events" =>
            /\ d.since <= d.min \/ d.since <= d.reached
            /\ b <= d.reached /\ Whole(d) => d.found \/ d.fresh \/ (d.select /\ b <= stored')
      BY <2>1, <3>1 DEF Whole
    <3> HIDE <1>0, <2>1, <3>1
    <3> QED
      BY <3>2, <3>3, <3>4, <3>5, <3>6 DEF WriteIsAhead, Whole
  <2>3. ListOwes(d)' /\ Answers(d)'
    BY <1>3, <2>1 DEF CallHolds, ListOwes, Whole, Answers, Running
  <2>4. OwnerRead(d)'
    BY <1>1, <1>3, <2>1 DEF CallHolds, OwnerRead, Wanted
  <2>5. Running(d)' => \A h \in NodeHeight' : OwnerAt(h)' = Me => d.was
    BY <1>3, <2>1 DEF CallHolds
  <2> QED
    BY <1>0, <2>1, <2>2, <2>3, <2>4, <2>5 DEF CallHolds, Running
<1> QED
  BY <1>2, <1>3

LEMMA MineKeeps == ReadsInv /\ Mine => ReadsInv'
<1> SUFFICES ASSUME ReadsInv, Mine PROVE ReadsInv'
  OBVIOUS
<1>0. /\ ChainHolds /\ head \in Nat /\ head' = head + 1 /\ head' \in 0 .. MaxBlock
      /\ UNCHANGED <<fork, stored, synced, kept, cache>>
      /\ call \in [Request -> Call]
  BY ReadsNumbers DEF ReadsInv, ChainHolds, Mine
<1>1. PICK o \in Owner : /\ MayFollow(OwnerAt(head), o)
                         /\ owner' = [owner EXCEPT ![head + 1] = o]
                         /\ call' = Witnessed({o}, o, Request)
  BY DEF Mine
<1>2. /\ owner' \in [Height -> Owner] /\ owner'[head + 1] = o
      /\ \A b \in 1 .. head : owner'[b] = owner[b]
  BY <1>0, <1>1, ReadsNumbers DEF ChainHolds, Height
<1>3. \A h \in 0 .. head : OwnerAt(h)' = OwnerAt(h)
  BY <1>0, <1>2 DEF OwnerAt
<1>4. ChainHolds'
  <2>1. \A h \in 1 .. head' : MayFollow(OwnerAt(h - 1)', owner'[h])
    <3> SUFFICES ASSUME NEW h \in 1 .. head' PROVE MayFollow(OwnerAt(h - 1)', owner'[h])
      OBVIOUS
    <3>1. h - 1 \in 0 .. head /\ (h \in 1 .. head \/ h = head + 1)
      BY <1>0
    <3>2. OwnerAt(h - 1)' = OwnerAt(h - 1)
      BY <1>3, <3>1
    <3>3. CASE h = head + 1
      <4>1. h - 1 = head /\ owner'[h] = o
        BY <1>0, <1>2, <3>3
      <4> QED
        BY <1>1, <3>2, <4>1
    <3>4. CASE h \in 1 .. head
      BY <1>0, <1>2, <3>2, <3>4 DEF ChainHolds
    <3> QED
      BY <3>1, <3>3, <3>4
  <2>2. stored' = 0 \/ stored' + Confirmations <= head'
    BY <1>0, ReadsNumbers DEF ChainHolds
  <2> QED
    BY <1>0, <1>2, <2>1, <2>2 DEF ChainHolds, MayFollow
<1>5. CacheHolds'
  BY <1>0, <1>2, ReadsNumbers DEF ReadsInv, CacheHolds, Lookup
<1>6. ASSUME NEW h \in NodeHeight', OwnerAt(h)' = Me
      PROVE  o = Me \/ (h \in NodeHeight /\ OwnerAt(h) = Me)
  <2>1. h \in 0 .. head + 1 /\ h >= head + 1 - Lag
    BY <1>0, <1>6, ReadsNumbers DEF NodeHeight
  <2>2. CASE h = head + 1
    <3>1. OwnerAt(h)' = o
      BY <1>0, <1>2, <2>2 DEF OwnerAt
    <3> QED
      BY <1>6, <3>1
  <2>3. CASE h # head + 1
    <3>1. h \in 0 .. head /\ h >= head - Lag
      BY <1>0, <2>1, <2>3, ReadsNumbers
    <3> QED
      BY <1>3, <1>6, <3>1 DEF NodeHeight
  <2> QED
    BY <2>2, <2>3
<1>7. ASSUME o = Me, NEW b \in 1 .. head, HeldFrom(b) PROVE HeldFrom(b)'
  <2>1. b \in 1 .. head' /\ OwnerAt(b - 1)' # Me
    BY <1>0, <1>3, <1>7 DEF HeldFrom
  <2>2. \A x \in b .. head' : owner'[x] = Me
    BY <1>0, <1>2, <1>7 DEF HeldFrom
  <2> QED
    BY <2>1, <2>2 DEF HeldFrom
<1>8. ASSUME NEW s \in Request PROVE CallHolds(call[s])'
  <2>1. PICK c : c = call[s]
    OBVIOUS
  <2>2. PICK m \in BOOLEAN : m = (o = Me)
    OBVIOUS
  <2>3. PICK d : d = Sees(c, m, m)
    OBVIOUS
  <2>4. call'[s] = d
    BY <1>1, <2>1, <2>2, <2>3 DEF Witnessed, Sees
  <2>5. c \in Call /\ CallHolds(c)
    BY <2>1 DEF ReadsInv
  <2>6. CallHolds(d)'
    <3>1. /\ head <= head'
          /\ \A b \in 1 .. head : owner'[b] = owner[b] \/ fork'[b] > 0
          /\ \A b \in 1 .. head : fork'[b] = 0 => fork[b] = 0
      BY <1>0, <1>2
    <3>2. \A h \in NodeHeight' :
            OwnerAt(h)' = Me => m \/ (h \in NodeHeight /\ OwnerAt(h) = Me)
      BY <1>6, <2>2
    <3>3. m => \A b \in 1 .. head : HeldFrom(b) => HeldFrom(b)'
      BY <1>7, <2>2
    <3> QED
      BY <1>0, <1>4, <2>3, <2>5, <3>1, <3>2, <3>3, SeesHolds
  <2> QED
    BY <2>4, <2>6, CallIs
<1>9. call' \in [Request -> Call]
  BY <1>1, <1>8, <1>0 DEF Witnessed, CallHolds
<1> QED
  BY <1>4, <1>5, <1>8, <1>9 DEF ReadsInv

LEMMA ReorgKeeps == ReadsInv /\ Reorg => ReadsInv'
<1> SUFFICES ASSUME ReadsInv, Reorg PROVE ReadsInv'
  OBVIOUS
<1>1. PICK depth \in 1 .. ReorgDepth : \E n \in [head - depth + 1 .. head -> Owner] :
    /\ depth <= head
    /\ \A b \in DOMAIN n :
         /\ fork[b] < MaxForks
         /\ MayFollow(IF b - 1 \in DOMAIN n THEN n[b - 1] ELSE OwnerAt(b - 1), n[b])
    /\ owner' = [b \in Height |-> IF b \in DOMAIN n THEN n[b] ELSE owner[b]]
    /\ fork' = [b \in Height |-> IF b \in DOMAIN n THEN fork[b] + 1 ELSE fork[b]]
    /\ call' = Witnessed({n[b] : b \in DOMAIN n}, n[head],
                 {r \in Request : call[r].kind = "list" /\ call[r].since <= head - depth
                                  /\ \A b \in DOMAIN n : n[b] = Me})
    /\ UNCHANGED <<head, stored, synced, kept, cache>>
  BY DEF Reorg
<1>2. PICK n \in [head - depth + 1 .. head -> Owner] :
    /\ depth <= head
    /\ \A b \in DOMAIN n :
         /\ fork[b] < MaxForks
         /\ MayFollow(IF b - 1 \in DOMAIN n THEN n[b - 1] ELSE OwnerAt(b - 1), n[b])
    /\ owner' = [b \in Height |-> IF b \in DOMAIN n THEN n[b] ELSE owner[b]]
    /\ fork' = [b \in Height |-> IF b \in DOMAIN n THEN fork[b] + 1 ELSE fork[b]]
    /\ call' = Witnessed({n[b] : b \in DOMAIN n}, n[head],
                 {r \in Request : call[r].kind = "list" /\ call[r].since <= head - depth
                                  /\ \A b \in DOMAIN n : n[b] = Me})
    /\ UNCHANGED <<head, stored, synced, kept, cache>>
  BY <1>1
<1>0. /\ ChainHolds /\ head \in Nat /\ head <= MaxBlock /\ depth \in Nat /\ depth > 0
      /\ depth <= head
      /\ UNCHANGED <<head, stored, synced, kept, cache>>
      /\ call \in [Request -> Call] /\ DOMAIN n = head - depth + 1 .. head
  BY <1>1, <1>2, ReadsNumbers DEF ReadsInv, ChainHolds
<1>3. /\ \A b \in DOMAIN n : b \in 1 .. head /\ b \in Height
      /\ \A b \in 1 .. head : b \in Height /\ (b \notin DOMAIN n => b <= head - depth)
  BY <1>0, ReadsNumbers DEF Height
<1>4. /\ \A b \in DOMAIN n : owner'[b] = n[b] /\ fork'[b] = fork[b] + 1
      /\ \A b \in Height : b \notin DOMAIN n => owner'[b] = owner[b] /\ fork'[b] = fork[b]
  BY <1>2, <1>3
<1>5. /\ owner' \in [Height -> Owner] /\ fork' \in [Height -> 0 .. MaxForks]
      /\ \A b \in DOMAIN n : fork'[b] > 0
  <2>1. \A b \in DOMAIN n : n[b] \in Owner
    BY <1>0
  <2>2. \A b \in DOMAIN n : fork[b] + 1 \in 0 .. MaxForks /\ fork[b] + 1 > 0
    BY <1>0, <1>2, <1>3, ReadsNumbers DEF ChainHolds
  <2>3. owner \in [Height -> Owner] /\ fork \in [Height -> 0 .. MaxForks]
    BY <1>0 DEF ChainHolds
  <2> QED
    BY <1>2, <1>4, <2>1, <2>2, <2>3
<1>6. \A h \in 0 .. head : h \notin DOMAIN n => OwnerAt(h)' = OwnerAt(h)
  BY <1>0, <1>3, <1>4 DEF OwnerAt
<1>7. \A h \in DOMAIN n : OwnerAt(h)' = n[h]
  BY <1>0, <1>3, <1>4 DEF OwnerAt
<1>8. ChainHolds'
  <2>1. ASSUME NEW h \in 1 .. head' PROVE MayFollow(OwnerAt(h - 1)', owner'[h])
    <3>1. h \in 1 .. head /\ h - 1 \in 0 .. head /\ h \in Height
      BY <1>0, <1>3
    <3>2. CASE h \in DOMAIN n
      <4>1. MayFollow(IF h - 1 \in DOMAIN n THEN n[h - 1] ELSE OwnerAt(h - 1), n[h])
        BY <1>2, <3>2
      <4>2. OwnerAt(h - 1)' = IF h - 1 \in DOMAIN n THEN n[h - 1] ELSE OwnerAt(h - 1)
        BY <1>6, <1>7, <3>1
      <4> QED
        BY <1>4, <3>2, <4>1, <4>2
    <3>3. CASE h \notin DOMAIN n
      <4>1. h - 1 \notin DOMAIN n
        BY <1>0, <3>1, <3>3
      <4>2. OwnerAt(h - 1)' = OwnerAt(h - 1) /\ owner'[h] = owner[h]
        BY <1>4, <1>6, <3>1, <3>3, <4>1
      <4> QED
        BY <1>0, <3>1, <4>2 DEF ChainHolds
    <3> QED
      BY <3>2, <3>3
  <2> QED
    BY <1>0, <1>5, <2>1 DEF ChainHolds, MayFollow
<1>9. CacheHolds'
  <2>1. cache # None => cache \in Lookup /\ cache.block \in Nat
    BY ReadsNumbers DEF ReadsInv, CacheHolds, Lookup
  <2>2. ASSUME cache # None, cache.block > 0, fork'[cache.block] = 0
        PROVE  owner'[cache.block] = cache.owner
    <3>1. cache.block \in 1 .. head
      BY <1>0, <2>1, <2>2 DEF ReadsInv, CacheHolds
    <3>2. cache.block \notin DOMAIN n
      BY <1>5, <2>2
    <3>3. owner'[cache.block] = owner[cache.block] /\ fork[cache.block] = 0
      BY <1>3, <1>4, <2>2, <3>1, <3>2
    <3> QED
      BY <2>2, <3>3 DEF ReadsInv, CacheHolds
  <2> QED
    BY <1>0, <2>2 DEF ReadsInv, CacheHolds
<1>10. ASSUME NEW s \in Request PROVE CallHolds(call[s])'
  <2>1. PICK c : c = call[s]
    OBVIOUS
  <2>2. PICK m \in BOOLEAN : m = (Me \in {n[b] : b \in DOMAIN n})
    <3>1. CASE Me \in {n[b] : b \in DOMAIN n}
      <4>1. TRUE = (Me \in {n[b] : b \in DOMAIN n})
        BY <3>1
      <4> QED
        BY <4>1
    <3>2. CASE Me \notin {n[b] : b \in DOMAIN n}
      <4>1. FALSE = (Me \in {n[b] : b \in DOMAIN n})
        BY <3>2
      <4> QED
        BY <4>1
    <3> QED
      BY <3>1, <3>2
  <2>3. PICK k \in BOOLEAN :
          k = (/\ n[head] = Me
               /\ s \in {r \in Request : call[r].kind = "list" /\ call[r].since <= head - depth
                                           /\ \A b \in DOMAIN n : n[b] = Me})
    OBVIOUS
  <2>4. PICK d : d = Sees(c, m, k)
    OBVIOUS
  <2>5. call'[s] = d
    BY <1>2, <2>1, <2>2, <2>3, <2>4 DEF Witnessed, Sees
  <2>6. c \in Call /\ CallHolds(c)
    BY <2>1 DEF ReadsInv
  <2>7. CallHolds(d)'
    <3>1. /\ head <= head'
          /\ \A b \in 1 .. head : owner'[b] = owner[b] \/ fork'[b] > 0
      BY <1>0, <1>3, <1>4, <1>5
    <3>2. \A b \in 1 .. head : fork'[b] = 0 => fork[b] = 0
      BY <1>3, <1>4, <1>5
    <3>3. ASSUME NEW h \in NodeHeight', OwnerAt(h)' = Me
          PROVE  m \/ (h \in NodeHeight /\ OwnerAt(h) = Me)
      <4>1. h \in 0 .. head /\ h \in NodeHeight
        BY <1>0 DEF NodeHeight
      <4> QED
        BY <1>6, <1>7, <2>2, <3>3, <4>1
    <3>4. ASSUME k, NEW b \in 1 .. head, HeldFrom(b), c.kind = "list" => b <= c.since
          PROVE  HeldFrom(b)'
      <4>1. c.kind = "list" /\ c.since <= head - depth /\ \A x \in DOMAIN n : n[x] = Me
        BY <2>1, <2>3, <3>4
      <4>2. c.since \in Nat
        BY <2>6, ReadsNumbers DEF Call
      <4>3. b <= head - depth
        BY <1>0, <3>4, <4>1, <4>2
      <4>4. b - 1 \in 0 .. head /\ b - 1 \notin DOMAIN n
        BY <1>0, <4>3
      <4>5. OwnerAt(b - 1)' # Me
        BY <1>6, <3>4, <4>4 DEF HeldFrom
      <4>6. \A x \in b .. head : owner'[x] = Me
        <5> SUFFICES ASSUME NEW x \in b .. head PROVE owner'[x] = Me
          OBVIOUS
        <5>1. x \in 1 .. head
          BY <1>0
        <5>2. owner[x] = Me
          BY <3>4 DEF HeldFrom
        <5> QED
          BY <1>3, <1>4, <4>1, <5>1, <5>2
      <4> QED
        BY <1>0, <4>5, <4>6 DEF HeldFrom
    <3>5. k => \A b \in 1 .. head :
                 HeldFrom(b) /\ (c.kind = "list" => b <= c.since) => HeldFrom(b)'
      BY <3>4
    <3> QED
      BY <1>0, <1>8, <2>4, <2>6, <3>1, <3>2, <3>3, <3>5, SeesHolds
  <2> QED
    BY <2>5, <2>7, CallIs
<1>11. call' \in [Request -> Call]
  BY <1>2, <1>10 DEF Witnessed, CallHolds
<1> QED
  BY <1>8, <1>9, <1>10, <1>11 DEF ReadsInv

-----------------------------------------------------------------------------
(* Steps of a request                                                      *)

LEMMA IdleHolds ==
  ASSUME ChainHolds
  PROVE  CallHolds(Idle)
<1>1. Idle \in Call
  BY ReadsNumbers DEF Idle, Call, Phase
<1> QED
  BY <1>1 DEF CallHolds, ChainHolds, Idle, Listing, LookingUp, Running, ListOwes, Whole, OwnerRead, Answers

LEMMA BecomesIdle ==
  ASSUME ReadsInv, NEW r \in Request, Set(r, Idle),
         UNCHANGED <<chainVars, stored, synced, kept, cache>>
  PROVE  ReadsInv'
<1>1. CallHolds(Idle)
  BY IdleHolds DEF ReadsInv
<1>2. CacheHolds'
  BY DEF ReadsInv, CacheHolds, chainVars
<1> QED
  BY <1>1, <1>2, OneCall DEF Set

AskedIn(kind, min, p) == [Asked(kind, min) EXCEPT !.phase = p]

JustAsked(d, kind, min, p) ==
  /\ d \in Call
  /\ d.phase = p /\ d.kind = kind /\ d.min = min /\ d.select = TRUE
  /\ d.owed = Owed(kind, min) /\ d.reg = None /\ d.block = 0
  /\ d.since = IF Owed(kind, min) THEN Larger(min, synced) ELSE 0
  /\ d.was = \E h \in NodeHeight : OwnerAt(h) = Me

LEMMA AskedFields ==
  ASSUME ChainHolds, NEW min \in 0 .. head, NEW kind \in {"list", "lookup"},
         NEW p \in Phase
  PROVE  JustAsked(AskedIn(kind, min, p), kind, min, p)
<1>1. min \in 0 .. MaxBlock /\ Larger(min, synced) \in 0 .. MaxBlock
  BY ReadsNumbers DEF ChainHolds, Larger
<1>2. Owed(kind, min) \in BOOLEAN
  <2>1. CASE kind = "list"
    <3>1. Owed(kind, min) = (HeldSince <= Larger(min, synced))
      BY <2>1 DEF Owed
    <3> QED
      BY <3>1
  <2>2. CASE kind = "lookup"
    <3>1. Owed(kind, min)
            = (min > 0 /\ HeldSince <= min /\ \A b \in min .. head : fork[b] = 0)
      BY <2>2 DEF Owed
    <3> QED
      BY <3>1
  <2> QED
    BY <2>1, <2>2
<1>4. (\E h \in NodeHeight : OwnerAt(h) = Me) \in BOOLEAN
  OBVIOUS
<1>3. Idle \in Call
  BY ReadsNumbers DEF Idle, Call, Phase
<1> QED
  BY <1>1, <1>2, <1>3, <1>4 DEF JustAsked, AskedIn, Asked, Idle, Call

LEMMA StartListKeeps ==
  ASSUME ReadsInv, NEW r \in Request, StartList(r)
  PROVE  ReadsInv'
<1>0. ChainHolds /\ head \in Nat /\ synced \in Nat /\ synced <= head /\ stored \in Nat
  BY ReadsNumbers DEF ReadsInv, ChainHolds
<1>1. PICK min \in 0 .. head : Set(r, [Asked("list", min) EXCEPT !.phase = "list"])
  BY DEF StartList
<1>7. "list" \in Phase /\ "list" \in {"list", "lookup"}
  BY DEF Phase
<1>2. PICK d : d = AskedIn("list", min, "list")
  OBVIOUS
<1>8. JustAsked(d, "list", min, "list")
  BY <1>0, <1>2, <1>7, AskedFields
<1>3. /\ d \in Call
      /\ d.phase = "list" /\ d.kind = "list" /\ d.min = min /\ d.select = TRUE
      /\ d.owed = Owed("list", min) /\ d.reg = None /\ d.block = 0
      /\ d.since = IF Owed("list", min) THEN Larger(min, synced) ELSE 0
      /\ d.was = \E h \in NodeHeight : OwnerAt(h) = Me
  BY <1>8 DEF JustAsked
<1>4. d.owed => WriteIsAhead(d)
  <2> SUFFICES ASSUME Owed("list", min) PROVE WriteIsAhead(d)
    BY <1>3
  <2>1. Larger(min, synced) \in Nat /\ Larger(min, synced) <= head
        /\ (Larger(min, synced) <= min \/ Larger(min, synced) <= synced)
    BY <1>0 DEF Larger
  <2>2. HeldSince \in 1 .. head /\ HeldFrom(HeldSince) /\ HeldSince <= Larger(min, synced)
    BY <1>0, <2>1, HeldSinceFound DEF Owed
  <2> QED
    BY <1>3, <2>1, <2>2 DEF WriteIsAhead, Whole
<1>5. CallHolds(d)
  BY <1>0, <1>3, <1>4 DEF CallHolds, Running, ListOwes, Whole, OwnerRead, Answers, Listing, LookingUp
<1>6. UNCHANGED <<chainVars, stored, synced>> /\ CacheHolds'
  BY DEF StartList, ReadsInv, CacheHolds, chainVars
<1> QED
  BY <1>1, <1>2, <1>5, <1>6, OneCall DEF Set, AskedIn

LEMMA StartLookupKeeps ==
  ASSUME ReadsInv, NEW r \in Request, StartLookup(r)
  PROVE  ReadsInv'
<1>0. /\ ChainHolds /\ CacheHolds /\ head \in Nat /\ synced \in Nat /\ synced <= head
      /\ stored \in Nat
  BY ReadsNumbers DEF ReadsInv, ChainHolds
<1>1. PICK min \in 0 .. head :
        IF UsableFor(min)
        THEN Set(r, [Asked("lookup", min) EXCEPT !.phase = "answered", !.owner = cache.owner])
        ELSE Set(r, [Asked("lookup", min) EXCEPT !.phase = "names"])
  BY DEF StartLookup
<1>2. UNCHANGED <<chainVars, stored, synced>> /\ CacheHolds'
  BY DEF StartLookup, ReadsInv, CacheHolds, chainVars
<1>3. ASSUME Owed("lookup", min)
      PROVE  /\ min > 0 /\ HeldSince \in 1 .. head /\ HeldFrom(HeldSince) /\ HeldSince <= min
             /\ \A b \in min .. head : fork[b] = 0
  <2>1. min > 0 /\ HeldSince <= min /\ \A b \in min .. head : fork[b] = 0
    BY <1>3 DEF Owed
  <2> QED
    BY <1>0, <2>1, HeldSinceFound
<1>7. "names" \in Phase /\ "answered" \in Phase /\ "lookup" \in {"list", "lookup"}
  BY DEF Phase
<1>4. CASE ~ UsableFor(min)
  <2>1. PICK d : d = AskedIn("lookup", min, "names")
    OBVIOUS
  <2>7. JustAsked(d, "lookup", min, "names")
    BY <1>0, <1>7, <2>1, AskedFields
  <2>2. /\ d \in Call
        /\ d.phase = "names" /\ d.kind = "lookup" /\ d.min = min
        /\ d.owed = Owed("lookup", min) /\ d.reg = None /\ d.block = 0
        /\ d.was = \E h \in NodeHeight : OwnerAt(h) = Me
    BY <2>7 DEF JustAsked
  <2>3. d.owed => WriteIsAhead(d)
    BY <1>3, <2>2 DEF WriteIsAhead, Whole
  <2>4. CallHolds(d)
    BY <1>0, <2>2, <2>3
    DEF CallHolds, Running, ListOwes, Whole, OwnerRead, Answers, Listing, LookingUp
  <2> QED
    BY <1>1, <1>2, <1>4, <2>1, <2>4, OneCall DEF Set, AskedIn
<1>5. CASE UsableFor(min)
  <2>1. PICK a : a = AskedIn("lookup", min, "answered")
    OBVIOUS
  <2>9. JustAsked(a, "lookup", min, "answered")
    BY <1>0, <1>7, <2>1, AskedFields
  <2>2. /\ a \in Call
        /\ a.phase = "answered" /\ a.kind = "lookup" /\ a.min = min
        /\ a.owed = Owed("lookup", min) /\ a.reg = None /\ a.block = 0
    BY <2>9 DEF JustAsked
  <2>3. PICK d : d = [a EXCEPT !.owner = cache.owner]
    OBVIOUS
  <2>4. cache \in Lookup /\ cache # None
    BY <1>0, <1>5 DEF UsableFor, CacheHolds
  <2>5. /\ d \in Call
        /\ d.phase = "answered" /\ d.kind = "lookup" /\ d.min = min /\ d.owner = cache.owner
        /\ d.owed = Owed("lookup", min) /\ d.reg = None /\ d.block = 0
    BY <2>2, <2>3, <2>4 DEF Call, Lookup
  <2>6. ASSUME d.owed PROVE d.owner = Me
    <3>1. /\ min > 0 /\ HeldSince \in 1 .. head /\ HeldFrom(HeldSince) /\ HeldSince <= min
          /\ \A b \in min .. head : fork[b] = 0
      BY <1>3, <2>5, <2>6
    <3>2. cache.block \in Nat /\ cache.block >= min /\ cache.block <= head
      BY <1>0, <1>5, <2>4, <3>1, ReadsNumbers DEF CacheHolds, UsableFor, Lookup
    <3>3. fork[cache.block] = 0 /\ cache.block \in HeldSince .. head /\ cache.block > 0
      BY <1>0, <3>1, <3>2
    <3>4. owner[cache.block] = Me
      BY <3>1, <3>3 DEF HeldFrom
    <3> QED
      BY <1>0, <2>4, <2>5, <3>3, <3>4 DEF CacheHolds
  <2>7. CallHolds(d)
    BY <1>0, <2>5, <2>6
    DEF CallHolds, Running, ListOwes, Whole, OwnerRead, Answers, Listing, LookingUp
  <2>8. call' = [call EXCEPT ![r] = d]
    BY <1>1, <1>5, <2>1, <2>3 DEF Set, AskedIn
  <2> QED
    BY <1>2, <2>7, <2>8, OneCall
<1> QED
  BY <1>4, <1>5

(* A node that is behind what the caller waits for is asked once more.     *)
LEMMA HeadAtLeastKeeps ==
  ASSUME ReadsInv, NEW r \in Request, NEW first, NEW again, NEW next,
         \/ first = "list" /\ again = "listAgain" /\ next = "cursor"
         \/ first = "head" /\ again = "headAgain" /\ next = "storedAgain",
         HeadAtLeast(r, first, again, next)
  PROVE  ReadsInv'
<1>0. ChainHolds /\ head \in Nat /\ head <= MaxBlock /\ call \in [Request -> Call]
  BY ReadsNumbers DEF ReadsInv, ChainHolds
<1>1. PICK c : c = call[r]
  OBVIOUS
<1>2. c \in Call /\ CallHolds(c) /\ c.phase \in {first, again}
  BY <1>1 DEF ReadsInv, HeadAtLeast
<1>3. PICK h \in NodeHeight :
        IF HighEnough(h, c.min) THEN Set(r, [c EXCEPT !.phase = next, !.head = h])
        ELSE Set(r, IF c.phase = first THEN [c EXCEPT !.phase = again] ELSE Idle)
  BY <1>1 DEF HeadAtLeast
<1>4. UNCHANGED <<chainVars, stored, synced, kept, cache>>
  BY DEF HeadAtLeast
<1>5. CacheHolds'
  BY <1>4 DEF ReadsInv, CacheHolds, chainVars
<1>6. CASE h >= c.min
  <2>1. PICK d : d = [c EXCEPT !.phase = next, !.head = h]
    OBVIOUS
  <2>2. h \in 0 .. MaxBlock /\ next \in Phase
    BY <1>0, ReadsNumbers DEF NodeHeight, Phase
  <2>3. /\ d \in Call /\ d.phase = next /\ d.head = h
        /\ d.short = c.short
        /\ d.kind = c.kind /\ d.min = c.min /\ d.select = c.select /\ d.since = c.since
        /\ d.found = c.found /\ d.fresh = c.fresh /\ d.owner = c.owner
        /\ d.block = c.block /\ d.reg = c.reg /\ d.was = c.was /\ d.owed = c.owed
    BY <1>2, <2>1, <2>2 DEF Call
  <2>4. d.owed => WriteIsAhead(d)
    BY <1>2, <2>3 DEF CallHolds, WriteIsAhead, Running, Whole
  <2>5. CallHolds(d)
    BY <1>2, <1>6, <2>3, <2>4
    DEF CallHolds, Running, ListOwes, Whole, OwnerRead, Answers, Listing, LookingUp, Wanted
  <2> QED
    BY <1>3, <1>4, <1>5, <1>6, <2>1, <2>5, OneCall DEF HighEnough, Set
<1>7. CASE ~ (h >= c.min) /\ c.phase = first
  <2>1. PICK d : d = [c EXCEPT !.phase = again]
    OBVIOUS
  <2>2. again \in Phase
    BY DEF Phase
  <2>3. /\ d \in Call /\ d.phase = again
        /\ d.short = c.short
        /\ d.kind = c.kind /\ d.min = c.min /\ d.select = c.select /\ d.since = c.since
        /\ d.found = c.found /\ d.fresh = c.fresh /\ d.owner = c.owner
        /\ d.block = c.block /\ d.reg = c.reg /\ d.was = c.was /\ d.owed = c.owed
    BY <1>2, <2>1, <2>2 DEF Call
  <2>4. d.owed => WriteIsAhead(d)
    BY <1>2, <2>3 DEF CallHolds, WriteIsAhead, Running, Whole
  <2>5. CallHolds(d)
    BY <1>2, <1>7, <2>3, <2>4
    DEF CallHolds, Running, ListOwes, Whole, OwnerRead, Answers, Listing, LookingUp, Wanted
  <2> QED
    BY <1>3, <1>4, <1>5, <1>7, <2>1, <2>5, OneCall DEF HighEnough, Set
<1>8. CASE ~ (h >= c.min) /\ c.phase # first
  <2>1. Set(r, Idle)
    BY <1>3, <1>8 DEF HighEnough
  <2> QED
    BY <1>4, <2>1, BecomesIdle
<1> QED
  BY <1>6, <1>7, <1>8

LEMMA ReadCursorKeeps ==
  ASSUME ReadsInv, NEW r \in Request, NEW from, NEW next,
         \/ from = "cursor" /\ next = "events"
         \/ from = "regCursor" /\ next = "regTail",
         ReadCursor(r, from, next)
  PROVE  ReadsInv'
<1>0. /\ ChainHolds /\ head \in Nat /\ head <= MaxBlock /\ call \in [Request -> Call]
      /\ stored \in Nat /\ synced \in Nat /\ synced <= stored /\ stored <= head
  BY ReadsNumbers DEF ReadsInv, ChainHolds
<1>1. PICK c : c = call[r]
  OBVIOUS
<1>2. c \in Call /\ CallHolds(c) /\ c.phase = from
  BY <1>1 DEF ReadsInv, ReadCursor
<1>3. PICK d : d = [c EXCEPT !.phase = next, !.reached = synced,
                             !.end = Lesser(c.head, synced + TailChunks * Chunk)]
  OBVIOUS
<1>4. UNCHANGED <<chainVars, stored, synced, kept, cache>>
      /\ call' = [call EXCEPT ![r] = d]
  BY <1>1, <1>3 DEF ReadCursor, Set
<1>5. CacheHolds'
  BY <1>4 DEF ReadsInv, CacheHolds, chainVars
<1>6. Lesser(c.head, synced + TailChunks * Chunk) \in 0 .. MaxBlock
  <2>1. c.head \in 0 .. MaxBlock
    BY <1>2 DEF Call
  <2>2. synced + TailChunks * Chunk \in Nat
    BY <1>0, ReadsNumbers
  <2> QED
    BY <2>1, <2>2, ReadsNumbers DEF Lesser
<1>7. synced \in 0 .. MaxBlock /\ next \in Phase
  BY <1>0, ReadsNumbers DEF Phase
<1>8. /\ d \in Call /\ d.phase = next /\ d.reached = synced
      /\ d.short = c.short
      /\ d.kind = c.kind /\ d.min = c.min /\ d.select = c.select /\ d.since = c.since
      /\ d.found = c.found /\ d.fresh = c.fresh /\ d.owner = c.owner /\ d.head = c.head
      /\ d.block = c.block /\ d.reg = c.reg /\ d.was = c.was /\ d.owed = c.owed
  BY <1>2, <1>3, <1>6, <1>7 DEF Call
<1>9. d.owed => WriteIsAhead(d)
  <2> SUFFICES ASSUME c.owed PROVE WriteIsAhead(d)
    BY <1>8
  <2>1. PICK b \in 1 .. head :
          /\ HeldFrom(b)
          /\ c.kind = "lookup" => b <= c.min
          /\ c.kind = "list" =>
               /\ b <= c.since /\ c.since <= head
               /\ c.since <= c.min \/ c.since <= synced
    BY <1>2 DEF CallHolds, WriteIsAhead, Running, Whole
  <2>2. next = "events" => c.select
    BY <1>2 DEF CallHolds, Listing
  <2>3. b <= synced => b <= stored
    BY <1>0
  <2> QED
    BY <1>8, <2>1, <2>2, <2>3 DEF WriteIsAhead, Whole
<1>10. CallHolds(d)
  BY <1>2, <1>8, <1>9
  DEF CallHolds, Running, ListOwes, Whole, OwnerRead, Answers, Listing, LookingUp, Wanted
<1> QED
  BY <1>4, <1>5, <1>10, OneCall

(* Where the write of a list without minBlock is: behind the cursor.       *)
LEMMA BehindTheCursor ==
  ASSUME ChainHolds, NEW c, CallHolds(c), Running(c), c.owed, c.kind = "list", c.min = 0
  PROVE  \E b \in 1 .. head :
           /\ HeldFrom(b) /\ b <= c.since /\ c.since <= synced /\ b <= stored
           /\ c.phase = "events" => c.since <= c.reached /\ b <= c.reached
<1>0. /\ synced \in Nat /\ stored \in Nat /\ synced <= stored
      /\ c.since \in Nat /\ c.reached \in Nat
  BY ReadsNumbers DEF ChainHolds, CallHolds, Call
<1>1. PICK b \in 1 .. head :
        /\ HeldFrom(b)
        /\ b <= c.since /\ c.since <= head
        /\ c.since <= c.min \/ c.since <= synced
        /\ c.phase = "events" => c.since <= c.min \/ c.since <= c.reached
  BY DEF CallHolds, WriteIsAhead
<1>2. ~ (c.since <= c.min)
  BY <1>0, <1>1
<1> QED
  BY <1>0, <1>1, <1>2

LEMMA SelectStoredKeeps ==
  ASSUME ReadsInv, NEW r \in Request, SelectStored(r)
  PROVE  ReadsInv'
<1>0. /\ ChainHolds /\ head \in Nat /\ stored \in Nat /\ call \in [Request -> Call]
  BY ReadsNumbers DEF ReadsInv, ChainHolds
<1>1. PICK c : c = call[r]
  OBVIOUS
<1>2. c \in Call /\ CallHolds(c) /\ c.phase = "events" /\ c.select
  BY <1>1 DEF ReadsInv, SelectStored, AfterCursor
<1>3. PICK f \in BOOLEAN : f = \E b \in 1 .. stored : TransferredTo(Me, b)
  OBVIOUS
<1>4. PICK d : d = [c EXCEPT !.select = FALSE, !.found = @ \/ f]
  OBVIOUS
<1>5. /\ UNCHANGED <<chainVars, stored, synced, kept, cache>>
      /\ call' = [call EXCEPT ![r] = d]
  BY <1>1, <1>3, <1>4 DEF SelectStored, Set
<1>6. CacheHolds'
  BY <1>5 DEF ReadsInv, CacheHolds, chainVars
<1>7. /\ d \in Call /\ d.phase = "events" /\ d.reached = c.reached
      /\ d.short = c.short
      /\ d.kind = c.kind /\ d.min = c.min /\ ~ d.select /\ d.since = c.since
      /\ d.found = (c.found \/ f) /\ d.fresh = c.fresh /\ d.owner = c.owner /\ d.head = c.head
      /\ d.block = c.block /\ d.reg = c.reg /\ d.was = c.was /\ d.owed = c.owed
  BY <1>2, <1>4 DEF Call
<1>8. ASSUME NEW b \in 1 .. head, HeldFrom(b), b <= stored PROVE f
  <2>1. b \in 1 .. stored /\ b \in b .. head
    BY <1>0, <1>8
  <2> QED
    BY <1>3, <1>8, <2>1 DEF HeldFrom, TransferredTo
<1>9. d.owed => WriteIsAhead(d)
  <2> SUFFICES ASSUME c.owed PROVE WriteIsAhead(d)
    BY <1>7
  <2>1. PICK b \in 1 .. head :
          /\ HeldFrom(b)
          /\ c.kind = "lookup" => b <= c.min
          /\ c.kind = "list" =>
               /\ b <= c.since /\ c.since <= head
               /\ c.since <= c.min \/ c.since <= synced
               /\ c.since <= c.min \/ c.since <= c.reached
               /\ b <= c.reached /\ Whole(c) => c.found \/ c.fresh \/ (c.select /\ b <= stored)
    BY <1>2 DEF CallHolds, WriteIsAhead, Running, Whole
  <2> QED
    BY <1>7, <1>8, <2>1 DEF WriteIsAhead, Whole
<1>10. c.kind = "list" /\ c.owed /\ c.min = 0 => f
  BY <1>0, <1>2, <1>8, BehindTheCursor DEF Running
<1>11. CallHolds(d)
  BY <1>2, <1>7, <1>9, <1>10
  DEF CallHolds, Running, ListOwes, Whole, OwnerRead, Answers, Listing, LookingUp, Wanted
<1> QED
  BY <1>5, <1>6, <1>11, OneCall

(* A chunk is whole, or the call keeps that it was short.                  *)
LEMMA TailChunkKeeps ==
  ASSUME ReadsInv, NEW r \in Request, TailChunk(r)
  PROVE  ReadsInv'
<1>0. /\ ChainHolds /\ head \in Nat /\ head <= MaxBlock /\ call \in [Request -> Call]
      /\ Chunk \in Nat
  BY ReadsNumbers DEF ReadsInv, ChainHolds
<1>1. PICK c : c = call[r]
  OBVIOUS
<1>2. /\ c \in Call /\ CallHolds(c) /\ c.phase \in {"events", "regTail"}
      /\ c.reached < c.end /\ c.reached \in 0 .. MaxBlock /\ c.end \in 0 .. MaxBlock
  BY <1>1 DEF ReadsInv, TailChunk, InTail, Call
<1>3. PICK to : to = Lesser(c.reached + Chunk, c.end)
  OBVIOUS
<1>4. /\ to \in 0 .. MaxBlock /\ c.reached <= to /\ to <= c.end
  BY <1>0, <1>2, <1>3, ReadsNumbers DEF Lesser
<1>5. PICK h \in NodeHeight :
        Set(r, [c EXCEPT
                 !.reached = to,
                 !.fresh = @ \/ (c.phase = "events"
                    /\ \E b \in c.reached + 1 .. Lesser(to, h) : TransferredTo(Me, b)),
                 !.freshReg = IF c.phase = "regTail" /\ @ = None
                     THEN RegistrationIn(c.reached + 1 .. Lesser(to, h)) ELSE @,
                 !.short = @ \/ (c.phase = "events" /\ c.min > 0 /\ h < to)])
  BY <1>1, <1>3 DEF TailChunk
<1>6. h \in Nat /\ h <= head /\ Lesser(to, h) \in Nat /\ Lesser(to, h) <= to
      /\ Lesser(to, h) <= head /\ (h >= to => Lesser(to, h) = to)
  BY <1>0, <1>4, <1>5, ReadsNumbers DEF NodeHeight, Lesser
<1>7. PICK f \in BOOLEAN :
        f = (c.phase = "events" /\ \E b \in c.reached + 1 .. Lesser(to, h) : TransferredTo(Me, b))
  OBVIOUS
<1>8. PICK g : g = IF c.phase = "regTail" /\ c.freshReg = None
                   THEN RegistrationIn(c.reached + 1 .. Lesser(to, h)) ELSE c.freshReg
  OBVIOUS
<1>9. g \in Registration \cup {None}
  <2>1. c.reached + 1 .. Lesser(to, h) \subseteq Height
    BY <1>0, <1>2, <1>6, ReadsNumbers DEF Height
  <2> QED
    BY <1>0, <1>2, <1>8, <2>1, RegistrationFound DEF Call
<1>18. PICK k \in BOOLEAN : k = (c.phase = "events" /\ c.min > 0 /\ h < to)
  OBVIOUS
<1>10. PICK d : d = [c EXCEPT !.reached = to, !.fresh = @ \/ f, !.freshReg = g,
                              !.short = @ \/ k]
  OBVIOUS
<1>11. call' = [call EXCEPT ![r] = d]
  BY <1>5, <1>6, <1>7, <1>8, <1>10, <1>18 DEF Set
<1>12. /\ d \in Call /\ d.phase = c.phase /\ d.reached = to
       /\ d.kind = c.kind /\ d.min = c.min /\ d.select = c.select /\ d.since = c.since
       /\ d.found = c.found /\ d.fresh = (c.fresh \/ f) /\ d.owner = c.owner
       /\ d.head = c.head /\ d.block = c.block /\ d.reg = c.reg /\ d.was = c.was
       /\ d.owed = c.owed /\ d.short = (c.short \/ k)
  BY <1>2, <1>4, <1>9, <1>10, <1>18 DEF Call
<1>13. ASSUME h >= to, NEW b \in 1 .. head, HeldFrom(b), c.phase = "events",
              b <= to, ~ (b <= c.reached)
       PROVE  f
  <2>1. b \in c.reached + 1 .. Lesser(to, h) /\ b \in b .. head
    BY <1>0, <1>2, <1>4, <1>6, <1>13
  <2> QED
    BY <1>7, <1>13, <2>1 DEF HeldFrom, TransferredTo
<1>14. d.owed => WriteIsAhead(d)
  <2> SUFFICES ASSUME c.owed PROVE WriteIsAhead(d)
    BY <1>12
  <2>1. PICK b \in 1 .. head :
          /\ HeldFrom(b)
          /\ c.kind = "lookup" => b <= c.min
          /\ c.kind = "list" =>
               /\ b <= c.since /\ c.since <= head
               /\ c.since <= c.min \/ c.since <= synced
               /\ c.phase = "events" =>
                    /\ c.since <= c.min \/ c.since <= c.reached
                    /\ b <= c.reached /\ Whole(c) => c.found \/ c.fresh \/ (c.select /\ b <= stored)
    BY <1>2 DEF CallHolds, WriteIsAhead, Running, Whole
  <2>2. /\ c.since <= c.reached => c.since <= to
        /\ c.kind = "list" /\ c.phase = "events" /\ c.min = 0 => b <= c.reached
    BY <1>2, <1>4, <2>1, ReadsNumbers DEF Call
  <2>3. c.kind = "list" /\ c.phase = "events" /\ b <= to /\ Whole(d)
          => c.found \/ c.fresh \/ f \/ (c.select /\ b <= stored)
    <3>1. Whole(d) => Whole(c)
      BY <1>2, <1>12 DEF Whole, Call
    <3>2. Whole(d) /\ c.phase = "events" => c.min = 0 \/ h >= to
      BY <1>2, <1>4, <1>6, <1>12, <1>18, ReadsNumbers DEF Whole, Call
    <3> QED
      BY <1>13, <2>1, <2>2, <3>1, <3>2
  <2> QED
    BY <1>12, <2>1, <2>2, <2>3 DEF WriteIsAhead
<1>15. CallHolds(d)
  BY <1>2, <1>12, <1>14
  DEF CallHolds, Running, ListOwes, Whole, OwnerRead, Answers, Listing, LookingUp, Wanted
<1>16. UNCHANGED <<chainVars, stored, synced, kept, cache>>
  BY DEF TailChunk
<1>17. CacheHolds'
  BY <1>16 DEF ReadsInv, CacheHolds, chainVars
<1> QED
  BY <1>11, <1>15, <1>16, <1>17, OneCall

LEMMA TailFailsKeeps ==
  ASSUME ReadsInv, NEW r \in Request, TailFails(r)
  PROVE  ReadsInv'
<1>0. /\ ChainHolds /\ head \in Nat /\ stored \in Nat /\ call \in [Request -> Call]
  BY ReadsNumbers DEF ReadsInv, ChainHolds
<1>1. PICK c : c = call[r]
  OBVIOUS
<1>2. /\ c \in Call /\ CallHolds(c) /\ c.phase \in {"events", "regTail"} /\ c.min = 0
      /\ c.reached < c.end /\ c.reached \in Nat /\ c.end \in Nat
  BY <1>1, ReadsNumbers DEF ReadsInv, TailFails, InTail, Call
<1>3. PICK d : d = [c EXCEPT !.reached = c.end, !.freshReg = None, !.fresh = FALSE]
  OBVIOUS
<1>4. /\ UNCHANGED <<chainVars, stored, synced, kept, cache>>
      /\ call' = [call EXCEPT ![r] = d]
  BY <1>1, <1>3 DEF TailFails, Set
<1>5. CacheHolds'
  BY <1>4 DEF ReadsInv, CacheHolds, chainVars
<1>6. /\ d \in Call /\ d.phase = c.phase /\ d.reached = c.end
      /\ d.short = c.short
      /\ d.kind = c.kind /\ d.min = c.min /\ d.select = c.select /\ d.since = c.since
      /\ d.found = c.found /\ d.fresh = FALSE /\ d.owner = c.owner /\ d.head = c.head
      /\ d.block = c.block /\ d.reg = c.reg /\ d.was = c.was /\ d.owed = c.owed
  BY <1>2, <1>3 DEF Call
<1>7. CASE c.kind = "lookup" \/ ~ c.owed
  <2>1. d.owed => WriteIsAhead(d)
    BY <1>2, <1>6, <1>7 DEF CallHolds, WriteIsAhead, Running, Whole
  <2>2. CallHolds(d)
    BY <1>2, <1>6, <1>7, <2>1
    DEF CallHolds, Running, ListOwes, Whole, OwnerRead, Answers, Listing, LookingUp, Wanted
  <2> QED
    BY <1>4, <1>5, <2>2, OneCall
<1>8. CASE c.kind = "list" /\ c.owed
  <2>1. PICK b \in 1 .. head :
          /\ HeldFrom(b) /\ b <= c.since /\ c.since <= synced /\ b <= stored
          /\ c.phase = "events" => c.since <= c.reached /\ b <= c.reached
    BY <1>0, <1>2, <1>8, BehindTheCursor DEF Running
  <2>2. c.phase = "events" => c.found \/ c.select
    BY <1>2, <1>8 DEF CallHolds, ListOwes
  <2>3. c.phase = "events" => c.since <= c.end
    BY <1>2, <2>1, ReadsNumbers DEF Call
  <2>4. c.since <= head
    BY <1>2, <1>8 DEF CallHolds, WriteIsAhead, Running, Whole
  <2>5. WriteIsAhead(d)
    BY <1>6, <1>8, <2>1, <2>2, <2>3, <2>4 DEF WriteIsAhead, Whole
  <2>6. CallHolds(d)
    BY <1>2, <1>6, <1>8, <2>5
    DEF CallHolds, Running, ListOwes, Whole, OwnerRead, Answers, Listing, LookingUp, Wanted
  <2> QED
    BY <1>4, <1>5, <2>6, OneCall
<1> QED
  BY <1>2, <1>7, <1>8 DEF Call

LEMMA ListCandidatesKeeps ==
  ASSUME ReadsInv, NEW r \in Request, ListCandidates(r)
  PROVE  ReadsInv'
<1>0. /\ ChainHolds /\ head \in Nat /\ call \in [Request -> Call]
  BY ReadsNumbers DEF ReadsInv, ChainHolds
<1>1. PICK c : c = call[r]
  OBVIOUS
<1>2. /\ c \in Call /\ CallHolds(c) /\ c.phase = "events" /\ ~ c.select
      /\ c.reached >= c.end /\ c.reached \in Nat /\ c.end \in Nat
      /\ c.min \in Nat /\ c.since \in Nat
  BY <1>1, ReadsNumbers DEF ReadsInv, ListCandidates, TailRead, Call
<1>3. /\ UNCHANGED <<chainVars, stored, synced, kept, cache>>
      /\ Set(r, CASE StoppedShort(r) -> Idle
                  [] ~ StoppedShort(r) /\ (c.found \/ c.fresh)
                       -> [Done(r) EXCEPT !.phase = "names"]
                  [] OTHER -> [Done(r) EXCEPT !.phase = "answered"])
  BY <1>1 DEF ListCandidates
<1>4. CacheHolds'
  BY <1>3 DEF ReadsInv, CacheHolds, chainVars
<1>5. CASE StoppedShort(r)
  <2>1. Set(r, Idle)
    BY <1>3, <1>5
  <2> QED
    BY <1>3, <2>1, BecomesIdle
<1>6. CASE ~ StoppedShort(r)
  <2>1. PICK p \in {"names", "answered"} :
          p = IF c.found \/ c.fresh THEN "names" ELSE "answered"
    OBVIOUS
  <2>2. PICK d : d = [[c EXCEPT !.head = 0, !.reached = 0, !.end = 0, !.freshReg = None,
                                !.found = @ \/ c.fresh, !.fresh = FALSE] EXCEPT !.phase = p]
    OBVIOUS
  <2>3. call' = [call EXCEPT ![r] = d]
    BY <1>1, <1>3, <1>6, <2>1, <2>2 DEF Set, Done
  <2>4. /\ d \in Call /\ d.phase = p
        /\ d.short = c.short
        /\ d.kind = c.kind /\ d.min = c.min /\ d.select = c.select /\ d.since = c.since
        /\ d.found = (c.found \/ c.fresh) /\ d.fresh = FALSE /\ d.owner = c.owner
        /\ d.block = c.block /\ d.reg = c.reg /\ d.was = c.was /\ d.owed = c.owed
    <3>1. p \in Phase /\ 0 \in 0 .. MaxBlock
      BY <2>1, ReadsNumbers DEF Phase
    <3>2. c.found \in BOOLEAN /\ c.fresh \in BOOLEAN
      BY <1>2 DEF Call
    <3>3. (c.found \/ c.fresh) \in BOOLEAN
      BY <3>2
    <3> QED
      BY <1>2, <2>2, <3>1, <3>3 DEF Call
  <2>5. c.kind = "list" /\ c.reg = None
    BY <1>2 DEF CallHolds, Listing
  <2>6. c.min = 0 \/ c.min <= c.reached
    BY <1>1, <1>2, <1>6 DEF StoppedShort
  <2>7. c.owed => WriteIsAhead(c)
    BY <1>2 DEF CallHolds, Running
  <2>8. c.owed /\ Whole(c) => c.found \/ c.fresh
    <3> SUFFICES ASSUME c.owed, Whole(c) PROVE c.found \/ c.fresh
      OBVIOUS
    <3>1. PICK b \in 1 .. head :
            /\ b <= c.since
            /\ c.since <= c.min \/ c.since <= c.reached
            /\ b <= c.reached /\ Whole(c) => c.found \/ c.fresh \/ (c.select /\ b <= stored)
      BY <1>2, <2>5, <2>7 DEF WriteIsAhead, Whole
    <3>2. b <= c.reached
      BY <1>2, <2>6, <3>1
    <3> QED
      BY <1>2, <3>1, <3>2
  <2>9. d.owed /\ Running(d) => WriteIsAhead(d)
    BY <2>1, <2>4, <2>7 DEF WriteIsAhead, Running
  <2>10. CallHolds(d)
    BY <1>2, <2>1, <2>4, <2>5, <2>8, <2>9
    DEF CallHolds, Running, ListOwes, Whole, OwnerRead, Answers, Listing, LookingUp
  <2> QED
    BY <1>3, <1>4, <2>3, <2>10, OneCall
<1> QED
  BY <1>5, <1>6

(* An answer from an owner that was read at c.block.                       *)
LEMMA AnswerKeeps ==
  ASSUME ReadsInv, UNCHANGED <<chainVars, stored, synced>>,
         NEW r \in Request, NEW c \in Call, Answer(r, c),
         kept' \in Registration \cup {None},
         c.min <= head, c.block <= head,
         c.block > 0 /\ fork[c.block] = 0 => owner[c.block] = c.owner,
         c.kind = "list" /\ c.owner # Nobody /\ c.reg # None => c.was,
         c.kind = "lookup" /\ c.owed => c.owner = Me,
         c.kind = "list" /\ c.owed =>
           (Whole(c) => c.found) /\ (c.min = 0 => c.owner = Me /\ c.reg # None)
  PROVE  ReadsInv'
<1>0. ChainHolds /\ CacheHolds
  BY DEF ReadsInv
<1>1. PICK d : d = [c EXCEPT !.phase = "answered", !.head = 0, !.reached = 0, !.end = 0,
                             !.freshReg = None, !.block = 0]
  OBVIOUS
<1>2. /\ d \in Call /\ d.phase = "answered" /\ d.block = 0
      /\ d.short = c.short
      /\ d.kind = c.kind /\ d.min = c.min /\ d.select = c.select /\ d.since = c.since
      /\ d.found = c.found /\ d.owner = c.owner
      /\ d.reg = c.reg /\ d.was = c.was /\ d.owed = c.owed
  <2>1. "answered" \in Phase /\ 0 \in 0 .. MaxBlock
    BY ReadsNumbers DEF Phase
  <2> QED
    BY <1>1, <2>1 DEF Call
<1>3. CallHolds(d)
  BY <1>0, <1>2
  DEF CallHolds, ChainHolds, Running, ListOwes, Whole, OwnerRead, Answers, Listing, LookingUp
<1>4. [owner |-> c.owner, block |-> c.block] \in Lookup
  BY DEF Call, Lookup
<1>5. CacheHolds'
  <2>1. CASE c.kind = "lookup"
    <3>1. PICK l : l = [owner |-> c.owner, block |-> c.block]
      OBVIOUS
    <3>2. cache' = l /\ l \in Lookup /\ l.block = c.block /\ l.owner = c.owner
      BY <1>4, <2>1, <3>1 DEF Answer
    <3> QED
      BY <3>2 DEF CacheHolds, chainVars
  <2>2. CASE c.kind # "lookup"
    BY <1>0, <2>2 DEF Answer, CacheHolds, chainVars
  <2> QED
    BY <2>1, <2>2
<1> QED
  BY <1>1, <1>3, <1>5, OneCall DEF Answer, Set

(* What a node says of the owner: nothing it can have forgotten, since the *)
(* cursor keeps further from the head than any node.                       *)
LEMMA OwnerSeen ==
  ASSUME ReadsInv, NEW r \in Request, NEW c, c = call[r],
         c.phase \in {"names", "namesAgain"}, NEW h \in NodeHeight, h >= c.min
  PROVE  /\ h \in 0 .. head /\ OwnerAt(h) \in Owner
         /\ OwnerAt(h) = Me /\ c.kind = "list" => c.was
         /\ c.kind = "lookup" /\ c.owed => OwnerAt(h) = Me
         /\ c.kind = "list" /\ c.owed /\ Whole(c) => c.found
         /\ c.kind = "list" /\ c.owed /\ c.min = 0 => OwnerAt(h) = Me
<1>0. /\ ChainHolds /\ head \in Nat /\ synced \in Nat /\ stored \in Nat
      /\ synced <= stored /\ h \in 0 .. head /\ h >= head - Lag
  BY ReadsNumbers DEF ReadsInv, ChainHolds, NodeHeight
<1>1. c \in Call /\ CallHolds(c) /\ Running(c) /\ c.min \in Nat
  BY ReadsNumbers DEF ReadsInv, Running, Call
<1>2. OwnerAt(h) \in Owner
  BY <1>0, OwnersTyped
<1>3. ASSUME NEW b \in 1 .. head, HeldFrom(b), b <= h PROVE OwnerAt(h) = Me
  <2>1. h \in b .. head /\ h # 0
    BY <1>0, <1>3
  <2> QED
    BY <1>3, <2>1 DEF HeldFrom, OwnerAt
<1>4. c.kind = "lookup" /\ c.owed => OwnerAt(h) = Me
  <2> SUFFICES ASSUME c.kind = "lookup", c.owed PROVE OwnerAt(h) = Me
    OBVIOUS
  <2>1. PICK b \in 1 .. head : HeldFrom(b) /\ b <= c.min
    BY <1>1 DEF CallHolds, WriteIsAhead
  <2>2. b <= h
    BY <1>0, <1>1, <2>1
  <2> QED
    BY <1>3, <2>1, <2>2
<1>5. c.kind = "list" /\ c.owed /\ c.min = 0 => OwnerAt(h) = Me
  <2> SUFFICES ASSUME c.kind = "list", c.owed, c.min = 0 PROVE OwnerAt(h) = Me
    OBVIOUS
  <2>1. PICK b \in 1 .. head : HeldFrom(b) /\ b <= c.since /\ c.since <= synced /\ b <= stored
    BY <1>0, <1>1, BehindTheCursor
  <2>2. stored + Confirmations <= head
    BY <1>0, <2>1 DEF ChainHolds
  <2>3. b <= h
    BY <1>0, <2>1, <2>2, ReadsNumbers
  <2> QED
    BY <1>3, <2>1, <2>3
<1>6. c.kind = "list" /\ c.owed /\ Whole(c) => c.found
  BY <1>1 DEF CallHolds, ListOwes, Whole, Listing
<1>7. OwnerAt(h) = Me /\ c.kind = "list" => c.was
  BY <1>1 DEF CallHolds
<1> QED
  BY <1>0, <1>2, <1>4, <1>5, <1>6, <1>7

LEMMA ReadNamesKeeps ==
  ASSUME ReadsInv, NEW r \in Request, ReadNames(r)
  PROVE  ReadsInv'
<1>0. /\ ChainHolds /\ CacheHolds /\ head \in Nat /\ head <= MaxBlock
      /\ call \in [Request -> Call]
  BY ReadsNumbers DEF ReadsInv, ChainHolds
<1>1. PICK b : b = call[r]
  OBVIOUS
<1>2. b \in Call /\ CallHolds(b) /\ b.phase \in {"names", "namesAgain"} /\ Running(b)
  BY <1>1 DEF ReadsInv, ReadNames, Running
<1>3. PICK h \in NodeHeight :
       LET c == [b EXCEPT !.owner = OwnerAt(h), !.reg = kept,
                          !.block = IF b.kind = "lookup" THEN h ELSE 0] IN
       CASE h < c.min ->
              /\ Set(r, IF c.phase = "names" THEN [b EXCEPT !.phase = "namesAgain"]
                        ELSE Idle)
              /\ UNCHANGED cache
         [] h >= c.min /\ Wanted(c) /\ kept = None ->
              Set(r, [c EXCEPT !.phase = "stored"]) /\ UNCHANGED cache
         [] h >= c.min /\ Wanted(c) /\ kept # None -> Answer(r, c)
         [] OTHER -> Answer(r, [c EXCEPT !.reg = None])
  BY <1>1 DEF ReadNames
<1>4. UNCHANGED <<chainVars, stored, synced, kept>>
  BY DEF ReadNames
<1>5. PICK c : c = [b EXCEPT !.owner = OwnerAt(h), !.reg = kept,
                             !.block = IF b.kind = "lookup" THEN h ELSE 0]
  OBVIOUS
<1>6. h \in 0 .. head /\ h \in Nat /\ OwnerAt(h) \in Owner /\ b.min \in Nat
  BY <1>0, <1>2, OwnersTyped, ReadsNumbers DEF Call
<1>7. /\ c \in Call /\ c.owner = OwnerAt(h) /\ c.reg = kept
      /\ c.block = (IF b.kind = "lookup" THEN h ELSE 0)
      /\ c.phase = b.phase
      /\ c.short = b.short
      /\ c.kind = b.kind /\ c.min = b.min /\ c.select = b.select /\ c.since = b.since
      /\ c.found = b.found /\ c.fresh = b.fresh /\ c.head = b.head
      /\ c.was = b.was /\ c.owed = b.owed
  <2>1. (IF b.kind = "lookup" THEN h ELSE 0) \in 0 .. MaxBlock
    BY <1>0, <1>6, ReadsNumbers
  <2>2. kept \in Registration \cup {None}
    BY <1>0 DEF CacheHolds
  <2> QED
    BY <1>2, <1>5, <1>6, <2>1, <2>2 DEF Call
<1>8. CASE h < b.min /\ b.phase = "names"
  <2>1. PICK d : d = [b EXCEPT !.phase = "namesAgain"]
    OBVIOUS
  <2>2. call' = [call EXCEPT ![r] = d] /\ UNCHANGED cache
    BY <1>3, <1>5, <1>6, <1>7, <1>8, <2>1 DEF Set
  <2>3. "namesAgain" \in Phase
    BY DEF Phase
  <2>4. /\ d \in Call /\ d.phase = "namesAgain"
        /\ d.short = b.short
        /\ d.kind = b.kind /\ d.min = b.min /\ d.select = b.select /\ d.since = b.since
        /\ d.found = b.found /\ d.fresh = b.fresh /\ d.owner = b.owner
        /\ d.block = b.block /\ d.reg = b.reg /\ d.was = b.was /\ d.owed = b.owed
    BY <1>2, <2>1, <2>3 DEF Call
  <2>5. d.owed => WriteIsAhead(d)
    BY <1>2, <1>8, <2>4 DEF CallHolds, WriteIsAhead, Running, Whole
  <2>6. CallHolds(d)
    BY <1>2, <1>8, <2>4, <2>5
    DEF CallHolds, Running, ListOwes, Whole, OwnerRead, Answers, Listing, LookingUp, Wanted
  <2>7. CacheHolds'
    BY <1>0, <1>4, <2>2 DEF CacheHolds, chainVars
  <2> QED
    BY <1>4, <2>2, <2>6, <2>7, OneCall
<1>9. CASE h < b.min /\ b.phase # "names"
  <2>1. Set(r, Idle) /\ UNCHANGED cache
    BY <1>3, <1>5, <1>6, <1>7, <1>9
  <2> QED
    BY <1>4, <2>1, BecomesIdle
<1>10. CASE ~ (h < b.min)
  <2>0. /\ h >= b.min
        /\ OwnerAt(h) = Me /\ b.kind = "list" => b.was
        /\ b.kind = "lookup" /\ b.owed => OwnerAt(h) = Me
        /\ b.kind = "list" /\ b.owed /\ Whole(b) => b.found
        /\ b.kind = "list" /\ b.owed /\ b.min = 0 => OwnerAt(h) = Me
    BY <1>1, <1>2, <1>6, <1>10, OwnerSeen
  <2>1. /\ c.block <= head
        /\ c.block > 0 /\ fork[c.block] = 0 => owner[c.block] = c.owner
    BY <1>0, <1>6, <1>7 DEF OwnerAt
  <2>2. b.min <= head /\ kept' \in Registration \cup {None} /\ kept' = kept
    BY <1>0, <1>2, <1>4 DEF CallHolds, CacheHolds
  <2>3. CASE Wanted(c) /\ kept = None
    <3>1. PICK d : d = [c EXCEPT !.phase = "stored"]
      OBVIOUS
    <3>2. call' = [call EXCEPT ![r] = d] /\ UNCHANGED cache
      BY <1>3, <1>5, <1>7, <1>10, <2>0, <2>3, <3>1 DEF Set
    <3>3. "stored" \in Phase
      BY DEF Phase
    <3>4. /\ d \in Call /\ d.phase = "stored"
          /\ d.short = b.short
          /\ d.kind = b.kind /\ d.min = b.min /\ d.select = b.select /\ d.since = b.since
          /\ d.found = b.found /\ d.fresh = b.fresh /\ d.owner = OwnerAt(h)
          /\ d.block = c.block /\ d.owner = c.owner /\ d.reg = None
          /\ d.was = b.was /\ d.owed = b.owed
      BY <1>7, <2>3, <3>1, <3>3 DEF Call
    <3>5. d.owed => WriteIsAhead(d)
      BY <1>2, <3>4 DEF CallHolds, WriteIsAhead, Running, Whole
    <3>6. OwnerRead(d)
      <4>1. Wanted(d)
        BY <1>7, <2>3, <3>4 DEF Wanted
      <4>2. d.kind = "list" => d.was
        BY <2>0, <3>4, <4>1 DEF Wanted, Holds
      <4> QED
        BY <2>0, <2>1, <3>4, <4>1, <4>2 DEF OwnerRead
    <3>7. CallHolds(d)
      BY <1>2, <2>0, <3>4, <3>5, <3>6
      DEF CallHolds, Running, ListOwes, Whole, Answers, Listing, LookingUp
    <3>8. CacheHolds'
      BY <1>0, <1>4, <3>2 DEF CacheHolds, chainVars
    <3> QED
      BY <1>4, <3>2, <3>7, <3>8, OneCall
  <2>4. CASE Wanted(c) /\ kept # None
    <3>1. Answer(r, c)
      BY <1>3, <1>5, <1>7, <1>10, <2>0, <2>4
    <3>2. c.kind = "list" => c.owner = Me /\ c.was
      BY <1>7, <2>0, <2>4 DEF Wanted, Holds
    <3> QED
      BY <1>4, <1>7, <2>0, <2>1, <2>2, <2>4, <3>1, <3>2, AnswerKeeps DEF Whole
  <2>5. CASE ~ Wanted(c)
    <3>1. PICK d : d = [c EXCEPT !.reg = None]
      OBVIOUS
    <3>2. Answer(r, d)
      BY <1>3, <1>5, <1>7, <1>10, <2>0, <2>5, <3>1
    <3>3. /\ d \in Call
          /\ d.short = b.short
          /\ d.kind = b.kind /\ d.min = b.min /\ d.owner = OwnerAt(h) /\ d.block = c.block
          /\ d.owner = c.owner /\ d.reg = None /\ d.was = b.was /\ d.owed = b.owed
          /\ d.found = b.found
      BY <1>7, <3>1 DEF Call
    <3>4. ~ (d.kind = "list" /\ d.owed /\ d.min = 0)
      BY <1>7, <2>0, <2>5, <3>3 DEF Wanted, Holds
    <3> QED
      BY <1>4, <2>0, <2>1, <2>2, <3>2, <3>3, <3>4, AnswerKeeps DEF Whole
  <2> QED
    BY <2>3, <2>4, <2>5
<1> QED
  BY <1>8, <1>9, <1>10

(* A registration that was found is remembered, and answered.              *)
LEMMA TakeKeeps ==
  ASSUME ReadsInv, NEW r \in Request, NEW reg \in Registration, Take(r, reg),
         UNCHANGED <<chainVars, stored, synced>>,
         call[r].phase \in {"stored"} \cup LookingUp
  PROVE  ReadsInv'
<1>1. PICK b : b = call[r]
  OBVIOUS
<1>2. b \in Call /\ CallHolds(b) /\ b.phase \in {"stored"} \cup LookingUp
  BY <1>1 DEF ReadsInv
<1>3. PICK c : c = [b EXCEPT !.reg = reg]
  OBVIOUS
<1>4. /\ c \in Call /\ c.reg = reg
      /\ c.short = b.short
      /\ c.kind = b.kind /\ c.min = b.min /\ c.owner = b.owner /\ c.block = b.block
      /\ c.found = b.found /\ c.was = b.was /\ c.owed = b.owed
  BY <1>2, <1>3 DEF Call
<1>5. Answer(r, c) /\ kept' = reg
  BY <1>1, <1>3 DEF Take
<1>6. reg # None
  BY ReadsConstants
<1>7. Wanted(b) /\ (b.kind = "list" => b.owner = Me /\ b.was)
      /\ (b.kind = "lookup" /\ b.owed => b.owner = Me)
  BY <1>2 DEF CallHolds, OwnerRead, Wanted, Holds
<1>8. b.kind = "list" /\ b.owed /\ Whole(b) => b.found
  BY <1>2 DEF CallHolds, ListOwes, Whole, Listing, LookingUp
<1>9. b.min <= head /\ b.block <= head
      /\ (b.block > 0 /\ fork[b.block] = 0 => owner[b.block] = b.owner)
  BY <1>2 DEF CallHolds, OwnerRead
<1> QED
  BY <1>4, <1>5, <1>6, <1>7, <1>8, <1>9, AnswerKeeps DEF Whole

LEMMA StoredRegistrationKeeps ==
  ASSUME ReadsInv, NEW r \in Request, NEW from, NEW next,
         \/ from = "stored" /\ next = "head"
         \/ from = "storedAgain" /\ next = "regCursor",
         StoredRegistration(r, from, next)
  PROVE  ReadsInv'
<1>0. /\ ChainHolds /\ CacheHolds /\ head \in Nat /\ head <= MaxBlock
      /\ stored \in Nat /\ stored <= head /\ call \in [Request -> Call]
  BY ReadsNumbers DEF ReadsInv, ChainHolds
<1>1. PICK c : c = call[r]
  OBVIOUS
<1>2. c \in Call /\ CallHolds(c) /\ c.phase = from
  BY <1>1 DEF ReadsInv, StoredRegistration
<1>3. UNCHANGED <<chainVars, stored, synced>>
  BY DEF StoredRegistration
<1>4. /\ RegistrationIn(1 .. stored) \in Registration \cup {None}
      /\ (\E b \in 1 .. stored : RegisteredAt(b)) => RegistrationIn(1 .. stored) # None
  <2>1. 1 .. stored \subseteq Height
    BY <1>0, ReadsNumbers DEF Height
  <2> QED
    BY <1>0, <2>1, RegistrationFound
<1>5. CASE RegistrationIn(1 .. stored) # None
  <2>1. PICK reg : reg = RegistrationIn(1 .. stored)
    OBVIOUS
  <2>2. Take(r, reg) /\ reg \in Registration
    BY <1>4, <1>5, <2>1 DEF StoredRegistration
  <2>3. call[r].phase \in {"stored"} \cup LookingUp
    BY <1>1, <1>2 DEF LookingUp
  <2> QED
    BY <1>3, <2>2, <2>3, TakeKeeps
<1>6. CASE RegistrationIn(1 .. stored) = None
  <2>1. PICK d : d = [c EXCEPT !.phase = next]
    OBVIOUS
  <2>2. call' = [call EXCEPT ![r] = d] /\ UNCHANGED <<kept, cache>>
    BY <1>1, <1>6, <2>1 DEF StoredRegistration, Set
  <2>3. next \in Phase
    BY DEF Phase
  <2>4. /\ d \in Call /\ d.phase = next
        /\ d.short = c.short
        /\ d.kind = c.kind /\ d.min = c.min /\ d.select = c.select /\ d.since = c.since
        /\ d.found = c.found /\ d.fresh = c.fresh /\ d.owner = c.owner
        /\ d.block = c.block /\ d.reg = c.reg /\ d.was = c.was /\ d.owed = c.owed
    BY <1>2, <2>1, <2>3 DEF Call
  <2>5. d.owed => WriteIsAhead(d)
    BY <1>2, <2>4 DEF CallHolds, WriteIsAhead, Running, Whole
  <2>6. ~ (c.kind = "list" /\ c.owed /\ c.min = 0)
    <3> SUFFICES ASSUME c.kind = "list", c.owed, c.min = 0 PROVE FALSE
      OBVIOUS
    <3>1. CASE from = "storedAgain"
      BY <1>2, <3>1 DEF CallHolds, ListOwes, LookingUp
    <3>2. CASE from = "stored"
      <4>1. PICK b \in 1 .. head : HeldFrom(b) /\ b <= stored
        BY <1>0, <1>2, <3>2, BehindTheCursor DEF Running
      <4>2. b \in b .. head /\ owner[b] = Me
        BY <1>0, <4>1 DEF HeldFrom
      <4>3. PICK x \in 1 .. b : RegisteredAt(x)
        BY <1>0, <4>1, <4>2, FirstRegistration, ReadsNumbers
      <4>4. x \in 1 .. stored
        BY <1>0, <4>1, <4>3
      <4> QED
        BY <1>4, <1>6, <4>3, <4>4
    <3> QED
      BY <3>1, <3>2
  <2>7. CallHolds(d)
    BY <1>2, <2>4, <2>5, <2>6
    DEF CallHolds, Running, ListOwes, Whole, OwnerRead, Answers, Listing, LookingUp, Wanted
  <2>8. CacheHolds'
    BY <1>0, <1>3, <2>2 DEF CacheHolds, chainVars
  <2> QED
    BY <1>3, <2>2, <2>7, <2>8, OneCall
<1> QED
  BY <1>5, <1>6

LEMMA TailRegistrationKeeps ==
  ASSUME ReadsInv, NEW r \in Request, TailRegistration(r)
  PROVE  ReadsInv'
<1>0. /\ ChainHolds /\ CacheHolds /\ call \in [Request -> Call]
  BY DEF ReadsInv
<1>1. PICK c : c = call[r]
  OBVIOUS
<1>2. c \in Call /\ CallHolds(c) /\ c.phase = "regTail"
  BY <1>1 DEF ReadsInv, TailRegistration
<1>3. UNCHANGED <<chainVars, stored, synced>>
  BY DEF TailRegistration
<1>4. CASE ~ StoppedShort(r) /\ c.freshReg # None
  <2>1. c.freshReg \in Registration /\ Take(r, c.freshReg)
    BY <1>1, <1>2, <1>4 DEF TailRegistration, Call
  <2>2. call[r].phase \in {"stored"} \cup LookingUp
    BY <1>1, <1>2 DEF LookingUp
  <2> QED
    BY <1>3, <2>1, <2>2, TakeKeeps
<1>5. CASE ~ (~ StoppedShort(r) /\ c.freshReg # None)
  <2>1. /\ Set(r, IF StoppedShort(r) \/ c.kind = "lookup" THEN Idle
                  ELSE [Done(r) EXCEPT !.phase = "answered"])
        /\ UNCHANGED <<kept, cache>>
    BY <1>1, <1>5 DEF TailRegistration
  <2>2. CASE StoppedShort(r) \/ c.kind = "lookup"
    <3>1. Set(r, Idle)
      BY <2>1, <2>2
    <3> QED
      BY <1>3, <2>1, <3>1, BecomesIdle
  <2>3. CASE ~ (StoppedShort(r) \/ c.kind = "lookup")
    <3>1. PICK d : d = [[c EXCEPT !.head = 0, !.reached = 0, !.end = 0, !.freshReg = None,
                           !.found = @ \/ c.fresh, !.fresh = FALSE] EXCEPT !.phase = "answered"]
      OBVIOUS
    <3>2. call' = [call EXCEPT ![r] = d]
      BY <1>1, <2>1, <2>3, <3>1 DEF Set, Done
    <3>3. "answered" \in Phase /\ 0 \in 0 .. MaxBlock
      BY ReadsNumbers DEF Phase
    <3>4. (c.found \/ c.fresh) \in BOOLEAN
      <4>1. c.found \in BOOLEAN /\ c.fresh \in BOOLEAN
        BY <1>2 DEF Call
      <4> QED
        BY <4>1
    <3>5. /\ d \in Call /\ d.phase = "answered"
          /\ d.short = c.short
          /\ d.kind = c.kind /\ d.min = c.min /\ d.select = c.select /\ d.since = c.since
          /\ d.found = (c.found \/ c.fresh) /\ d.owner = c.owner
          /\ d.block = c.block /\ d.reg = c.reg /\ d.was = c.was /\ d.owed = c.owed
      BY <1>2, <3>1, <3>3, <3>4 DEF Call
    <3>6. c.kind = "list" /\ c.reg = None
      BY <1>2, <2>3 DEF CallHolds, Call
    <3>7. c.owed => (Whole(c) => c.found) /\ c.min # 0
      BY <1>2, <3>6 DEF CallHolds, ListOwes, Whole, Listing, LookingUp
    <3>8. CallHolds(d)
      BY <1>2, <3>5, <3>6, <3>7
      DEF CallHolds, Running, ListOwes, Whole, OwnerRead, Answers, Listing, LookingUp
    <3>9. CacheHolds'
      BY <1>0, <1>3, <2>1 DEF CacheHolds, chainVars
    <3> QED
      BY <1>3, <3>2, <3>8, <3>9, OneCall
  <2> QED
    BY <2>2, <2>3
<1> QED
  BY <1>4, <1>5

LEMMA InitHolds == Init => ReadsInv
<1> SUFFICES ASSUME Init PROVE ReadsInv
  OBVIOUS
<1>1. ChainHolds
  BY ReadsNumbers DEF Init, ChainHolds, Height
<1>2. CacheHolds
  BY DEF Init, CacheHolds
<1>3. CallHolds(Idle) /\ Idle \in Call
  BY <1>1, IdleHolds DEF CallHolds
<1> QED
  BY <1>1, <1>2, <1>3 DEF Init, ReadsInv

LEMMA NextKeeps ==
  ASSUME ReadsInv, Next
  PROVE  ReadsInv'
<1>1. CASE Mine
  BY <1>1, MineKeeps
<1>2. CASE Reorg
  BY <1>2, ReorgKeeps
<1>3. CASE RowsStored
  BY <1>3, RowsStoredKeeps
<1>4. CASE CursorAdvances
  BY <1>4, CursorAdvancesKeeps
<1>5. CASE Forget
  BY <1>5, ForgetKeeps
<1>6. ASSUME NEW r \in Request, StartList(r) \/ StartLookup(r) PROVE ReadsInv'
  BY <1>6, StartListKeeps, StartLookupKeeps
<1>7. ASSUME NEW r \in Request, HeadAtLeast(r, "list", "listAgain", "cursor") PROVE ReadsInv'
  BY <1>7, HeadAtLeastKeeps
<1>8. ASSUME NEW r \in Request, HeadAtLeast(r, "head", "headAgain", "storedAgain")
      PROVE  ReadsInv'
  BY <1>8, HeadAtLeastKeeps
<1>9. ASSUME NEW r \in Request,
             ReadCursor(r, "cursor", "events") \/ ReadCursor(r, "regCursor", "regTail")
      PROVE  ReadsInv'
  BY <1>9, ReadCursorKeeps
<1>10. ASSUME NEW r \in Request, SelectStored(r) \/ TailChunk(r) \/ TailFails(r)
       PROVE  ReadsInv'
  BY <1>10, SelectStoredKeeps, TailChunkKeeps, TailFailsKeeps
<1>11. ASSUME NEW r \in Request, ListCandidates(r) \/ ReadNames(r) \/ TailRegistration(r)
       PROVE  ReadsInv'
  BY <1>11, ListCandidatesKeeps, ReadNamesKeeps, TailRegistrationKeeps
<1>12. ASSUME NEW r \in Request,
              \/ StoredRegistration(r, "stored", "head")
              \/ StoredRegistration(r, "storedAgain", "regCursor")
       PROVE  ReadsInv'
  BY <1>12, StoredRegistrationKeeps
<1>13. ASSUME NEW r \in Request, Fails(r) \/ Delivered(r) PROVE ReadsInv'
  BY <1>13, BecomesIdle DEF Fails, Delivered
<1> QED
  BY <1>1, <1>2, <1>3, <1>4, <1>5, <1>6, <1>7, <1>8, <1>9, <1>10, <1>11, <1>12, <1>13
  DEF Next

LEMMA ReadsInvSays ==
  ReadsInv => TypeOK /\ ReadsAreSound
<1> SUFFICES ASSUME ReadsInv
             PROVE  TypeOK /\ ReadsAreSound
  OBVIOUS
<1>1. TypeOK
  BY ReadsNumbers DEF ReadsInv, ChainHolds, CacheHolds, CallHolds, TypeOK
<1>2. NominatesWrite
  BY DEF ReadsInv, CallHolds, ListOwes, Whole, Listing, NominatesWrite
<1>3. ListShowsStored
  BY DEF ReadsInv, CallHolds, ListOwes, ListShowsStored, Answered, Listed, Holds
<1>4. NeverAWrongOne
  BY DEF ReadsInv, CallHolds, Answers, NeverAWrongOne, Answered
<1>5. LookupShowsWrite
  BY DEF ReadsInv, CallHolds, Answers, LookupShowsWrite, Answered
<1> QED
  BY <1>1, <1>2, <1>3, <1>4, <1>5 DEF ReadsAreSound

-----------------------------------------------------------------------------
(* The SDK                                                                 *)

(* What was true at some time: the server knows when it stopped being so.  *)
WorldHolds ==
  /\ now \in K!Time /\ server \in K!Version
  /\ ended \in [K!Version -> K!Time \cup {K!Never}]
  /\ \A v \in K!Version : v < server => ended[v] <= now

(* The entry is from an answer that was true when it was asked for.        *)
EntryHolds(e) ==
  /\ e \in [value : K!Version, expiresAt : 0 .. MaxTime + TTL] \cup {K!NoEntry}
  /\ e # K!NoEntry =>
       /\ e.value <= server
       /\ Timeout > 0 => K!LastTrue(e.value) >= e.expiresAt - TTL - Timeout

AskHolds(d) ==
  /\ d \in {K!Idle} \cup K!Running \cup K!Done
  /\ d.phase \in {"fetch", "body"} =>
       /\ d.since <= now
       /\ Timeout > 0 => now <= d.since + Timeout
       /\ d.said = "value" =>
            d.of <= server /\ K!LastTrue(d.of) >= d.since /\ d.of >= d.asked
       /\ d.said = "notFound" => K!LastTrue(0) >= d.since
  /\ d.phase = "done" =>
       /\ d.is = "value" =>
            /\ d.of <= server
            /\ Timeout > 0 => K!LastTrue(d.of) >= now - TTL - Timeout
            /\ d.asked # K!Any => K!LastTrue(d.of) >= d.since
            /\ d.of >= d.asked
       /\ d.is = "TIMEOUT" => now = d.since + Timeout
       /\ d.is = "USER_NOT_FOUND" => K!LastTrue(0) >= d.since

SdkInv ==
  /\ WorldHolds /\ EntryHolds(client)
  /\ calls \in [Caller -> {K!Idle} \cup K!Running \cup K!Done]
  /\ \A c \in Caller : AskHolds(calls[c])

LEMMA SdkNumbers ==
  /\ TTL \in Nat /\ TTL > 0 /\ Timeout \in Nat /\ MaxVersion \in Nat /\ MaxTime \in Nat
  /\ K!Time = 0 .. MaxTime /\ K!Version = 0 .. MaxVersion
  /\ K!Never = MaxTime + 1 /\ K!Any = -1 /\ K!Fresh = 0
  BY SdkHolds DEF K!SdkConstants, K!Time, K!Version, K!Never, K!Any, K!Fresh

LEMMA LastTrueIs ==
  ASSUME WorldHolds, NEW v \in 0 .. server
  PROVE  /\ K!LastTrue(v) \in 0 .. now
         /\ v = server => K!LastTrue(v) = now
<1>1. v \in K!Version /\ now \in Nat /\ server \in Nat
  BY SdkNumbers DEF WorldHolds
<1>2. v = server \/ v < server
  BY <1>1
<1>3. ended[v] \in K!Time \cup {K!Never}
  BY <1>1 DEF WorldHolds
<1>4. ended[v] \in Nat
  BY <1>3, SdkNumbers
<1> QED
  BY <1>1, <1>2, <1>4 DEF K!LastTrue, WorldHolds

LEMMA AskKinds ==
  ASSUME NEW d
  PROVE  /\ d \in K!Running =>
              /\ d.phase \in {"fetch", "body"} /\ d.since \in K!Time /\ d.asked \in K!Asked
              /\ d.of \in K!Version
         /\ d \in K!Done =>
              /\ d.phase = "done" /\ d.since \in K!Time /\ d.asked \in K!Asked
              /\ d.of \in K!Version
         /\ d = K!Idle => d.phase = "idle"
  BY DEF K!Running, K!Done, K!Idle

(* The step of one call.                                                   *)
LEMMA OneAsk ==
  ASSUME SdkInv, UNCHANGED K!World, EntryHolds(client'),
         NEW c \in Caller, NEW d, AskHolds(d), calls' = [calls EXCEPT ![c] = d]
  PROVE  SdkInv'
<1>1. WorldHolds'
  BY DEF SdkInv, WorldHolds, K!World
<1>2. EntryHolds(client)'
  BY DEF EntryHolds, K!World, K!LastTrue
<1>3. d \in {K!Idle} \cup K!Running \cup K!Done
  BY DEF AskHolds
<1>4. ASSUME NEW s \in Caller PROVE AskHolds(calls[s])'
  <2>1. PICK e : e = calls'[s]
    OBVIOUS
  <2>2. AskHolds(e)
    BY <2>1 DEF SdkInv
  <2> QED
    BY <2>1, <2>2 DEF AskHolds, K!World, K!LastTrue
<1>5. calls' \in [Caller -> {K!Idle} \cup K!Running \cup K!Done]
  BY <1>3 DEF SdkInv
<1> QED
  BY <1>1, <1>2, <1>4, <1>5 DEF SdkInv

(* What the API says changes, and time passes: what was true is no less so.*)
LEMMA LastTrueGrows ==
  ASSUME WorldHolds, WorldHolds', NEW v \in 0 .. server,
         \/ server' = server + 1 /\ ended' = [ended EXCEPT ![server] = now] /\ now' = now
         \/ now' = now + 1 /\ UNCHANGED <<server, ended>>
  PROVE  /\ K!LastTrue(v) \in Nat /\ K!LastTrue(v)' \in Nat
         /\ K!LastTrue(v)' >= K!LastTrue(v) /\ v <= server'
<1>1. v \in K!Version /\ now \in Nat /\ server \in Nat /\ server \in K!Version
  BY SdkNumbers DEF WorldHolds
<1>2. K!LastTrue(v) \in Nat
  BY LastTrueIs, <1>1
<1>5. K!LastTrue(v)' \in Nat
  <2>1. ended'[v] \in K!Time \cup {K!Never} /\ now' \in K!Time
    BY <1>1 DEF WorldHolds
  <2>2. ended'[v] \in Nat /\ now' \in Nat
    BY <2>1, SdkNumbers
  <2> QED
    BY <2>2 DEF K!LastTrue
<1>3. CASE server' = server + 1 /\ ended' = [ended EXCEPT ![server] = now] /\ now' = now
  <2>1. v # server'
    BY <1>1, <1>3
  <2>2. ended'[v] = IF v = server THEN now ELSE ended[v]
    BY <1>1, <1>3 DEF WorldHolds
  <2> QED
    BY <1>1, <1>2, <1>3, <2>1, <2>2 DEF K!LastTrue
<1>4. CASE now' = now + 1 /\ UNCHANGED <<server, ended>>
  BY <1>1, <1>2, <1>4 DEF K!LastTrue
<1> QED
  BY <1>1, <1>2, <1>3, <1>4, <1>5

LEMMA GrowsEntry ==
  ASSUME EntryHolds(client), server \in Nat, server' \in Nat, client' = client,
         \A v \in 0 .. server :
           /\ K!LastTrue(v) \in Nat /\ K!LastTrue(v)' \in Nat
           /\ K!LastTrue(v)' >= K!LastTrue(v) /\ v <= server'
  PROVE  EntryHolds(client)'
<1>1. CASE client = K!NoEntry
  BY <1>1 DEF EntryHolds
<1>2. CASE client # K!NoEntry
  <2>1. client \in [value : K!Version, expiresAt : 0 .. MaxTime + TTL]
    BY <1>2 DEF EntryHolds
  <2>2. /\ client.value \in 0 .. server
        /\ client.expiresAt - TTL - Timeout \in Int
    BY <1>2, <2>1, SdkNumbers DEF EntryHolds
  <2> QED
    BY <1>2, <2>1, <2>2 DEF EntryHolds
<1> QED
  BY <1>1, <1>2

(* A call while the answers change.                                        *)
LEMMA GrowsAsk ==
  ASSUME NEW d, AskHolds(d), now' = now, now \in Nat, server \in Nat, server' \in Nat,
         \A v \in 0 .. server :
           /\ K!LastTrue(v) \in Nat /\ K!LastTrue(v)' \in Nat
           /\ K!LastTrue(v)' >= K!LastTrue(v) /\ v <= server'
  PROVE  AskHolds(d)'
<1>1. CASE d = K!Idle
  BY <1>1, AskKinds DEF AskHolds
<1>2. CASE d \in K!Running
  <2>1. d.phase # "done" /\ d.since \in Nat /\ d.of \in Nat /\ d.phase \in {"fetch", "body"}
    BY <1>2, AskKinds, SdkNumbers
  <2>2. /\ K!LastTrue(0) \in Nat /\ K!LastTrue(0)' \in Nat
        /\ K!LastTrue(0)' >= K!LastTrue(0)
    OBVIOUS
  <2>3. d.of <= server =>
          /\ K!LastTrue(d.of) \in Nat /\ K!LastTrue(d.of)' \in Nat
          /\ K!LastTrue(d.of)' >= K!LastTrue(d.of) /\ d.of <= server'
    BY <2>1
  <2> QED
    BY <1>2, <2>1, <2>2, <2>3 DEF AskHolds
<1>3. CASE d \in K!Done
  <2>1. d.phase = "done" /\ d.since \in Nat /\ d.of \in Nat
    BY <1>3, AskKinds, SdkNumbers
  <2>2. /\ K!LastTrue(0) \in Nat /\ K!LastTrue(0)' \in Nat
        /\ K!LastTrue(0)' >= K!LastTrue(0)
    OBVIOUS
  <2>3. d.of <= server =>
          /\ K!LastTrue(d.of) \in Nat /\ K!LastTrue(d.of)' \in Nat
          /\ K!LastTrue(d.of)' >= K!LastTrue(d.of) /\ d.of <= server'
    BY <2>1
  <2>4. now - TTL - Timeout \in Int
    BY SdkNumbers
  <2> QED
    BY <1>3, <2>1, <2>2, <2>3, <2>4 DEF AskHolds
<1> QED
  BY <1>1, <1>2, <1>3 DEF AskHolds

(* A call in flight while time passes.                                     *)
LEMMA WaitsAsk ==
  ASSUME NEW d, AskHolds(d), now' = now + 1, now \in Nat, server \in Nat, server' \in Nat,
         d.phase # "done",
         d.phase \in {"fetch", "body"} /\ Timeout > 0 => now # d.since + Timeout,
         \A v \in 0 .. server :
           /\ K!LastTrue(v) \in Nat /\ K!LastTrue(v)' \in Nat
           /\ K!LastTrue(v)' >= K!LastTrue(v) /\ v <= server'
  PROVE  AskHolds(d)'
<1>1. CASE d = K!Idle
  BY <1>1, AskKinds DEF AskHolds
<1>2. CASE d \in K!Running
  <2>1. d.since \in Nat /\ d.of \in Nat /\ d.phase \in {"fetch", "body"}
    BY <1>2, AskKinds, SdkNumbers
  <2>2. /\ K!LastTrue(0) \in Nat /\ K!LastTrue(0)' \in Nat
        /\ K!LastTrue(0)' >= K!LastTrue(0)
    OBVIOUS
  <2>3. d.of <= server =>
          /\ K!LastTrue(d.of) \in Nat /\ K!LastTrue(d.of)' \in Nat
          /\ K!LastTrue(d.of)' >= K!LastTrue(d.of) /\ d.of <= server'
    BY <2>1
  <2>4. Timeout > 0 => now' <= d.since + Timeout
    BY <1>2, <2>1, SdkNumbers DEF AskHolds
  <2>5. d.since <= now'
    BY <1>2, <2>1 DEF AskHolds
  <2> QED
    BY <1>2, <2>1, <2>2, <2>3, <2>4, <2>5 DEF AskHolds
<1>3. CASE d \in K!Done
  BY <1>3, AskKinds
<1> QED
  BY <1>1, <1>2, <1>3 DEF AskHolds

LEMMA SdkTyped ==
  ASSUME SdkInv
  PROVE  /\ WorldHolds /\ EntryHolds(client)
         /\ now \in Nat /\ now <= MaxTime /\ server \in Nat /\ server <= MaxVersion
         /\ calls \in [Caller -> {K!Idle} \cup K!Running \cup K!Done]
  BY SdkNumbers DEF SdkInv, WorldHolds

LEMMA ChangesKeeps ==
  ASSUME SdkInv, K!Changes
  PROVE  SdkInv'
<1>0. /\ server < MaxVersion /\ server' = server + 1
      /\ ended' = [ended EXCEPT ![server] = now]
      /\ UNCHANGED <<now, client, calls>>
      /\ WorldHolds /\ EntryHolds(client) /\ now \in Nat /\ server \in Nat
  BY SdkTyped DEF K!Changes
<1>1. WorldHolds'
  <2>1. server' \in K!Version /\ now' \in K!Time
    BY <1>0, SdkNumbers DEF WorldHolds
  <2>2. ended' \in [K!Version -> K!Time \cup {K!Never}]
    BY <1>0 DEF WorldHolds
  <2>3. ASSUME NEW v \in K!Version, v < server' PROVE ended'[v] <= now'
    BY <1>0, <2>3, SdkNumbers DEF WorldHolds
  <2> QED
    BY <2>1, <2>2, <2>3 DEF WorldHolds
<1>2. \A v \in 0 .. server :
        /\ K!LastTrue(v) \in Nat /\ K!LastTrue(v)' \in Nat
        /\ K!LastTrue(v)' >= K!LastTrue(v) /\ v <= server'
  BY <1>0, <1>1, LastTrueGrows
<1>3. EntryHolds(client)'
  BY <1>0, <1>2, GrowsEntry
<1>4. ASSUME NEW c \in Caller PROVE AskHolds(calls[c])'
  <2>1. PICK d : d = calls[c]
    OBVIOUS
  <2>2. AskHolds(d)
    BY <2>1 DEF SdkInv
  <2>3. AskHolds(d)'
    BY <1>0, <1>2, <2>2, GrowsAsk
  <2> QED
    BY <1>0, <2>1, <2>3 DEF AskHolds
<1> QED
  BY <1>0, <1>1, <1>3, <1>4 DEF SdkInv

(* Time passes once the timers that are due have fired.                    *)
LEMMA TickKeeps ==
  ASSUME SdkInv, K!Tick
  PROVE  SdkInv'
<1>0. /\ now < MaxTime /\ now' = now + 1 /\ UNCHANGED <<server, ended, client>>
      /\ \A c \in Caller : ~ K!Due(c)
      /\ calls' = [c \in Caller |-> IF calls[c].phase = "done" THEN K!Idle ELSE calls[c]]
      /\ WorldHolds /\ EntryHolds(client) /\ now \in Nat /\ server \in Nat
  BY SdkTyped DEF K!Tick
<1>1. WorldHolds'
  <2>1. server' \in K!Version /\ now' \in K!Time
    BY <1>0, SdkNumbers DEF WorldHolds
  <2>2. ended' \in [K!Version -> K!Time \cup {K!Never}]
    BY <1>0 DEF WorldHolds
  <2>3. ASSUME NEW v \in K!Version, v < server' PROVE ended'[v] <= now'
    <3>1. ended[v] \in K!Time \cup {K!Never} /\ ended[v] <= now
      BY <1>0, <2>3 DEF WorldHolds
    <3>2. ended[v] \in Nat
      BY <3>1, SdkNumbers
    <3> QED
      BY <1>0, <3>1, <3>2
  <2> QED
    BY <2>1, <2>2, <2>3 DEF WorldHolds
<1>2. \A v \in 0 .. server :
        /\ K!LastTrue(v) \in Nat /\ K!LastTrue(v)' \in Nat
        /\ K!LastTrue(v)' >= K!LastTrue(v) /\ v <= server'
  BY <1>0, <1>1, LastTrueGrows
<1>3. EntryHolds(client)'
  BY <1>0, <1>2, GrowsEntry
<1>4. ASSUME NEW c \in Caller PROVE AskHolds(calls[c])'
  <2>1. PICK d : d = calls[c]
    OBVIOUS
  <2>2. AskHolds(d)
    BY <2>1 DEF SdkInv
  <2>3. CASE d.phase = "done"
    <3>1. calls'[c] = K!Idle
      BY <1>0, <2>1, <2>3
    <3> QED
      BY <3>1 DEF AskHolds, K!Idle
  <2>4. CASE d.phase # "done"
    <3>1. calls'[c] = d
      BY <1>0, <2>1, <2>4
    <3>2. d.phase \in {"fetch", "body"} /\ Timeout > 0 => now # d.since + Timeout
      BY <1>0, <2>1 DEF K!Due, K!Bounded, K!InFlight
    <3>3. AskHolds(d)'
      BY <1>0, <1>2, <2>2, <2>4, <3>2, WaitsAsk
    <3> QED
      BY <3>1, <3>3 DEF AskHolds
  <2> QED
    BY <2>3, <2>4
<1>5. calls' \in [Caller -> {K!Idle} \cup K!Running \cup K!Done]
  BY <1>0 DEF SdkInv
<1> QED
  BY <1>1, <1>3, <1>4, <1>5 DEF SdkInv

LEMMA InvalidateKeeps ==
  ASSUME SdkInv, K!Invalidate
  PROVE  SdkInv'
<1>1. client' = K!NoEntry /\ UNCHANGED <<now, server, ended, calls>>
  BY DEF K!Invalidate, K!World
<1>2. EntryHolds(client')
  BY <1>1 DEF EntryHolds
<1>3. EntryHolds(client)'
  BY <1>1, <1>2 DEF EntryHolds
<1>4. WorldHolds'
  BY <1>1 DEF SdkInv, WorldHolds
<1>5. ASSUME NEW c \in Caller PROVE AskHolds(calls[c])'
  BY <1>1 DEF SdkInv, AskHolds, K!LastTrue
<1> QED
  BY <1>1, <1>3, <1>4, <1>5 DEF SdkInv

(* Served from the cache: the entry is not past its time.                  *)
LEMMA ServesKeeps ==
  ASSUME SdkInv, NEW c \in Caller, NEW asked \in K!Asked, K!Serves(c, asked)
  PROVE  SdkInv'
<1>0. /\ WorldHolds /\ EntryHolds(client) /\ now \in Nat /\ server \in Nat
      /\ asked = -1 /\ client # K!NoEntry /\ now <= client.expiresAt
      /\ client' = client /\ UNCHANGED K!World
  BY SdkTyped, SdkNumbers DEF K!Serves, K!Hit, K!Untouched
<1>1. PICK d : d = [phase |-> "done", since |-> now, asked |-> asked,
                    is |-> "value", of |-> client.value]
  OBVIOUS
<1>2. calls' = [calls EXCEPT ![c] = d]
  BY <1>1 DEF K!Serves
<1>3. client \in [value : K!Version, expiresAt : 0 .. MaxTime + TTL]
  BY <1>0 DEF EntryHolds
<1>4. client.value \in 0 .. server /\ client.expiresAt \in Nat
  BY <1>0, <1>3, SdkNumbers DEF EntryHolds
<1>5. K!LastTrue(client.value) \in Nat
  BY <1>0, <1>4, LastTrueIs
<1>6. Timeout > 0 => K!LastTrue(client.value) >= now - TTL - Timeout
  <2>1. Timeout > 0 => K!LastTrue(client.value) >= client.expiresAt - TTL - Timeout
    BY <1>0 DEF EntryHolds
  <2> QED
    BY <1>0, <1>4, <1>5, <2>1, SdkNumbers
<1>7. d \in K!Done /\ d.phase = "done" /\ d.is = "value" /\ d.of = client.value
      /\ d.asked = -1
  BY <1>0, <1>1, <1>3 DEF K!Done, K!Outcome, WorldHolds
<1>8. AskHolds(d)
  BY <1>4, <1>6, <1>7, SdkNumbers DEF AskHolds
<1>9. EntryHolds(client')
  BY <1>0
<1> QED
  BY <1>0, <1>2, <1>8, <1>9, OneAsk

LEMMA RequestsKeeps ==
  ASSUME SdkInv, NEW c \in Caller, NEW asked \in K!Asked, K!Requests(c, asked)
  PROVE  SdkInv'
<1>0. /\ WorldHolds /\ EntryHolds(client) /\ now \in Nat /\ server \in Nat
      /\ client' = (IF asked = K!Any THEN K!NoEntry ELSE client) /\ UNCHANGED K!World
  BY SdkTyped DEF K!Requests
<1>1. PICK d : d = [phase |-> "fetch", since |-> now, asked |-> asked, aborted |-> FALSE,
                    said |-> "nothing", of |-> 0]
  OBVIOUS
<1>2. calls' = [calls EXCEPT ![c] = d]
  BY <1>1 DEF K!Requests
<1>3. d \in K!Running /\ d.phase = "fetch" /\ d.said = "nothing" /\ d.since = now
  BY <1>0, <1>1, SdkNumbers DEF K!Running, K!Said, WorldHolds
<1>4. AskHolds(d)
  BY <1>0, <1>3, SdkNumbers DEF AskHolds
<1>5. EntryHolds(client')
  <2>1. EntryHolds(K!NoEntry)
    BY DEF EntryHolds
  <2> QED
    BY <1>0, <2>1
<1> QED
  BY <1>0, <1>2, <1>4, <1>5, OneAsk

LEMMA InFlightTyped ==
  ASSUME SdkInv, NEW c \in Caller, calls[c].phase \in {"fetch", "body"}
  PROVE  /\ calls[c] \in K!Running /\ AskHolds(calls[c])
         /\ calls[c].since \in Nat /\ calls[c].of \in Nat
<1>1. calls[c] \in {K!Idle} \cup K!Running \cup K!Done /\ AskHolds(calls[c])
  BY DEF SdkInv
<1>2. calls[c] \in K!Running
  BY <1>1, AskKinds
<1> QED
  BY <1>1, <1>2, AskKinds, SdkNumbers

LEMMA AbortsKeeps ==
  ASSUME SdkInv, NEW c \in Caller, K!Aborts(c)
  PROVE  SdkInv'
<1>1. PICK b : b = calls[c]
  OBVIOUS
<1>2. b \in K!Running /\ AskHolds(b)
  BY <1>1, InFlightTyped DEF K!Aborts, K!InFlight
<1>3. PICK d : d = [b EXCEPT !.aborted = TRUE]
  OBVIOUS
<1>4. calls' = [calls EXCEPT ![c] = d] /\ client' = client /\ UNCHANGED K!World
  BY <1>1, <1>3 DEF K!Aborts
<1>5. d \in K!Running /\ d.phase = b.phase /\ d.since = b.since /\ d.said = b.said
      /\ d.of = b.of /\ d.asked = b.asked
  BY <1>2, <1>3 DEF K!Running
<1>6. AskHolds(d)
  BY <1>2, <1>5, AskKinds DEF AskHolds
<1>7. EntryHolds(client')
  BY <1>4, SdkTyped
<1> QED
  BY <1>4, <1>6, <1>7, OneAsk

(* What the server says is true when it says it, which is after the call.  *)
LEMMA HeadersArriveKeeps ==
  ASSUME SdkInv, NEW c \in Caller, K!HeadersArrive(c)
  PROVE  SdkInv'
<1>0. WorldHolds /\ now \in Nat /\ server \in Nat
  BY SdkTyped
<1>1. PICK b : b = calls[c]
  OBVIOUS
<1>2. b \in K!Running /\ AskHolds(b) /\ b.phase = "fetch" /\ b.since \in Nat
  BY <1>1, InFlightTyped DEF K!HeadersArrive
<1>3. PICK what \in K!Answers(c) :
        calls' = [calls EXCEPT ![c].phase = "body", ![c].said = what,
                               ![c].of = IF what = "value" THEN server ELSE 0]
  BY DEF K!HeadersArrive
<1>4. PICK d : d = [b EXCEPT !.phase = "body", !.said = what,
                             !.of = IF what = "value" THEN server ELSE 0]
  OBVIOUS
<1>5. calls' = [calls EXCEPT ![c] = d]
  BY <1>1, <1>3, <1>4
<1>6. /\ what \in {"other", "junk", "value", "notFound"}
      /\ what = "value" => ~ (server < b.asked)
      /\ what = "notFound" => server = 0
  BY <1>1, <1>3 DEF K!Answers
<1>7. (IF what = "value" THEN server ELSE 0) \in K!Version
  BY <1>0, SdkNumbers DEF WorldHolds
<1>8. /\ d \in K!Running /\ d.phase = "body" /\ d.since = b.since /\ d.said = what
      /\ d.of = (IF what = "value" THEN server ELSE 0) /\ d.asked = b.asked
  BY <1>2, <1>4, <1>6, <1>7 DEF K!Running, K!Said
<1>9. b.asked \in Int
  BY <1>2, AskKinds, SdkNumbers DEF K!Asked
<1>10. K!LastTrue(server) = now
  BY DEF K!LastTrue
<1>11. b.since <= now /\ (Timeout > 0 => now <= b.since + Timeout)
  BY <1>2 DEF AskHolds
<1>12. AskHolds(d)
  BY <1>0, <1>2, <1>6, <1>8, <1>9, <1>10, <1>11 DEF AskHolds
<1>13. UNCHANGED <<K!World, client>>
  BY DEF K!HeadersArrive
<1>14. EntryHolds(client')
  BY <1>13, SdkTyped
<1> QED
  BY <1>5, <1>12, <1>13, <1>14, OneAsk

(* A call settles with what its answer, or its failure, gives it.          *)
LEMMA SettledKeeps ==
  ASSUME SdkInv, NEW c \in Caller, calls[c].phase \in {"fetch", "body"},
         NEW is \in K!Outcome, NEW of \in K!Version, K!Settled(c, is, of),
         UNCHANGED K!World, EntryHolds(client'),
         is = "value" => calls[c].said = "value" /\ of = calls[c].of,
         is = "TIMEOUT" => now = calls[c].since + Timeout,
         is = "USER_NOT_FOUND" => calls[c].said = "notFound"
  PROVE  SdkInv'
<1>0. WorldHolds /\ now \in Nat /\ server \in Nat
  BY SdkTyped
<1>1. PICK b : b = calls[c]
  OBVIOUS
<1>2. /\ b \in K!Running /\ AskHolds(b) /\ b.phase \in {"fetch", "body"}
      /\ b.since \in Nat /\ b.of \in Nat
  BY <1>1, InFlightTyped
<1>3. PICK d : d = [phase |-> "done", since |-> b.since, asked |-> b.asked,
                    is |-> is, of |-> of]
  OBVIOUS
<1>4. calls' = [calls EXCEPT ![c] = d]
  BY <1>1, <1>3 DEF K!Settled
<1>5. b.since \in K!Time /\ b.asked \in K!Asked
  BY <1>2, AskKinds
<1>6. d \in K!Done /\ d.phase = "done" /\ d.since = b.since /\ d.asked = b.asked
      /\ d.is = is /\ d.of = of
  BY <1>3, <1>5 DEF K!Done
<1>7. ASSUME is = "value"
      PROVE  /\ of <= server /\ K!LastTrue(of) >= b.since /\ of >= b.asked
             /\ Timeout > 0 => K!LastTrue(of) >= now - TTL - Timeout
  <2>1. of <= server /\ K!LastTrue(of) >= b.since /\ of >= b.asked /\ of \in 0 .. server
    BY <1>0, <1>1, <1>2, <1>7 DEF AskHolds
  <2>2. K!LastTrue(of) \in Nat
    BY <1>0, <2>1, LastTrueIs
  <2>3. Timeout > 0 => now <= b.since + Timeout
    BY <1>2 DEF AskHolds
  <2> QED
    BY <1>0, <1>2, <2>1, <2>2, <2>3, SdkNumbers
<1>8. is = "USER_NOT_FOUND" => K!LastTrue(0) >= b.since
  BY <1>1, <1>2 DEF AskHolds
<1>9. AskHolds(d)
  BY <1>1, <1>6, <1>7, <1>8 DEF AskHolds
<1> QED
  BY <1>4, <1>9, OneAsk

LEMMA FetchFailsKeeps ==
  ASSUME SdkInv, NEW c \in Caller, K!FetchFails(c)
  PROVE  SdkInv'
<1>1. /\ calls[c].phase = "fetch" /\ UNCHANGED <<K!World, client>>
      /\ K!Settled(c, "NETWORK_ERROR", 0) \/ K!Settled(c, "AbortError", 0)
  BY DEF K!FetchFails
<1>2. "NETWORK_ERROR" \in K!Outcome /\ "AbortError" \in K!Outcome /\ 0 \in K!Version
  BY SdkNumbers DEF K!Outcome
<1>3. EntryHolds(client')
  BY <1>1, SdkTyped
<1> QED
  BY <1>1, <1>2, <1>3, SettledKeeps

LEMMA BodyArrivesKeeps ==
  ASSUME SdkInv, NEW c \in Caller, K!BodyArrives(c)
  PROVE  SdkInv'
<1>0. /\ WorldHolds /\ now \in Nat /\ now <= MaxTime /\ server \in Nat
      /\ UNCHANGED K!World /\ calls[c].phase \in {"fetch", "body"}
  BY SdkTyped DEF K!BodyArrives
<1>1. PICK b : b = calls[c]
  OBVIOUS
<1>2. /\ b \in K!Running /\ AskHolds(b) /\ b.since \in Nat /\ b.of \in K!Version
      /\ b.of \in Nat /\ b.phase \in {"fetch", "body"}
  BY <1>0, <1>1, InFlightTyped, AskKinds
<1>3. CASE b.said = "value"
  <2>1. /\ K!Settled(c, "value", b.of)
        /\ client' = [value |-> b.of, expiresAt |-> now + TTL]
    BY <1>1, <1>3 DEF K!BodyArrives
  <2>2. PICK e : e = [value |-> b.of, expiresAt |-> now + TTL]
    OBVIOUS
  <2>3. /\ e \in [value : K!Version, expiresAt : 0 .. MaxTime + TTL]
        /\ e.value = b.of /\ e.expiresAt = now + TTL
    BY <1>0, <1>2, <2>2, SdkNumbers
  <2>4. b.of <= server /\ K!LastTrue(b.of) >= b.since
        /\ (Timeout > 0 => now <= b.since + Timeout)
    BY <1>2, <1>3 DEF AskHolds
  <2>5. K!LastTrue(b.of) \in Nat
    BY <1>0, <1>2, <2>4, LastTrueIs
  <2>6. Timeout > 0 => K!LastTrue(b.of) >= e.expiresAt - TTL - Timeout
    BY <1>0, <1>2, <2>3, <2>4, <2>5, SdkNumbers
  <2>7. EntryHolds(client')
    BY <2>1, <2>2, <2>3, <2>4, <2>6 DEF EntryHolds
  <2>8. "value" \in K!Outcome
    BY DEF K!Outcome
  <2> QED
    BY <1>0, <1>1, <1>2, <1>3, <2>1, <2>7, <2>8, SettledKeeps
<1>4. CASE b.said # "value"
  <2>1. PICK is : is = IF b.said = "junk" THEN "INVALID_RESPONSE" ELSE K!ErrorFor(b.said)
    OBVIOUS
  <2>2. K!Settled(c, is, 0) /\ client' = client
    BY <1>1, <1>4, <2>1 DEF K!BodyArrives
  <2>3. /\ is \in K!Outcome /\ is \notin {"value", "TIMEOUT"}
        /\ is = "USER_NOT_FOUND" => b.said = "notFound"
    BY <2>1 DEF K!ErrorFor, K!Outcome
  <2>4. EntryHolds(client') /\ 0 \in K!Version
    BY <2>2, SdkTyped, SdkNumbers
  <2> QED
    BY <1>0, <1>1, <2>2, <2>3, <2>4, SettledKeeps
<1> QED
  BY <1>3, <1>4

LEMMA BodyFailsKeeps ==
  ASSUME SdkInv, NEW c \in Caller, K!BodyFails(c)
  PROVE  SdkInv'
<1>1. PICK is : is = IF calls[c].aborted THEN "AbortError"
                     ELSE IF K!Ok(c) THEN "INVALID_RESPONSE" ELSE "HTTP_ERROR"
  OBVIOUS
<1>2. /\ calls[c].phase = "body" /\ UNCHANGED <<K!World, client>>
      /\ K!Settled(c, is, 0)
  BY <1>1 DEF K!BodyFails
<1>3. is \in K!Outcome /\ is \notin {"value", "TIMEOUT", "USER_NOT_FOUND"} /\ 0 \in K!Version
  BY <1>1, SdkNumbers DEF K!Outcome
<1>4. EntryHolds(client')
  BY <1>2, SdkTyped
<1> QED
  BY <1>2, <1>3, <1>4, SettledKeeps

LEMMA ExpiresKeeps ==
  ASSUME SdkInv, NEW c \in Caller, K!Expires(c)
  PROVE  SdkInv'
<1>1. /\ calls[c].phase \in {"fetch", "body"} /\ UNCHANGED <<K!World, client>>
      /\ now = calls[c].since + Timeout /\ K!Settled(c, "TIMEOUT", 0)
  BY DEF K!Expires, K!Due, K!Bounded, K!InFlight
<1>2. "TIMEOUT" \in K!Outcome /\ 0 \in K!Version
  BY SdkNumbers DEF K!Outcome
<1>3. EntryHolds(client')
  BY <1>1, SdkTyped
<1> QED
  BY <1>1, <1>2, <1>3, SettledKeeps

LEMMA SdkInitHolds == K!Init => SdkInv
<1> SUFFICES ASSUME K!Init PROVE SdkInv
  OBVIOUS
<1>1. WorldHolds
  BY SdkNumbers DEF K!Init, WorldHolds
<1>2. EntryHolds(client)
  BY DEF K!Init, EntryHolds
<1>3. ASSUME NEW c \in Caller PROVE AskHolds(calls[c])
  <2>1. calls[c] = K!Idle
    BY DEF K!Init
  <2> QED
    BY <2>1, AskKinds DEF AskHolds
<1> QED
  BY <1>1, <1>2, <1>3 DEF K!Init, SdkInv

LEMMA SdkNextKeeps == SdkInv /\ K!Next => SdkInv'
<1> SUFFICES ASSUME SdkInv, K!Next PROVE SdkInv'
  OBVIOUS
<1>1. CASE K!Changes
  BY <1>1, ChangesKeeps
<1>2. CASE K!Invalidate
  BY <1>2, InvalidateKeeps
<1>3. CASE K!Tick
  BY <1>3, TickKeeps
<1>4. ASSUME NEW c \in Caller, K!Starts(c) PROVE SdkInv'
  BY <1>4, ServesKeeps, RequestsKeeps DEF K!Starts
<1>5. ASSUME NEW c \in Caller, K!Aborts(c) \/ K!HeadersArrive(c) PROVE SdkInv'
  BY <1>5, AbortsKeeps, HeadersArriveKeeps
<1>6. ASSUME NEW c \in Caller,
             K!FetchFails(c) \/ K!BodyArrives(c) \/ K!BodyFails(c) \/ K!Expires(c)
      PROVE  SdkInv'
  BY <1>6, FetchFailsKeeps, BodyArrivesKeeps, BodyFailsKeeps, ExpiresKeeps
<1> QED
  BY <1>1, <1>2, <1>3, <1>4, <1>5, <1>6 DEF K!Next

LEMMA SdkInvSays == SdkInv => K!TypeOK /\ K!ValuesWithinWindow /\ K!ErrorsAreTrue
<1> SUFFICES ASSUME SdkInv PROVE K!TypeOK /\ K!ValuesWithinWindow /\ K!ErrorsAreTrue
  OBVIOUS
<1>1. K!TypeOK
  BY DEF SdkInv, WorldHolds, EntryHolds, K!TypeOK
<1>2. K!ValuesWithinWindow
  BY DEF SdkInv, AskHolds, K!ValuesWithinWindow, K!Values, K!Finished
<1>3. K!ErrorsAreTrue
  BY DEF SdkInv, AskHolds, K!ErrorsAreTrue, K!Finished, K!InFlight
<1> QED
  BY <1>1, <1>2, <1>3

-----------------------------------------------------------------------------
(* The theorems                                                            *)

ReadersInv ==
  /\ part \in {"reads", "sdk"}
  /\ part = "reads" => ReadsInv
  /\ part = "sdk" => SdkInv

LEMMA ReadersInvHolds == ReadersSpec => []ReadersInv
<1>1. ReadersInit => ReadersInv
  BY InitHolds, SdkInitHolds DEF ReadersInit, ReadersInv
<1>2. ReadersInv /\ [Reads \/ Asks]_all => ReadersInv'
  <2> SUFFICES ASSUME ReadersInv, [Reads \/ Asks]_all PROVE ReadersInv'
    OBVIOUS
  <2>1. CASE Reads
    BY <2>1, NextKeeps DEF Reads, ReadersInv
  <2>2. CASE Asks
    BY <2>2, SdkNextKeeps DEF Asks, ReadersInv
  <2>3. CASE UNCHANGED all
    <3>1. /\ UNCHANGED <<part, head, owner, fork, stored, synced, kept, cache, call>>
          /\ UNCHANGED <<now, server, ended, client, calls>>
      BY <2>3 DEF all, vars, sdk
    <3>2. CASE part = "reads"
      <4>1. ReadsInv /\ ChainHolds /\ CacheHolds
        BY <3>2 DEF ReadersInv, ReadsInv
      <4>2. ChainHolds'
        BY <3>1, <4>1 DEF ChainHolds, OwnerAt
      <4>3. CacheHolds'
        BY <3>1, <4>1 DEF CacheHolds
      <4>4. ReadsInv'
        BY <3>1, <4>1, <4>2, <4>3, NoCall DEF chainVars, ChainHolds
      <4> QED
        BY <3>1, <3>2, <4>4 DEF ReadersInv
    <3>3. CASE part = "sdk"
      <4>1. SdkInv
        BY <3>3 DEF ReadersInv
      <4>2. SdkInv'
        BY <3>1, <4>1 DEF SdkInv, WorldHolds, EntryHolds, AskHolds, K!LastTrue
      <4> QED
        BY <3>1, <3>3, <4>2 DEF ReadersInv
    <3> QED
      BY <3>2, <3>3 DEF ReadersInv
  <2> QED
    BY <2>1, <2>2, <2>3
<1> QED
  BY <1>1, <1>2, PTL DEF ReadersSpec

(* What a request and a call hold is what their stage says, however the    *)
(* chain, the table, the copies and the answers move under them.           *)
THEOREM ReadersTypeCorrect == ReadersSpec => []ReadersTypeOK
<1>1. ReadersInv => ReadersTypeOK
  BY ReadsInvSays, SdkInvSays DEF ReadersInv, ReadersTypeOK
<1> QED
  BY <1>1, ReadersInvHolds, PTL

(* Without a write to wait for, a list has every name its account held when*)
(* the cursor passed; a listed name was its account's; a lookup that waits *)
(* for a write shows it (onchainEventsService.ts:19, onchainService.ts:47),*)
(* whatever a node answers for blocks it has not got.                      *)
THEOREM ReadsAreSafe ==
  ReadersSpec => [](part = "reads" => ListShowsStored /\ NeverAWrongOne /\ LookupShowsWrite)
<1>1. ReadersInv => (part = "reads" => ListShowsStored /\ NeverAWrongOne /\ LookupShowsWrite)
  BY ReadsInvSays DEF ReadersInv, ReadsAreSound
<1> QED
  BY <1>1, ReadersInvHolds, PTL

(* The SDK's answer is no older than its cache and its timer allow         *)
(* (client.ts:46), and its errors tell what happened (client.ts:239).      *)
THEOREM SdkIsTrue ==
  ReadersSpec => [](part = "sdk" => K!ValuesWithinWindow /\ K!ErrorsAreTrue)
<1>1. ReadersInv => (part = "sdk" => K!ValuesWithinWindow /\ K!ErrorsAreTrue)
  BY SdkInvSays DEF ReadersInv
<1> QED
  BY <1>1, ReadersInvHolds, PTL

(* All of it, and that a list that waits for a write has its name among    *)
(* the candidates (currentEvents), unless a chunk of its tail came without *)
(* its last blocks. That it shows the name is not proved and not so:       *)
(* ListShowsWrite.                                                         *)
THEOREM ReadersSeeWhatIs == ReadersSpec => []ReadersSeeTrue
<1>1. ReadersInv => ReadersSeeTrue
  BY ReadsInvSays, SdkInvSays DEF ReadersInv, ReadersSeeTrue
<1> QED
  BY <1>1, ReadersInvHolds, PTL
=============================================================================
