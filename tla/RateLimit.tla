------------------------------ MODULE RateLimit -----------------------------
(***************************************************************************)
(* One machine's limiter: a token bucket per client in memory, refilled    *)
(* continuously, full buckets forgotten when there are many. A client is   *)
(* known by the address the edge names, or else by the one that connects.  *)
(***************************************************************************)
EXTENDS Integers, Sequences, FiniteSets, SequencesExt

CONSTANTS
  Visitor,     \* who asks: a subscriber and one of its addresses
  EdgeServer,  \* likewise, the edge server that connects for them
  ViaEdge,     \* EDGE_SECRET is set
  Limit,       \* perMinute, which is also the burst
  Unit,        \* the time in which one request's worth is refilled
  Second,      \* a second of that time
  PruneAt,     \* PRUNE_AT
  PruneEvery,  \* PRUNE_EVERY_MS
  MaxTime      \* bound: the last instant explored

RateLimitConstants ==
  /\ ViaEdge \in BOOLEAN /\ Limit \in Nat \ {0}
  /\ Unit \in Nat \ {0} /\ Second \in Nat \ {0}
  /\ PruneAt \in Nat /\ PruneEvery \in Nat /\ MaxTime \in Nat

VARIABLES
  now,       \* the time
  buckets,   \* client key -> its bucket; None is one just made
  pruned,    \* lastPrune
  admitted   \* subscriber -> time -> how often it was let through up to then
             \* (read by the properties only)

vars == <<now, buckets, pruned, admitted>>

(* An address as text: an IPv4's four bytes, or an IPv6's parts before and *)
(* after the `::`. A part is one group, or a dotted IPv4 tail. expandIPv6  *)
(* gives the eight groups.                                                 *)
PartGroups(part) ==
  IF Len(part) = 1 THEN part
  ELSE <<part[1] * 256 + part[2], part[3] * 256 + part[4]>>
ToGroups(parts) == FlattenSeq([i \in DOMAIN parts |-> PartGroups(parts[i])])
Zeros(n) == [i \in 1 .. n |-> 0]
ExpandIPv6(ip) ==
  LET left == ToGroups(ip.head)
      right == ToGroups(ip.tail) IN
  IF ~ip.short THEN left
  ELSE left \o Zeros(8 - Len(left) - Len(right)) \o right

(* clientKey: an IPv6 client is its /64, an IPv4 one itself, mapped into   *)
(* IPv6 or not.                                                            *)
ClientKey(ip) ==
  LET groups == ExpandIPv6(ip) IN
  IF ip.v4 # <<>> THEN ip.v4
  ELSE IF SubSeq(groups, 1, 6) = Zeros(5) \o <<65535>>
       THEN <<groups[7] \div 256, groups[7] % 256,
              groups[8] \div 256, groups[8] % 256>>
  ELSE SubSeq(groups, 1, 4)

Asker == Visitor \cup {EdgeServer}
Key == {ClientKey(v.ip) : v \in Asker}
Subscriber == {v.who : v \in Asker}
Time == 0 .. MaxTime
Full == Limit * Unit
None == [tokens |-> Full, updated |-> -1]
Never == -PruneEvery

TypeOK ==
  /\ now \in Time
  /\ \A k \in DOMAIN buckets :
       buckets[k] \in [tokens : 0 .. Full, updated : Time] \cup {None}
  /\ pruned \in Time \cup {Never}
  /\ admitted \in [Subscriber -> [Time -> Nat]]

Init ==
  /\ now = 0
  /\ buckets = [k \in Key |-> None]
  /\ pruned = Never
  /\ admitted = [s \in Subscriber |-> [t \in Time |-> 0]]

-----------------------------------------------------------------------------
(* A request: who asks, whether the edge names it in CF-Connecting-IP, and *)
(* whether it presents the web server's key.                               *)
Connections == [from : Visitor, named : BOOLEAN, serverKey : BOOLEAN]
Source(req) == IF ViaEdge /\ ~req.named THEN EdgeServer ELSE req.from
KeyOf(req) == ClientKey(Source(req).ip)

Lesser(a, b) == IF a < b THEN a ELSE b
Refilled(b, at) ==
  IF b = None THEN Full ELSE Lesser(Full, b.tokens + (at - b.updated))

(* Full buckets are forgotten once there are many, and not too often.      *)
Tracked == {k \in DOMAIN buckets : buckets[k] # None}
Prunes == Cardinality(Tracked) > PruneAt /\ now - pruned >= PruneEvery
ForgettableIfIdle(b) == now > b.updated
Forgettable(b) == Refilled(b, now) >= Full
Kept ==
  IF ~Prunes THEN buckets
  ELSE [k \in DOMAIN buckets |->
          IF Forgettable(buckets[k]) THEN None ELSE buckets[k]]

Tokens(k) == Refilled(Kept[k], now)
Allowed(k) == Tokens(k) >= Unit
(* Whole seconds, rounded up.                                              *)
RetryAfter(k) == (Unit - Tokens(k) + Second - 1) \div Second

(* RateLimiter.check.                                                      *)
Check(req) ==
  LET k == KeyOf(req) IN
  /\ ~req.serverKey
  /\ pruned' = IF Prunes THEN now ELSE pruned
  /\ buckets' = [Kept EXCEPT ![k] =
       [tokens |-> IF Allowed(k) THEN Tokens(k) - Unit ELSE Tokens(k),
        updated |-> now]]
  /\ admitted' = IF Allowed(k)
                 THEN [admitted EXCEPT ![Source(req).who][now] = @ + 1]
                 ELSE admitted
  /\ UNCHANGED now

Tick ==
  /\ now < MaxTime
  /\ now' = now + 1
  /\ admitted' = [s \in Subscriber |->
                    [admitted[s] EXCEPT ![now + 1] = admitted[s][now]]]
  /\ UNCHANGED <<buckets, pruned>>

Next == Tick \/ \E req \in Connections : Check(req)

Spec == Init /\ [][Next]_vars

-----------------------------------------------------------------------------
UpTo(s, t) == IF t < 0 THEN 0 ELSE admitted[s][t]
Admitted(s, a, b) == UpTo(s, b) - UpTo(s, a - 1)

(* Nobody gets more than the burst and what is refilled meanwhile, in any
   stretch of time (each ends at some now), whichever of its addresses a
   subscriber uses and though buckets are forgotten (rateLimit.ts:43-72).  *)
WithinBudget ==
  \A s \in Subscriber, since \in 0 .. now :
    Admitted(s, since, now) * Unit <= Full + (now - since)

(* Who is refused is told how long to wait, and it is enough and no more
   (rateLimit.ts:64): after these seconds a request of that client passes,
   after one fewer it does not.                                            *)
WaitIsRight ==
  \A k \in DOMAIN buckets :
    ~Allowed(k) =>
      /\ Refilled(Kept[k], now + RetryAfter(k) * Second) >= Unit
      /\ Refilled(Kept[k], now + (RetryAfter(k) - 1) * Second) < Unit
=============================================================================
