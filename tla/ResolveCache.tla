----------------------------- MODULE ResolveCache ---------------------------
(***************************************************************************)
(* Resolving one username: resolveByUsername with each machine's in-memory *)
(* TtlCache, the writes that invalidate it, and the copy an HTTP cache     *)
(* keeps of the answer. Contents are version numbers: `db` of the          *)
(* account's rows, `chain` of the registry's answer.                       *)
(***************************************************************************)
EXTENDS Integers

CONSTANTS
  Machine,        \* the API's machines: each has a cache of its own
  Request,        \* the requests that may be in progress together
  TTL,            \* RESOLVE_TTL_MS
  DbTimeout,      \* SUPABASE_TIMEOUT_MS
  ChainTimeout,   \* RESOLVE_TIMEOUT_MS
  MaxAge,         \* max-age of /resolve
  Revalidate,     \* its stale-while-revalidate
  MaxDb, MaxChain,\* bounds: how often the account and the registry change
  MaxTime         \* bound: the last instant explored

ResolveConstants ==
  /\ TTL \in Nat /\ DbTimeout \in Nat /\ ChainTimeout \in Nat
  /\ MaxAge \in Nat /\ Revalidate \in Nat
  /\ MaxDb \in Nat /\ MaxChain \in Nat /\ MaxTime \in Nat

VARIABLES
  now,       \* the time
  db,        \* the account's version
  chain,     \* the registry's version
  dbEnd,     \* version -> when it was superseded
  chainEnd,
  cache,     \* machine -> its entry
  call,      \* request -> its handler
  viewer     \* the copy of an HTTP cache

vars == <<now, db, chain, dbEnd, chainEnd, cache, call, viewer>>
World == <<db, chain, dbEnd, chainEnd>>

Never == MaxTime + 1
Unknown == -1           \* the chain could not be read
Time == 0 .. MaxTime
Resolution == [db : 0 .. MaxDb, chain : Unknown .. MaxChain]
(* An entry, or a copy, with the time it may be used until.                *)
Kept == [res : Resolution, until : Nat]
None == [res |-> [db |-> 0, chain |-> Unknown], until |-> Never + 1]

Idle == [phase |-> "idle"]
(* What a write does after it is stored: addAddress and its like answer    *)
(* with a fresh read, updateProfile only invalidates, a default address    *)
(* (completeRegistration) does neither.                                    *)
Kind == {"address", "profile", "default"}
Call ==
  {Idle}
  \cup [phase : {"write"}, at : Machine, sent : Time, kind : Kind]
  \cup [phase : {"written"}, at : Machine, sent : Time, kind : Kind, wrote : 0 .. MaxDb]
  \cup [phase : {"db"}, at : Machine, sent : Time, wrote : 0 .. MaxDb]
  \cup [phase : {"dbAnswer"}, at : Machine, sent : Time, wrote : 0 .. MaxDb, row : 0 .. MaxDb]
  \cup [phase : {"chain"}, at : Machine, sent : Time, wrote : 0 .. MaxDb, row : 0 .. MaxDb]
  \cup [phase : {"answered"}, at : Machine, wrote : 0 .. MaxDb, res : Resolution]

TypeOK ==
  /\ now \in Time /\ db \in 0 .. MaxDb /\ chain \in 0 .. MaxChain
  /\ dbEnd \in [0 .. MaxDb -> Time \cup {Never}]
  /\ chainEnd \in [0 .. MaxChain -> Time \cup {Never}]
  /\ cache \in [Machine -> Kept \cup {None}]
  /\ call \in [Request -> Call]
  /\ viewer \in Kept \cup {None}
  /\ \A m \in Machine : cache[m] # None => cache[m].until <= now + TTL

Init ==
  /\ now = 0 /\ db = 0 /\ chain = 0
  /\ dbEnd = [v \in 0 .. MaxDb |-> Never]
  /\ chainEnd = [v \in 0 .. MaxChain |-> Never]
  /\ cache = [m \in Machine |-> None]
  /\ call = [r \in Request |-> Idle]
  /\ viewer = None

-----------------------------------------------------------------------------
Usable(kept) == kept # None /\ now <= kept.until

TimeoutOf(phase) == CASE phase \in {"write", "written", "db", "dbAnswer"} -> DbTimeout
                  [] phase = "chain" -> ChainTimeout
                  [] OTHER -> MaxTime
Overdue(r) == call[r].phase \notin {"idle", "answered"}
              /\ now - call[r].sent >= TimeoutOf(call[r].phase)
Tick ==
  /\ now < MaxTime
  /\ \A r \in Request : ~ Overdue(r)
  /\ now' = now + 1
  /\ UNCHANGED <<World, cache, call, viewer>>

RegistryChanges ==
  /\ chain < MaxChain
  /\ chain' = chain + 1
  /\ chainEnd' = [chainEnd EXCEPT ![chain] = now]
  /\ UNCHANGED <<now, db, dbEnd, cache, call, viewer>>

Goto(r, c) == call' = [call EXCEPT ![r] = c]
Reading(m, wrote) == [phase |-> "db", at |-> m, sent |-> now, wrote |-> wrote]

(* A hit answers at once; the answer may end up in an HTTP cache.          *)
Slid(m) == [cache EXCEPT ![m].until = now + TTL]
Untouched(m) == cache
Hit(m) ==
  /\ Usable(cache[m])
  /\ viewer' = [res |-> cache[m].res, until |-> now + MaxAge + Revalidate]
  /\ cache' = Untouched(m)
  /\ UNCHANGED <<now, World, call>>

Miss(r, m) ==
  /\ call[r] = Idle
  /\ ~ Usable(cache[m])
  /\ Goto(r, Reading(m, 0))
  /\ UNCHANGED <<now, World, cache, viewer>>

(* The database is read at one moment and its answer handled later; then   *)
(* the chain, which may fail.                                              *)
DbRead(r) ==
  /\ call[r].phase = "db"
  /\ Goto(r, [phase |-> "dbAnswer", at |-> call[r].at, sent |-> call[r].sent,
              wrote |-> call[r].wrote, row |-> db])
  /\ UNCHANGED <<now, World, cache, viewer>>
DbAnswers(r) ==
  /\ call[r].phase = "dbAnswer"
  /\ Goto(r, [call[r] EXCEPT !.phase = "chain", !.sent = now])
  /\ UNCHANGED <<now, World, cache, viewer>>

FillTooLong(m, res) == [cache EXCEPT ![m] = [res |-> res, until |-> now + TTL + MaxAge]]
Filled(m, res) == [cache EXCEPT ![m] = [res |-> res, until |-> now + TTL]]
(* Only GET /resolve is cacheable; a mutation's answer goes to its caller. *)
ChainAnswers(r) ==
  /\ call[r].phase = "chain"
  /\ \E seen \in {chain, Unknown} :
       LET res == [db |-> call[r].row, chain |-> seen] IN
       /\ cache' = Filled(call[r].at, res)
       /\ IF call[r].wrote = 0
          THEN /\ viewer' = [res |-> res, until |-> now + MaxAge + Revalidate]
               /\ Goto(r, Idle)
          ELSE /\ Goto(r, [phase |-> "answered", at |-> call[r].at,
                           wrote |-> call[r].wrote, res |-> res])
               /\ UNCHANGED viewer
  /\ UNCHANGED <<now, World>>

Write(r, m, kind) ==
  /\ call[r] = Idle
  /\ Goto(r, [phase |-> "write", at |-> m, sent |-> now, kind |-> kind])
  /\ UNCHANGED <<now, World, cache, viewer>>
Changed ==
  /\ db < MaxDb
  /\ db' = db + 1
  /\ dbEnd' = [dbEnd EXCEPT ![db] = now]
WriteLands(r) ==
  /\ call[r].phase = "write"
  /\ Changed
  /\ Goto(r, [phase |-> "written", at |-> call[r].at, sent |-> call[r].sent,
              kind |-> call[r].kind, wrote |-> db + 1])
  /\ UNCHANGED <<now, chain, chainEnd, cache, viewer>>

Invalidated(m) == [cache EXCEPT ![m] = None]
(* resolveForWallet: `fresh` skips the cache.                              *)
AnswerFromCache(r, m, wrote) ==
  IF Usable(cache[m])
  THEN Goto(r, [phase |-> "answered", at |-> m, wrote |-> wrote, res |-> cache[m].res])
  ELSE Goto(r, Reading(m, wrote))
AnswerFresh(r, m, wrote) == Goto(r, Reading(m, wrote))
WriteAnswers(r) ==
  /\ call[r].phase = "written"
  /\ LET m == call[r].at IN
     /\ IF call[r].kind = "default"
        THEN UNCHANGED cache
        ELSE cache' = Invalidated(m)
     /\ IF call[r].kind = "address" THEN AnswerFresh(r, m, call[r].wrote) ELSE Goto(r, Idle)
  /\ UNCHANGED <<now, World, viewer>>

Delivered(r) ==
  /\ call[r].phase = "answered"
  /\ Goto(r, Idle)
  /\ UNCHANGED <<now, World, cache, viewer>>

(* A query fails; a write may have been stored, and nothing invalidates.   *)
Fails(r) ==
  /\ call[r].phase \in {"write", "written", "db", "dbAnswer"}
  /\ Goto(r, Idle)
  /\ \/ UNCHANGED World
     \/ call[r].phase = "write" /\ Changed /\ UNCHANGED <<chain, chainEnd>>
  /\ UNCHANGED <<now, cache, viewer>>

(* Restarts empty a machine's cache; TtlCache.prune drops what expired.    *)
Forget(m) ==
  /\ cache[m] # None
  /\ cache' = Invalidated(m)
  /\ UNCHANGED <<now, World, call, viewer>>

Next ==
  \/ Tick \/ RegistryChanges
  \/ \E m \in Machine : Hit(m) \/ Forget(m)
  \/ \E r \in Request :
       \/ \E m \in Machine : Miss(r, m) \/ \E kind \in Kind : Write(r, m, kind)
       \/ DbRead(r) \/ DbAnswers(r) \/ ChainAnswers(r)
       \/ WriteLands(r) \/ WriteAnswers(r) \/ Delivered(r) \/ Fails(r)

Spec == Init /\ [][Next]_vars

-----------------------------------------------------------------------------
(* What was true at some moment in the last `age`.                         *)
TrueWithin(res, age) ==
  /\ dbEnd[res.db] >= now - age
  /\ res.chain # Unknown => chainEnd[res.chain] >= now - age

FillTime == DbTimeout + ChainTimeout
(* The staleness window the service promises, on any machine and whatever  *)
(* writes and fills ran beside the one that was cached: the cache's TTL    *)
(* after the fill (walletService.ts:59).                                   *)
CacheWithinWindow ==
  \A m \in Machine : Usable(cache[m]) => TrueWithin(cache[m].res, TTL + FillTime)

(* The worst case for a viewer behind an HTTP cache (walletService.ts:62). *)
ViewerWithinWindow ==
  Usable(viewer) => TrueWithin(viewer.res, TTL + FillTime + MaxAge + Revalidate)

(* A mutation's answer shows the mutation, whatever the machine had cached *)
(* (walletController.ts:31).                                               *)
AnswerShowsWrite ==
  \A r \in Request : call[r].phase = "answered" => call[r].res.db >= call[r].wrote
=============================================================================
