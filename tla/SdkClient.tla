------------------------------ MODULE SdkClient -----------------------------
(***************************************************************************)
(* The SDK's client: one name, resolved by several calls of one Paytag     *)
(* object that share its cache. requestJson races the fetch, then the body,*)
(* against one timer, while the caller may abort; fresh and minBlock skip  *)
(* the cache, and every good answer is written back to it. What the server *)
(* says is a version number; version 0 is an unregistered name. With       *)
(* minBlock the call is resolveViaIndexer with indexerCache set; the block *)
(* asked for is written as the first version that shows it.                *)
(***************************************************************************)
EXTENDS Integers

CONSTANTS
  Call,        \* calls that may be in progress together
  TTL,         \* the cache's ttlMs
  Timeout,     \* timeoutMs; 0 is no timer
  MaxVersion,  \* bound: how often the name changes
  MaxTime      \* bound: the last instant explored

SdkConstants ==
  TTL \in Nat \ {0} /\ Timeout \in Nat /\ MaxVersion \in Nat /\ MaxTime \in Nat

VARIABLES
  now,     \* the time
  server,  \* the version the server answers with
  ended,   \* version -> when it was superseded
  cache,   \* the name's entry
  call     \* call -> its progress

vars == <<now, server, ended, cache, call>>

Never == MaxTime + 1
Time == 0 .. MaxTime
Version == 0 .. MaxVersion
NoEntry == [value |-> 0, expiresAt |-> -1]

(* What a call asks for: any answer, the cache's too; a fresh one; or one  *)
(* that shows the last version.                                            *)
Any == -1
Fresh == 0
Asked == {Any, Fresh, MaxVersion}
(* What a response says: a registered name's answer, a 404 that names the  *)
(* reason, an error that does not (a proxy's 404, a server behind minBlock,*)
(* any 5xx), a 200 that is no answer. `of` is a value's version.           *)
Said == {"nothing", "value", "notFound", "other", "junk"}
Outcome == {"value", "TIMEOUT", "AbortError", "NETWORK_ERROR",
            "USER_NOT_FOUND", "HTTP_ERROR", "INVALID_RESPONSE"}
Idle == [phase |-> "idle"]
Running ==
  [phase : {"fetch", "body"}, since : Time, asked : Asked, aborted : BOOLEAN,
   said : Said, of : Version]
Done ==
  [phase : {"done"}, since : Time, asked : Asked, is : Outcome, of : Version]

TypeOK ==
  /\ now \in Time /\ server \in Version
  /\ ended \in [Version -> Time \cup {Never}]
  /\ cache \in [value : Version, expiresAt : 0 .. MaxTime + TTL] \cup {NoEntry}
  /\ call \in [Call -> {Idle} \cup Running \cup Done]

Init ==
  /\ now = 0 /\ server = 0
  /\ ended = [v \in Version |-> Never]
  /\ cache = NoEntry
  /\ call = [c \in Call |-> Idle]

-----------------------------------------------------------------------------
World == <<now, server, ended>>
InFlight(c) == call[c].phase \in {"fetch", "body"}
Ready(c) == call[c].phase \in {"idle", "done"}

(* The promise of the call settles.                                        *)
Settled(c, is, of) ==
  call' = [call EXCEPT ![c] =
    [phase |-> "done", since |-> @.since, asked |-> @.asked,
     is |-> is, of |-> of]]

Changes ==
  /\ server < MaxVersion
  /\ server' = server + 1
  /\ ended' = [ended EXCEPT ![server] = now]
  /\ UNCHANGED <<now, cache, call>>

(* MemoryCache.get: an entry is good until its time, inclusive.            *)
Hit(asked) == asked = Any /\ cache # NoEntry /\ now <= cache.expiresAt
Untouched == cache

Serves(c, asked) ==
  /\ Ready(c) /\ Hit(asked)
  /\ cache' = Untouched
  /\ call' = [call EXCEPT ![c] =
       [phase |-> "done", since |-> now, asked |-> asked,
        is |-> "value", of |-> cache.value]]
  /\ UNCHANGED World

(* requestJson starts. An expired entry that get found is dropped.         *)
Requests(c, asked) ==
  /\ Ready(c) /\ ~Hit(asked)
  /\ cache' = IF asked = Any THEN NoEntry ELSE cache
  /\ call' = [call EXCEPT ![c] =
       [phase |-> "fetch", since |-> now, asked |-> asked, aborted |-> FALSE,
        said |-> "nothing", of |-> 0]]
  /\ UNCHANGED World

(* The caller's signal: it may have been aborted before the call, too.     *)
Aborts(c) ==
  /\ InFlight(c) /\ ~call[c].aborted
  /\ call' = [call EXCEPT ![c].aborted = TRUE]
  /\ UNCHANGED <<World, cache>>

-----------------------------------------------------------------------------
(* The server reads, or something in front of it answers, and the headers  *)
(* arrive. A server behind minBlock says so with a 503.                    *)
Answers(c) ==
  {"other", "junk"}
  \cup IF server < call[c].asked THEN {}
       ELSE IF server = 0 THEN {"notFound"} ELSE {"value"}

HeadersArrive(c) ==
  /\ call[c].phase = "fetch"
  /\ \E what \in Answers(c) :
       call' = [call EXCEPT ![c].phase = "body", ![c].said = what,
                            ![c].of = IF what = "value" THEN server ELSE 0]
  /\ UNCHANGED <<World, cache>>

(* The fetch rejects. One that ignores the signal may reject with its own  *)
(* error after an abort, or not at all.                                    *)
FetchFails(c) ==
  /\ call[c].phase = "fetch"
  /\ \/ Settled(c, "NETWORK_ERROR", 0)
     \/ call[c].aborted /\ Settled(c, "AbortError", 0)
  /\ UNCHANGED <<World, cache>>

(* extractApiError, of a response that is not ok with a body or without.   *)
ErrorFor(said) == IF said = "notFound" THEN "USER_NOT_FOUND" ELSE "HTTP_ERROR"

Ok(c) == call[c].said \in {"value", "junk"}

BodyArrives(c) ==
  /\ call[c].phase = "body"
  /\ CASE call[c].said = "value" ->
            /\ Settled(c, "value", call[c].of)
            /\ cache' = [value |-> call[c].of, expiresAt |-> now + TTL]
       [] call[c].said = "junk" ->
            Settled(c, "INVALID_RESPONSE", 0) /\ cache' = cache
       [] OTHER -> Settled(c, ErrorFor(call[c].said), 0) /\ cache' = cache
  /\ UNCHANGED World

(* After an abort the error is the caller's; otherwise it is an empty body,*)
(* which is no code and no answer.                                         *)
BodyFails(c) ==
  /\ call[c].phase = "body"
  /\ Settled(c, IF call[c].aborted THEN "AbortError"
                ELSE IF Ok(c) THEN "INVALID_RESPONSE" ELSE "HTTP_ERROR", 0)
  /\ UNCHANGED <<World, cache>>

(* The timer covers the fetch and the body.                                *)
Bounded(c) == InFlight(c)
Due(c) == Timeout > 0 /\ Bounded(c) /\ now = call[c].since + Timeout

Expires(c) ==
  /\ Due(c)
  /\ Settled(c, "TIMEOUT", 0)
  /\ UNCHANGED <<World, cache>>

Invalidate ==
  /\ cache # NoEntry
  /\ cache' = NoEntry
  /\ UNCHANGED <<World, call>>

(* Time passes once the timers that are due have fired; a settled call is  *)
(* looked at in the tick it settles in.                                    *)
Tick ==
  /\ now < MaxTime
  /\ \A c \in Call : ~Due(c)
  /\ now' = now + 1
  /\ call' = [c \in Call |-> IF call[c].phase = "done" THEN Idle ELSE call[c]]
  /\ UNCHANGED <<server, ended, cache>>

Starts(c) ==
  \E asked \in Asked : Serves(c, asked) \/ Requests(c, asked)

Next ==
  \/ Changes \/ Invalidate \/ Tick
  \/ \E c \in Call :
       \/ Starts(c) \/ Aborts(c) \/ HeadersArrive(c)
       \/ FetchFails(c) \/ BodyArrives(c) \/ BodyFails(c) \/ Expires(c)

Spec == Init /\ [][Next]_vars

-----------------------------------------------------------------------------
LastTrue(v) == IF v = server THEN now ELSE ended[v]
Finished == {c \in Call : call[c].phase = "done"}
Values == {c \in Finished : call[c].is = "value"}

(* How old an answer can be: the cache's TTL from when it was written, which
   is at most the timeout after it was asked for (client.ts:46-48, "a result
   can show a previous owner and records for up to the TTL"). A call that
   skips the cache gets what was true after it was made, and one with
   minBlock an answer that shows that block.                               *)
ValuesWithinWindow ==
  \A c \in Values :
    /\ Timeout > 0 => LastTrue(call[c].of) >= now - TTL - Timeout
    /\ call[c].asked # Any => LastTrue(call[c].of) >= call[c].since
    /\ call[c].of >= call[c].asked

(* A call's error tells what happened: a timeout comes at the deadline and
   never before or after it, whatever the fetch does (client.ts:239-276), and
   a name is not found only if it was not registered while the call was made:
   not because some proxy sent a 404 (client.ts:405-409), which a caller could
   take for a free name.                                                   *)
ErrorsAreTrue ==
  /\ \A c \in Call :
       Timeout > 0 /\ InFlight(c) => now <= call[c].since + Timeout
  /\ \A c \in Finished :
       /\ call[c].is = "TIMEOUT" => now = call[c].since + Timeout
       /\ call[c].is = "USER_NOT_FOUND" => LastTrue(0) >= call[c].since
=============================================================================
