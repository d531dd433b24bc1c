------------------------------- MODULE HttpApi ------------------------------
(***************************************************************************)
(* One request's way through the API to a status: CORS, the edge guard,    *)
(* the JSON parser and the router, then its route's chain of limiter,      *)
(* requireAuth, validate and handler, and the error handler. Whether the   *)
(* limiter lets it pass is RateLimit's, what the handler answers is the    *)
(* other modules'; the database may fail at each of its uses.              *)
(***************************************************************************)
EXTENDS Integers, Sequences

CONSTANTS
  Guarded,   \* EDGE_SECRET is set
  MaxUses    \* a bound: uses of the database for one request

HttpConstants == Guarded \in BOOLEAN /\ MaxUses \in Nat

VARIABLES
  request,  \* what is asked
  at,       \* the stage it is at
  status,   \* the answer, 0 while there is none
  used      \* each use of the database: whether the request needed it, and
            \* what became of it

vars == <<request, at, status, used>>

(* A fault of the database as postgrest-js reports it: the code and the    *)
(* HTTP status, if there are any.                                          *)
Fault ==
  [refused |-> [code |-> "none", status |-> 0],        \* or timed out
   paused |-> [code |-> "none", status |-> 540],       \* the gateway answers
   throttled |-> [code |-> "none", status |-> 429],
   schemaCache |-> [code |-> "PGRST002", status |-> 503],
   shutdown |-> [code |-> "57P01", status |-> 500],
   connections |-> [code |-> "53300", status |-> 500],
   badKey |-> [code |-> "none", status |-> 401],
   missing |-> [code |-> "42P01", status |-> 404],
   slowQuery |-> [code |-> "57014", status |-> 500]]

UnavailableCode ==
  {"PGRST000", "PGRST001", "PGRST002", "PGRST003", "08000", "53300",
   "57P01", "57P02", "57P03", "57P05"}
UnavailableByStatus(f) == f.status >= 500
IsDatabaseUnavailable(f) ==
  IF f.code # "none" THEN f.code \in UnavailableCode
  ELSE f.status \in {0, 429} \/ f.status >= 500
(* The AppError of an outage carries its status; any other error is a 500. *)
DbError(f) == IF IsDatabaseUnavailable(Fault[f]) THEN 503 ELSE 500

(* What is asked, and what is wrong with it. A revoked token is a token    *)
(* the database has a newer session for.                                   *)
Route ==
  {"health", "ping", "signIn", "logoutAll", "register", "me", "edit", "read",
   "none"}
Requests ==
  [route : Route, preflight : BOOLEAN, edge : BOOLEAN,
   body : {"good", "malformed", "tooLarge", "badEncoding"}, escapes : BOOLEAN,
   token : {"none", "bad", "revoked", "good"}, valid : BOOLEAN]

Chain(route) ==
  CASE route = "signIn" -> <<"limit", "validate", "handler">>
    [] route = "logoutAll" -> <<"limit", "requireAuth", "handler">>
    [] route = "register" -> <<"limit", "requireAuth", "validate", "handler">>
    [] route = "me" -> <<"requireAuth", "handler">>
    [] route = "edit" -> <<"requireAuth", "validate", "handler">>
    [] route = "read" -> <<"limit", "validate", "handler">>
    [] route = "ping" -> <<"ping">>
    [] route = "health" -> <<"health">>
    [] route = "none" -> <<"notFound">>
Stages == <<"cors", "edgeGuard", "json", "router">> \o Chain(request.route)
Limited == request.route \in {"signIn", "logoutAll", "register", "read"}

TypeOK ==
  /\ request \in Requests
  /\ at \in 1 .. Len(Stages)
  /\ status \in {0, 200, 204, 400, 401, 403, 404, 413, 415, 429, 500, 503}
  /\ used \in Seq([needed : BOOLEAN, was : {"fine"} \cup DOMAIN Fault])

Init ==
  /\ request \in Requests
  /\ at = 1 /\ status = 0 /\ used = <<>>

-----------------------------------------------------------------------------
Stage == Stages[at]
Pass == at' = at + 1 /\ status' = status
Answer(code) == status' = code /\ at' = at

(* A stage that needs no database answers, or else calls next(): CORS a    *)
(* preflight of an origin it allows, the guard what came round the edge,   *)
(* the parser a bad body, the router a bad %-escape of a parameter,        *)
(* validate what the schema refuses.                                       *)
Refusal ==
  [cors |-> IF request.preflight THEN 204 ELSE 0,
   edgeGuard |->
     IF Guarded /\ request.route # "health" /\ ~request.edge THEN 403 ELSE 0,
   json |-> CASE request.body = "malformed" -> 400
              [] request.body = "tooLarge" -> 413
              [] request.body = "badEncoding" -> 415
              [] OTHER -> 0,
   router |->
     IF request.route \in {"read", "edit"} /\ ~request.escapes THEN 400 ELSE 0,
   validate |-> IF request.valid THEN 0 ELSE 400]

Passes ==
  /\ status = 0 /\ Stage \in DOMAIN Refusal
  /\ IF Refusal[Stage] = 0 THEN Pass ELSE Answer(Refusal[Stage])
  /\ UNCHANGED <<request, used>>

(* The limiter, which a public read with the server's key skips.           *)
IsLimited ==
  /\ status = 0 /\ Stage = "limit"
  /\ Pass \/ Answer(429)
  /\ UNCHANGED <<request, used>>

(* requireAuth, of a token that verifies, reads the session version.       *)
Unsigned ==
  /\ status = 0 /\ Stage = "requireAuth" /\ request.token \in {"none", "bad"}
  /\ Answer(401)
  /\ UNCHANGED <<request, used>>

Uses(needed, f) == used' = Append(used, [needed |-> needed, was |-> f])
ReadSession ==
  /\ status = 0 /\ Stage = "requireAuth" /\ request.token \in {"revoked", "good"}
  /\ \/ Uses(TRUE, "fine") /\ IF request.token = "good" THEN Pass ELSE Answer(401)
     \/ \E f \in DOMAIN Fault : Uses(TRUE, f) /\ Answer(DbError(f))
  /\ UNCHANGED request

(* The routes whose handlers go on without some of what they ask of the    *)
(* database: the prune of used nonces, the default address, the sync (and  *)
(* the giving back of its lease) before a list.                            *)
Spared == {"signIn", "register", "read"}

(* The route's own work: uses of the database one after another, the first *)
(* it cannot do without that fails being its answer.                       *)
Works ==
  /\ status = 0 /\ Stage = "handler"
  /\ \/ Answer(200) /\ UNCHANGED used
     \/ /\ Len(used) < MaxUses
        /\ \/ Uses(TRUE, "fine") /\ UNCHANGED <<at, status>>
           \/ /\ request.route \in Spared
              /\ \E f \in {"fine"} \cup DOMAIN Fault : Uses(FALSE, f)
              /\ UNCHANGED <<at, status>>
           \/ \E f \in DOMAIN Fault : Uses(TRUE, f) /\ Answer(DbError(f))
  /\ UNCHANGED request

(* /ping asks once, and answers any fault itself.                          *)
Pings ==
  /\ status = 0 /\ Stage = "ping"
  /\ \/ Uses(TRUE, "fine") /\ Answer(200)
     \/ \E f \in DOMAIN Fault : Uses(TRUE, f) /\ Answer(503)
  /\ UNCHANGED request

NeedsNothing ==
  /\ status = 0 /\ Stage \in {"health", "notFound"}
  /\ Answer(IF Stage = "health" THEN 200 ELSE 404)
  /\ UNCHANGED <<request, used>>

Answered == status # 0 /\ UNCHANGED vars

Next ==
  \/ Passes \/ IsLimited \/ Unsigned \/ ReadSession \/ Works \/ Pings
  \/ NeedsNothing \/ Answered

Spec == Init /\ [][Next]_vars

-----------------------------------------------------------------------------
Met(f) == \E i \in DOMAIN used : used[i] = [needed |-> TRUE, was |-> f]
Outages == {"refused", "paused", "throttled", "schemaCache", "shutdown", "connections"}

(* While the database cannot be reached a request that cannot do without it
   is told to retry, and is never told that it is signed out or that what it
   asks for does not exist, which clients act on. What a retry cannot clear
   is not a 503, but for the probe, which reports any. And only such a use
   makes a request fail: one it does without never does (dbErrors.ts:4-5,
   35-41, authService.ts:233, userService.ts:253-256,
   onchainEventsService.ts:399).                                           *)
OutagesAreRetryable ==
  /\ status # 0 =>
       \A f \in DOMAIN Fault : Met(f) =>
         status = IF f \in Outages \/ request.route = "ping" THEN 503 ELSE 500
  /\ status \in {500, 503} => \E f \in DOMAIN Fault : Met(f)

(* The database does no work for what came round the edge, nor for a public
   route before its limiter and its schema let the request pass
   (routes/index.ts:16-24, edgeGuard.ts:4-10): a limited route never comes to
   it while its limiter refuses, and with a good answer nothing was wrong.  *)
WorkIsPaidFor ==
  /\ used # <<>> =>
       /\ Guarded => request.edge
       /\ Limited => at > CHOOSE i \in DOMAIN Stages : Stages[i] = "limit"
       /\ request.route \in {"signIn", "read"} => request.valid
  /\ status = 200 /\ request.route \in {"logoutAll", "register", "me", "edit"} =>
       request.token = "good"
=============================================================================
