--------------------------------- MODULE Api --------------------------------
(***************************************************************************)
(* The API's services, which share its database and little else: tables,   *)
(* caches and buffers of one are not read by another, except as their      *)
(* modules say. A behaviour is one of the part it starts as, and the       *)
(* others stay as they are.                                                *)
(***************************************************************************)
EXTENDS Integers

CONSTANTS
  Request, Machine,
  SessionWallet, MaxVersion,                        \* Sessions
  Wallet, Name, Window, Skew, MaxRegisterTime,      \* Accounts
  Address, Held, Owner, Nonce,                      \* Addresses
  TTL, DbTimeout, ChainTimeout, MaxAge, Revalidate, \* ResolveCache
  MaxDb, MaxChain, MaxTime,
  Page, MaxPages, MaxBlock, MaxLogs,                \* LogPages
  Visitor, EdgeServer, ViaEdge, Limit, Unit,        \* RateLimit
  Second, PruneAt, PruneEvery,
  Guarded, MaxUses,                                 \* HttpApi
  Fill, Lengths                                     \* AddressRecords

VARIABLES
  part, now, call,                           \* shared by the parts
  version, tokens, revoked,                  \* Sessions
  users, eth, onchain,                       \* Accounts
  mapping, challenge, challenges, consumed,  \* Addresses
  db, chain, dbEnd, chainEnd, cache, viewer, \* ResolveCache
  count, start, out, page, state,            \* LogPages
  buckets, pruned, admitted,                 \* RateLimit
  request, at, status, used,                 \* HttpApi
  stage, coin, text, value, body, parsed     \* AddressRecords

S == INSTANCE Sessions WITH Wallet <- SessionWallet
A == INSTANCE Accounts WITH MaxTime <- MaxRegisterTime
D == INSTANCE Addresses WITH issued <- challenges
R == INSTANCE ResolveCache
L == INSTANCE LogPages
I == INSTANCE RateLimit
H == INSTANCE HttpApi
E == INSTANCE AddressRecords

ASSUME ApiConstants ==
  /\ S!SessionsConstants /\ A!AccountsConstants
  /\ D!AddressesConstants /\ R!ResolveConstants
  /\ L!PageConstants /\ I!RateLimitConstants
  /\ H!HttpConstants /\ E!RecordConstants

sessions == <<version, tokens, revoked>>
accounts == <<users, eth, onchain>>
addresses == <<mapping, challenge, challenges, consumed>>
resolve == <<db, chain, dbEnd, chainEnd, cache, viewer>>
pages == <<count, start, out, page, state>>
limits == <<buckets, pruned, admitted>>
http == <<request, at, status, used>>
records == <<stage, coin, text, value, body, parsed>>
all ==
  <<part, now, call, sessions, accounts, addresses, resolve, pages, limits,
    http, records>>

(* The other parts' variables: at their start, and at every step.          *)
Init ==
  /\ part \in {"sessions", "accounts", "addresses", "resolve", "pages",
               "limits", "http", "records"}
  /\ IF part = "sessions" THEN S!Init
     ELSE version = 0 /\ tokens = 0 /\ revoked = 0
  /\ IF part = "accounts" THEN A!Init ELSE users = 0 /\ eth = 0 /\ onchain = 0
  /\ IF part = "addresses" THEN D!Init
     ELSE mapping = 0 /\ challenge = 0 /\ challenges = 0 /\ consumed = 0
  /\ IF part = "resolve" THEN R!Init
     ELSE /\ db = 0 /\ chain = 0 /\ dbEnd = 0 /\ chainEnd = 0
          /\ cache = 0 /\ viewer = 0
  /\ IF part = "pages" THEN L!Init
     ELSE count = 0 /\ start = 0 /\ out = 0 /\ page = 0 /\ state = 0
  /\ IF part = "limits" THEN I!Init
     ELSE buckets = 0 /\ pruned = 0 /\ admitted = 0
  /\ IF part = "http" THEN H!Init
     ELSE request = 0 /\ at = 0 /\ status = 0 /\ used = 0
  /\ IF part = "records" THEN E!Init
     ELSE /\ stage = 0 /\ coin = 0 /\ text = 0
          /\ value = 0 /\ body = 0 /\ parsed = 0
  /\ part \in {"accounts", "resolve", "limits"} \/ now = 0
  /\ part \in {"sessions", "accounts", "addresses", "resolve"} \/ call = 0

Only(p) ==
  /\ part' = part
  /\ IF p = "sessions" THEN TRUE ELSE UNCHANGED sessions
  /\ IF p = "accounts" THEN TRUE ELSE UNCHANGED accounts
  /\ IF p = "addresses" THEN TRUE ELSE UNCHANGED addresses
  /\ IF p = "resolve" THEN TRUE ELSE UNCHANGED resolve
  /\ IF p = "pages" THEN TRUE ELSE UNCHANGED pages
  /\ IF p = "limits" THEN TRUE ELSE UNCHANGED limits
  /\ IF p = "http" THEN TRUE ELSE UNCHANGED http
  /\ IF p = "records" THEN TRUE ELSE UNCHANGED records

Next ==
  \/ part = "sessions" /\ S!Next /\ UNCHANGED now /\ Only("sessions")
  \/ part = "accounts" /\ A!Next /\ Only("accounts")
  \/ part = "addresses" /\ D!Next /\ UNCHANGED now /\ Only("addresses")
  \/ part = "resolve" /\ R!Next /\ Only("resolve")
  \/ part = "pages" /\ L!Next /\ UNCHANGED <<now, call>> /\ Only("pages")
  \/ part = "limits" /\ I!Next /\ UNCHANGED call /\ Only("limits")
  \/ part = "http" /\ H!Next /\ UNCHANGED <<now, call>> /\ Only("http")
  \/ part = "records" /\ E!Next /\ UNCHANGED <<now, call>> /\ Only("records")

Spec == Init /\ [][Next]_all

-----------------------------------------------------------------------------
TypeOK ==
  CASE part = "sessions" -> S!TypeOK
    [] part = "accounts" -> A!TypeOK
    [] part = "addresses" -> D!TypeOK
    [] part = "resolve" -> R!TypeOK
    [] part = "pages" -> L!TypeOK
    [] part = "limits" -> I!TypeOK
    [] part = "http" -> H!TypeOK
    [] part = "records" -> E!TypeOK

(* Who is refused stays out: a revoked token is no session, and what came  *)
(* round the edge or past a limiter reaches nothing (authService.ts:268,   *)
(* routes/index.ts:16).                                                    *)
RefusedStayOut ==
  /\ part = "sessions" => S!RevokedStayOut
  /\ part = "http" => H!WorkIsPaidFor
(* An answer or a refusal says what is so: a registration's, whatever ran  *)
(* beside it, and a request's in an outage of the database.                *)
AnswersAreTrue ==
  /\ part = "accounts" => A!AnswersAreTrue
  /\ part = "http" => H!OutagesAreRetryable
(* An address is "verified" once its own key signed, and a challenge is    *)
(* used once (verificationService.ts:143, 179).                            *)
AddressesAreProved == part = "addresses" => D!VerifiedIsHeld /\ D!ConsumedOnce
(* No answer is older than the caches' windows, and a mutation's shows it  *)
(* (walletService.ts:59-62, walletController.ts:31).                       *)
AnswersWithinWindow ==
  part = "resolve" =>
    R!CacheWithinWindow /\ R!ViewerWithinWindow /\ R!AnswerShowsWrite
(* What is counted, summed or decoded is exact: a range's logs, whatever   *)
(* the pages (onchainEventsService.ts), a client's budget and its wait     *)
(* (rateLimit.ts), a record's bytes and the address shown for them.        *)
NothingIsMiscounted ==
  /\ part = "pages" => L!EveryLog /\ L!GivesUpOnlyThen
  /\ part = "limits" => I!WithinBudget /\ I!WaitIsRight
  /\ part = "records" => E!RecordsReadBack /\ E!StoredIsShown

(* What one request may not do to another's: only revokes end sessions, an *)
(* offered name is not refused, a retry brings nothing back, and a newer   *)
(* challenge is not consumed by an older one's answer.                     *)
WritesKeepTheirWord ==
  [][/\ part = "sessions" => S!OnlyRevokesEnd
     /\ part = "accounts" => A!OfferedIsNotRefused /\ A!RetryKeepsEdits
     /\ part = "addresses" => D!NewerSurvives]_all
=============================================================================
