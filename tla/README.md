# Paytag in TLA+

Specifications of the parts of Paytag whose correctness depends on the order in which things
happen: the two contracts, the copy of their events that the API keeps, the API's accounts,
sign-in, addresses and caches, the SDK's client, and the pages of the web application that sign
in, claim, register, edit and pay. Modules are checked with TLC on small instances and, where
TLAPS can, proved for every value of their constants. `PROJECT.json` maps each definition to the
lines it models and lists the runs, the hazards they are for, the theorems and the findings.

## The system

| Component | State it keeps | Operations | What makes it correct |
| --- | --- | --- | --- |
| **Registry** (`contracts/src/PaytagRegistry.sol`) | `_names` (owner, epoch), `_commitments` per committer | commit, register, transfer | one registration per name ever; only the owner hands a name over; a pending reveal can't be raced; events agree with storage |
| **Resolver** (`contracts/src/PaytagResolver.sol`) | `_ethRecords`, `_records` by (node, epoch), `_reverse` | setRecord, setReverse, addr, reverse | a handover hides every record at once; a reverse name is one whose record agrees; the log replays to the same answers |
| **Event sync** (`onchainEventsService.ts`, migration 0008) | `onchain_events`, cursor, lease; a call in progress per machine | catchUp over Blockscout, then `eth_getLogs` | every event up to the cursor is stored, no orphaned one is, the sync survives dead machines |
| **On-chain reads** (`onchainService.ts`, `onchainEventsService.ts`) | lookup cache, remembered registrations | resolve, reverse, names by owner | a lookup that waits for a write shows it or is a 503; no list shows a wrong name |
| **Sign-in and sessions** (`authService.ts`, `middleware/auth.ts`) | spent nonces, `session_version` | nonce, verify, revoke, prune | a signed message signs in once; a revoke ends every token issued before it |
| **Accounts** (`userService.ts`) | `users` | register (with retry), availability | one wallet one name; a retry gives the same answer and resurrects nothing |
| **Addresses** (`walletService.ts`, `verificationService.ts`) | `wallet_mappings`, challenges | add, remove, challenge, verify | verified means the holder of *that* address signed |
| **Resolve cache** (`walletService.ts`, `utils/cache.ts`) | per-machine TTL cache | resolve, invalidate | staleness is bounded by what the comments promise |
| **HTTP surface** (`middleware/`, `routes/`) | rate-limit buckets | admit or refuse | nothing reaches a handler past a guard; a burst and a rate are never exceeded |
| **Records** (`web/lib/onchain/codec`, `src/onchain/codec.ts`, SDK) | none | encode, decode, check | what is shown is what was stored, and nothing else is accepted |
| **SDK client** (`packages/sdk`) | response cache | resolve, with timer, abort and `minBlock` | an answer is no older than its window; an error says why |
| **Web, on-chain writes** (`web/lib/onchain`, `RegisterPanel.tsx`, `NameCard.tsx`) | transaction machine, stored secrets, last write | reserve, register, edit, read after write | no secret the page knows to be of use is dropped; no read answered after a write is from before it |
| **Web, payments** (`PayFlow.tsx`, `lib/pay`, `lib/prices.ts`) | payment stage, adapters' wallets, price cache | look up, estimate, send, confirm | a payment goes to who is on screen, from the account on screen, once |
| **Web, session and claim** (`lib/auth.ts`, `Dashboard.tsx`, `ClaimWizard.tsx`) | the session all tabs share, `/me` under way, the wizard's step | sign in and out, hear other tabs, claim | one session everywhere; a claim that says "done" is done |
| **Web, other pages** (`AddressManager.tsx`, `LookupPanel.tsx`, `ClaimInput.tsx`, `status.ts`) | drafts, requests under way, what is shown | edit, look up, report | a late answer is shown only for what it was asked about |

They interact like this. Wallets send transactions to the contracts; a transaction runs alone, so
the contracts' interleavings are sequences of whole calls. The API's machines (two on Fly.io,
`fly.toml`) read the contracts through RPC nodes of different heights, and copy events into one
shared Postgres table on the request path. They share nothing but that database: leases, unique
keys and conditional updates are the only coordination, and each `await` is a point where another
machine, a timeout or a crash may come between. The web application and the SDK act on answers that
may be older than what was done since, through wallets that switch account or network on their own.

The hard behaviours, each listed at its line in `PROJECT.json` under `hazards`: reveals and
transfers in any order; reads that combine a cursor, a table and a tail while another machine moves
the cursor; leases that expire under a running call; half-applied database calls; reorganisations;
retries of what was already done; cached values stored after they became stale; answers that come
after the wallet, the draft, the tab or the page changed.

## Modules

| Module | Models | Checked by | Proofs |
| --- | --- | --- | --- |
| `PaytagRegistry` | the registry and its event log | `MCPaytagRegistry` | `PaytagRegistryProofs` |
| `PaytagResolver` (extends it) | both contracts together | `MCPaytagResolver` | `PaytagResolverProofs` |
| `NameDirectory` | what the two promise: a flat directory without epochs, commitments or log | as a refinement | the refinement, in `PaytagResolverProofs` |
| `EventSync` | `catchUp` on several machines, the database functions, the chain and its readers | `MCEventSync`, `MCLive` | `EventSyncProofs` |
| `SignIn` | nonces, their rows, pruning, skewed clocks | `MCSignIn` | `SignInProofs` |
| `Api` | the services of the API, one part each: | `MCApi` | `ApiProofs` |
| - `Sessions` | tokens, `session_version`, sign out everywhere | | |
| - `Accounts` | registration, retries, availability | | |
| - `Addresses` | one account's address on one chain and its challenges | | |
| - `ResolveCache` | resolving a username through caches | | |
| - `LogPages` | the explorer's pages of logs | | |
| - `RateLimit` | one machine's token buckets and how a client is told | | |
| - `HttpApi` | a request through the middleware to a status | | |
| - `AddressRecords` | a record from its owner's text to who pays it | | |
| `Readers` | who reads a name, one part each: | `MCOnchainReads` | `ReadersProofs` |
| - `OnchainReads` | lists and lookups, over a table that fills as `EventSync` shows | | |
| - `SdkClient` | the SDK's calls, cache, timer and aborts | | |
| `NamePages` | pages that manage names and addresses, one part each: | `MCNamePages` | `NamePagesProofs` |
| - `Reservations` | the two-step registration and its saved secrets | also `MCLive` | |
| - `RecordEdits` | one record of a name's card, its transaction and the reads after it | | |
| - `AddressBook` | the dashboard's addresses and their edits | | |
| - `NameLookups` | what is typed, asked and shown | | |
| `Web` | pages that act for a user, one part each: | `MCWeb` | `WebProofs` |
| - `WebSession` | the session in storage, tabs, `/me` | | |
| - `Payments` | lookup, tabs, a payment's stages | | |
| - `PayAdapters` | the wallets behind the tabs | | |
| - `Prices` | the price beside an amount | | |
| - `ClaimWizard` | claiming a name | also `MCLive` | |
| - `StatusReport` | the status page's probes and verdicts | | |

`Api`, `Readers`, `NamePages` and `Web` join modules whose state nothing shares but the few variables
their headers name. A variable `part` says which of them a behaviour is about: `Init` starts that
part and leaves the others' variables at a constant, a step is a step of that part, and each property
is "if this is part p, then p's property". So one run explores every part in full, none of them
multiplied with another, and one theorem covers them all. Where components do interact, the
interaction is inside a module: the resolver with the registry, the readers with the sync's table and
cursor, the claim with registration and with the session, the record's way with web, API and SDK.

### The contracts

`names`, `commitments`, `ethRecords`, `records` and `claims` are the contracts' mappings; `clock` is
`block.timestamp`; `events` is the log, in order; `caller` is `msg.sender` of the last transaction,
kept only so that action properties can say who did something. Each external function is one action
(a transaction is atomic). A revert changes nothing, so its condition is the negation of a guard and
there is no step for it. `Tick` is the next block: any number of transactions may share one.

Abstracted: a node is a model value, and `NodeOf` maps each spelling a caller may pass to its node,
or to none when `_normalizeInPlace` reverts (so two spellings of one name, an invalid name and a
reserved one are all there). keccak256 is collision free, so a commitment is the triple it hashes.
A record value is an address (20 bytes), some other blob, or empty; that is all the code looks at.
`transfer(n, 0)`, an ETH record of 20 zero bytes and one of another length are inputs that are tried
and refused. The epoch has `EpochSpan` values and wraps, as `unchecked` `uint96` addition does.

### The event sync

One machine's `catchUp` is a record in `sync`: its phase is the request it awaits next, `target`,
`cursor`, `to` and `rows` are the locals of that name (`to` is `end` on the RPC path). Every request
is one step and has a failing twin: the request took no effect, or it took effect and the answer was
lost. `Crash` ends a call anywhere. `TryLease`, `DbAdvance` and `Release` are the three SQL functions
of migration 0008, each one `update` and so atomic. `leaseLeft` is `lease_until - now()`, -1 once it
has passed. A lease token is a fresh UUID per call: it is modelled by the machine's name while the
call runs, and by `Orphan` once a call has ended without releasing.

The surroundings are modelled from how the code uses them. A block stands for the events in it, a
reorganised height has a different `fork`, and the table holds at most one row per height, as the
primary key does per (block, log index). `NodeHeight` is the height of whichever RPC node answers: up
to `Lag` behind. Blockscout has indexed up to some height, perhaps with gaps; it says it has finished
exactly when there are none. `MarginSuffices` names the assumption that `ONCHAIN_CONFIRMATIONS` is
there for: neither a reorganisation nor a lagging node reaches deeper.

Abstracted here: the split of an insert into batches of 500 (a failed insert leaves any subset),
decoding, and the request-path throttle `SYNC_EVERY_MS`, which only makes calls rarer. Paging of the
explorer's logs is `LogPages`: `state` is where its loop stands, `start` and `out` its locals; every
way up to three logs per block fall over pages of three is an initial state.

### The API

A request in progress is a record in `call`: its phase is the `await` it is at and its fields are the
locals it carries over it. Tables are sets or functions of rows; a conditional update or an upsert is
one step, and each may fail before or after it took effect.

- `SignIn`: `used` holds the rows of `auth_nonces_used` with the time of the database; each machine's
  clock differs from it by at most `Skew`. A nonce is stateless: its issue time and its TTL are all
  there is. `Prune` deletes what is older than the retention. A request carries nonce, wallet, domain
  and signature as issued; one in which any is wrong changes nothing. A database request lands within
  `DbTimeout` or never.
- `Sessions`: `version` is `users.session_version`, a token carries the version it was signed with,
  `revoked` remembers which tokens a revoke was to end. Registrations create the row, so a token may
  be older than its account.
- `Accounts`: `users` are the rows, `onchain` what the registry says; a registration checks, inserts,
  classifies the conflict and falls back on "this is my own row, inserted within the window", which is
  the retry. Another device of the owner edits in between.
- `Addresses`: `mapping` is the row of one (user, chain) and `challenge` the stored nonce;
  saves, removals, challenges and verifications overlap in any order. Formats and signatures are one
  check: `Held` are the addresses whose key the caller has.
- `ResolveCache`: contents are version numbers of the database's and the registry's answers; `cache`
  is each machine's TTL cache, `viewer` an HTTP cache in front of `/resolve`. A timed-out query ends
  the request, not the query.
- `RateLimit`: buckets are refilled continuously (in `Unit`ths of a token), full ones are forgotten
  when there are many; addresses are told apart as `ipKey` does, with IPv6 prefixes and IPv4 in IPv6.
- `HttpApi`: `Stages` is the chain of middleware of a route; a handler uses the database several
  times (at most `MaxUses` with the session's read) and each use may fail. The first one the request
  needs that fails is its answer; what the code does without (the default address, the prune of used
  nonces, the sync before a list) is noted in `used` as not needed, and fails no request. The
  limiter's verdict and the handler's answer are the other modules'; headers, schemas and a preflight
  of a foreign origin are abstracted.
- `AddressRecords`: one record per behaviour. base58, bech32 and EIP-55 are modelled by what they
  decode to, so they are bijections, a checksum being a function of what it covers; what is not
  checked by a checksum is told apart by length and by how the bytes begin.

### Readers

`OnchainReads` follows one request's `call` through the reads it makes: the head, the cursor, the
stored rows, the tail in chunks. The chain (`head`, the `owner` since each block and the block's
`fork`), the cursor (`synced`) and the table (`stored`) move under it. Any node answers, up to `Lag`
behind; asked for blocks it lacks it refuses, or answers what it has, as nodes do. `short` notes
that a node answered a chunk the caller waits for without its last blocks, which the code cannot see
(`reached` is then the end of what was asked for). `cache` is the lookup cache, `kept` the remembered
registrations. One request suffices: requests of one machine share only those two, which may hold any
earlier answer or none. The limit on rows and the cap on candidates are abstracted; both refuse.

`SdkClient`: versions stand for what the server answers, version 0 for an unregistered name; `minBlock`
is written as the first version that shows the block. Timers are punctual and a settled call is looked
at in the tick it settles.

### The web application

- `Reservations`: `store` is localStorage's secrets by wallet and name, `step` what the panel shows,
  `checks` and `placing` reads and receipts under way with the reservation they were started for,
  `sent` the transactions with who signed them, `commit` the registry's commitments by account: one
  signed by another account than the reservation's owner makes nothing ripe. A wallet may refuse,
  send, or send and answer with an error (`SubmittedUnheard`), which the page takes for "not sent".
  The wallet may be switched and the page reloaded at any step. A commit lands within `Grace` or never; chain and device clock are one, as the panel measures
  their offset; an answer is used in the tick it was read.
- `RecordEdits`: `tx` is `txMachine.ts`'s state, `overlay` the optimistic value, `data` and `read` the
  query and its refetch, `note` the tab's `lastWrite`. The wallet may speed a transaction up, cancel
  or replace it, or answer with an error although it sent it; receipts may be late or never heard of;
  nodes and the API's copies lag. `Indexed` drops the overlay with the old record on screen, until
  the refetch answers; a read given up on leaves `loadError` and its "try again"; the page may be left
  and come back to. A tick is
  half of `WRITE_FRESH_MS`, nodes lag less than a tick, copies last at most `CopyTtl`. Primary names
  and transfers go through the same run.
- `AddressBook`: `rows` the server's addresses, `shown` the page's copy, `mode` and `draft` what is
  edited, `call` the requests under way, answered in any order; `/resolve` may be a copy. A request is
  atomic at the server.
- `NameLookups`: three pages that ask for what is typed (`ClaimInput`, the lookup panel, the list of a
  wallet's names); a request carries what it was asked for.
- `WebSession`: `storage` is `paytag_auth_v1`, `auth` each tab's copy, `unheard` storage events on
  their way, `flight` the one `/me` of a tab with its token and answer, `waiting` who awaits it.
- `ClaimWizard`: `step` and the calls the wizard has under way, with the session and the wallets
  around them; registration answers are those of `Accounts`. Resume's and sign's `/me` do not share a
  flight; reserved and ill-formed names end like taken ones; a 401 may come at any time.
- `Payments`: `typed`, `lookups` and `found` are the send page; `busy` locks the tabs; a `flow` is one
  mounted `PayFlow` with its stage; `payments` what the chains received, `fee` and `estimates` the
  quote. Typing takes whatever panel is on screen off it, a payment under way with it, as
  `app/send/page.tsx` does. A wallet that fails a send has not sent.
- `PayAdapters`: what the page knows of Phantom, of a Bitcoin wallet and of wagmi, against what the
  wallets are; one unheard Phantom event at a time; two shapes of payee.
- `Prices`: one cache and one request for all flows of a page, a flow's copy with its refresh; a
  request settles in its tick of `TTL_MS`.
- `StatusReport`: the probes and what they ask, up or down, and the verdicts; the probes of the head
  and of npm enter no verdict. `Old` is an API from before `/ping` read the database: its 200 needs
  none.

## Runs

| Run | Instance | Question |
| --- | --- | --- |
| `registry` | 2 accounts, one free and one reserved name, 4 spellings, ages 1..1, epochs mod 2, 3 instants, 4 events | do storage, the log and the commit window agree in every interleaving? |
| `resolver` | 2 accounts, 1 name, 2 coins, 4 values and the empty one, 6 events | do epoch-keyed records behave like the flat directory and like the log? |
| `event_sync` | 2 machines, 4 blocks, margin = reorg depth = lag = 1, lease of 1 tick, chunks of 1, cap of 2 | is anything ever skipped, orphaned or moved back? |
| `sign_in` | 2 machines a tick apart, 2 requests, 2 nonces, 7 instants, every duration 1 | does a signed message ever sign in twice? |
| `api` | 2 requests, 1 machine, 3 versions, 2 names, 2 wallets, windows of 1, 5 instants, pages of 3, 4 blocks, limit 1, 3 uses of the database, lengths 2, 20 and 32 | is every service right under retries, lost answers and late writes? |
| `onchain_reads` | 1 request, 2 accounts, 3 blocks, 1 reorganisation, margin = lag = 1, chunks of 1; 2 SDK calls, 2 versions, 3 instants | do readers see what is, and what they wrote? |
| `onchain_reads_race` | the same | finding: a list that misses the caller's write |
| `name_pages` | 2 wallets, ages 1..1, grace 1, 3 instants, 2 reservations, 2 transactions, 2 checks; 2 writes, height 3; 2 edits of 2 chains; 2 questions, 1 switch | do the pages that write show what is? |
| `web` | 2 tabs, 2 wallets, 2 tokens; 2 names, 3 flows, 1 payment; 2 flows, 2 prices, 6 instants; a claim by 2 wallets; the status probes | do the pages that act for a user act for that user? |
| `live` | 2 machines, 3 blocks, no lag, no reorganisation, cap of 1; 1 reservation; a claim by one wallet | does the table catch up once faults stop, and does what a page waits for end? |
| `claim_lost` | the claim of `web` | finding: "Nothing was written" of a registration that was made |
| `payments_cancelled` | 2 flows, 2 payments | finding: a cancelled payment shown as a success |

Why the bounds are enough. In `registry`, two accounts and one free name are a full race; ages 1..1
with three instants give a commitment that is too new, ripe and too old, and a re-commit; four events
are a registration and two transfers, so the two-valued epoch wraps. In `resolver`, six events are a
registration (two), two handovers and two writes, in any order: a name that comes back to its first
owner with an old record behind it. One name is enough because no action reads two nodes. Commitment
ages are the first run's business, so they are zero there. In `event_sync`, four blocks with a margin
of one leave room for a Blockscout part, two capped RPC chunks and a second call; each height may be
replaced once; the lease may expire between any two requests. In `sign_in`, seven instants cover
issue, acceptance by the slowest clock, pruning by the fastest and a second try. In `api`, two
requests are every pair of overlapping operations: no service keeps more than a pair's state between
two steps. `onchain_reads` also passed with margin, depth and lag of 2. In the page runs, two wallets
(names, tabs, flows) are the one a request was made for and the one on screen when it is answered.
Bounds on time, events, blocks, forks, requests and payments are guards named in each module's
`CONSTANTS`. Interchangeable constants use symmetry in the safety runs; the liveness runs do not.

Every property has a mutant of the code's model (a dropped guard, a shared mapping, a margin left
out) under which TLC finds it violated; the mutated operators stand next to the ones they replace. A
property of a composed module is a conjunction over its parts, and has mutants in several of them.

### Fairness

`EventSync`'s `FairSpec` assumes that requests keep coming and are answered (`WF` of each machine's
`Progress`: which of several answers is given stays open), that blocks are mined and that time passes.
Nothing is assumed of faults, reorganisations or of which machine gets the lease. `EventsCatchUp` (`CatchesUp`) is
conditional: from some point on no fault happens and no running call outlives its lease, which is
what `LEASE_SECONDS` was chosen for (`onchainEventsService.ts:63`). A failing request that leaves
exactly what an answer would have left is not counted as a fault. The bound it reaches is the newest
block below the reorg margin that even a lagging node shows.

`MCLive`'s `LiveSpec` takes the fairness of `EventSync`, `Reservations` and `ClaimWizard`, one part
per behaviour. For the panel: time passes (strongly fair, as the clock is stopped by nothing), its
polls run, and its reads are answered or fail, as viem gives each a timeout. For the wizard: its
effects run, and the calls it makes through the SDK, which has a timeout, end. Its own calls of `/me`
and `/register` go through `request` (`lib/api.ts`), which has no timeout and no abort: that they end
is no fairness of the specification but the hypothesis `CallsEnd` of `SpinnersEnd`. A call that is
never answered leaves the spinner for good, and TLC shows it when the hypothesis is dropped. Nothing
is assumed of the user, of the wallet or of transactions. The part of the sync has no reorganisations
(`MaxForks = 0`), which the safety runs have, and all its faults.

## Findings

Three runs show a disagreement between the code and what it says of itself.

- `onchain_reads_race`, `ListShowsWrite`: `registrationsOf` reads the stored rows before the cursor, so
  a catch-up on another machine that stores a registration and advances the cursor between the two
  takes it out of both, and a list with `minBlock` is answered without the caller's own name. The
  comment promises a 503. `currentEvents` reads them in the safe order.
- `payments_cancelled`, `SuccessMeansPaid`: `waitForConfirmation` of `useEvmPay.ts` looks only at the
  receipt's status, and viem resolves with the replacement's receipt when the wallet replaces the
  transaction: a payment the user cancelled is shown as "Confirmed on" its network.
- `claim_lost`, `NothingWasWritten`: the wizard says "The registry didn't respond in time. Nothing was
  written" of every registration without an answer (`ClaimWizard.tsx:311`), also of one the API made
  before the connection was lost. "You can safely retry", which it adds, is so: `RetriesAreSafe`.

Met while modelling; the models keep the behaviour, and no run is spent on them:

- A save of an address that read the row before another save of the same address, and writes after
  that address was verified, resets `verified_at` (`walletService.ts`, "must not throw away its
  verification").
- A resolution that read the database before a write and is cached after the write's invalidation
  puts the old answer back for the cache's lifetime; it stays within the 30 s window.
- `registrationsOf` remembers what it found in the tail "for good"; after a reorganisation the old
  mint time is answered until the process ends.
- Where a node answers for blocks it lacks, `reached` is the end of the range asked for, not of what
  the node had, and a list may miss the caller's write instead of a 503 (`short` marks these calls).
- The wallet may broadcast a commit and answer with an error. `RegisterPanel.tsx:284` takes that for
  "never sent" and drops the secret, whose commit then lands: the one step exempt from
  `UsefulSecretsStay`, and one in which the comment at 281-283, "Drop the secret when the commit
  certainly didn't land", is not kept (`SecretsStay`). A user who reserves again loses the fee and
  the wait; a name is not lost, since nobody else has the secret.
- Typing in the send page's field unmounts the panel of a payment that was sent
  (`app/send/page.tsx:43-46`): it goes on, and nothing on the page says so.
- `/me` and `/register` have no timeout: one that is never answered leaves the wizard's spinner.
- A block of exactly one page of logs is refused as overflowing; the sync then takes the RPC path.
- A confirmed edit's overlay is dropped before the refetch has answered, contrary to
  `NameCard.tsx:69-70`: the old value is shown in between, while it is read again (`OldIsReadAgain`),
  and with "Couldn't load records." if that read fails.
- Reservations are cleared by wallet and name, not by commitment: after switching away and back, a
  late read of an old reservation removes the secret of a new one. A callback of `register` sets the
  step without asking whether it is current, which hides a saved reservation. The check before a
  reveal precedes the simulation, and the call is signed by whichever account is connected then.
- The note and the link of a payment's success name the network the wallet is on when they are
  rendered.
- A session signed in while an older token's `/me` is under way awaits the older answer, and is
  cleared when that is about another wallet or a 401. After an error of `/me`, "This wallet has no
  paytag yet" may be shown to a wallet that has one, until a reload.
- In the claim wizard: `checkedWith` is read after the answer; the name is registered for whatever session is stored when the effect
  runs; `updateAuth` notes a name with a session of another wallet, until the next `/me`.
- The SDK's `invalidate()` does not stop a resolve under way from caching the older value.
- In the address book, saves, removals and verifications of different rows overlap and their answers
  are applied in arrival order; the end of a save or removal closes whatever row is being edited; a
  failing first `/resolve` leaves skeletons until a reload; `refreshResolution` may overwrite a newer
  copy. In a name's card, "Clear" on one slot closes another slot's edit.
- In the profile form (not modelled), `/me` landing late or the end of a save overwrites what was
  typed. Mounting the Solana adapter with Phantom not connected does not clear the tab's note.

## Proofs

All theorems hold for every set of accounts, nodes, machines, requests, wallets and values, and every
value of the numeric constants that the named assumptions allow. An invariant of a composed module is
the conjunction of one invariant per part, each conditional on `part`, and a step of one part leaves
the others' conditions vacuous.

**Registry.** `RegistryTypeCorrect`, then `RegistryLogCorrect` (`LogTellsOwners`). Its two halves need
each other: that a node is registered once follows from the guard "no owner", which says something
about the log only because a node with an event has an owner. `CountInv` counts handovers:
`HandoversOfLonger` shows that a longer log has the old handovers and at most the new one, so
`EpochsCount` (the epoch is their number modulo the epoch's width) is a step of one. `HandoversAreTheOwners`,
`RevealsStayPossible` and `WinnersHadCommitted` are action properties: each guard read against the
state before, with `RegistryTypeOK`.

**Resolver.** `TypeCorrect` first. The key is `FutureEpochsEmpty` (`FutureEpochsCorrect`): nothing is
stored under an epoch a name has not reached, or under a name without an owner, and a node's epoch is
at most the length of the log. It is inductive where "a handover hides the records" is not, and it
uses `EpochsNeverReused`: fewer events than epochs. That is the contract's own argument that 2^96
transfers never happen (`PaytagRegistry.sol:152`); with a wrapping epoch the old records would be
back, as that comment says. From it follow `HandoverHidesCorrect`, `OnlyOwnerChangesCorrect`, the
refinement `DirectoryImplemented` (the initial state maps to the directory's, and each action to one
of its actions or a stutter: `commit`, `Tick` and a self-transfer), `RecordLogCorrect`, the resolver's
rule for indexers, and, with `ClaimInv` (a stored claim is the last one in the log), `ReverseLogCorrect`.

**Event sync.** `SyncInvariant` proves `IInv`: types, the cursor and every row are at or below
`head - Confirmations`; everything up to the cursor is stored; and what each running call knows of
itself (`CallOK`): its target is below the margin, its cursor is not ahead of the database's, the
rows it holds are the canonical ones of exactly `cursor + 1 .. to`, and after the insert all blocks
up to `to` are stored. `CursorCovered` alone is not inductive because the rows travel through a
call's locals while other machines, faults and the chain move on; `OthersKeepCall` is the lemma that
none of them invalidates what a call holds, and it is where `MarginSuffices` is used. Notably the
lease is not needed for it: it saves work and bounds waiting, while safety rests on the margin, the
primary key and `greatest()`. `SyncTypeCorrect`, `CursorCoveredCorrect`, `OnlyCanonicalRowsCorrect`
and `CursorNeverBackCorrect` follow.

**Sign-in.** "A signed message signs in once" cannot be inductive by itself, because the row that
refuses a second use is pruned. `SignInProofs`' `IInv` says why that is harmless: a row is not older
than its nonce was when it was accepted (`RowsAreLate`), a request that is about to insert holds a
nonce that was fresh for its machine within the timeout (`InsertIsFresh`), a prune that is on its way
carries a cutoff that old (`CutoffsAreOld`), and a nonce that was spent and whose row is gone is too
old for every machine (`ForgottenIsOld`). The arithmetic rests on `RetentionSuffices`: the retention
covers the nonce's lifetime, the tolerance, the clocks' skew and the timeouts. It gives
`TypeCorrect`, `RowsOutliveTheirNonces` and `NoncesAreSpentOnce`.

**API.** `ApiInv` has one conjunct per service. *Sessions*: a request between its read
and its write knows a version that had been reached, and no token that a revoke was to end is at or
above the current version once an account exists. *Accounts*: what a registration has read was so at
a time while it ran. *Addresses*: a write under way that would store a verified row holds a proof for
that very address, and a challenge that two requests hold is consumed by one (`StoresDiffer`).
*Resolve*: a reading under way and a cached copy are each no older than the clock allows for their
phase (`InTime`), so the copy of a copy is within the sum. *HTTP*: the stages before the one a request
is at were passed, and with them their admissions; of the uses of the database it needed, all but the
last were fine (`StillFine`, `NothingMet`). *Pages* (`PageInv`): what is kept is every log of
the blocks before the next start, so reading the last block again loses nothing; and every full page
brings at least a page less the fullest block, so a range that is given up with "too many pages" has
that many logs, and one given up with "full block" has such a block. The lemmas under it are about
cardinalities of intervals of blocks. *Limits* (`RateInv`, `BudgetHolds`): in any stretch of time that
ends now, what a subscriber was let through for and what its bucket still holds come to at most the
burst and the time since. Forgetting a bucket changes nothing there, as only a full one is forgotten
(`KeptIs`) and a bucket refills one for one with time up to the burst (`RefilledIs`); the wait is a
division rounded up (`WaitIs`). *Records* (`RecordInv`): the bytes stored are what the codec made of
the text, and the answer is about them; the lemmas before it show for each form of address, whatever
its hash or key, that decoding undoes encoding up to case and that the SDK's re-encoding gives the
record's bytes. `RefusedStayOutAlways`, `AnswersAlwaysTrue`, `AddressesAlwaysProved`,
`AnswersAlwaysWithinWindow`, `WritesAlwaysKeepTheirWord`, `ServicesTypeCorrect`,
`LogsWaitsAndRecordsAreRight` and `NothingIsEverMiscounted` follow. Only the last has a hypothesis,
`OneClientEach`: the addresses one subscriber asks from have one client key, which is what `clientKey`
is for (a subscriber holds a /64, or an IPv4 address that may be written as IPv6). What `ClientKey`
computes from a text is a flattening of its parts, an induction over data. The visitors of `MCApi`, with
two addresses of one /64 and an IPv4 address written two ways, meet the hypothesis: with a key per
address, `WithinBudget` fails there. The proofs asked for one
assumption more, `RecordConstants`: lengths and fill bytes are bytes, since a push of a script names its
length in one.

**Readers.** `ReadsInv` says what the chain and its copies are (`ChainHolds`: the table stays below the
margin and holds what the cursor has passed, and an owner follows from the one a block before;
`CacheHolds`: a cached owner is that of its block, unless the block was replaced) and what a request
knows at each phase (`CallHolds`). `WriteIsAhead`: there is a block since which the name is the
caller's, and what was read so far includes it or the rows not selected yet do. `ListOwes`: a list
that owes the name has it among its candidates, and finds its registration. `OwnerRead` and `Answers`:
an owner that was read is one of its block, and an answer one that was so while the request ran.
Lists and lookups without a wait are right whatever nodes answer; `Whole(c)` marks the part for a
caller that waits: no chunk came short, or nothing is waited for. `ReadersTypeCorrect`,
`ReadsAreSafe` and `ReadersSeeWhatIs`, the run's whole property, need no assumption on the nodes: a
list that waits nominates the write unless a chunk came short. That it then shows it is not so
(`ListShowsWrite`), and no theorem says it. `SdkInv` relates the cached entry and each call to the versions
the server has had and the times they were asked for: `SdkIsTrue`.

**Web.** `WebInv` has one conjunct per part. *Session*, which holds whatever `part` is: a stored name
is that of the wallet of the stored token, and so is what `/me` is about to answer; tabs show what
storage has unless an event is on its way to them (`SessionIsAlwaysOne`). *Payments*: a lookup that
was not aborted is of the name in the field; at most one call of `onConfirm` is the mounted flow's,
and its stage says where that call is; an estimate that was not cancelled is of the amount in review;
the panel is locked exactly while a flow is busy. *Adapters*: what Phantom told last, with what the
page has yet to hear, is what Phantom is. *Prices*: a flow that is neither due nor waiting shows a
price younger than the refresh period, which one tick takes to the period at most. These three give
`PaymentsAlwaysSafe`. *Claim*: a wallet's name is never lost to another, an answer under way says what
its wallet has, a refusal of one (`Told`) is never of a wallet that has the name, so a retry is safe,
and while the wallet's name is being looked up no other call runs. *Status*: a verdict
tells of what was down at some time since its probes were sent. These two give `PagesAlwaysSayTrue`.
`UnderWayIsAlwaysKept` is an action property: an answer about a session that is over signs nobody in,
and no step but the user's typing takes a payment under way off its page.

**Names and addresses.** `PagesInv` has one conjunct per part, and that of the registration, which
holds whatever `part` is. *Registration* (`ReserveInv`): a reservation is committed to at most once,
and the run that is about to has not yet (`ChainHolds`, `TxHolds`); so a commitment that is on chain
is not under way too, and one that was refused, reverted or cancelled never lands. That is what
"certainly didn't land" rests on when the panel drops a secret. What a wallet has saved is its latest
reservation (`StoreHolds`), so dropping the saved secret for an older one is all that can go wrong,
which is the exception `UsefulSecretsStay` names; without it (which is one exception `UsefulSecretsStay` names; the other is the step in which the wallet broadcast
the commit and answered with an error (`Unheard`). Without them (`SecretsStay`) the property is
false. A commitment counts for the account that signed it only, so a commit signed after the wallet
was switched makes nothing useful (`Committed`). An answer
"missing" is of a reservation whose commitment is not there, was used, or landed in this very tick,
and an answer "expired" of one that is (`CheckHolds`): with the grace over, neither has a use. One
lemma (`ClearedHolds`) covers every place where a secret is dropped. *Record* (`EditInv`): a block
names the call of the page that set it, and a call that took effect is in one; once a write is noted,
a copy of an older block is gone before the note is, and the answer of a read under way is of a later
one (`NoteHolds`), so what is delivered then is from no earlier block; what is on screen may be older
only while it is read again or with the error that offers to. *Addresses* (`BookInv`): what is on screen, what a copy holds and what a request was
answered are each rows the server held; the only request since it was sent was answered what the
server holds now (`QuietHolds`). *Lookups* (`LookInv`): a request that is still heeded is about what
its page shows, and its answer about what it asked. `PagesTypeCorrect`, `PagesAlwaysTrue`,
`UsefulSecretsAlwaysStay` and `NoStaleAnswerIsEverUsed` follow. The proofs asked for what the
assumptions on the constants had left open: a clock and a number of reads that are not zero, a `None`
that is no number, value or set of rows, and no flag on a row without an address before the start.

**Only model-checked.** Liveness under fairness (`EventsCatchUp`, `WhatWaitsEnds`), which is beyond the
prover. Every other property of a passing run is stated by a theorem. The three runs that expect a
violation show their findings on an instance.

## Plan

What would come next: the parts the table of components calls partly modelled (the transfer and
primary-name forms of the page that manages names, the profile form), and `PageInv`'s and `RateInv`'s
companions for more than one machine, where each process has its own buckets.

## Not modelled, and why

Rendering and wording of the web application (`components/ui`, the UI kit, the landing pages, the
profile form), headers and logging, environment parsing, row-level security and grants, generated
ABIs and deployment code: they hold no protocol state. The error texts of pages are left out except
where a property is about them. Wallets' own dialogs, parsing of typed amounts and price conversion
are inputs. The polling of `awaitingRead` never has anything to do under `RecordEdits`' assumptions.
