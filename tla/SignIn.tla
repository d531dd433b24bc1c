------------------------------- MODULE SignIn -------------------------------
(***************************************************************************)
(* Signing in: the stateless nonces of src/services/authService.ts, spent  *)
(* by recording them in auth_nonces_used, on machines whose clocks differ. *)
(* A request here carries a nonce with its wallet, domain and signature as *)
(* issued and signed; one in which any of them is wrong changes nothing.   *)
(***************************************************************************)
EXTENDS Integers

CONSTANTS
  Machine,       \* the API's machines
  Request,       \* the verify requests that may be in progress together
  Nonce,         \* the nonces issued: each is bound to a wallet and a domain
  NoNonce,       \* the nonce of a request that is not in progress
  NoMachine,     \* and the machine that handles it
  Skew,          \* how far a machine's clock may be from the true time
  TTL,           \* NONCE_TTL_SECONDS
  Tolerance,     \* NONCE_FUTURE_TOLERANCE_SECONDS
  MinRetention,  \* the 15 minutes in usedNonceRetentionSeconds
  PruneEvery,    \* PRUNE_EVERY_MS
  DbTimeout,     \* SUPABASE_TIMEOUT_MS: a database request lands within it or never
  MaxTime        \* bound: the last instant explored

ASSUME SignInConstants ==
  /\ Skew \in Nat /\ TTL \in Nat /\ Tolerance \in Nat
  /\ MinRetention \in Nat /\ PruneEvery \in Nat /\ DbTimeout \in Nat
  /\ MaxTime \in Nat

VARIABLES
  now,        \* the true time
  offset,     \* machine -> how far its clock is ahead
  issued,     \* the nonces issued so far
  issuedAt,   \* nonce -> the time written in it
  used,       \* auth_nonces_used: nonce -> used_at, for the nonces it holds
  lastPrune,  \* machine -> its lastPrune
  cutoffs,    \* the cutoffs of the deletes on their way to the database
  call,       \* request -> the verify in progress
  spent       \* every nonce ever recorded (read by the properties only)

vars == <<now, offset, issued, issuedAt, used, lastPrune, cutoffs, call, spent>>

Larger(a, b) == IF a >= b THEN a ELSE b
Retention == Larger(MinRetention, 3 * (TTL + Tolerance))

(* What the retention is for: the longest a nonce can be accepted after it *)
(* was recorded, on clocks that differ and with a request still under way. *)
ASSUME RetentionSuffices ==
  Retention >= TTL + Tolerance + 2 * Skew + DbTimeout

Clock(m) == now + offset[m]

(* A verify awaits its insert or its session version; `at` is the machine, *)
(* `sent` the time its insert was sent.                                    *)
Idle == [phase |-> "idle", nonce |-> NoNonce, at |-> NoMachine, sent |-> 0]
Started == [phase : {"insert", "version"}, nonce : Nonce, at : Machine, sent : Nat]
UsedAt(r) == call[r].sent + offset[call[r].at]

TypeOK ==
  /\ now \in 0 .. MaxTime
  /\ offset \in [Machine -> -Skew .. Skew]
  /\ issued \subseteq Nonce
  /\ issuedAt \in [Nonce -> Int]
  /\ used \subseteq [nonce : Nonce, at : Int]
  /\ lastPrune \in [Machine -> Int]
  /\ cutoffs \subseteq Int
  /\ call \in [Request -> Started \cup {Idle}]
  /\ \A r \in Request : call[r] # Idle => call[r].nonce \in issued
  /\ spent \subseteq issued

Init ==
  /\ now = 0
  /\ offset \in [Machine -> -Skew .. Skew]
  /\ issued = {}
  /\ issuedAt = [n \in Nonce |-> 0]
  /\ used = {}
  /\ lastPrune = [m \in Machine |-> -(PruneEvery + Skew)]
  /\ cutoffs = {}
  /\ call = [r \in Request |-> Idle]
  /\ spent = {}

-----------------------------------------------------------------------------
(* A database request lands, or is given up, before DbTimeout has passed.  *)
Overdue(r) == call[r].phase = "insert" /\ now - call[r].sent >= DbTimeout

Tick ==
  /\ now < MaxTime
  /\ \A r \in Request : ~ Overdue(r)
  /\ now' = now + 1
  /\ UNCHANGED <<offset, issued, issuedAt, used, lastPrune, cutoffs, call, spent>>

createNonce(m, n) ==
  /\ n \notin issued
  /\ issued' = issued \cup {n}
  /\ issuedAt' = [issuedAt EXCEPT ![n] = Clock(m)]
  /\ UNCHANGED <<now, offset, used, lastPrune, cutoffs, call, spent>>

FromFuture(m, n) == issuedAt[n] > Clock(m) + Tolerance
Expired(m, n) == Clock(m) - issuedAt[n] > TTL
Acceptable(m, n) == ~ FromFuture(m, n) /\ ~ Expired(m, n)

CheckingAnything(r, n) == call[r] = Idle
Checking(r, n) == call[r] = Idle /\ n \in issued

(* Every check passes on this machine's clock and the insert is sent.      *)
Verify(r, m, n) ==
  /\ Checking(r, n)
  /\ Acceptable(m, n)
  /\ call' = [call EXCEPT ![r] = [phase |-> "insert", nonce |-> n,
                                  at |-> m, sent |-> now]]
  /\ UNCHANGED <<now, offset, issued, issuedAt, used, lastPrune, cutoffs, spent>>

(* NONCE_INVALID or NONCE_EXPIRED, before anything was written.            *)
Refuse(r, m, n) ==
  /\ Checking(r, n)
  /\ ~ Acceptable(m, n)
  /\ UNCHANGED vars

Recorded(n) == \E row \in used : row.nonce = n
Record(r) ==
  /\ used' = used \cup {[nonce |-> call[r].nonce, at |-> UsedAt(r)]}
  /\ spent' = spent \cup {call[r].nonce}
End(r) == call' = [call EXCEPT ![r] = Idle]

PruneDue(m) == Clock(m) - lastPrune[m] >= PruneEvery
(* After a recorded sign-in, at most once a minute on each machine, in the *)
(* background.                                                             *)
pruneUsedNonces(m) ==
  IF PruneDue(m)
  THEN /\ lastPrune' = [lastPrune EXCEPT ![m] = Clock(m)]
       /\ cutoffs' = cutoffs \cup {Clock(m) - Retention}
  ELSE UNCHANGED <<lastPrune, cutoffs>>

(* The primary key lets one insert in.                                     *)
InsertWins(r) ==
  /\ call[r].phase = "insert"
  /\ ~ Recorded(call[r].nonce)
  /\ Record(r)
  /\ call' = [call EXCEPT ![r].phase = "version"]
  /\ pruneUsedNonces(call[r].at)
  /\ UNCHANGED <<now, offset, issued, issuedAt>>

InsertLoses(r) ==
  /\ call[r].phase = "insert"
  /\ Recorded(call[r].nonce)
  /\ End(r)
  /\ UNCHANGED <<now, offset, issued, issuedAt, used, lastPrune, cutoffs, spent>>

(* The request fails: it never arrived, or its answer was lost.            *)
InsertFails(r) ==
  /\ call[r].phase = "insert"
  /\ End(r)
  /\ \/ UNCHANGED <<used, spent>>
     \/ ~ Recorded(call[r].nonce) /\ Record(r)
  /\ UNCHANGED <<now, offset, issued, issuedAt, lastPrune, cutoffs>>

(* getSessionVersion answers and the token is signed, or it fails and the  *)
(* nonce stays spent.                                                      *)
Answer(r) ==
  /\ call[r].phase = "version"
  /\ End(r)
  /\ UNCHANGED <<now, offset, issued, issuedAt, used, lastPrune, cutoffs, spent>>

ForgettableAtOnce(row, cutoff) == row.at < cutoff + Retention
ForgettableAfterTTL(row, cutoff) == row.at < cutoff + Retention - TTL
Forgettable(row, cutoff) == row.at < cutoff
PruneLands ==
  \E c \in cutoffs :
    /\ cutoffs' = cutoffs \ {c}
    /\ \/ used' = {row \in used : ~ Forgettable(row, c)}
       \/ used' = used
    /\ UNCHANGED <<now, offset, issued, issuedAt, lastPrune, call, spent>>

Next ==
  \/ Tick
  \/ \E m \in Machine, n \in Nonce : createNonce(m, n)
  \/ \E r \in Request, m \in Machine, n \in Nonce : Verify(r, m, n) \/ Refuse(r, m, n)
  \/ \E r \in Request : InsertWins(r) \/ InsertLoses(r) \/ InsertFails(r) \/ Answer(r)
  \/ PruneLands

Spec == Init /\ [][Next]_vars

-----------------------------------------------------------------------------
(* A nonce that was recorded once is never recorded again, however its row *)
(* was pruned since and whichever machine is asked: one signed message     *)
(* signs in once (authService.ts:33).                                      *)
SpentOnce ==
  [][\A n \in spent : ~ Recorded(n) => ~ (\E row \in used' : row.nonce = n)]_vars

(* The invariant that comment rests the design on: as long as any machine  *)
(* would still accept a spent nonce, its row is there to refuse it.        *)
RowsOutliveNonces ==
  \A n \in spent : (\E m \in Machine : Acceptable(m, n)) => Recorded(n)

=============================================================================
