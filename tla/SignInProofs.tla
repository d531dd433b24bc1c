---------------------------- MODULE SignInProofs ----------------------------
(***************************************************************************)
(* Proofs about SignIn for any machines, requests and nonces, any clock    *)
(* skew and any timeouts the retention suffices for: one signed message    *)
(* signs in once, though the row that refuses it is pruned.                *)
(***************************************************************************)
EXTENDS SignIn, TLAPS

(* A row is not older than its nonce was when it was accepted.             *)
RowsAreLate ==
  \A row \in used :
    row.nonce \in issued /\ row.at >= issuedAt[row.nonce] - Tolerance

(* An insert on its way was sent within DbTimeout, by a machine whose      *)
(* clock accepted the nonce.                                               *)
InsertIsFresh(r) ==
  LET n == call[r].nonce IN
    call[r].phase = "insert" =>
      /\ call[r].sent <= now /\ now <= call[r].sent + DbTimeout
      /\ UsedAt(r) >= issuedAt[n] - Tolerance
      /\ UsedAt(r) <= issuedAt[n] + TTL

(* No delete is on its way that the fastest clock would not send now.      *)
CutoffsAreOld == \A c \in cutoffs : c <= now + Skew - Retention

(* A spent nonce whose row is gone is too old for every machine.           *)
ForgottenIsOld ==
  \A n \in spent : ~ Recorded(n) => issuedAt[n] - Tolerance < now + Skew - Retention

IInv ==
  /\ TypeOK
  /\ RowsAreLate
  /\ \A r \in Request : InsertIsFresh(r)
  /\ CutoffsAreOld
  /\ ForgottenIsOld

-----------------------------------------------------------------------------
LEMMA RetentionIsNat == Retention \in Nat
  BY SignInConstants DEF Retention, Larger

LEMMA ClockInt ==
  ASSUME TypeOK, NEW m \in Machine
  PROVE  /\ Clock(m) \in Int
         /\ Clock(m) <= now + Skew /\ now - Skew <= Clock(m)
  BY SignInConstants DEF TypeOK, Clock

LEMMA CallTypes ==
  ASSUME TypeOK, NEW r \in Request, call[r].phase # "idle"
  PROVE  /\ call[r] \in Started
         /\ call[r].nonce \in issued /\ issued \subseteq Nonce
         /\ call[r].at \in Machine /\ call[r].sent \in Nat
         /\ UsedAt(r) \in Int
         /\ UsedAt(r) >= call[r].sent - Skew /\ UsedAt(r) <= call[r].sent + Skew
  <1>1. call[r] \in Started /\ call[r] # Idle
    BY DEF TypeOK, Idle
  <1> QED
    BY <1>1, SignInConstants DEF TypeOK, Started, UsedAt

-----------------------------------------------------------------------------
(* Type correctness.                                                       *)

LEMMA TypeInit == Init => TypeOK
  BY SignInConstants DEF Init, TypeOK

LEMMA TypeStep == TypeOK /\ [Next]_vars => TypeOK'
  <1> SUFFICES ASSUME TypeOK, [Next]_vars PROVE TypeOK'
    OBVIOUS
  <1>0. /\ Skew \in Nat /\ MaxTime \in Nat /\ Retention \in Nat
        /\ \A m \in Machine : Clock(m) \in Int
    BY SignInConstants, RetentionIsNat, ClockInt
  <1>1. CASE Tick
    BY <1>0, <1>1 DEF Tick, TypeOK
  <1>2. ASSUME NEW m \in Machine, NEW n \in Nonce, createNonce(m, n)
        PROVE  TypeOK'
    BY <1>0, <1>2 DEF createNonce, TypeOK
  <1>3. ASSUME NEW r \in Request, NEW m \in Machine, NEW n \in Nonce, Verify(r, m, n)
        PROVE  TypeOK'
    <2>1. now \in Nat /\ n \in issued
      BY <1>0, <1>3 DEF TypeOK, Verify, Checking
    <2>2. [phase |-> "insert", nonce |-> n, at |-> m, sent |-> now] \in Started
      BY <2>1 DEF Started
    <2> QED
      BY <1>3, <2>1, <2>2 DEF Verify, TypeOK
  <1>4. ASSUME NEW r \in Request, NEW m \in Machine, NEW n \in Nonce, Refuse(r, m, n)
        PROVE  TypeOK'
    BY <1>4 DEF Refuse, vars, TypeOK
  <1>5. ASSUME NEW r \in Request, InsertWins(r)
        PROVE  TypeOK'
    <2>1. /\ call[r] \in Started /\ call[r].nonce \in issued
          /\ call[r].at \in Machine /\ UsedAt(r) \in Int
          /\ call[r].nonce \in Nonce
      BY <1>5, CallTypes DEF InsertWins
    <2>2. [call[r] EXCEPT !.phase = "version"] \in Started
      BY <2>1 DEF Started
    <2>3. lastPrune' \in [Machine -> Int] /\ cutoffs' \subseteq Int
      BY <1>0, <1>5, <2>1 DEF InsertWins, pruneUsedNonces, TypeOK
    <2>4. used' \subseteq [nonce : Nonce, at : Int] /\ spent' \subseteq issued'
      BY <1>5, <2>1 DEF InsertWins, Record, TypeOK
    <2>5. call' = [call EXCEPT ![r] = [call[r] EXCEPT !.phase = "version"]]
      BY <1>5 DEF InsertWins
    <2>6. /\ call' \in [Request -> Started \cup {Idle}]
          /\ \A s \in Request : call'[s] # Idle => call'[s].nonce \in issued
      BY <2>1, <2>2, <2>5 DEF TypeOK, Started
    <2> QED
      BY <1>5, <2>3, <2>4, <2>6 DEF InsertWins, TypeOK
  <1>6. ASSUME NEW r \in Request, InsertLoses(r)
        PROVE  TypeOK'
    BY <1>6 DEF InsertLoses, End, TypeOK
  <1>7. ASSUME NEW r \in Request, InsertFails(r)
        PROVE  TypeOK'
    <2>1. /\ call[r].nonce \in issued /\ UsedAt(r) \in Int
          /\ call[r].nonce \in Nonce
      BY <1>7, CallTypes DEF InsertFails
    <2>2. used' \subseteq [nonce : Nonce, at : Int] /\ spent' \subseteq issued'
      BY <1>7, <2>1 DEF InsertFails, Record, TypeOK
    <2> QED
      BY <1>7, <2>2 DEF InsertFails, End, TypeOK
  <1>8. ASSUME NEW r \in Request, Answer(r)
        PROVE  TypeOK'
    BY <1>8 DEF Answer, End, TypeOK
  <1>9. CASE PruneLands
    BY <1>9 DEF PruneLands, TypeOK
  <1>10. CASE UNCHANGED vars
    BY <1>10 DEF vars, TypeOK
  <1> QED
    BY <1>1, <1>2, <1>3, <1>4, <1>5, <1>6, <1>7, <1>8, <1>9, <1>10 DEF Next

(* The state of the sign-in keeps its types: what a row, a cutoff or a     *)
(* call under way may hold (authService.ts:155-240).                       *)
THEOREM TypeCorrect == Spec => []TypeOK
  BY TypeInit, TypeStep, PTL DEF Spec

-----------------------------------------------------------------------------
(* The invariant: one lemma per action that moves the time, a row, a       *)
(* cutoff or an insert.                                                    *)

LEMMA InitInv == Init => IInv
  <1> SUFFICES ASSUME Init PROVE IInv
    OBVIOUS
  <1>1. TypeOK
    BY TypeInit
  <1> QED
    BY <1>1 DEF IInv, Init, Idle, RowsAreLate, InsertIsFresh, CutoffsAreOld, ForgottenIsOld

(* Time passes only while no insert is overdue.                            *)
LEMMA TickInv ==
  ASSUME IInv, TypeOK', Tick
  PROVE  IInv'
  <1>1. now' = now + 1 /\ now \in Nat
    BY SignInConstants DEF Tick, IInv, TypeOK
  <1>2. ASSUME NEW r \in Request
        PROVE  InsertIsFresh(r)'
    <2> SUFFICES ASSUME call[r].phase = "insert"
                 PROVE  InsertIsFresh(r)'
      BY DEF Tick, InsertIsFresh
    <2>1. ~ Overdue(r) /\ InsertIsFresh(r)
      BY DEF Tick, IInv
    <2>2. call[r].sent \in Nat
      BY CallTypes DEF IInv
    <2> QED
      BY <1>1, <2>1, <2>2, SignInConstants DEF Tick, InsertIsFresh, Overdue, UsedAt
  <1>3. CutoffsAreOld'
    BY <1>1, RetentionIsNat, SignInConstants DEF Tick, IInv, TypeOK, CutoffsAreOld
  <1>4. ASSUME NEW n \in spent, ~ Recorded(n)
        PROVE  issuedAt[n] - Tolerance < now' + Skew - Retention
    <2>1. issuedAt[n] \in Int
      BY DEF IInv, TypeOK
    <2> QED
      BY <1>1, <1>4, <2>1, RetentionIsNat, SignInConstants DEF IInv, ForgottenIsOld
  <1>5. ForgottenIsOld' /\ RowsAreLate'
    BY <1>4 DEF Tick, IInv, ForgottenIsOld, RowsAreLate, Recorded
  <1> QED
    BY <1>2, <1>3, <1>5 DEF IInv

(* A nonce that is new is in no row, no insert and never spent.            *)
LEMMA CreateInv ==
  ASSUME IInv, TypeOK', NEW m \in Machine, NEW n \in Nonce, createNonce(m, n)
  PROVE  IInv'
  <1>1. /\ \A k \in issued : issuedAt'[k] = issuedAt[k]
        /\ issued \subseteq issued'
    BY DEF createNonce, IInv, TypeOK
  <1>2. RowsAreLate'
    BY <1>1 DEF createNonce, IInv, RowsAreLate
  <1>3. ASSUME NEW r \in Request
        PROVE  InsertIsFresh(r)'
    <2>1. call[r].phase = "insert" => call[r].nonce \in issued
      BY CallTypes DEF IInv
    <2> QED
      BY <1>1, <2>1 DEF createNonce, IInv, InsertIsFresh, UsedAt
  <1>4. ForgottenIsOld' /\ CutoffsAreOld'
    BY <1>1 DEF createNonce, IInv, TypeOK, ForgottenIsOld, CutoffsAreOld, Recorded
  <1> QED
    BY <1>2, <1>3, <1>4 DEF IInv

LEMMA VerifyInv ==
  ASSUME IInv, TypeOK', NEW r \in Request, NEW m \in Machine, NEW n \in Nonce,
         Verify(r, m, n)
  PROVE  IInv'
  <1>1. /\ call'[r] = [phase |-> "insert", nonce |-> n, at |-> m, sent |-> now]
        /\ \A s \in Request \ {r} : call'[s] = call[s]
    BY DEF Verify, IInv, TypeOK
  <1>2. InsertIsFresh(r)'
    <2>1. Clock(m) \in Int /\ issuedAt[n] \in Int /\ now \in Nat
      BY ClockInt, SignInConstants DEF IInv, TypeOK
    <2>2. Clock(m) >= issuedAt[n] - Tolerance /\ Clock(m) <= issuedAt[n] + TTL
      BY <2>1, SignInConstants DEF Verify, Acceptable, FromFuture, Expired
    <2>3. UsedAt(r)' = Clock(m)
      BY <1>1 DEF Verify, UsedAt, Clock
    <2> QED
      BY <1>1, <2>1, <2>2, <2>3, SignInConstants DEF Verify, InsertIsFresh
  <1>3. \A s \in Request \ {r} : InsertIsFresh(s)'
    BY <1>1 DEF Verify, IInv, InsertIsFresh, UsedAt
  <1>4. RowsAreLate' /\ CutoffsAreOld' /\ ForgottenIsOld'
    BY DEF Verify, IInv, RowsAreLate, CutoffsAreOld, ForgottenIsOld, Recorded
  <1> QED
    BY <1>2, <1>3, <1>4 DEF IInv

(* A row that is added by an insert is as late as the insert was.          *)
LEMMA RecordKeepsRows ==
  ASSUME IInv, NEW r \in Request, call[r].phase = "insert", Record(r),
         UNCHANGED <<now, issued, issuedAt>>
  PROVE  RowsAreLate' /\ ForgottenIsOld'
  <1>1. call[r].nonce \in issued /\ InsertIsFresh(r)
    BY CallTypes DEF IInv
  <1>2. RowsAreLate'
    BY <1>1 DEF IInv, RowsAreLate, Record, InsertIsFresh
  <1>3. \A n : Recorded(n) => Recorded(n)'
    BY DEF Record, Recorded
  <1>4. ASSUME NEW n \in spent', ~ Recorded(n)'
        PROVE  issuedAt[n] - Tolerance < now + Skew - Retention
    <2>1. n # call[r].nonce /\ ~ Recorded(n)
      BY <1>3, <1>4 DEF Record, Recorded
    <2> QED
      BY <2>1 DEF Record, IInv, ForgottenIsOld
  <1> QED
    BY <1>2, <1>4 DEF ForgottenIsOld

(* A call that goes on or ends sends no insert.                            *)
LEMMA InsertsLeft ==
  ASSUME IInv, UNCHANGED <<now, offset, issuedAt>>,
         \A s \in Request : call'[s] = call[s] \/ call'[s].phase # "insert"
  PROVE  \A s \in Request : InsertIsFresh(s)'
  BY DEF IInv, InsertIsFresh, UsedAt

LEMMA InsertWinsInv ==
  ASSUME IInv, TypeOK', NEW r \in Request, InsertWins(r)
  PROVE  IInv'
  <1>1. \A s \in Request : call'[s] = call[s] \/ call'[s].phase # "insert"
    <2>1. call[r] \in Started
      BY CallTypes DEF IInv, InsertWins
    <2>2. call' = [call EXCEPT ![r].phase = "version"]
      BY DEF InsertWins
    <2> QED
      BY <2>1, <2>2 DEF IInv, TypeOK, Started
  <1>2. \A s \in Request : InsertIsFresh(s)'
    BY <1>1, InsertsLeft DEF InsertWins
  <1>3. RowsAreLate' /\ ForgottenIsOld'
    BY RecordKeepsRows DEF InsertWins
  <1>4. CutoffsAreOld'
    <2>1. call[r].at \in Machine
      BY CallTypes DEF InsertWins, IInv
    <2>2. Clock(call[r].at) \in Int /\ Clock(call[r].at) <= now + Skew
      BY <2>1, ClockInt DEF IInv
    <2>3. \A c \in cutoffs' : c \in cutoffs \/ c = Clock(call[r].at) - Retention
      BY DEF InsertWins, pruneUsedNonces
    <2>4. now \in Nat
      BY SignInConstants DEF IInv, TypeOK
    <2> QED
      BY <2>2, <2>3, <2>4, RetentionIsNat, SignInConstants
      DEF InsertWins, IInv, CutoffsAreOld
  <1> QED
    BY <1>2, <1>3, <1>4 DEF IInv

(* An insert that loses, or fails after it landed or without it, and the   *)
(* answer.                                                                 *)
LEMMA EndInv ==
  ASSUME IInv, TypeOK', NEW r \in Request,
         InsertLoses(r) \/ InsertFails(r) \/ Answer(r)
  PROVE  IInv'
  <1>1. UNCHANGED <<now, offset, issued, issuedAt, cutoffs>> /\ End(r)
    BY DEF InsertLoses, InsertFails, Answer
  <1>2. \A s \in Request : InsertIsFresh(s)'
    BY <1>1, InsertsLeft DEF End, Idle, IInv, TypeOK
  <1>3. RowsAreLate' /\ ForgottenIsOld'
    <2>1. CASE UNCHANGED <<used, spent>>
      BY <1>1, <2>1 DEF IInv, RowsAreLate, ForgottenIsOld, Recorded
    <2>2. CASE call[r].phase = "insert" /\ Record(r)
      BY <1>1, <2>2, RecordKeepsRows
    <2> QED
      BY <2>1, <2>2 DEF InsertLoses, InsertFails, Answer
  <1>4. CutoffsAreOld'
    BY <1>1 DEF IInv, CutoffsAreOld
  <1> QED
    BY <1>2, <1>3, <1>4 DEF IInv

(* What a delete removes was recorded before a cutoff that is old.         *)
LEMMA PruneInv ==
  ASSUME IInv, TypeOK', PruneLands
  PROVE  IInv'
  <1> PICK c \in cutoffs :
        /\ cutoffs' = cutoffs \ {c}
        /\ \/ used' = {row \in used : ~ Forgettable(row, c)}
           \/ used' = used
        /\ UNCHANGED <<now, offset, issued, issuedAt, lastPrune, call, spent>>
    BY DEF PruneLands
  <1>1. RowsAreLate' /\ CutoffsAreOld'
    BY DEF IInv, RowsAreLate, CutoffsAreOld
  <1>2. \A s \in Request : InsertIsFresh(s)'
    BY DEF IInv, InsertIsFresh, UsedAt
  <1>3. ASSUME NEW n \in spent, ~ Recorded(n)'
        PROVE  issuedAt[n] - Tolerance < now + Skew - Retention
    <2>1. CASE ~ Recorded(n)
      BY <2>1 DEF IInv, ForgottenIsOld
    <2>2. CASE Recorded(n)
      <3>1. PICK row \in used : row.nonce = n
        BY <2>2 DEF Recorded
      <3>2. row.at < c
        BY <1>3, <3>1 DEF Recorded, Forgettable
      <3>3. c <= now + Skew - Retention /\ row.at >= issuedAt[n] - Tolerance
        BY <3>1 DEF IInv, CutoffsAreOld, RowsAreLate
      <3>4. /\ row.at \in Int /\ c \in Int /\ issuedAt[n] \in Int
            /\ now \in Int /\ n \in Nonce
        BY <3>1, SignInConstants DEF IInv, TypeOK
      <3> QED
        BY <3>2, <3>3, <3>4, RetentionIsNat, SignInConstants
    <2> QED
      BY <2>1, <2>2
  <1>4. ForgottenIsOld'
    BY <1>3 DEF ForgottenIsOld
  <1> QED
    BY <1>1, <1>2, <1>4 DEF IInv

LEMMA StepInv == IInv /\ [Next]_vars => IInv'
  <1> SUFFICES ASSUME IInv, [Next]_vars PROVE IInv'
    OBVIOUS
  <1>1. TypeOK'
    BY TypeStep DEF IInv
  <1>2. CASE UNCHANGED vars
    BY <1>1, <1>2 DEF vars, IInv, RowsAreLate, InsertIsFresh, UsedAt, CutoffsAreOld,
                      ForgottenIsOld, Recorded
  <1>3. ASSUME NEW r \in Request, NEW m \in Machine, NEW n \in Nonce, Refuse(r, m, n)
        PROVE  IInv'
    BY <1>2, <1>3 DEF Refuse
  <1> QED
    BY <1>1, <1>2, <1>3, TickInv, CreateInv, VerifyInv, InsertWinsInv, EndInv, PruneInv
    DEF Next

(* Why the invariant is enough: what is forgotten is too old to be         *)
(* accepted, or for an insert to be on its way with it.                    *)
LEMMA InvImpliesRows == IInv => RowsOutliveNonces
  <1> SUFFICES ASSUME IInv, NEW n \in spent, NEW m \in Machine, Acceptable(m, n),
                      ~ Recorded(n)
               PROVE  FALSE
    BY DEF RowsOutliveNonces
  <1>1. /\ Clock(m) \in Int /\ now - Skew <= Clock(m)
        /\ now \in Int /\ issuedAt[n] \in Int
    BY ClockInt, SignInConstants DEF IInv, TypeOK
  <1>2. issuedAt[n] >= Clock(m) - TTL
    BY <1>1, SignInConstants DEF Acceptable, Expired
  <1>3. issuedAt[n] - Tolerance < now + Skew - Retention
    BY DEF IInv, ForgottenIsOld
  <1> QED
    BY <1>1, <1>2, <1>3, RetentionIsNat, RetentionSuffices, SignInConstants

LEMMA NoInsertOfForgotten ==
  ASSUME IInv, NEW r \in Request, call[r].phase = "insert",
         call[r].nonce \in spent, ~ Recorded(call[r].nonce)
  PROVE  FALSE
  <1> DEFINE n == call[r].nonce
  <1>1. /\ call[r].sent \in Nat /\ UsedAt(r) \in Int
        /\ UsedAt(r) >= call[r].sent - Skew
        /\ now \in Int /\ issuedAt[n] \in Int
    BY CallTypes, SignInConstants DEF IInv, TypeOK
  <1>2. now <= call[r].sent + DbTimeout /\ UsedAt(r) <= issuedAt[n] + TTL
    BY DEF IInv, InsertIsFresh
  <1>3. issuedAt[n] - Tolerance < now + Skew - Retention
    BY DEF IInv, ForgottenIsOld
  <1> QED
    BY <1>1, <1>2, <1>3, RetentionIsNat, RetentionSuffices, SignInConstants

LEMMA StepSpendsOnce ==
  ASSUME IInv, Next, NEW n \in spent, ~ Recorded(n)
  PROVE  ~ (\E row \in used' : row.nonce = n)
  <1>1. ASSUME NEW r \in Request, call[r].phase = "insert", Record(r)
        PROVE  ~ (\E row \in used' : row.nonce = n)
    <2>1. call[r].nonce # n
      BY <1>1, NoInsertOfForgotten
    <2> QED
      BY <1>1, <2>1 DEF Record, Recorded
  <1>2. \/ used' \subseteq used
        \/ \E r \in Request : call[r].phase = "insert" /\ Record(r)
    BY DEF Next, Tick, createNonce, Verify, Refuse, vars, InsertWins, InsertLoses,
           InsertFails, Answer, PruneLands
  <1> QED
    BY <1>1, <1>2 DEF Recorded

-----------------------------------------------------------------------------
(* While any machine would accept a spent nonce its row is there, for any  *)
(* clocks within Skew and any prune in between: the retention of           *)
(* authService.ts (usedNonceRetentionSeconds) is long enough.              *)
THEOREM RowsOutliveTheirNonces == Spec => []RowsOutliveNonces
  <1>1. Spec => []IInv
    BY InitInv, StepInv, PTL DEF Spec
  <1> QED
    BY <1>1, InvImpliesRows, PTL

(* A nonce is recorded at most once: one signed message signs in once,     *)
(* whichever machines it is sent to and however long an insert takes.      *)
THEOREM NoncesAreSpentOnce == Spec => SpentOnce
  <1>1. Spec => []IInv
    BY InitInv, StepInv, PTL DEF Spec
  <1>2. IInv /\ [Next]_vars =>
          [\A n \in spent : ~ Recorded(n) => ~ (\E row \in used' : row.nonce = n)]_vars
    BY StepSpendsOnce
  <1> QED
    BY <1>1, <1>2, PTL DEF Spec, SpentOnce
=============================================================================
