------------------------------- MODULE MCLive -------------------------------
(* What ends when it is left to itself. As in MCWeb and MCNamePages, a     *)
(* behaviour is one of the part it starts as:                              *)
(*   sync     two machines and a chain of three blocks                     *)
(*   reserve  two accounts in one wallet after one name, one reservation   *)
(*   claim    one wallet claiming a name                                   *)
EXTENDS EventSync
CONSTANTS
  A, B, m1, m2,
  Wallet, None, MinAge, MaxAge, Grace, MaxNow, MaxMade, MaxSent, MaxChecks
VARIABLES
  part,
  now, winner, commit, sent, made, store, wallet, step, checks, placing, tx,
  registered,
  at, error, unavailable, existing, resumedFor, check, recheck, resume,
  sign, register, address, session, account, taken, late, chainOwner

OneWallet == {A}
reserve == <<now, winner, commit, sent, made, store, wallet, step, checks, placing,
             tx, registered>>
claim == <<at, error, unavailable, existing, resumedFor, check, recheck, resume,
           sign, register, address, session, account, taken, late, chainOwner>>
all == <<part, vars, reserve, claim>>
R == INSTANCE Reservations
C == INSTANCE ClaimWizard WITH Wallet <- OneWallet, step <- at
ASSUME R!ReservationConstants /\ C!NoWallet

NoReserve == R!Init /\ wallet = A
NoClaim ==
  /\ C!Init /\ address = None /\ session = None /\ ~ taken
  /\ account[A] = None /\ chainOwner = A

LiveInit ==
  /\ Init
  /\ \/ part = "sync" /\ NoReserve /\ NoClaim
     \/ part = "reserve" /\ R!Init /\ NoClaim
     \/ part = "claim" /\ NoReserve /\ C!Init
Syncs(Act) == part = "sync" /\ Act /\ UNCHANGED <<part, reserve, claim>>
Reserves(Act) == part = "reserve" /\ Act /\ UNCHANGED <<part, vars, claim>>
Claims(Act) == part = "claim" /\ Act /\ UNCHANGED <<part, vars, reserve>>

(* The fairness of EventSync's, Reservations' and ClaimWizard's FairSpec.  *)
LiveSpec ==
  /\ LiveInit /\ [][Syncs(Next) \/ Reserves(R!Next) \/ Claims(C!Next)]_all
  /\ WF_vars(Syncs(Mine)) /\ WF_vars(Syncs(Tick))
  /\ \A m \in Machine : WF_vars(Syncs(Progress(m)))
  /\ SF_reserve(Reserves(R!Tick)) /\ WF_reserve(Reserves(R!ReadAnswers))
  /\ WF_reserve(Reserves(R!LookAgain))
  /\ \A i \in 1 .. MaxChecks : WF_reserve(Reserves(R!RefreshedAt(i)))
  /\ WF_claim(Claims(C!CheckAvailable)) /\ WF_claim(Claims(C!Alternatives))
  /\ WF_claim(Claims(C!Effects))

(* Once its calls are answered, the copy of the chain's events catches up  *)
(* (services/onchainEventsService.ts).                                     *)
EventsCatchUp == part = "sync" => CatchesUp

(* What a page waits for, with nothing to press, ends: a panel's wait for  *)
(* a commit (RegisterPanel.tsx), and a claim's spinners, unless a call     *)
(* that has no timeout stays unanswered (ClaimWizard.tsx, lib/api.ts).     *)
WhatWaitsEnds == R!WaitingEnds /\ (part = "claim" => C!SpinnersEnd)
=============================================================================
