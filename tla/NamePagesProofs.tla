--------------------------- MODULE NamePagesProofs --------------------------
(***************************************************************************)
(* Proofs about the pages that manage names and addresses, for any         *)
(* wallets, names, records, chains and addresses. Each part has an         *)
(* invariant of its own; a step of another one leaves it alone.            *)
(***************************************************************************)
EXTENDS NamePages, SequenceTheorems, TLAPS

-----------------------------------------------------------------------------
(* The pages that ask about what is typed. A request that is still heeded  *)
(* is about what its page shows, and its answer is about what it asked.    *)
Said == [is : L!Verdict \cup {"idle", "invalid", "checking", "offline", "loading",
                              "ready", "error", "reverse", "lost"},
         of : L!Key, names : SUBSET Name]
Shown == [name |-> value, wallet |-> account]

SaidFor(key) ==
  {said \in Said :
     /\ said.of = key
     /\ page = "claim" => said.is \in L!Verdict \cup {"lost"}
     /\ page = "names" => said.is \in {"ready", "lost"}
     /\ page = "look up" => said.is \in {"reverse", "lost"}
     /\ said.is \in {"available", "onchain"} => key.name \notin Reserved}

RequestHolds(r) ==
  /\ r \in [of : L!Key, aborted : BOOLEAN, answer : {L!NoAnswer} \cup Said]
  /\ r.answer # L!NoAnswer => r.answer \in SaidFor(r.of)
  /\ page = "claim" => r.of.name \in Name
  /\ page = "claim" /\ ~ r.aborted => r.of = Shown
  /\ page = "names" /\ ~ r.aborted => r.of.wallet = account

ScreenHolds ==
  /\ shows \in Said /\ shows.is # "lost"
  /\ shows.is \in L!Verdict => page = "claim" /\ shows.of = Shown /\ value \in Name
  /\ shows.is \in {"available", "onchain"} => shows.of.name \notin Reserved
  /\ page = "names" /\ account # None /\ shows.is = "ready" => shows.of.wallet = account
  /\ preview # None => preview = value /\ shows.is = "available"

LookTypes ==
  /\ page \in {"claim", "names", "look up"}
  /\ account \in Wallet \cup {None} /\ value \in L!Draft \cup Wallet
  /\ timer \in BOOLEAN /\ (timer => page = "claim" /\ value \in Name)
  /\ preview \in Name \cup {None} /\ led \in L!Key

ServerTypes ==
  /\ accounts \subseteq Name /\ holder \in [Name -> Wallet \cup {None}]
  /\ changes \in 0 .. MaxMoves

LookInv ==
  /\ LookTypes /\ ServerTypes /\ ScreenHolds
  /\ \A r \in asked : RequestHolds(r)

LEMMA LookConstants ==
  /\ Reserved \subseteq Name /\ None \notin Name /\ None \notin Wallet
  /\ Name \cap Wallet = {} /\ Partial \cap Ill = {} /\ MaxMoves \in Nat
BY PagesHold DEF L!NameLookupsConstants

LEMMA NoKeyIsKey ==
  /\ L!NoKey \in L!Key /\ L!NoKey = [name |-> None, wallet |-> None]
BY DEF L!NoKey, L!Key

LEMMA SayingNothing ==
  ASSUME NEW how \in {"idle", "invalid", "checking", "offline", "loading", "error"}
  PROVE  /\ L!Says(how, L!NoKey) \in Said
         /\ L!Says(how, L!NoKey).is = how /\ how \notin L!Verdict
         /\ how # "ready" /\ how # "lost" /\ how # "reverse"
BY NoKeyIsKey DEF L!Says, Said, L!Verdict

LEMMA AbortedHold ==
  ASSUME \A r \in asked : RequestHolds(r), page' = page,
         NEW r \in L!Aborted
  PROVE  RequestHolds(r)'
<1>1. PICK s \in asked : r = [s EXCEPT !.aborted = TRUE]
  BY DEF L!Aborted
<1>2. RequestHolds(s)
  BY <1>1
<1>3. /\ r.of = s.of /\ r.answer = s.answer /\ r.aborted = TRUE
      /\ r \in [of : L!Key, aborted : BOOLEAN, answer : {L!NoAnswer} \cup Said]
  BY <1>1, <1>2 DEF RequestHolds
<1> QED
  BY <1>2, <1>3 DEF RequestHolds, SaidFor

LEMMA RequestsStay ==
  ASSUME NEW r, RequestHolds(r), UNCHANGED <<page, value, account>>
  PROVE  RequestHolds(r)'
BY DEF RequestHolds, SaidFor, Shown

LEMMA LookInit == L!Init => LookInv
<1> SUFFICES ASSUME L!Init PROVE LookInv
  OBVIOUS
<1>1. /\ page \in {"claim", "names", "look up"} /\ account = None /\ value \in Partial
      /\ timer = FALSE /\ asked = {} /\ preview = None /\ led = L!NoKey
      /\ accounts = {} /\ holder = [n \in Name |-> None] /\ changes = 0
      /\ shows = (IF page = "names" THEN L!Says("loading", L!NoKey) ELSE L!Idle)
  BY DEF L!Init
<1>2. shows \in Said /\ shows.is \in {"idle", "loading"}
  BY <1>1, SayingNothing DEF L!Idle
<1>3. ScreenHolds
  BY <1>1, <1>2, SayingNothing DEF ScreenHolds, L!Verdict
<1>4. LookTypes
  BY <1>1, NoKeyIsKey DEF LookTypes, L!Draft
<1>5. ServerTypes
  <2>1. changes = 0 /\ accounts = {} /\ holder = [n \in Name |-> None]
    BY <1>1
  <2>2. changes \in 0 .. MaxMoves
    BY <2>1, LookConstants
  <2>3. holder \in [Name -> Wallet \cup {None}]
    BY <2>1
  <2> QED
    BY <2>1, <2>2, <2>3 DEF ServerTypes
<1> QED
  BY <1>1, <1>3, <1>4, <1>5 DEF LookInv

LEMMA LookRegistered ==
  ASSUME LookInv, L!Registered
  PROVE  LookInv'
<1>1. UNCHANGED <<page, account, value, timer, asked, shows, preview, led>>
  BY DEF L!Registered
<1>2. ServerTypes'
  BY LookConstants DEF LookInv, ServerTypes, L!Registered
<1>3. \A r \in asked' : RequestHolds(r)'
  BY <1>1, RequestsStay DEF LookInv
<1> QED
  BY <1>1, <1>2, <1>3 DEF LookInv, LookTypes, ScreenHolds, Shown

(* What is answered is about what was asked.                               *)
LEMMA AnswerTells ==
  ASSUME LookInv, NEW r \in asked
  PROVE  L!AnswerOf(r.of) \in SaidFor(r.of) /\ L!Says("lost", r.of) \in SaidFor(r.of)
<1>1. RequestHolds(r) /\ r.of \in L!Key
  BY DEF LookInv, RequestHolds
<1>2. L!Says("lost", r.of) \in SaidFor(r.of)
  BY <1>1 DEF L!Says, SaidFor, Said
<1>3. CASE page = "claim"
  <2>1. PICK v : v = L!Available(r.of.name, r.of.wallet)
    OBVIOUS
  <2>2. v \in L!Verdict /\ (v \in {"available", "onchain"} => r.of.name \notin Reserved)
    <3>1. CASE r.of.name \in Reserved
      <4>1. v = "reserved"
        BY <2>1, <3>1 DEF L!Available
      <4> QED
        BY <4>1 DEF L!Verdict
    <3>2. CASE r.of.name \notin Reserved
      <4>1. v \in {"taken", "onchain", "available"}
        BY <2>1, <3>2 DEF L!Available
      <4> QED
        BY <3>2, <4>1 DEF L!Verdict
    <3> QED
      BY <3>1, <3>2
  <2>3. L!AnswerOf(r.of) = [is |-> v, of |-> r.of, names |-> {}]
    BY <1>3, <2>1 DEF L!AnswerOf
  <2>4. PICK said : said = L!AnswerOf(r.of)
    OBVIOUS
  <2>5. said \in Said /\ said.of = r.of /\ said.is = v
    BY <1>1, <2>2, <2>3, <2>4 DEF Said
  <2> QED
    BY <1>2, <1>3, <2>2, <2>4, <2>5 DEF SaidFor
<1>4. CASE page # "claim"
  <2>1. L!Owned(r.of.wallet) \in SUBSET Name
    BY DEF L!Owned
  <2>2. PICK said : said = L!AnswerOf(r.of)
    OBVIOUS
  <2>3. /\ said \in Said /\ said.of = r.of
        /\ said.is = IF page = "names" THEN "ready" ELSE "reverse"
    BY <1>1, <1>4, <2>1, <2>2 DEF L!AnswerOf, Said
  <2>4. said.is \notin {"available", "onchain"}
    BY <2>3
  <2> QED
    BY <1>2, <1>4, <2>2, <2>3, <2>4 DEF SaidFor, LookInv, LookTypes
<1> QED
  BY <1>3, <1>4

LEMMA LookRespond ==
  ASSUME LookInv, L!Respond
  PROVE  LookInv'
<1>1. UNCHANGED <<page, account, value, timer, shows, preview, led,
                  accounts, holder, changes>>
  BY DEF L!Respond, L!server
<1>2. PICK r \in asked : \E said \in {L!AnswerOf(r.of), L!Says("lost", r.of)} :
        asked' = (asked \ {r}) \cup {[r EXCEPT !.answer = said]}
  BY DEF L!Respond
<1>7. PICK said \in SaidFor(r.of) :
        asked' = (asked \ {r}) \cup {[r EXCEPT !.answer = said]}
  BY <1>2, AnswerTells
<1>3. PICK s : s = [r EXCEPT !.answer = said]
  OBVIOUS
<1>4. RequestHolds(s)
  <2>1. RequestHolds(r) /\ said \in Said
    BY DEF LookInv, SaidFor
  <2>2. /\ s \in [of : L!Key, aborted : BOOLEAN, answer : {L!NoAnswer} \cup Said]
        /\ s.of = r.of /\ s.aborted = r.aborted /\ s.answer = said
    BY <1>3, <2>1 DEF RequestHolds
  <2> QED
    BY <2>1, <2>2 DEF RequestHolds
<1>5. \A x \in asked' : RequestHolds(x)
  BY <1>7, <1>3, <1>4 DEF LookInv
<1>6. \A x \in asked' : RequestHolds(x)'
  BY <1>1, <1>5, RequestsStay
<1> QED
  BY <1>1, <1>6 DEF LookInv, LookTypes, ServerTypes, ScreenHolds, Shown

(* A change of the draft or of the wallet.                                 *)
LEMMA LookRechecks ==
  ASSUME LookInv, page = "claim", value' \in L!Draft \cup Wallet, L!Rechecks(value'),
         account' \in Wallet \cup {None},
         UNCHANGED <<page, led, accounts, holder, changes>>
  PROVE  LookInv'
<1>1. /\ asked' = L!Aborted /\ timer' = (value' \in Name)
      /\ shows' = (CASE value' \in Partial -> L!Idle
                     [] value' \in Ill -> L!Says("invalid", L!NoKey)
                     [] OTHER -> L!Says("checking", L!NoKey))
      /\ preview' = IF shows'.is = "available" THEN value' ELSE None
  BY DEF L!Rechecks, L!Previewed
<1>2. \E how \in {"idle", "invalid", "checking"} : shows' = L!Says(how, L!NoKey)
  BY <1>1, LookConstants DEF L!Idle
<1>3. /\ shows' \in Said /\ shows'.is \notin L!Verdict
      /\ shows'.is # "ready" /\ shows'.is # "lost"
  BY <1>2, SayingNothing
<1>4. preview' = None
  BY <1>1, <1>3 DEF L!Verdict
<1>5. ScreenHolds'
  BY <1>3, <1>4 DEF ScreenHolds, L!Verdict
<1>6. LookTypes' /\ ServerTypes'
  <2>1. timer' = (value' \in Name)
    BY <1>1
  <2>2. timer' \in BOOLEAN
    BY <2>1
  <2>3. timer' => value' \in Name
    BY <2>1
  <2> QED
    BY <1>4, <2>2, <2>3 DEF LookInv, LookTypes, ServerTypes
<1>7. \A r \in asked' : RequestHolds(r)'
  BY <1>1, AbortedHold DEF LookInv
<1> QED
  BY <1>5, <1>6, <1>7 DEF LookInv

LEMMA LookType ==
  ASSUME LookInv, L!Type
  PROVE  LookInv'
<1>1. /\ page = "claim" /\ value' \in L!Draft /\ L!Rechecks(value')
      /\ UNCHANGED <<page, account, led, accounts, holder, changes>>
  BY DEF L!Type, L!server
<1>2. account' \in Wallet \cup {None}
  BY <1>1 DEF LookInv, LookTypes
<1> QED
  BY <1>1, <1>2, LookRechecks

LEMMA SentHolds ==
  ASSUME LookInv, NEW key \in L!Key,
         page = "claim" => key = Shown /\ value \in Name,
         page = "names" => key.wallet = account
  PROVE  RequestHolds(L!Send(key))
<1>1. PICK r : r = L!Send(key)
  OBVIOUS
<1>2. /\ r \in [of : L!Key, aborted : BOOLEAN, answer : {L!NoAnswer} \cup Said]
      /\ r.of = key /\ r.answer = L!NoAnswer
  BY <1>1 DEF L!Send
<1>3. page = "claim" => r.of.name \in Name
  BY <1>2 DEF Shown
<1> QED
  BY <1>1, <1>2, <1>3 DEF RequestHolds

LEMMA LookTimer ==
  ASSUME LookInv, L!TimerFires
  PROVE  LookInv'
<1>1. /\ timer /\ timer' = FALSE /\ asked' = asked \cup {L!Send(Shown)}
      /\ UNCHANGED <<page, account, value, shows, preview, led,
                     accounts, holder, changes>>
  BY DEF L!TimerFires, L!server, Shown
<1>2. page = "claim" /\ value \in Name /\ account \in Wallet \cup {None}
  BY <1>1 DEF LookInv, LookTypes
<1>3. Shown \in L!Key
  BY <1>2 DEF Shown, L!Key
<1>4. RequestHolds(L!Send(Shown))
  BY <1>2, <1>3, SentHolds
<1>5. \A r \in asked' : RequestHolds(r)
  BY <1>1, <1>4 DEF LookInv
<1>6. \A r \in asked' : RequestHolds(r)'
  BY <1>1, <1>5, RequestsStay
<1> QED
  BY <1>1, <1>6 DEF LookInv, LookTypes, ServerTypes, ScreenHolds, Shown

(* What is put on screen when a request that is heeded is answered.        *)
LEMMA AnswerShown ==
  ASSUME LookInv, NEW r \in asked, r.answer # L!NoAnswer, NEW said,
         \/ r.answer.is = "lost" /\ said \in {L!Says("offline", L!NoKey),
                                              L!Says("error", L!NoKey)}
         \/ r.answer.is # "lost" /\ said = r.answer
  PROVE  /\ said \in Said /\ said.is # "lost"
         /\ said.is \in L!Verdict \cup {"ready"} => said \in SaidFor(r.of)
<1>1. r.answer \in SaidFor(r.of) /\ r.answer \in Said
  BY DEF LookInv, RequestHolds, SaidFor
<1>2. CASE r.answer.is = "lost"
  BY <1>2, SayingNothing
<1>3. CASE r.answer.is # "lost"
  BY <1>1, <1>3
<1> QED
  BY <1>2, <1>3

LEMMA LookChecked ==
  ASSUME LookInv, L!Checked
  PROVE  LookInv'
<1>1. /\ page = "claim"
      /\ UNCHANGED <<page, account, value, timer, led, accounts, holder, changes>>
  BY DEF L!Checked, L!server
<1>2. PICK r \in asked :
        /\ r.answer # L!NoAnswer /\ asked' = asked \ {r}
        /\ \/ /\ ~ r.aborted
              /\ shows' = IF r.answer.is = "lost" THEN L!Says("offline", L!NoKey)
                          ELSE r.answer
              /\ preview' = IF shows'.is = "available" THEN value' ELSE None
           \/ UNCHANGED <<shows, preview>>
  BY DEF L!Checked, L!Heeds, L!Drop, L!Previewed
<1>3. \A x \in asked' : RequestHolds(x)'
  BY <1>1, <1>2, RequestsStay DEF LookInv
<1>4. ScreenHolds' /\ preview' \in Name \cup {None}
  <2>1. CASE UNCHANGED <<shows, preview>>
    BY <1>1, <2>1 DEF LookInv, LookTypes, ScreenHolds, Shown
  <2>2. CASE /\ ~ r.aborted
             /\ shows' = IF r.answer.is = "lost" THEN L!Says("offline", L!NoKey)
                         ELSE r.answer
             /\ preview' = IF shows'.is = "available" THEN value' ELSE None
    <3>1. PICK said : said = shows'
      OBVIOUS
    <3>2. /\ said \in Said /\ said.is # "lost"
          /\ said.is \in L!Verdict \cup {"ready"} => said \in SaidFor(r.of)
      BY <1>2, <2>2, <3>1, AnswerShown
    <3>3. r.of = Shown /\ r.of.name \in Name
      BY <1>1, <2>2 DEF LookInv, RequestHolds
    <3>4. value \in Name
      BY <3>3 DEF Shown
    <3>5. Shown' = Shown
      BY <1>1 DEF Shown
    <3>6. said.is \in L!Verdict =>
            /\ said.of = Shown
            /\ said.is \in {"available", "onchain"} => said.of.name \notin Reserved
      BY <3>2, <3>3 DEF SaidFor
    <3> QED
      BY <1>1, <2>2, <3>1, <3>2, <3>4, <3>5, <3>6 DEF ScreenHolds, L!Verdict
  <2> QED
    BY <1>2, <2>1, <2>2
<1> QED
  BY <1>1, <1>3, <1>4 DEF LookInv, LookTypes, ServerTypes

LEMMA LookSubmit ==
  ASSUME LookInv, L!Submit
  PROVE  LookInv' /\ shows.of = led' /\ led'.name \notin Reserved
<1>1. /\ shows.is \in {"available", "onchain"} /\ led' = Shown
      /\ UNCHANGED <<page, account, value, timer, asked, shows, preview,
                     accounts, holder, changes>>
  BY DEF L!Submit, L!server, Shown
<1>2. shows.of = Shown /\ shows.of.name \notin Reserved /\ shows.of \in L!Key
  BY <1>1 DEF LookInv, ScreenHolds, L!Verdict, Said
<1>3. \A x \in asked' : RequestHolds(x)'
  BY <1>1, RequestsStay DEF LookInv
<1> QED
  BY <1>1, <1>2, <1>3 DEF LookInv, LookTypes, ServerTypes, ScreenHolds, Shown

(* My names.                                                               *)
LEMMA LookLoads ==
  ASSUME LookInv, page = "names", NEW w \in Wallet \cup {None}, account' = w,
         L!Loads(w), w # account => preview = None,
         UNCHANGED <<page, value, timer, preview, led, accounts, holder, changes>>
  PROVE  LookInv'
<1>1. /\ asked' = L!Aborted \cup
                    (IF w = None THEN {} ELSE {L!Send([name |-> None, wallet |-> w])})
      /\ \/ shows' = shows /\ (w = None \/ shows.of.wallet = w)
         \/ shows' = L!Says("loading", L!NoKey)
  BY DEF L!Loads
<1>2. preview = None
  BY DEF LookInv, ScreenHolds, L!Verdict
<1>3. ScreenHolds'
  <2>1. CASE shows' = shows /\ (w = None \/ shows.of.wallet = w)
    BY <1>2, <2>1 DEF LookInv, ScreenHolds, L!Verdict
  <2>2. CASE shows' = L!Says("loading", L!NoKey)
    <3>1. /\ shows' \in Said /\ shows'.is \notin L!Verdict
          /\ shows'.is # "ready" /\ shows'.is # "lost"
      BY <2>2, SayingNothing
    <3> QED
      BY <1>2, <3>1 DEF ScreenHolds, L!Verdict
  <2> QED
    BY <1>1, <2>1, <2>2
<1>4. \A r \in L!Aborted : RequestHolds(r)'
  BY AbortedHold DEF LookInv
<1>5. ASSUME w # None
      PROVE  RequestHolds(L!Send([name |-> None, wallet |-> w]))'
  <2>1. PICK r : r = L!Send([name |-> None, wallet |-> w])
    OBVIOUS
  <2>2. /\ r \in [of : L!Key, aborted : BOOLEAN, answer : {L!NoAnswer} \cup Said]
        /\ r.of.wallet = w /\ r.answer = L!NoAnswer
    BY <2>1 DEF L!Send, L!Key
  <2>3. RequestHolds(r)'
    BY <2>2 DEF RequestHolds
  <2> QED
    BY <2>1, <2>3
<1>6. \A r \in asked' : RequestHolds(r)'
  BY <1>1, <1>4, <1>5
<1> QED
  BY <1>3, <1>6 DEF LookInv, LookTypes, ServerTypes

LEMMA LookRefresh ==
  ASSUME LookInv, L!Refresh
  PROVE  LookInv'
<1>1. /\ page = "names" /\ L!Loads(account) /\ account' = account
      /\ UNCHANGED <<page, value, timer, preview, led, accounts, holder, changes>>
  BY DEF L!Refresh, L!server
<1>2. account \in Wallet \cup {None}
  BY DEF LookInv, LookTypes
<1> QED
  BY <1>1, <1>2, LookLoads

LEMMA LookSwitch ==
  ASSUME LookInv, L!SwitchWallet
  PROVE  LookInv'
<1>1. /\ page # "look up" /\ account' \in Wallet \cup {None}
      /\ UNCHANGED <<page, led, accounts, holder, changes>>
  BY DEF L!SwitchWallet, L!server
<1>2. CASE page = "claim"
  <2>1. value' = value /\ L!Rechecks(value')
    BY <1>2 DEF L!SwitchWallet
  <2>2. value' \in L!Draft \cup Wallet
    BY <2>1 DEF LookInv, LookTypes
  <2> QED
    BY <1>1, <1>2, <2>1, <2>2, LookRechecks
<1>3. CASE page = "names"
  <2>1. L!Loads(account') /\ UNCHANGED <<value, timer, preview>>
    BY <1>3 DEF L!SwitchWallet
  <2>2. PICK w : w = account'
    OBVIOUS
  <2>3. preview = None
    BY <1>3 DEF LookInv, ScreenHolds, L!Verdict
  <2> QED
    BY <1>1, <1>3, <2>1, <2>2, <2>3, LookLoads
<1> QED
  BY <1>1, <1>2, <1>3 DEF LookInv, LookTypes

LEMMA LookLoaded ==
  ASSUME LookInv, L!Loaded
  PROVE  LookInv'
<1>1. /\ page = "names"
      /\ UNCHANGED <<page, account, value, timer, preview, led,
                     accounts, holder, changes>>
  BY DEF L!Loaded, L!server, L!Drop
<1>2. PICK r \in asked :
        /\ r.answer # L!NoAnswer /\ asked' = asked \ {r}
        /\ \/ /\ ~ r.aborted
              /\ shows' = IF r.answer.is = "lost" THEN L!Says("error", L!NoKey)
                          ELSE r.answer
           \/ UNCHANGED shows
  BY DEF L!Loaded, L!Heeds, L!Drop
<1>3. \A x \in asked' : RequestHolds(x)'
  BY <1>1, <1>2, RequestsStay DEF LookInv
<1>4. preview = None
  BY <1>1 DEF LookInv, ScreenHolds, L!Verdict
<1>5. ScreenHolds'
  <2>1. CASE UNCHANGED shows
    BY <1>1, <2>1 DEF LookInv, ScreenHolds, Shown
  <2>2. CASE /\ ~ r.aborted
             /\ shows' = IF r.answer.is = "lost" THEN L!Says("error", L!NoKey)
                         ELSE r.answer
    <3>1. PICK said : said = shows'
      OBVIOUS
    <3>2. /\ said \in Said /\ said.is # "lost"
          /\ said.is \in L!Verdict \cup {"ready"} => said \in SaidFor(r.of)
      BY <1>2, <2>2, <3>1, AnswerShown
    <3>3. r.of.wallet = account
      BY <1>1, <2>2 DEF LookInv, RequestHolds
    <3>4. said.is \notin L!Verdict
      BY <1>1, <3>2 DEF SaidFor, L!Verdict
    <3> QED
      BY <1>1, <1>4, <3>1, <3>2, <3>3, <3>4 DEF ScreenHolds, SaidFor, L!Verdict
  <2> QED
    BY <1>2, <2>1, <2>2
<1> QED
  BY <1>1, <1>3, <1>5 DEF LookInv, LookTypes, ServerTypes

(* The look-up.                                                            *)
LEMMA LookQuiet ==
  ASSUME LookInv, page = "look up", shows' \in Said,
         shows'.is \in {"idle", "loading", "error", "reverse"},
         UNCHANGED <<page, account, preview>>
  PROVE  ScreenHolds'
<1>1. preview = None
  BY DEF LookInv, ScreenHolds, L!Verdict
<1>2. shows'.is \notin L!Verdict /\ shows'.is # "lost" /\ shows'.is # "ready"
  BY DEF L!Verdict
<1> QED
  BY <1>1, <1>2 DEF ScreenHolds, L!Verdict

LEMMA LookRequests ==
  ASSUME LookInv, page = "look up", UNCHANGED <<page, account>>,
         NEW r, RequestHolds(r)
  PROVE  RequestHolds(r)'
BY DEF RequestHolds, SaidFor

LEMMA LookEdit ==
  ASSUME LookInv, L!Edit
  PROVE  LookInv'
<1>1. /\ page = "look up" /\ value' \in L!Draft \cup Wallet
      /\ shows' = L!Says("idle", L!NoKey)
      /\ UNCHANGED <<page, account, timer, asked, preview, led,
                     accounts, holder, changes>>
  BY DEF L!Edit, L!server, L!Idle
<1>2. shows' \in Said /\ shows'.is = "idle"
  BY <1>1, SayingNothing
<1>3. ScreenHolds'
  BY <1>1, <1>2, LookQuiet
<1>4. \A r \in asked' : RequestHolds(r)'
  BY <1>1, LookRequests DEF LookInv
<1>5. timer = FALSE
  BY <1>1 DEF LookInv, LookTypes
<1> QED
  BY <1>1, <1>3, <1>4, <1>5 DEF LookInv, LookTypes, ServerTypes

LEMMA LookLook ==
  ASSUME LookInv, L!Look
  PROVE  LookInv'
<1>1. /\ page = "look up"
      /\ UNCHANGED <<page, account, value, timer, preview, accounts, holder, changes>>
  BY DEF L!Look, L!server
<1>2. CASE value \in Wallet
  <2>1. /\ asked' = asked \cup {L!Send([name |-> None, wallet |-> value])}
        /\ shows' = L!Says("loading", L!NoKey) /\ led' = led
    BY <1>2, LookConstants DEF L!Look
  <2>2. [name |-> None, wallet |-> value] \in L!Key
    BY <1>2 DEF L!Key
  <2>3. RequestHolds(L!Send([name |-> None, wallet |-> value]))
    BY <1>1, <2>2, SentHolds
  <2>4. \A r \in asked' : RequestHolds(r)
    BY <2>1, <2>3 DEF LookInv
  <2>5. \A r \in asked' : RequestHolds(r)'
    BY <1>1, <2>4, LookRequests
  <2>6. shows' \in Said /\ shows'.is = "loading"
    BY <2>1, SayingNothing
  <2>7. ScreenHolds'
    BY <1>1, <2>6, LookQuiet
  <2> QED
    BY <1>1, <2>1, <2>5, <2>7 DEF LookInv, LookTypes, ServerTypes
<1>3. CASE value \in Name
  <2>2. led' = [name |-> value, wallet |-> None] /\ UNCHANGED <<asked, shows>>
    BY <1>3, LookConstants DEF L!Look
  <2>3. led' \in L!Key
    BY <1>3, <2>2 DEF L!Key
  <2>4. \A r \in asked' : RequestHolds(r)'
    BY <1>1, <2>2, LookRequests DEF LookInv
  <2> QED
    BY <1>1, <2>2, <2>3, <2>4
       DEF LookInv, LookTypes, ServerTypes, ScreenHolds, Shown
<1>4. CASE value \notin Wallet \cup Name
  <2>1. shows' = L!Says("error", L!NoKey) /\ UNCHANGED <<asked, led>>
    BY <1>4 DEF L!Look
  <2>2. shows' \in Said /\ shows'.is = "error"
    BY <2>1, SayingNothing
  <2>3. ScreenHolds'
    BY <1>1, <2>2, LookQuiet
  <2>4. \A r \in asked' : RequestHolds(r)'
    BY <1>1, <2>1, LookRequests DEF LookInv
  <2> QED
    BY <1>1, <2>1, <2>3, <2>4 DEF LookInv, LookTypes, ServerTypes
<1> QED
  BY <1>2, <1>3, <1>4

LEMMA LookLooked ==
  ASSUME LookInv, L!Looked
  PROVE  LookInv'
<1>1. /\ page = "look up"
      /\ UNCHANGED <<page, account, value, timer, preview, led,
                     accounts, holder, changes>>
  BY DEF L!Looked, L!server
<1>2. PICK r \in asked :
        /\ r.answer # L!NoAnswer /\ asked' = asked \ {r}
        /\ shows' = IF r.answer.is = "lost" THEN L!Says("error", L!NoKey)
                    ELSE r.answer
  BY DEF L!Looked
<1>3. r.answer \in Said /\ r.answer.is \in {"reverse", "lost"}
  BY <1>1, <1>2 DEF LookInv, RequestHolds, SaidFor
<1>4. shows' \in Said /\ shows'.is \in {"error", "reverse"}
  BY <1>2, <1>3, SayingNothing
<1>5. ScreenHolds'
  BY <1>1, <1>4, LookQuiet
<1>6. \A x \in asked' : RequestHolds(x)'
  BY <1>1, <1>2, LookRequests DEF LookInv
<1> QED
  BY <1>1, <1>5, <1>6 DEF LookInv, LookTypes, ServerTypes

LEMMA LookKept ==
  ASSUME LookInv, L!Next
  PROVE  LookInv' /\ L!ChecksFirst
<1>1. CASE L!Submit
  BY <1>1, LookSubmit DEF L!ChecksFirst
<1>2. CASE L!Registered \/ L!Respond \/ L!Type \/ L!TimerFires \/ L!Checked
           \/ L!Refresh \/ L!Loaded \/ L!SwitchWallet
  <2>1. UNCHANGED led
    BY <1>2 DEF L!Registered, L!Respond, L!Type, L!TimerFires, L!Checked,
         L!Refresh, L!Loaded, L!SwitchWallet
  <2> QED
    BY <1>2, <2>1, LookRegistered, LookRespond, LookType, LookTimer, LookChecked,
       LookRefresh, LookLoaded, LookSwitch DEF L!ChecksFirst
<1>3. CASE L!Edit \/ L!Look \/ L!Looked
  <2>1. page = "look up"
    BY <1>3 DEF L!Edit, L!Look, L!Looked
  <2> QED
    BY <1>3, <2>1, LookEdit, LookLook, LookLooked DEF L!ChecksFirst
<1> QED
  BY <1>1, <1>2, <1>3 DEF L!Next

LEMMA LookShows ==
  ASSUME LookInv
  PROVE  L!TypeOK /\ L!SaysOfShown
<1>1. L!SaysOfShown
  BY DEF LookInv, ScreenHolds, Shown, L!SaysOfShown
<1>2. \A r \in asked : r.of \in L!Key /\ r.aborted \in BOOLEAN
  BY DEF LookInv, RequestHolds
<1>3. /\ shows.is \in L!Verdict \cup {"idle", "invalid", "checking", "offline",
                                      "loading", "ready", "error", "reverse"}
      /\ shows.of \in L!Key /\ shows.names \subseteq Name
  BY DEF LookInv, ScreenHolds, Said
<1> QED
  BY <1>1, <1>2, <1>3 DEF LookInv, LookTypes, ServerTypes, L!TypeOK

-----------------------------------------------------------------------------
(* The account's addresses. What is on screen, what a copy holds and what  *)
(* a request was answered are rows the server held; the only request since *)
(* it was sent was answered what the server holds now.                     *)
Drafts == Address \cup {None}
BookCalls ==
  {K!NoCall} \cup {K!Asks(c, a) : c \in Chain, a \in Drafts}
    \cup {K!Signs(c, a, b) : c \in Chain, a \in Address, b \in Address}
    \cup {K!Submits(c, a, b) : c \in Chain, a \in Address, b \in Address}
    \cup {K!Answered(c, x) : c \in Chain, x \in K!Answers}
    \cup {K!Rereads(c) : c \in Chain}

Held(rs) == \A c \in Chain : rs[c] \in were[c]
Sound(rs) == rs \in K!Rows /\ \A c \in Chain : rs[c].address = None => rs[c] = K!NoRow

CallHolds(k, x) ==
  /\ x \in BookCalls
  /\ x # K!NoCall => shown # None
  /\ x.at \in {"signs", "submits"} => k = "verify"
  /\ x.at = "asks" /\ k # "remove" => x.address \in Address
  /\ x.at = "answered" /\ x.answer.is = "rows" => Held(x.answer.rows)
  /\ x.at = "answered" /\ x.answer = K!NotFound => k = "remove" /\ K!NoRow \in were[x.chain]

QuietHolds ==
  /\ quiet \in K!Kind \cup {"yes", "no"}
  /\ quiet = "yes" => shown # None /\ shown = rows /\ K!Alone
  /\ quiet \in K!Kind =>
       /\ call[quiet] # K!NoCall /\ call[quiet].at # "rereads"
       /\ \A k \in K!Kind \ {quiet} : call[k] = K!NoCall
       /\ call[quiet].at = "answered" /\ call[quiet].answer.is = "rows" =>
            call[quiet].answer.rows = rows

RowsHold ==
  /\ Sound(rows) /\ copy \in K!Rows /\ shown \in K!Rows \cup {None}
  /\ were \in [Chain -> SUBSET K!Row]
  /\ Held(rows) /\ Held(copy) /\ (shown # None => Held(shown))

FormHolds ==
  /\ mode \in {K!Idle} \cup {K!Editing(c) : c \in Chain}
                \cup {K!Confirming(c) : c \in Chain}
  /\ mode # K!Idle => shown # None
  /\ draft \in Drafts /\ loading \in BOOLEAN /\ (loading => shown = None)
  /\ changes \in 0 .. MaxEdits

BookInv ==
  /\ RowsHold /\ FormHolds /\ QuietHolds
  /\ call \in [K!Kind -> BookCalls] /\ \A k \in K!Kind : CallHolds(k, call[k])

LEMMA BookConstants ==
  /\ Verifiable \subseteq Chain /\ None \notin Address /\ None \notin K!Rows
  /\ Sound(Before) /\ MaxEdits \in Nat
BY PagesHold DEF K!AddressBookConstants, Sound

LEMMA Requests ==
  /\ K!NoCall \in BookCalls /\ K!NoCall.at = "idle"
  /\ \A c \in Chain, a \in Drafts :
       /\ K!Asks(c, a) \in BookCalls /\ K!Asks(c, a).at = "asks"
       /\ K!Asks(c, a).chain = c /\ K!Asks(c, a).address = a
  /\ \A c \in Chain, a \in Address, b \in Address :
       /\ K!Signs(c, a, b) \in BookCalls /\ K!Signs(c, a, b).at = "signs"
       /\ K!Submits(c, a, b) \in BookCalls /\ K!Submits(c, a, b).at = "submits"
  /\ \A c \in Chain, x \in K!Answers :
       /\ K!Answered(c, x) \in BookCalls /\ K!Answered(c, x).at = "answered"
       /\ K!Answered(c, x).chain = c /\ K!Answered(c, x).answer = x
  /\ \A c \in Chain : K!Rereads(c) \in BookCalls /\ K!Rereads(c).at = "rereads"
<1>1. /\ K!NoCall \in BookCalls
      /\ \A c \in Chain, a \in Drafts : K!Asks(c, a) \in BookCalls
      /\ \A c \in Chain, a \in Address, b \in Address :
           K!Signs(c, a, b) \in BookCalls /\ K!Submits(c, a, b) \in BookCalls
      /\ \A c \in Chain, x \in K!Answers : K!Answered(c, x) \in BookCalls
      /\ \A c \in Chain : K!Rereads(c) \in BookCalls
  BY DEF BookCalls
<1>2. /\ K!NoCall.at = "idle"
      /\ \A c, a : /\ K!Asks(c, a).at = "asks"
                   /\ K!Asks(c, a).chain = c /\ K!Asks(c, a).address = a
  BY DEF K!NoCall, K!Asks
<1>3. \A c, a, b : K!Signs(c, a, b).at = "signs" /\ K!Submits(c, a, b).at = "submits"
  BY DEF K!Signs, K!Submits
<1>4. \A c, x : /\ K!Answered(c, x).at = "answered" /\ K!Rereads(c).at = "rereads"
               /\ K!Answered(c, x).chain = c /\ K!Answered(c, x).answer = x
  BY DEF K!Answered, K!Rereads
<1> QED
  BY <1>1, <1>2, <1>3, <1>4

LEMMA RequestIs ==
  ASSUME NEW x \in BookCalls
  PROVE  /\ x.at \in {"idle", "asks", "signs", "submits", "answered", "rereads"}
         /\ x.at = "idle" <=> x = K!NoCall
         /\ x # K!NoCall => x.chain \in Chain
         /\ x.at = "asks" => x.address \in Drafts
         /\ x.at \in {"signs", "submits"} => x.address \in Address /\ x.target \in Address
         /\ x.at = "answered" => x.answer \in K!Answers
<1>1. CASE x = K!NoCall
  BY <1>1, Requests
<1>2. CASE \E c \in Chain, a \in Drafts : x = K!Asks(c, a)
  <2>1. PICK c \in Chain, a \in Drafts : x = K!Asks(c, a)
    BY <1>2
  <2>2. x.at = "asks" /\ x.chain = c /\ x.address = a
    BY <2>1 DEF K!Asks
  <2> QED
    BY <2>2, Requests
<1>3. CASE \E c \in Chain, a \in Address, b \in Address : x = K!Signs(c, a, b)
  <2>1. PICK c \in Chain, a \in Address, b \in Address : x = K!Signs(c, a, b)
    BY <1>3
  <2>2. x.at = "signs" /\ x.chain = c /\ x.address = a /\ x.target = b
    BY <2>1 DEF K!Signs
  <2> QED
    BY <2>2, Requests
<1>4. CASE \E c \in Chain, a \in Address, b \in Address : x = K!Submits(c, a, b)
  <2>1. PICK c \in Chain, a \in Address, b \in Address : x = K!Submits(c, a, b)
    BY <1>4
  <2>2. x.at = "submits" /\ x.chain = c /\ x.address = a /\ x.target = b
    BY <2>1 DEF K!Submits
  <2> QED
    BY <2>2, Requests
<1>5. CASE \E c \in Chain, y \in K!Answers : x = K!Answered(c, y)
  <2>1. PICK c \in Chain, y \in K!Answers : x = K!Answered(c, y)
    BY <1>5
  <2>2. x.at = "answered" /\ x.chain = c /\ x.answer = y
    BY <2>1 DEF K!Answered
  <2> QED
    BY <2>2, Requests
<1>6. CASE \E c \in Chain : x = K!Rereads(c)
  <2>1. PICK c \in Chain : x = K!Rereads(c)
    BY <1>6
  <2>2. x.at = "rereads" /\ x.chain = c
    BY <2>1 DEF K!Rereads
  <2> QED
    BY <2>2, Requests
<1> QED
  BY <1>1, <1>2, <1>3, <1>4, <1>5, <1>6 DEF BookCalls

LEMMA AnswersAre ==
  /\ K!ApiError \in K!Answers /\ K!NotFound \in K!Answers /\ K!Failure \in K!Answers
  /\ K!ApiError.is # "rows" /\ K!NotFound.is # "rows" /\ K!Failure.is # "rows"
  /\ K!ApiError # K!NotFound /\ K!Failure # K!NotFound
  /\ \A rs \in K!Rows : /\ K!NewRows(rs) \in K!Answers /\ K!NewRows(rs).is = "rows"
                        /\ K!NewRows(rs).rows = rs /\ K!NewRows(rs) # K!NotFound
<1>1. K!ApiError.is = "error" /\ K!NotFound.is = "not found" /\ K!Failure.is = "failure"
  BY DEF K!ApiError, K!NotFound, K!Failure
<1>2. ASSUME NEW rs \in K!Rows
      PROVE  K!NewRows(rs).is = "rows" /\ K!NewRows(rs).rows = rs
  BY DEF K!NewRows
<1> QED
  BY <1>1, <1>2 DEF K!Answers

LEMMA AnsweredRows ==
  ASSUME NEW x \in K!Answers, x.is = "rows"
  PROVE  x.rows \in K!Rows
<1>1. x \notin {K!ApiError, K!NotFound, K!Failure}
  BY AnswersAre
<1>2. PICK rs \in K!Rows : x = K!NewRows(rs)
  BY <1>1 DEF K!Answers
<1> QED
  BY <1>2, AnswersAre

LEMMA Modes ==
  \A c : /\ K!Editing(c) # K!Idle /\ K!Confirming(c) # K!Idle
         /\ K!Editing(c).is = "editing" /\ K!Confirming(c).is = "confirming"
         /\ K!Idle.is = "idle"
BY DEF K!Editing, K!Confirming, K!Idle

(* What the account's addresses may become.                                *)
LEMMA WithSound ==
  ASSUME Sound(rows), NEW c \in Chain, NEW a \in Address
  PROVE  Sound(K!With(c, a))
<1>1. PICK n : n = K!With(c, a)
  OBVIOUS
<1>2. PICK v : v = (<<c, a>> \in Own)
  OBVIOUS
<1>3. v \in BOOLEAN
  BY <1>2
<1>4. PICK y : y = IF rows[c].address = a THEN rows[c] ELSE [address |-> a, verified |-> v]
  OBVIOUS
<1>5. y \in K!Row /\ y.address = a /\ a # None
  BY <1>3, <1>4, BookConstants DEF Sound, K!Rows, K!Row
<1>6. n = [rows EXCEPT ![c] = y]
  BY <1>1, <1>2, <1>4 DEF K!With
<1>7. n \in K!Rows /\ \A d \in Chain : n[d] = IF d = c THEN y ELSE rows[d]
  BY <1>5, <1>6 DEF Sound, K!Rows
<1> QED
  BY <1>1, <1>5, <1>7 DEF Sound

LEMMA WithoutIs ==
  ASSUME NEW rs \in K!Rows, NEW c \in Chain
  PROVE  /\ K!Without(rs, c) \in K!Rows /\ K!NoRow.address = None
         /\ \A d \in Chain : K!Without(rs, c)[d] = IF d = c THEN K!NoRow ELSE rs[d]
<1>1. K!NoRow \in K!Row /\ K!NoRow.address = None
  BY DEF K!NoRow, K!Row
<1> QED
  BY <1>1 DEF K!Without, K!Rows

LEMMA WithoutSound ==
  ASSUME Sound(rows), NEW c \in Chain
  PROVE  Sound(K!Without(rows, c))
<1>1. rows \in K!Rows
  BY DEF Sound
<1> QED
  BY <1>1, WithoutIs DEF Sound

LEMMA VerifiedSound ==
  ASSUME Sound(rows), NEW c \in Chain, rows[c].address # None
  PROVE  Sound(K!Verified(c))
<1>1. PICK n : n = K!Verified(c)
  OBVIOUS
<1>2. PICK y : y = [rows[c] EXCEPT !.verified = TRUE]
  OBVIOUS
<1>3. y \in K!Row /\ y.address = rows[c].address
  BY <1>2 DEF Sound, K!Rows, K!Row
<1>4. n = [rows EXCEPT ![c] = y]
  BY <1>1, <1>2 DEF K!Verified, Sound, K!Rows, K!Row
<1>5. n \in K!Rows /\ \A d \in Chain : n[d] = IF d = c THEN y ELSE rows[d]
  BY <1>3, <1>4 DEF Sound, K!Rows
<1> QED
  BY <1>1, <1>3, <1>5 DEF Sound

Grows ==
  /\ Sound(rows)' /\ Held(rows)' /\ were' \in [Chain -> SUBSET K!Row]
  /\ \A c \in Chain : were[c] \subseteq were'[c]

LEMMA BecomesGrows ==
  ASSUME RowsHold, NEW rs, Sound(rs), K!Becomes(rs)
  PROVE  Grows /\ rows' = rs
<1>1. rows' = rs /\ were' = [c \in Chain |-> were[c] \cup {rs[c]}]
  BY DEF K!Becomes
<1>2. \A c \in Chain : rs[c] \in K!Row
  BY DEF Sound, K!Rows
<1> QED
  BY <1>1, <1>2 DEF Grows, RowsHold, Sound, Held

LEMMA StillGrows ==
  ASSUME RowsHold, UNCHANGED <<rows, were>>
  PROVE  Grows
BY DEF Grows, RowsHold, Sound, Held

LEMMA RowsGrow ==
  ASSUME RowsHold, Grows, UNCHANGED <<copy, shown>>
  PROVE  RowsHold'
BY DEF Grows, RowsHold, Held

LEMMA RowsShown ==
  ASSUME RowsHold, UNCHANGED <<rows, were, copy>>, NEW rs, shown' = rs,
         rs \in K!Rows \cup {None}, rs # None => Held(rs)
  PROVE  RowsHold'
BY DEF RowsHold, Held, Sound

LEMMA CallStays ==
  ASSUME NEW k \in K!Kind, NEW x, CallHolds(k, x),
         \A c \in Chain : were[c] \subseteq were'[c],
         shown # None => shown' # None
  PROVE  CallHolds(k, x)'
<1>1. x # K!NoCall => x.chain \in Chain
  BY RequestIs DEF CallHolds
<1>2. x.at = "answered" => x # K!NoCall
  BY Requests
<1> QED
  BY <1>1, <1>2 DEF CallHolds, Held

LEMMA NoCallHolds == ASSUME NEW k PROVE CallHolds(k, K!NoCall)
BY Requests DEF CallHolds

LEMMA BookSame ==
  ASSUME BookInv, RowsHold', FormHolds', QuietHolds', UNCHANGED call,
         \A c \in Chain : were[c] \subseteq were'[c],
         shown # None => shown' # None
  PROVE  BookInv'
<1>1. ASSUME NEW k \in K!Kind PROVE CallHolds(k, call[k])'
  <2>1. PICK x : x = call[k]
    OBVIOUS
  <2>2. CallHolds(k, x)'
    BY <2>1, CallStays DEF BookInv
  <2> QED
    BY <2>1, <2>2
<1> QED
  BY <1>1 DEF BookInv

LEMMA BookStep ==
  ASSUME BookInv, RowsHold', FormHolds', QuietHolds',
         NEW k \in K!Kind, NEW x, CallHolds(k, x)', call' = [call EXCEPT ![k] = x],
         \A c \in Chain : were[c] \subseteq were'[c],
         shown # None => shown' # None
  PROVE  BookInv'
<1>1. x \in BookCalls
  BY DEF CallHolds
<1>2. call' \in [K!Kind -> BookCalls]
  BY <1>1 DEF BookInv
<1>3. ASSUME NEW j \in K!Kind PROVE CallHolds(j, call[j])'
  <2>1. PICK y : y = IF j = k THEN x ELSE call[j]
    OBVIOUS
  <2>2. call'[j] = y
    BY <2>1 DEF BookInv
  <2>3. CallHolds(j, y)'
    BY <2>1, CallStays DEF BookInv
  <2> QED
    BY <2>2, <2>3
<1> QED
  BY <1>2, <1>3 DEF BookInv

LEMMA BookInit == K!Init => BookInv
<1> SUFFICES ASSUME K!Init PROVE BookInv
  OBVIOUS
<1>1. /\ rows = Before /\ copy = rows /\ shown = None /\ mode = K!Idle /\ draft = None
      /\ call = [k \in K!Kind |-> K!NoCall] /\ loading = TRUE
      /\ were = [c \in Chain |-> {rows[c]}] /\ changes = 0 /\ quiet = "no"
  BY DEF K!Init
<1>2. RowsHold
  <2>1. Sound(rows) /\ rows \in K!Rows
    BY <1>1, BookConstants DEF Sound
  <2>2. were \in [Chain -> SUBSET K!Row] /\ Held(rows)
    BY <1>1, <2>1 DEF K!Rows, Held
  <2> QED
    BY <1>1, <2>1, <2>2 DEF RowsHold
<1>3. FormHolds
  <2>1. changes \in 0 .. MaxEdits
    BY <1>1, BookConstants
  <2> QED
    BY <1>1, <2>1 DEF FormHolds, Drafts
<1>4. QuietHolds
  BY <1>1 DEF QuietHolds, K!Kind
<1>5. call \in [K!Kind -> BookCalls] /\ \A k \in K!Kind : CallHolds(k, call[k])
  BY <1>1, Requests, NoCallHolds
<1> QED
  BY <1>2, <1>3, <1>4, <1>5 DEF BookInv

LEMMA BookElsewhere ==
  ASSUME BookInv, K!Elsewhere
  PROVE  BookInv'
<1>1. /\ changes < MaxEdits /\ changes' = changes + 1 /\ quiet' = "no"
      /\ UNCHANGED <<copy, shown, mode, draft, call, loading>>
  BY DEF K!Elsewhere, K!page
<1>2. RowsHold /\ Sound(rows)
  BY DEF BookInv, RowsHold
<1>3. Grows
  <2>1. CASE \E c \in Chain, a \in Address : K!Becomes(K!With(c, a))
    BY <2>1, <1>2, WithSound, BecomesGrows
  <2>2. CASE \E c \in Chain : K!Becomes(K!Without(rows, c))
    BY <2>2, <1>2, WithoutSound, BecomesGrows
  <2>3. CASE \E c \in Verifiable : rows[c].address # None /\ K!Becomes(K!Verified(c))
    BY <2>3, <1>2, VerifiedSound, BecomesGrows, BookConstants
  <2> QED
    BY <2>1, <2>2, <2>3 DEF K!Elsewhere
<1>4. RowsHold'
  BY <1>1, <1>2, <1>3, RowsGrow
<1>5. FormHolds'
  <2>1. changes' \in 0 .. MaxEdits
    BY <1>1, BookConstants DEF BookInv, FormHolds
  <2> QED
    BY <1>1, <2>1 DEF BookInv, FormHolds
<1>6. QuietHolds'
  BY <1>1 DEF QuietHolds, K!Kind
<1> QED
  BY <1>1, <1>3, <1>4, <1>5, <1>6, BookSame DEF Grows

LEMMA BookForm ==
  ASSUME BookInv,
         \/ K!CacheExpires \/ K!Reload \/ K!Reset \/ K!Type
         \/ \E c \in Chain : K!StartEdit(c) \/ K!AskRemove(c)
  PROVE  BookInv'
<1>1. UNCHANGED <<rows, shown, call, were, changes, quiet>>
  BY DEF K!CacheExpires, K!Reload, K!Reset, K!Type, K!StartEdit, K!AskRemove, K!page
<1>2. copy' \in {copy, rows}
  BY DEF K!CacheExpires, K!Reload, K!Reset, K!Type, K!StartEdit, K!AskRemove
<1>3. RowsHold'
  BY <1>1, <1>2 DEF BookInv, RowsHold, Sound, Held
<1>4. QuietHolds'
  BY <1>1 DEF BookInv, QuietHolds, K!Alone
<1>5. FormHolds'
  <2>1. CASE K!CacheExpires
    BY <1>1, <2>1 DEF BookInv, FormHolds, K!CacheExpires, K!page
  <2>2. CASE K!Reload
    <3>1. shown = None /\ loading' = TRUE /\ UNCHANGED <<mode, draft>>
      BY <2>2 DEF K!Reload
    <3> QED
      BY <1>1, <3>1 DEF BookInv, FormHolds
  <2>3. CASE K!Reset
    <3>1. mode' = K!Idle /\ draft' = None /\ UNCHANGED loading
      BY <2>3 DEF K!Reset, K!Closed
    <3> QED
      BY <1>1, <3>1 DEF BookInv, FormHolds, Drafts
  <2>4. CASE K!Type
    <3>1. draft' \in Drafts /\ UNCHANGED <<mode, loading>>
      BY <2>4 DEF K!Type, Drafts
    <3> QED
      BY <1>1, <3>1 DEF BookInv, FormHolds
  <2>5. CASE \E c \in Chain : K!StartEdit(c) \/ K!AskRemove(c)
    <3>1. PICK c \in Chain : K!StartEdit(c) \/ K!AskRemove(c)
      BY <2>5
    <3>2. /\ shown # None /\ mode' \in {K!Editing(c), K!Confirming(c)}
          /\ draft' \in {shown[c].address, None} /\ UNCHANGED loading
      BY <3>1 DEF K!StartEdit, K!AskRemove, K!Free
    <3>3. shown[c].address \in Drafts
      BY <3>2 DEF BookInv, RowsHold, K!Rows, K!Row, Drafts
    <3> QED
      BY <1>1, <3>2, <3>3 DEF BookInv, FormHolds, Drafts
  <2> QED
    BY <2>1, <2>2, <2>3, <2>4, <2>5
<1> QED
  BY <1>1, <1>3, <1>4, <1>5, BookSame

(* /resolve, answered by the server or by a copy, or not at all.           *)
LEMMA RereadShows ==
  ASSUME BookInv, K!Reread, UNCHANGED <<rows, were, copy>>
  PROVE  RowsHold' /\ (shown # None => shown' # None)
<1>1. RowsHold /\ rows # None /\ copy # None
  BY BookConstants DEF BookInv, RowsHold, Sound
<1>2. PICK rs : rs = shown'
  OBVIOUS
<1>3. rs \in {rows, copy, shown}
  BY <1>2 DEF K!Reread
<1>4. rs \in K!Rows \cup {None} /\ (rs # None => Held(rs))
  BY <1>1, <1>3 DEF RowsHold, Sound
<1> QED
  BY <1>1, <1>2, <1>3, <1>4, RowsShown

LEMMA BookLoads ==
  ASSUME BookInv, K!Loads
  PROVE  BookInv'
<1>1. /\ loading /\ loading' = FALSE /\ K!Reread
      /\ UNCHANGED <<rows, copy, mode, draft, call, were, changes, quiet>>
  BY DEF K!Loads
<1>2. shown = None
  BY <1>1 DEF BookInv, FormHolds
<1>3. RowsHold' /\ (shown # None => shown' # None)
  BY <1>1, RereadShows
<1>4. FormHolds'
  BY <1>1, <1>2 DEF BookInv, FormHolds
<1>5. QuietHolds'
  BY <1>1, <1>2 DEF BookInv, QuietHolds, K!Kind
<1> QED
  BY <1>1, <1>3, <1>4, <1>5, BookSame

(* A request is sent while the rows are on screen.                         *)
LEMMA BookStart ==
  ASSUME BookInv, NEW k \in K!Kind, NEW c \in Chain, NEW a \in Drafts,
         K!Start(k, K!Asks(c, a)), shown # None, k # "remove" => a \in Address,
         FormHolds', UNCHANGED <<rows, copy, shown, were>>
  PROVE  BookInv'
<1>1. PICK x : x = K!Asks(c, a)
  OBVIOUS
<1>2. /\ x \in BookCalls /\ x.at = "asks" /\ x.address = a /\ x # K!NoCall
  BY <1>1, Requests
<1>3. /\ call[k] = K!NoCall /\ call' = [call EXCEPT ![k] = x]
      /\ quiet' = IF K!Alone THEN k ELSE "no"
  BY <1>1 DEF K!Start
<1>4. CallHolds(k, x)'
  BY <1>2 DEF CallHolds
<1>5. RowsHold'
  BY DEF BookInv, RowsHold, Sound, Held
<1>6. call \in [K!Kind -> BookCalls]
  BY DEF BookInv
<1>7. QuietHolds'
  <2>1. CASE K!Alone
    <3>1. quiet' = k /\ quiet' # "yes" /\ quiet' # "no"
      BY <1>3, <2>1 DEF K!Kind
    <3>2. call'[k] = x /\ \A j \in K!Kind \ {k} : call'[j] = K!NoCall
      BY <1>3, <1>6, <2>1 DEF K!Alone
    <3> QED
      BY <1>2, <3>1, <3>2 DEF QuietHolds
  <2>2. CASE ~ K!Alone
    <3>1. quiet' = "no"
      BY <1>3, <2>2
    <3> QED
      BY <3>1 DEF QuietHolds, K!Kind
  <2> QED
    BY <2>1, <2>2
<1> QED
  BY <1>3, <1>4, <1>5, <1>7, BookStep

LEMMA BookAsks ==
  ASSUME BookInv, NEW c \in Chain, K!Save(c) \/ K!Remove(c) \/ K!Verify(c)
  PROVE  BookInv'
<1>1. UNCHANGED <<rows, copy, shown, loading, were>>
  BY DEF K!Save, K!Remove, K!Verify
<1>2. shown # None
  BY Modes DEF K!Save, K!Remove, K!Verify, K!Free, BookInv, FormHolds
<1>3. CASE K!Save(c)
  <2>1. CASE K!Closed /\ UNCHANGED <<call, quiet, changes>>
    <3>1. FormHolds'
      BY <1>1, <2>1 DEF BookInv, FormHolds, K!Closed, Drafts
    <3>2. RowsHold' /\ QuietHolds'
      BY <1>1, <2>1 DEF BookInv, RowsHold, QuietHolds, K!Alone, Sound, Held
    <3> QED
      BY <1>1, <2>1, <3>1, <3>2, BookSame
  <2>2. CASE /\ changes < MaxEdits /\ changes' = changes + 1
             /\ K!Start("save", K!Asks(c, draft)) /\ UNCHANGED <<mode, draft>>
    <3>1. draft \in Address
      BY <1>3 DEF K!Save, BookInv, FormHolds, Drafts
    <3>2. changes' \in 0 .. MaxEdits
      BY <2>2, BookConstants DEF BookInv, FormHolds
    <3>3. FormHolds'
      BY <1>1, <2>2, <3>2 DEF BookInv, FormHolds
    <3>4. draft \in Drafts /\ "save" \in K!Kind
      BY <3>1 DEF Drafts, K!Kind
    <3> QED
      BY <1>1, <1>2, <2>2, <3>1, <3>3, <3>4, BookStart
  <2> QED
    BY <1>3, <2>1, <2>2 DEF K!Save
<1>4. CASE K!Remove(c)
  <2>1. /\ changes < MaxEdits /\ changes' = changes + 1
        /\ K!Start("remove", K!Asks(c, None)) /\ UNCHANGED <<mode, draft>>
    BY <1>4 DEF K!Remove
  <2>2. changes' \in 0 .. MaxEdits
    BY <2>1, BookConstants DEF BookInv, FormHolds
  <2>3. FormHolds'
    BY <1>1, <2>1, <2>2 DEF BookInv, FormHolds
  <2>4. None \in Drafts /\ "remove" \in K!Kind
    BY DEF Drafts, K!Kind
  <2> QED
    BY <1>1, <1>2, <2>1, <2>3, <2>4, BookStart
<1>5. CASE K!Verify(c)
  <2>1. /\ K!Start("verify", K!Asks(c, shown[c].address)) /\ shown[c].address # None
        /\ UNCHANGED <<mode, draft, changes>>
    BY <1>5 DEF K!Verify
  <2>2. shown[c].address \in Address
    BY <1>2, <2>1 DEF BookInv, RowsHold, K!Rows, K!Row
  <2>3. FormHolds'
    BY <1>1, <2>1 DEF BookInv, FormHolds
  <2>4. shown[c].address \in Drafts /\ "verify" \in K!Kind
    BY <2>2 DEF Drafts, K!Kind
  <2> QED
    BY <1>1, <1>2, <2>1, <2>2, <2>3, <2>4, BookStart
<1> QED
  BY <1>3, <1>4, <1>5

(* A request goes on at the server, or is answered.                        *)
LEMMA BookAtServer ==
  ASSUME BookInv, Grows, UNCHANGED K!AtServer,
         NEW k \in K!Kind, call[k] # K!NoCall, call[k].at # "rereads",
         NEW x \in BookCalls, call' = [call EXCEPT ![k] = x],
         x # K!NoCall, x.at # "rereads",
         x.at \in {"signs", "submits"} => k = "verify", x.at # "asks",
         x.at = "answered" /\ x.answer.is = "rows" => x.answer.rows = rows',
         x.at = "answered" /\ x.answer = K!NotFound =>
           k = "remove" /\ K!NoRow \in were'[x.chain]
  PROVE  BookInv'
<1>1. UNCHANGED <<copy, shown, mode, draft, loading, changes, quiet>>
  BY DEF K!AtServer
<1>2. shown # None
  BY DEF BookInv, CallHolds
<1>3. RowsHold' /\ Held(rows)' /\ \A c \in Chain : were[c] \subseteq were'[c]
  BY <1>1, RowsGrow DEF BookInv, Grows
<1>4. CallHolds(k, x)'
  BY <1>1, <1>2, <1>3 DEF CallHolds, Held
<1>5. FormHolds'
  BY <1>1 DEF BookInv, FormHolds
<1>6. call \in [K!Kind -> BookCalls]
  BY DEF BookInv
<1>7. QuietHolds'
  <2>1. quiet # "yes"
    BY DEF BookInv, QuietHolds, K!Alone
  <2>2. CASE quiet = "no"
    BY <1>1, <2>2 DEF QuietHolds, K!Kind
  <2>3. CASE quiet \in K!Kind
    <3>1. quiet = k /\ quiet \in K!Kind /\ quiet' = k /\ quiet' # "yes"
      BY <1>1, <2>1, <2>3 DEF BookInv, QuietHolds
    <3>2. call'[k] = x /\ \A j \in K!Kind \ {k} : call'[j] = K!NoCall
      BY <1>6, <2>3, <3>1 DEF BookInv, QuietHolds
    <3> QED
      BY <3>1, <3>2 DEF QuietHolds
  <2> QED
    BY <2>1, <2>2, <2>3 DEF BookInv, QuietHolds
<1> QED
  BY <1>1, <1>3, <1>4, <1>5, <1>7, BookStep

LEMMA BookAnswered ==
  ASSUME BookInv, Grows, UNCHANGED K!AtServer,
         NEW k \in K!Kind, call[k].at \in {"asks", "signs", "submits"},
         NEW said \in K!Answers, K!Answer(k, said),
         said.is = "rows" => said.rows = rows',
         said = K!NotFound => k = "remove" /\ K!NoRow \in were'[call[k].chain]
  PROVE  BookInv'
<1>1. call[k] \in BookCalls /\ call[k] # K!NoCall /\ call[k].chain \in Chain
  BY Requests, RequestIs DEF BookInv
<1>2. PICK x : x = K!Answered(call[k].chain, said)
  OBVIOUS
<1>3. /\ x \in BookCalls /\ x.at = "answered" /\ x.answer = said
      /\ x.chain = call[k].chain /\ x # K!NoCall
  BY <1>1, <1>2, Requests
<1>4. call' = [call EXCEPT ![k] = x]
  BY <1>2 DEF K!Answer
<1> QED
  BY <1>1, <1>3, <1>4, BookAtServer

LEMMA BookFails ==
  ASSUME BookInv, NEW k \in K!Kind, K!Fails(k)
  PROVE  BookInv'
<1>1. call[k].at \in {"asks", "signs", "submits"} /\ UNCHANGED K!AtServer
  BY DEF K!Fails
<1>2. CallHolds(k, call[k]) /\ RowsHold /\ Sound(rows)
  BY DEF BookInv, RowsHold
<1>3. call[k] \in BookCalls /\ call[k].chain \in Chain
  BY <1>1, <1>2, Requests, RequestIs DEF CallHolds
<1>4. Grows
  <2>1. CASE UNCHANGED <<rows, were>>
    BY <1>2, <2>1, StillGrows
  <2>2. CASE /\ call[k].at = "asks" /\ k = "save"
             /\ K!Becomes(K!With(call[k].chain, call[k].address))
    <3>1. call[k].address \in Address
      BY <1>2, <2>2 DEF CallHolds
    <3> QED
      BY <1>2, <1>3, <2>2, <3>1, WithSound, BecomesGrows
  <2>3. CASE K!Becomes(K!Without(rows, call[k].chain))
    BY <1>2, <1>3, <2>3, WithoutSound, BecomesGrows
  <2>4. CASE /\ call[k].at = "submits" /\ rows[call[k].chain].address = call[k].target
             /\ K!Becomes(K!Verified(call[k].chain))
    <3>1. call[k].target \in Address
      BY <1>3, <2>4, RequestIs
    <3>2. rows[call[k].chain].address # None
      BY <2>4, <3>1, BookConstants
    <3> QED
      BY <1>2, <1>3, <2>4, <3>2, VerifiedSound, BecomesGrows
  <2> QED
    BY <2>1, <2>2, <2>3, <2>4 DEF K!Fails
<1>5. PICK said \in {K!ApiError, K!Failure} : K!Answer(k, said)
  BY DEF K!Fails
<1>6. said \in K!Answers /\ said.is # "rows" /\ said # K!NotFound
  BY <1>5, AnswersAre
<1> QED
  BY <1>1, <1>4, <1>5, <1>6, BookAnswered

LEMMA BookSaves ==
  ASSUME BookInv, K!Saves
  PROVE  BookInv'
<1>1. /\ call["save"].at = "asks" /\ UNCHANGED K!AtServer
      /\ K!Becomes(K!With(call["save"].chain, call["save"].address))
      /\ K!Answer("save", K!NewRows(rows'))
  BY DEF K!Saves
<1>2. "save" \in K!Kind /\ "save" # "remove" /\ RowsHold /\ Sound(rows)
  BY DEF K!Kind, BookInv, RowsHold
<1>3. CallHolds("save", call["save"]) /\ call["save"] \in BookCalls
  BY <1>2 DEF BookInv
<1>4. call["save"].chain \in Chain /\ call["save"].address \in Address
  BY <1>1, <1>2, <1>3, Requests, RequestIs DEF CallHolds
<1>5. Grows
  BY <1>1, <1>2, <1>4, WithSound, BecomesGrows
<1>6. PICK n : n = rows'
  OBVIOUS
<1>7. n \in K!Rows
  BY <1>5, <1>6 DEF Grows, Sound
<1>8. /\ K!NewRows(n) \in K!Answers /\ K!NewRows(n).rows = n
      /\ K!NewRows(n) # K!NotFound
  BY <1>7, AnswersAre
<1> QED
  BY <1>1, <1>2, <1>5, <1>6, <1>8, BookAnswered

LEMMA BookRemoves ==
  ASSUME BookInv, K!Removes
  PROVE  BookInv'
<1>1. /\ call["remove"].at = "asks" /\ UNCHANGED K!AtServer
  BY DEF K!Removes
<1>2. "remove" \in K!Kind /\ RowsHold /\ Sound(rows)
  BY DEF K!Kind, BookInv, RowsHold
<1>3. call["remove"] \in BookCalls /\ call["remove"].chain \in Chain
  BY <1>1, <1>2, Requests, RequestIs DEF BookInv
<1>4. PICK c \in Chain : c = call["remove"].chain
  BY <1>3
<1>5. CASE rows[c].address = None
  <2>1. K!Answer("remove", K!NotFound) /\ UNCHANGED <<rows, were>>
    BY <1>4, <1>5 DEF K!Removes
  <2>2. Grows
    BY <1>2, <2>1, StillGrows
  <2>3. K!NoRow \in were'[c]
    BY <1>2, <1>5, <2>1 DEF RowsHold, Sound, Held
  <2> QED
    BY <1>1, <1>2, <1>4, <2>1, <2>2, <2>3, AnswersAre, BookAnswered
<1>6. CASE rows[c].address # None
  <2>1. K!Becomes(K!Without(rows, c)) /\ K!Answer("remove", K!NewRows(rows'))
    BY <1>4, <1>6 DEF K!Removes
  <2>2. Grows
    BY <1>2, <2>1, WithoutSound, BecomesGrows
  <2>3. PICK n : n = rows'
    OBVIOUS
  <2>4. n \in K!Rows
    BY <2>2, <2>3 DEF Grows, Sound
  <2>5. /\ K!NewRows(n) \in K!Answers /\ K!NewRows(n).rows = n
        /\ K!NewRows(n) # K!NotFound
    BY <2>4, AnswersAre
  <2> QED
    BY <1>1, <1>2, <2>1, <2>2, <2>3, <2>5, BookAnswered
<1> QED
  BY <1>5, <1>6

LEMMA BookChallenges ==
  ASSUME BookInv, K!Challenges
  PROVE  BookInv'
<1>1. call["verify"].at = "asks" /\ UNCHANGED <<rows, were>> /\ UNCHANGED K!AtServer
  BY DEF K!Challenges
<1>2. "verify" \in K!Kind /\ "verify" # "remove" /\ RowsHold /\ Sound(rows)
  BY DEF K!Kind, BookInv, RowsHold
<1>3. PICK v : v = call["verify"]
  OBVIOUS
<1>4. v \in BookCalls /\ v.chain \in Chain /\ v.address \in Address /\ v # K!NoCall
  BY <1>1, <1>2, <1>3, Requests, RequestIs DEF BookInv, CallHolds
<1>5. Grows
  BY <1>1, <1>2, StillGrows
<1>6. CASE rows[v.chain].address = None
  <2>1. K!Answer("verify", K!ApiError)
    BY <1>3, <1>6 DEF K!Challenges
  <2> QED
    BY <1>1, <1>2, <1>5, <2>1, AnswersAre, BookAnswered
<1>7. CASE rows[v.chain].address # None
  <2>1. rows[v.chain].address \in Address
    BY <1>2, <1>4, <1>7 DEF Sound, K!Rows, K!Row
  <2>2. PICK x : x = K!Signs(v.chain, v.address, rows[v.chain].address)
    OBVIOUS
  <2>3. x \in BookCalls /\ x.at = "signs" /\ x # K!NoCall
    BY <1>4, <2>1, <2>2, Requests
  <2>4. call' = [call EXCEPT !["verify"] = x]
    BY <1>3, <1>7, <2>2 DEF K!Challenges
  <2> QED
    BY <1>1, <1>2, <1>3, <1>4, <1>5, <2>3, <2>4, BookAtServer
<1> QED
  BY <1>6, <1>7

LEMMA BookSigns ==
  ASSUME BookInv, K!SignsIt
  PROVE  BookInv'
<1>1. call["verify"].at = "signs" /\ UNCHANGED <<rows, were>> /\ UNCHANGED K!AtServer
  BY DEF K!SignsIt
<1>2. "verify" \in K!Kind /\ RowsHold
  BY DEF K!Kind, BookInv
<1>3. PICK v : v = call["verify"]
  OBVIOUS
<1>4. /\ v \in BookCalls /\ v.chain \in Chain /\ v # K!NoCall
      /\ v.address \in Address /\ v.target \in Address
  BY <1>1, <1>2, <1>3, Requests, RequestIs DEF BookInv
<1>5. Grows
  BY <1>1, <1>2, StillGrows
<1>6. PICK x : x = K!Submits(v.chain, v.address, v.target)
  OBVIOUS
<1>7. x \in BookCalls /\ x.at = "submits" /\ x # K!NoCall
  BY <1>4, <1>6, Requests
<1>8. call' = [call EXCEPT !["verify"] = x]
  BY <1>3, <1>6 DEF K!SignsIt
<1> QED
  BY <1>1, <1>2, <1>3, <1>4, <1>5, <1>7, <1>8, BookAtServer

LEMMA BookVerifies ==
  ASSUME BookInv, K!Verifies
  PROVE  BookInv'
<1>1. call["verify"].at = "submits" /\ UNCHANGED K!AtServer
  BY DEF K!Verifies
<1>2. "verify" \in K!Kind /\ RowsHold /\ Sound(rows)
  BY DEF K!Kind, BookInv, RowsHold
<1>3. PICK v : v = call["verify"]
  OBVIOUS
<1>4. v \in BookCalls /\ v.chain \in Chain /\ v # K!NoCall /\ v.target \in Address
  BY <1>1, <1>2, <1>3, Requests, RequestIs DEF BookInv
<1>5. CASE v.address # v.target \/ rows[v.chain].address # v.target
  <2>1. K!Answer("verify", K!ApiError) /\ UNCHANGED <<rows, were>>
    BY <1>3, <1>5 DEF K!Verifies
  <2>2. Grows
    BY <1>2, <2>1, StillGrows
  <2> QED
    BY <1>1, <1>2, <2>1, <2>2, AnswersAre, BookAnswered
<1>6. CASE ~ (v.address # v.target \/ rows[v.chain].address # v.target)
  <2>1. K!Becomes(K!Verified(v.chain)) /\ K!Answer("verify", K!NewRows(rows'))
    BY <1>3, <1>6 DEF K!Verifies
  <2>2. rows[v.chain].address # None
    BY <1>4, <1>6, BookConstants
  <2>3. Grows
    BY <1>2, <1>4, <2>1, <2>2, VerifiedSound, BecomesGrows
  <2>4. PICK n : n = rows'
    OBVIOUS
  <2>5. n \in K!Rows
    BY <2>3, <2>4 DEF Grows, Sound
  <2>6. /\ K!NewRows(n) \in K!Answers /\ K!NewRows(n).rows = n
        /\ K!NewRows(n) # K!NotFound
    BY <2>5, AnswersAre
  <2> QED
    BY <1>1, <1>2, <2>1, <2>3, <2>4, <2>6, BookAnswered
<1> QED
  BY <1>5, <1>6

(* The page hears of an answer.                                            *)
LEMMA BookHears ==
  ASSUME BookInv, NEW k \in K!Kind, call[k] # K!NoCall, RowsHold', FormHolds',
         UNCHANGED <<rows, were, copy>>, shown' # None,
         NEW x \in BookCalls, x.at \in {"idle", "rereads"},
         call' = [call EXCEPT ![k] = x],
         \/ quiet' = "no"
         \/ quiet' = quiet /\ call[k].at = "rereads"
         \/ /\ quiet' = (IF quiet = k THEN "yes" ELSE "no")
            /\ x = K!NoCall /\ (quiet = k => shown' = rows)
  PROVE  BookInv'
<1>1. CallHolds(k, x)'
  BY DEF CallHolds
<1>2. call \in [K!Kind -> BookCalls] /\ QuietHolds
  BY DEF BookInv
<1>3. QuietHolds'
  <2>1. CASE quiet' = "no"
    BY <2>1 DEF QuietHolds, K!Kind
  <2>2. CASE quiet' = quiet /\ call[k].at = "rereads"
    <3>1. quiet # "yes" /\ quiet \notin K!Kind
      BY <1>2, <2>2 DEF QuietHolds, K!Alone
    <3>2. quiet' = "no"
      BY <1>2, <2>2, <3>1 DEF QuietHolds
    <3> QED
      BY <2>1, <3>2
  <2>3. CASE quiet = k /\ quiet' = "yes" /\ x = K!NoCall /\ shown' = rows
    <3>1. \A j \in K!Kind : call'[j] = K!NoCall
      BY <1>2, <2>3 DEF QuietHolds
    <3> QED
      BY <2>3, <3>1 DEF QuietHolds, K!Alone, K!Kind
  <2> QED
    BY <2>1, <2>2, <2>3
<1> QED
  BY <1>1, <1>3, BookStep

LEMMA BookDelivers ==
  ASSUME BookInv, NEW k \in K!Kind, K!Delivers(k)
  PROVE  BookInv'
<1>1. /\ call[k].at = "answered" /\ call[k].answer.is = "rows"
      /\ shown' = call[k].answer.rows /\ call' = [call EXCEPT ![k] = K!NoCall]
      /\ quiet' = IF quiet = k THEN "yes" ELSE "no"
      /\ UNCHANGED <<rows, copy, loading, were, changes>>
  BY DEF K!Delivers, K!Applies, K!Ends
<1>2. \/ UNCHANGED <<mode, draft>>
      \/ mode' = K!Idle /\ draft' = None
  BY DEF K!Delivers, K!Ends, K!Closed
<1>3. CallHolds(k, call[k]) /\ RowsHold /\ FormHolds /\ QuietHolds
  BY DEF BookInv
<1>4. PICK rs : rs = call[k].answer.rows
  OBVIOUS
<1>5. /\ rs \in K!Rows /\ Held(rs) /\ call[k] # K!NoCall
  BY <1>1, <1>3, <1>4, Requests, RequestIs, AnsweredRows DEF CallHolds
<1>6. rs # None /\ shown # None
  BY <1>3, <1>5, BookConstants DEF CallHolds
<1>7. RowsHold'
  BY <1>1, <1>3, <1>4, <1>5, RowsShown
<1>8. FormHolds'
  BY <1>1, <1>2, <1>3, <1>4, <1>6 DEF FormHolds, Drafts
<1>9. quiet = k => shown' = rows
  BY <1>1, <1>3 DEF QuietHolds
<1> QED
  BY <1>1, <1>4, <1>5, <1>6, <1>7, <1>8, <1>9, Requests, BookHears

LEMMA BookGone ==
  ASSUME BookInv, K!DeliversGone
  PROVE  BookInv'
<1>1. /\ call["remove"].at = "answered" /\ call["remove"].answer = K!NotFound
      /\ shown' = K!Without(shown, call["remove"].chain)
      /\ call' = [call EXCEPT !["remove"] = K!NoCall] /\ quiet' = "no"
      /\ mode' = K!Idle /\ draft' = None
      /\ UNCHANGED <<rows, copy, loading, were, changes>>
  BY DEF K!DeliversGone, K!Ends, K!Closed
<1>2. "remove" \in K!Kind /\ RowsHold /\ FormHolds
  BY DEF K!Kind, BookInv
<1>3. PICK y : y = call["remove"]
  OBVIOUS
<1>4. CallHolds("remove", y)
  BY <1>2, <1>3 DEF BookInv
<1>5. /\ y # K!NoCall /\ y.chain \in Chain /\ K!NoRow \in were[y.chain] /\ shown # None
  BY <1>1, <1>3, <1>4, Requests, RequestIs DEF CallHolds
<1>6. PICK rs : rs = K!Without(shown, y.chain)
  OBVIOUS
<1>7. rs \in K!Rows /\ Held(rs)
  BY <1>2, <1>5, <1>6, WithoutIs DEF RowsHold, Held
<1>8. rs # None
  BY <1>7, BookConstants
<1>9. RowsHold'
  BY <1>1, <1>2, <1>3, <1>6, <1>7, RowsShown
<1>10. FormHolds'
  BY <1>1, <1>2, <1>3, <1>5 DEF FormHolds, Drafts
<1> QED
  BY <1>1, <1>2, <1>3, <1>5, <1>6, <1>8, <1>9, <1>10, Requests, BookHears

LEMMA BookErrs ==
  ASSUME BookInv, NEW k \in K!Kind, K!DeliversError(k) \/ K!DeliversFailure(k)
  PROVE  BookInv'
<1>1. /\ call[k].at = "answered" /\ quiet' = "no"
      /\ UNCHANGED <<rows, copy, shown, loading, were, changes>>
      /\ \/ UNCHANGED <<mode, draft>>
         \/ mode' = K!Idle /\ draft' = None
  BY DEF K!DeliversError, K!DeliversFailure, K!Closed
<1>2. PICK x \in {K!Rereads(call[k].chain), K!NoCall} : call' = [call EXCEPT ![k] = x]
  BY DEF K!DeliversError, K!DeliversFailure
<1>3. CallHolds(k, call[k]) /\ RowsHold /\ FormHolds
  BY DEF BookInv
<1>4. call[k] # K!NoCall /\ shown # None /\ call[k].chain \in Chain
  BY <1>1, <1>3, Requests, RequestIs DEF CallHolds
<1>5. x \in BookCalls /\ x.at \in {"idle", "rereads"}
  BY <1>2, <1>4, Requests
<1>6. RowsHold' /\ FormHolds'
  BY <1>1, <1>3 DEF RowsHold, FormHolds, Sound, Held, Drafts
<1> QED
  BY <1>1, <1>2, <1>4, <1>5, <1>6, BookHears

LEMMA BookResyncs ==
  ASSUME BookInv, NEW k \in K!Kind, K!Resyncs(k)
  PROVE  BookInv'
<1>1. /\ call[k].at = "rereads" /\ K!Reread /\ call' = [call EXCEPT ![k] = K!NoCall]
      /\ UNCHANGED <<rows, copy, loading, were, changes, quiet>>
      /\ \/ UNCHANGED <<mode, draft>>
         \/ mode' = K!Idle /\ draft' = None
  BY DEF K!Resyncs, K!Closed
<1>2. CallHolds(k, call[k]) /\ FormHolds
  BY DEF BookInv
<1>3. call[k] # K!NoCall /\ shown # None
  BY <1>1, <1>2, Requests DEF CallHolds
<1>4. RowsHold' /\ shown' # None
  BY <1>1, <1>3, RereadShows
<1>5. FormHolds'
  BY <1>1, <1>2, <1>3, <1>4 DEF FormHolds, Drafts
<1> QED
  BY <1>1, <1>3, <1>4, <1>5, Requests, BookHears

LEMMA BookKept ==
  ASSUME BookInv, K!Next
  PROVE  BookInv'
<1>1. CASE \E c \in Chain : K!StartEdit(c) \/ K!AskRemove(c) \/ K!Save(c)
                            \/ K!Remove(c) \/ K!Verify(c)
  BY <1>1, BookForm, BookAsks
<1>2. CASE \E k \in K!Kind : \/ K!Fails(k) \/ K!Delivers(k) \/ K!DeliversError(k)
                             \/ K!Resyncs(k) \/ K!DeliversFailure(k)
  BY <1>2, BookFails, BookDelivers, BookErrs, BookResyncs
<1> QED
  BY <1>1, <1>2, BookElsewhere, BookForm, BookLoads, BookSaves, BookRemoves,
     BookChallenges, BookSigns, BookVerifies, BookGone DEF K!Next

LEMMA BookShows ==
  ASSUME BookInv
  PROVE  K!TypeOK /\ K!RowsWereTrue /\ K!ConfirmedIsShown
<1>1. ASSUME NEW k \in K!Kind
      PROVE  /\ call[k].at \in {"idle", "asks", "signs", "submits", "answered", "rereads"}
             /\ call[k] # K!NoCall => call[k].chain \in Chain /\ shown # None
             /\ call[k].at = "answered" => call[k].answer \in K!Answers
             /\ call[k].at \in {"signs", "submits"} => k = "verify"
  <2>1. CallHolds(k, call[k])
    BY DEF BookInv
  <2> QED
    BY <2>1, RequestIs DEF CallHolds
<1>2. K!TypeOK
  BY <1>1 DEF BookInv, RowsHold, FormHolds, QuietHolds, Sound, Drafts, K!TypeOK
<1> QED
  BY <1>2 DEF BookInv, RowsHold, QuietHolds, Held, K!RowsWereTrue, K!ConfirmedIsShown

-----------------------------------------------------------------------------
(* A record of an owned name. A block of the chain names the call of the   *)
(* page that set it, and a call that took effect is in one; once a write   *)
(* is noted, neither a node that is asked later nor a copy that still      *)
(* counts is from before its block.                                        *)
Entry == [value : E!Recordable, by : 0 .. MaxWrites]
Sending == [value : E!Recordable, fate : E!Fates]
Editing == [status : E!Statuses, value : E!Recordable, id : 0 .. MaxWrites,
            block : E!Block \cup {None}, nothing : BOOLEAN]
Reading == [answer : E!Block \cup {None}, tries : 0 .. Retries]
Noting == [block : E!Block, left : 0 .. Fresh]
TakenUp == {"mined", "repriced"}
GivenUp == {"reverted", "cancelled", "replaced"}

WorldTypes ==
  /\ record \in Seq(Entry) /\ Len(record) \in E!Block
  /\ settled \in 1 .. Len(record) /\ copy \in [E!Block -> 0 .. CopyTtl]
  /\ sends \in Seq(Sending) /\ Len(sends) <= MaxWrites
CardTypes ==
  /\ edit \in Editing /\ overlay \in E!Recordable \cup {None}
  /\ data \in E!Block \cup {None}
  /\ read = None \/ read \in Reading
  /\ loadError \in BOOLEAN
  /\ note = None \/ note \in Noting
  /\ overlay # None => edit.status = "pending"

CallsHold ==
  /\ \A b \in 1 .. Len(record) : record[b].by # 0 =>
       /\ record[b].by \in 1 .. Len(sends)
       /\ sends[record[b].by].fate \in TakenUp
       /\ sends[record[b].by].value = record[b].value
  /\ \A i \in 1 .. Len(sends) : sends[i].fate \in TakenUp =>
       \E b \in 1 .. Len(record) : record[b].by = i

EditHolds ==
  /\ edit.status = "pending" =>
       edit.id \in 1 .. Len(sends) /\ sends[edit.id].value = edit.value
  /\ edit.status = "indexed" =>
       /\ edit.block \in 1 .. Len(record)
       /\ record[edit.block] = [value |-> edit.value, by |-> edit.id]
  /\ edit.nothing =>
       /\ edit.status = "failed" /\ edit.id \in 1 .. Len(sends)
       /\ sends[edit.id].fate \in GivenUp

NoteHolds ==
  note # None =>
    /\ note.block <= Len(record)
    /\ note.left < Fresh => settled >= note.block
    /\ \A b \in E!Block : b < note.block => copy[b] <= note.left
    /\ read # None /\ read.answer # None => read.answer >= note.block
    /\ data # None /\ data < note.block => read # None \/ loadError

EditInv == WorldTypes /\ CardTypes /\ CallsHold /\ EditHolds /\ NoteHolds

LEMMA EditNumbers ==
  /\ None \notin E!Recordable /\ None \notin Nat /\ NoValue \in E!Recordable
  /\ Fresh \in Nat \ {0} /\ CopyTtl \in Nat /\ Retries \in Nat /\ CopyTtl <= Fresh
  /\ MaxHeight \in Nat \ {0} /\ MaxWrites \in Nat
  /\ E!Block = 1 .. MaxHeight /\ None \notin E!Block
BY PagesHold DEF E!EditConstants, E!Recordable, E!Block

LEMMA Fates == TakenUp \subseteq E!Fates /\ GivenUp \subseteq E!Fates
               /\ "waiting" \in E!Fates /\ TakenUp \cap GivenUp = {}
               /\ "waiting" \notin TakenUp \cup GivenUp
BY DEF TakenUp, GivenUp, E!Fates

LEMMA EditIdle ==
  /\ E!Idle \in Editing /\ E!Idle.status = "idle" /\ E!Idle.nothing = FALSE
  /\ E!Asking \in Reading /\ E!Asking.answer = None
<1>1. 0 \in 0 .. MaxWrites /\ 0 \in 0 .. Retries
  BY EditNumbers
<1> QED
  BY <1>1, EditNumbers DEF E!Idle, E!Asking, Editing, Reading, E!Statuses

LEMMA NoneIsNoReading == None \notin Reading
<1>1. E!Block \subseteq Nat /\ 0 .. Retries \subseteq Nat
  BY EditNumbers
<1>2. Reading \subseteq [answer : Nat \cup {None}, tries : Nat]
  BY <1>1 DEF Reading
<1> QED
  BY <1>2, PagesHold DEF E!EditConstants

LEMMA EditInit == E!Init => EditInv
<1> SUFFICES ASSUME E!Init PROVE EditInv
  OBVIOUS
<1>1. /\ record = <<[value |-> NoValue, by |-> 0]>> /\ settled = 1
      /\ copy = [b \in E!Block |-> 0] /\ sends = <<>> /\ edit = E!Idle
      /\ overlay = None /\ data = None /\ read = E!Asking /\ loadError = FALSE
      /\ note = None
  BY DEF E!Init
<1>2. [value |-> NoValue, by |-> 0] \in Entry
  BY EditNumbers DEF Entry
<1>3. record \in Seq(Entry) /\ Len(record) = 1 /\ record[1].by = 0
  BY <1>1, <1>2
<1>4. sends \in Seq(Sending) /\ Len(sends) = 0
  BY <1>1
<1>5. WorldTypes
  <2>1. 0 \in 0 .. CopyTtl /\ 1 \in E!Block /\ 0 <= MaxWrites
    BY EditNumbers
  <2>2. copy = [b \in E!Block |-> 0] /\ settled = 1
    BY <1>1
  <2>3. copy \in [E!Block -> 0 .. CopyTtl]
    BY <2>1, <2>2
  <2> QED
    BY <1>3, <1>4, <2>1, <2>2, <2>3 DEF WorldTypes
<1>6. CardTypes
  <2>1. edit = E!Idle /\ overlay = None /\ data = None /\ read = E!Asking
        /\ loadError = FALSE /\ note = None
    BY <1>1
  <2> QED
    BY <2>1, EditIdle DEF CardTypes
<1>7. CallsHold /\ EditHolds /\ NoteHolds
  BY <1>1, <1>3, <1>4, EditIdle DEF CallsHold, EditHolds, NoteHolds
<1> QED
  BY <1>5, <1>6, <1>7 DEF EditInv

(* A block is added; what the card holds of the others stays so.           *)
LEMMA BlockAdded ==
  ASSUME WorldTypes, Len(record) < MaxHeight, NEW v \in E!Recordable,
         NEW i \in 0 .. MaxWrites, E!Extended(v, i)
  PROVE  /\ record' \in Seq(Entry) /\ Len(record') = Len(record) + 1
         /\ Len(record) \in Nat /\ Len(record') \in E!Block
         /\ record'[Len(record) + 1] = [value |-> v, by |-> i]
         /\ \A b \in 1 .. Len(record) : record'[b] = record[b]
<1>1. [value |-> v, by |-> i] \in Entry
  BY DEF Entry
<1>2. record' = Append(record, [value |-> v, by |-> i])
  BY DEF E!Extended
<1>3. Len(record) \in Nat /\ record' \in Seq(Entry) /\ Len(record') = Len(record) + 1
  BY <1>1, <1>2 DEF WorldTypes
<1> QED
  BY <1>1, <1>2, <1>3, EditNumbers DEF WorldTypes

LEMMA EditElsewhere ==
  ASSUME EditInv, E!Elsewhere
  PROVE  EditInv'
<1>1. /\ Len(record) < MaxHeight
      /\ UNCHANGED <<settled, copy, sends, edit, overlay, data, read, loadError,
                  note>>
  BY DEF E!Elsewhere, E!screen, E!load
<1>2. PICK v \in E!Recordable : E!Extended(v, 0)
  BY DEF E!Elsewhere
<1>3. /\ record' \in Seq(Entry) /\ Len(record') = Len(record) + 1
      /\ Len(record) \in Nat /\ Len(record') \in E!Block
      /\ record'[Len(record) + 1].by = 0
      /\ \A b \in 1 .. Len(record) : record'[b] = record[b]
  <2>1. 0 \in 0 .. MaxWrites /\ WorldTypes
    BY EditNumbers DEF EditInv
  <2>2. record'[Len(record) + 1] = [value |-> v, by |-> 0]
    BY <1>1, <1>2, <2>1, BlockAdded
  <2> QED
    BY <1>1, <1>2, <2>1, <2>2, BlockAdded
<1>4. WorldTypes' /\ CardTypes'
  BY <1>1, <1>3 DEF EditInv, WorldTypes, CardTypes
<1>5. CallsHold'
  <2>1. CallsHold
    BY DEF EditInv
  <2>2. ASSUME NEW b \in 1 .. Len(record'), record'[b].by # 0
        PROVE  /\ record'[b].by \in 1 .. Len(sends)
               /\ sends[record'[b].by].fate \in TakenUp
               /\ sends[record'[b].by].value = record'[b].value
    <3>1. b \in 1 .. Len(record) /\ record'[b] = record[b]
      BY <1>3, <2>2
    <3> QED
      BY <2>1, <2>2, <3>1 DEF CallsHold
  <2>3. ASSUME NEW i \in 1 .. Len(sends), sends[i].fate \in TakenUp
        PROVE  \E b \in 1 .. Len(record') : record'[b].by = i
    <3>1. PICK b \in 1 .. Len(record) : record[b].by = i
      BY <2>1, <2>3 DEF CallsHold
    <3>2. b \in 1 .. Len(record') /\ record'[b].by = i
      BY <1>3, <3>1
    <3> QED
      BY <3>2
  <2> QED
    BY <1>1, <2>2, <2>3 DEF CallsHold
<1>6. EditHolds'
  BY <1>1, <1>3 DEF EditInv, EditHolds
<1>7. NoteHolds'
  BY <1>1, <1>3, EditNumbers DEF EditInv, NoteHolds, CardTypes, Noting
<1> QED
  BY <1>4, <1>5, <1>6, <1>7 DEF EditInv

(* The wallet's transactions meet their fates.                             *)
LEMMA FateMet ==
  ASSUME EditInv, NEW i \in 1 .. Len(sends), NEW fate \in E!Fates, E!Meets(i, fate)
  PROVE  /\ sends \in Seq(Sending) /\ sends' \in Seq(Sending)
         /\ Len(sends') = Len(sends) /\ sends[i].fate = "waiting"
         /\ Len(sends) \in Nat /\ sends'[i].fate = fate
         /\ \A j \in 1 .. Len(sends) : /\ sends'[j].value = sends[j].value
                                       /\ j # i => sends'[j] = sends[j]
<1>1. sends[i].fate = "waiting" /\ sends' = [sends EXCEPT ![i].fate = fate]
  BY DEF E!Meets
<1>2. sends \in Seq(Sending) /\ Len(sends) \in Nat
  BY DEF EditInv, WorldTypes
<1>3. PICK x : x = [sends[i] EXCEPT !.fate = fate]
  OBVIOUS
<1>4. sends[i] \in Sending
  BY <1>2
<1>5. x \in Sending /\ x.fate = fate /\ x.value = sends[i].value
  BY <1>3, <1>4 DEF Sending
<1>6. sends' = [sends EXCEPT ![i] = x]
  BY <1>1, <1>2, <1>3, <1>4 DEF Sending
<1>7. sends' \in Seq(Sending) /\ Len(sends') = Len(sends)
  BY <1>2, <1>5, <1>6
<1>8. \A j \in 1 .. Len(sends) : sends'[j] = IF j = i THEN x ELSE sends[j]
  BY <1>2, <1>6
<1> QED
  BY <1>1, <1>2, <1>5, <1>7, <1>8

LEMMA EditTakes ==
  ASSUME EditInv, E!TakesEffect
  PROVE  EditInv'
<1>1. PICK i \in DOMAIN sends, fate \in TakenUp :
        Len(record) < MaxHeight /\ E!Meets(i, fate) /\ E!Extended(sends[i].value, i)
  BY DEF E!TakesEffect, TakenUp
<1>2. UNCHANGED <<settled, copy, edit, overlay, data, read, loadError,
                  note>>
  BY <1>1 DEF E!Meets, E!screen, E!load
<1>3. /\ WorldTypes /\ CardTypes /\ CallsHold /\ EditHolds /\ NoteHolds
      /\ i \in 1 .. Len(sends) /\ i \in 0 .. MaxWrites /\ fate \in E!Fates
  BY Fates, EditNumbers DEF EditInv, WorldTypes
<1>4. /\ sends \in Seq(Sending) /\ sends' \in Seq(Sending)
      /\ Len(sends') = Len(sends) /\ sends[i].fate = "waiting"
      /\ Len(sends) \in Nat /\ sends'[i].fate = fate
      /\ \A j \in 1 .. Len(sends) : /\ sends'[j].value = sends[j].value
                                    /\ j # i => sends'[j] = sends[j]
  BY <1>1, <1>3, FateMet
<1>5. PICK v \in E!Recordable : v = sends[i].value
  <2>1. sends[i] \in Sending
    BY <1>3, <1>4
  <2> QED
    BY <2>1 DEF Sending
<1>6. /\ record' \in Seq(Entry) /\ Len(record') = Len(record) + 1
      /\ Len(record) \in Nat /\ Len(record') \in E!Block
      /\ record'[Len(record) + 1] = [value |-> v, by |-> i]
      /\ \A b \in 1 .. Len(record) : record'[b] = record[b]
  BY <1>1, <1>3, <1>5, BlockAdded
<1>7. WorldTypes' /\ CardTypes'
  BY <1>2, <1>3, <1>4, <1>6 DEF WorldTypes, CardTypes
<1>8. CallsHold'
  <2>1. ASSUME NEW b \in 1 .. Len(record'), record'[b].by # 0
        PROVE  /\ record'[b].by \in 1 .. Len(sends')
               /\ sends'[record'[b].by].fate \in TakenUp
               /\ sends'[record'[b].by].value = record'[b].value
    <3>1. CASE b = Len(record) + 1
      <4>1. record'[b].by = i /\ record'[b].value = v
        BY <1>6, <3>1
      <4> QED
        BY <1>1, <1>3, <1>4, <1>5, <4>1
    <3>2. CASE b # Len(record) + 1
      <4>1. b \in 1 .. Len(record) /\ record'[b] = record[b]
        BY <1>6, <3>2
      <4>2. /\ record[b].by \in 1 .. Len(sends)
            /\ sends[record[b].by].fate \in TakenUp
            /\ sends[record[b].by].value = record[b].value
        BY <1>3, <2>1, <4>1 DEF CallsHold
      <4>3. record[b].by # i
        BY <1>4, <4>2, Fates
      <4> QED
        BY <1>4, <4>1, <4>2, <4>3
    <3> QED
      BY <3>1, <3>2
  <2>2. ASSUME NEW j \in 1 .. Len(sends'), sends'[j].fate \in TakenUp
        PROVE  \E b \in 1 .. Len(record') : record'[b].by = j
    <3>1. CASE j = i
      <4>1. Len(record) + 1 \in 1 .. Len(record') /\ record'[Len(record) + 1].by = i
        BY <1>6
      <4> QED
        BY <3>1, <4>1
    <3>2. CASE j # i
      <4>1. sends[j].fate \in TakenUp /\ j \in 1 .. Len(sends)
        BY <1>4, <2>2, <3>2
      <4>2. PICK b \in 1 .. Len(record) : record[b].by = j
        BY <1>3, <4>1 DEF CallsHold
      <4>3. b \in 1 .. Len(record') /\ record'[b].by = j
        BY <1>6, <4>2
      <4> QED
        BY <4>3
    <3> QED
      BY <3>1, <3>2
  <2> QED
    BY <2>1, <2>2 DEF CallsHold
<1>9. EditHolds'
  <2>1. \A j \in 1 .. Len(sends) : sends[j].fate \in GivenUp => sends'[j] = sends[j]
    BY <1>4, Fates
  <2> QED
    BY <1>2, <1>3, <1>4, <1>6, <2>1 DEF EditHolds
<1>10. NoteHolds'
  BY <1>2, <1>3, <1>6, EditNumbers DEF NoteHolds, CardTypes, Noting
<1> QED
  BY <1>7, <1>8, <1>9, <1>10 DEF EditInv

LEMMA EditNever ==
  ASSUME EditInv, E!NeverHappens
  PROVE  EditInv'
<1>1. PICK i \in DOMAIN sends, fate \in GivenUp : E!Meets(i, fate) /\ UNCHANGED record
  BY DEF E!NeverHappens, GivenUp
<1>2. UNCHANGED <<settled, copy, edit, overlay, data, read, loadError,
                  note>>
  BY <1>1 DEF E!Meets, E!screen, E!load
<1>3. /\ WorldTypes /\ CardTypes /\ CallsHold /\ EditHolds /\ NoteHolds
      /\ i \in 1 .. Len(sends) /\ fate \in E!Fates
  BY Fates DEF EditInv, WorldTypes
<1>4. /\ sends' \in Seq(Sending)
      /\ Len(sends') = Len(sends) /\ sends[i].fate = "waiting"
      /\ Len(sends) \in Nat /\ sends'[i].fate = fate
      /\ \A j \in 1 .. Len(sends) : /\ sends'[j].value = sends[j].value
                                    /\ j # i => sends'[j] = sends[j]
  BY <1>1, <1>3, FateMet
<1>5. WorldTypes' /\ CardTypes'
  BY <1>1, <1>2, <1>3, <1>4 DEF WorldTypes, CardTypes
<1>6. \A j \in 1 .. Len(sends) : sends[j].fate \in TakenUp \cup GivenUp =>
        sends'[j] = sends[j]
  BY <1>4, Fates
<1>7. sends'[i].fate \notin TakenUp
  BY <1>1, <1>4, Fates
<1>8. CallsHold'
  <2>1. \A j \in 1 .. Len(sends) : sends'[j].fate \in TakenUp => sends[j].fate \in TakenUp
    BY <1>4, <1>7
  <2> QED
    BY <1>1, <1>3, <1>4, <1>6, <2>1 DEF CallsHold
<1>9. EditHolds'
  BY <1>1, <1>2, <1>3, <1>4, <1>6 DEF EditHolds
<1>10. NoteHolds'
  BY <1>1, <1>2, <1>3 DEF NoteHolds
<1> QED
  BY <1>5, <1>8, <1>9, <1>10 DEF EditInv

LEMMA EditTick ==
  ASSUME EditInv, E!Tick
  PROVE  EditInv'
<1>1. /\ settled' = Len(record) /\ copy' = [b \in E!Block |-> E!Less(copy[b])]
      /\ note' = IF note = None THEN None ELSE [note EXCEPT !.left = E!Less(note.left)]
      /\ UNCHANGED <<record, sends, edit, overlay, data, read, loadError>>
  BY DEF E!Tick, E!screen, E!load
<1>2. WorldTypes /\ CardTypes /\ CallsHold /\ EditHolds /\ NoteHolds
  BY DEF EditInv
<1>3. \A n \in Nat : E!Less(n) \in Nat /\ E!Less(n) <= n
  BY DEF E!Less
<1>4. \A b \in E!Block : copy[b] \in 0 .. CopyTtl
  BY <1>2 DEF WorldTypes
<1>5. \A b \in E!Block : E!Less(copy[b]) \in 0 .. CopyTtl
  BY <1>4, EditNumbers DEF E!Less
<1>6. WorldTypes'
  <2>1. copy' \in [E!Block -> 0 .. CopyTtl]
    BY <1>1, <1>5
  <2>2. settled' \in 1 .. Len(record)
    BY <1>1, <1>2, EditNumbers DEF WorldTypes
  <2> QED
    BY <1>1, <1>2, <2>1, <2>2 DEF WorldTypes
<1>7. CASE note = None
  BY <1>1, <1>2, <1>6, <1>7 DEF EditInv, CardTypes, CallsHold, EditHolds, NoteHolds
<1>8. CASE note # None
  <2>1. note \in Noting /\ note.left \in 0 .. Fresh /\ note.block \in E!Block
    BY <1>2, <1>8 DEF CardTypes, Noting
  <2>2. PICK m : m = [note EXCEPT !.left = E!Less(note.left)]
    OBVIOUS
  <2>3. E!Less(note.left) \in 0 .. Fresh
    BY <2>1, EditNumbers DEF E!Less
  <2>4. m \in Noting /\ m.block = note.block /\ m.left = E!Less(note.left) /\ note' = m
    BY <1>1, <1>8, <2>1, <2>2, <2>3 DEF Noting
  <2>5. CardTypes'
    BY <1>1, <1>2, <2>4 DEF CardTypes
  <2>6. \A b \in E!Block : b < note.block => copy'[b] <= m.left
    <3>1. ASSUME NEW b \in E!Block, b < note.block PROVE E!Less(copy[b]) <= m.left
      <4>1. copy[b] <= note.left
        BY <1>2, <1>8, <3>1 DEF NoteHolds
      <4> QED
        BY <1>4, <2>1, <2>4, <4>1, EditNumbers DEF E!Less
    <3> QED
      BY <1>1, <3>1
  <2>7. NoteHolds'
    BY <1>1, <1>2, <1>8, <2>4, <2>6 DEF NoteHolds
  <2> QED
    BY <1>1, <1>2, <1>6, <2>5, <2>7 DEF EditInv, CallsHold, EditHolds
<1> QED
  BY <1>7, <1>8

-----------------------------------------------------------------------------
(* Reads: no answer is from before the block that is noted.                *)
LEMMA NotBefore ==
  ASSUME EditInv, note # None, NEW b \in 1 .. Len(record), E!Acceptable(b),
         copy[b] > 0 \/ b >= settled
  PROVE  b >= note.block
<1>1. /\ note \in Noting /\ note.left \in 0 .. Fresh /\ note.block \in E!Block
  BY DEF EditInv, CardTypes, Noting
<1>2. /\ Len(record) \in E!Block /\ settled \in Nat /\ b \in E!Block
      /\ copy[b] \in 0 .. CopyTtl
  BY EditNumbers DEF EditInv, WorldTypes
<1>3. /\ note.left < Fresh => settled >= note.block
      /\ b < note.block => copy[b] <= note.left
  BY <1>2 DEF EditInv, NoteHolds
<1>4. CASE note.left > 0
  <2>1. E!MinBlock = note.block /\ note.block # None
    BY <1>1, <1>4, EditNumbers DEF E!MinBlock
  <2> QED
    BY <2>1 DEF E!Acceptable
<1>5. CASE note.left = 0
  BY <1>1, <1>2, <1>3, <1>5, EditNumbers
<1> QED
  BY <1>1, <1>4, <1>5

LEMMA EditAnswered ==
  ASSUME EditInv, E!Answered
  PROVE  EditInv'
<1>1. /\ read # None /\ read.answer = None
      /\ UNCHANGED <<record, settled, sends, edit, overlay, data, loadError, note>>
  BY DEF E!Answered, E!Unanswered, E!screen, E!load
<1>2. PICK b \in 1 .. Len(record) :
        /\ E!Acceptable(b)
        /\ \/ copy[b] > 0 /\ UNCHANGED copy
           \/ b >= settled /\ copy' = [copy EXCEPT ![b] = CopyTtl]
        /\ read' = [read EXCEPT !.answer = b]
  BY DEF E!Answered
<1>3. /\ WorldTypes /\ CardTypes /\ CallsHold /\ EditHolds /\ NoteHolds
      /\ b \in E!Block /\ b \in Nat
  BY EditNumbers DEF EditInv, WorldTypes
<1>4. read' \in Reading /\ read'.answer = b
  BY <1>1, <1>2, <1>3 DEF CardTypes, Reading
<1>5. note # None => b >= note.block
  BY <1>2, NotBefore
<1>6. /\ copy' \in [E!Block -> 0 .. CopyTtl]
      /\ \A d \in E!Block : d # b => copy'[d] = copy[d]
  <2>1. CopyTtl \in 0 .. CopyTtl
    BY EditNumbers
  <2> QED
    BY <1>2, <1>3, <2>1 DEF WorldTypes
<1>7. WorldTypes' /\ CardTypes'
  BY <1>1, <1>3, <1>4, <1>6 DEF WorldTypes, CardTypes
<1>8. NoteHolds'
  <2>1. ASSUME note # None, NEW d \in E!Block, d < note.block
        PROVE  copy'[d] <= note.left
    <3>1. d # b
      BY <1>3, <1>5, <2>1, EditNumbers DEF CardTypes, Noting
    <3> QED
      BY <1>3, <1>6, <2>1, <3>1 DEF NoteHolds
  <2>2. read' # None
    BY <1>4, NoneIsNoReading
  <2> QED
    BY <1>1, <1>3, <1>4, <1>5, <2>1, <2>2 DEF NoteHolds
<1> QED
  BY <1>1, <1>3, <1>7, <1>8 DEF EditInv, CallsHold, EditHolds

LEMMA EditReads ==
  ASSUME EditInv, E!Behind \/ E!ReadFails \/ E!Delivered \/ E!Refetch
  PROVE  EditInv'
<1>1. UNCHANGED <<record, settled, copy, sends, edit, overlay, note>>
  BY DEF E!Behind, E!ReadFails, E!Delivered, E!Refetch, E!world, E!screen
<1>2. WorldTypes /\ CardTypes /\ CallsHold /\ EditHolds /\ NoteHolds
  BY DEF EditInv
<1>3. /\ read' # None => read' \in Reading /\ read'.answer = None
      /\ loadError' \in BOOLEAN
      /\ read' # None \/ loadError' \/ E!Delivered
  <2>1. CASE E!Behind
    <3>1. read \in Reading /\ read.answer = None /\ read # None
      BY <1>2, <2>1 DEF E!Behind, E!Unanswered, CardTypes
    <3>2. CASE read.tries < Retries
      <4>1. read' = [read EXCEPT !.tries = read.tries + 1] /\ loadError' = loadError
        BY <2>1, <3>2 DEF E!Behind
      <4>2. read.tries + 1 \in 0 .. Retries
        BY <3>1, <3>2, EditNumbers DEF Reading
      <4>3. read' \in Reading /\ read'.answer = None
        BY <3>1, <4>1, <4>2 DEF Reading
      <4>4. read' # None
        BY <2>1, <3>2, <4>3, NoneIsNoReading
      <4> QED
        BY <1>2, <4>1, <4>3, <4>4 DEF CardTypes
    <3>3. CASE ~ (read.tries < Retries)
      BY <2>1, <3>3 DEF E!Behind, E!GivesUp
    <3> QED
      BY <3>2, <3>3
  <2>2. CASE E!ReadFails
    BY <2>2 DEF E!ReadFails, E!GivesUp
  <2>3. CASE E!Delivered
    BY <1>2, <2>3 DEF E!Delivered, CardTypes
  <2>4. CASE E!Refetch
    BY <2>4, EditIdle, NoneIsNoReading DEF E!Refetch, E!Reloads, E!Restarted
  <2> QED
    BY <2>1, <2>2, <2>3, <2>4
<1>4. /\ data' \in E!Block \cup {None}
      /\ data' = data \/ (E!Delivered /\ read # None /\ read.answer # None
                          /\ data' = read.answer)
      /\ E!Delivered => read # None /\ read.answer # None /\ data' = read.answer
  BY <1>2 DEF E!Behind, E!ReadFails, E!Delivered, E!Refetch, E!screen, CardTypes, Reading
<1>5. CardTypes'
  BY <1>1, <1>2, <1>3, <1>4 DEF CardTypes
<1>6. NoteHolds'
  <2>1. ASSUME note # None, data' # None, data' < note.block
        PROVE  read' # None \/ loadError'
    <3>1. CASE E!Delivered
      <4>1. read.answer >= note.block /\ data' = read.answer
        BY <1>2, <1>4, <2>1, <3>1 DEF NoteHolds
      <4>2. note.block \in E!Block /\ read.answer \in E!Block
        BY <1>2, <1>4, <2>1, <3>1 DEF CardTypes, Noting, Reading
      <4> QED
        BY <2>1, <4>1, <4>2, EditNumbers
    <3>2. CASE ~ E!Delivered
      BY <1>3, <3>2
    <3> QED
      BY <3>1, <3>2
  <2> QED
    BY <1>1, <1>2, <1>3, <2>1 DEF NoteHolds
<1> QED
  BY <1>1, <1>2, <1>5, <1>6
     DEF EditInv, WorldTypes, CallsHold, EditHolds

LEMMA EditMounts ==
  ASSUME EditInv, E!Remount
  PROVE  EditInv'
<1>1. /\ UNCHANGED <<record, settled, copy, sends, note>> /\ edit' = E!Idle
      /\ overlay' = None /\ data' = None /\ read' = E!Asking /\ loadError' = FALSE
  BY DEF E!Remount, E!world
<1>2. WorldTypes /\ CardTypes /\ CallsHold /\ NoteHolds
  BY DEF EditInv
<1>3. CardTypes' /\ NoteHolds'
  BY <1>1, <1>2, EditIdle DEF CardTypes, NoteHolds
<1>4. EditHolds'
  BY <1>1, EditIdle DEF EditHolds
<1> QED
  BY <1>1, <1>2, <1>3, <1>4 DEF EditInv, WorldTypes, CallsHold

(* Whatever is delivered is not from before the block that is noted.       *)
LEMMA EditDelivers ==
  ASSUME EditInv
  PROVE  E!ReadsReflectTheWrite
<1> SUFFICES ASSUME E!Delivered, note # None
             PROVE  data' >= note.block
  BY DEF E!ReadsReflectTheWrite
<1> QED
  BY DEF E!Delivered, EditInv, NoteHolds

-----------------------------------------------------------------------------
(* The write.                                                              *)
LEMMA EditWrites ==
  ASSUME EditInv, UNCHANGED <<record, settled, copy, sends, data, read, loadError, note>>,
         NEW y \in Editing, edit' = y, y.status \notin {"pending", "indexed"},
         overlay' = None,
         y.nothing => /\ y.status = "failed" /\ y.id \in 1 .. Len(sends)
                      /\ sends[y.id].fate \in GivenUp
  PROVE  EditInv'
<1>1. WorldTypes /\ CardTypes /\ CallsHold /\ EditHolds /\ NoteHolds
  BY DEF EditInv
<1>2. CardTypes' /\ EditHolds'
  BY <1>1 DEF CardTypes, EditHolds
<1> QED
  BY <1>1, <1>2 DEF EditInv, WorldTypes, CallsHold, NoteHolds

LEMMA EditStarts ==
  ASSUME EditInv, E!StartEdit \/ E!Save \/ E!Simulated
  PROVE  EditInv'
<1>1. UNCHANGED <<record, settled, copy, sends, overlay, data, read, loadError,
                  note>>
  BY DEF E!StartEdit, E!Save, E!Simulated, E!world, E!screen, E!load
<1>2. edit.status # "pending" /\ overlay = None /\ edit \in Editing
  BY DEF E!StartEdit, E!Save, E!Simulated, E!Busy, EditInv, CardTypes
<1>3. \E y \in Editing : /\ edit' = y /\ y.status \notin {"pending", "indexed"}
                         /\ y.nothing = FALSE
  <2>1. CASE E!StartEdit
    BY <2>1, EditIdle DEF E!StartEdit
  <2>2. CASE E!Save
    <3>1. PICK v \in E!Recordable :
            edit' = [E!Idle EXCEPT !.status = "simulating", !.value = v]
      BY <2>2 DEF E!Save
    <3>2. PICK y : y = [E!Idle EXCEPT !.status = "simulating", !.value = v]
      OBVIOUS
    <3>3. y \in Editing /\ y.status = "simulating" /\ y.nothing = FALSE
      <4>1. PICK z \in Editing : z = E!Idle /\ z.nothing = FALSE
        BY EditIdle
      <4>2. y = [z EXCEPT !.status = "simulating", !.value = v]
        BY <3>2, <4>1
      <4> QED
        BY <4>1, <4>2 DEF Editing, E!Statuses
    <3> QED
      BY <3>1, <3>2, <3>3
  <2>3. CASE E!Simulated
    <3>1. edit.status = "simulating" /\ edit' = [edit EXCEPT !.status = "signing"]
      BY <2>3 DEF E!Simulated
    <3>2. edit.nothing = FALSE
      BY <1>2, <3>1 DEF EditInv, EditHolds, Editing
    <3>3. PICK y : y = [edit EXCEPT !.status = "signing"]
      OBVIOUS
    <3>4. y \in Editing /\ y.status = "signing" /\ y.nothing = FALSE
      BY <1>2, <3>2, <3>3 DEF Editing, E!Statuses
    <3> QED
      BY <3>1, <3>3, <3>4
  <2> QED
    BY <2>1, <2>2, <2>3
<1> QED
  BY <1>1, <1>2, <1>3, EditWrites

LEMMA EditFailed ==
  ASSUME EditInv, NEW nothing \in BOOLEAN, E!Failure(nothing), UNCHANGED sends,
         nothing => /\ edit.id \in 1 .. Len(sends)
                    /\ sends[edit.id].fate \in GivenUp
  PROVE  EditInv'
<1>1. /\ edit' = [edit EXCEPT !.status = "failed", !.nothing = nothing]
      /\ overlay' = None /\ UNCHANGED <<record, settled, copy, data, read, loadError, note>>
  BY DEF E!Failure, E!RolledBack, E!world, E!load
<1>2. PICK y : y = [edit EXCEPT !.status = "failed", !.nothing = nothing]
  OBVIOUS
<1>3. edit \in Editing
  BY DEF EditInv, CardTypes
<1>4. y \in Editing /\ y.status = "failed" /\ y.nothing = nothing /\ y.id = edit.id
  BY <1>2, <1>3 DEF Editing, E!Statuses
<1> QED
  BY <1>1, <1>2, <1>4, EditWrites

LEMMA EditFails ==
  ASSUME EditInv, E!Refused \/ E!FailsOnReceipt \/ E!NoReceipt
  PROVE  EditInv'
<1>1. CASE E!Refused \/ E!NoReceipt
  BY <1>1, EditFailed DEF E!Refused, E!NoReceipt
<1>2. CASE E!FailsOnReceipt
  <2>1. edit.status = "pending" /\ E!Undone /\ E!Failure(TRUE) /\ UNCHANGED sends
    BY <1>2 DEF E!FailsOnReceipt, E!HasReceipt
  <2>2. sends[edit.id].fate \in GivenUp
    BY <2>1 DEF E!Undone, E!ReplacedBy, E!Fate, GivenUp
  <2>3. edit.id \in 1 .. Len(sends)
    BY <2>1 DEF EditInv, EditHolds
  <2> QED
    BY <2>1, <2>2, <2>3, EditFailed
<1> QED
  BY <1>1, <1>2

LEMMA CallAdded ==
  ASSUME EditInv, E!Broadcast, UNCHANGED <<record, settled, copy>>
  PROVE  /\ WorldTypes' /\ CallsHold' /\ Len(sends) \in Nat
         /\ Len(sends') = Len(sends) + 1 /\ Len(sends') <= MaxWrites
         /\ sends'[Len(sends')].value = edit.value
         /\ \A j \in 1 .. Len(sends) : sends'[j] = sends[j]
<1>1. /\ edit.status = "signing" /\ Len(sends) < MaxWrites
      /\ sends' = Append(sends, [value |-> edit.value, fate |-> "waiting"])
  BY DEF E!Broadcast
<1>2. WorldTypes /\ CallsHold /\ edit \in Editing
  BY DEF EditInv, CardTypes
<1>3. PICK x : x = [value |-> edit.value, fate |-> "waiting"]
  OBVIOUS
<1>4. x \in Sending /\ x.value = edit.value /\ x.fate = "waiting"
  BY <1>2, <1>3, Fates DEF Sending, Editing
<1>5. /\ sends \in Seq(Sending) /\ sends' \in Seq(Sending) /\ Len(sends) \in Nat
      /\ Len(sends') = Len(sends) + 1 /\ Len(sends') <= MaxWrites
      /\ sends'[Len(sends) + 1] = x
      /\ \A j \in 1 .. Len(sends) : sends'[j] = sends[j]
  BY <1>1, <1>2, <1>3, <1>4, EditNumbers DEF WorldTypes
<1>6. WorldTypes'
  BY <1>2, <1>5 DEF WorldTypes
<1>7. CallsHold'
  <2>1. ASSUME NEW b \in 1 .. Len(record), record[b].by # 0
        PROVE  /\ record[b].by \in 1 .. Len(sends')
               /\ sends'[record[b].by].fate \in TakenUp
               /\ sends'[record[b].by].value = record[b].value
    <3>1. /\ record[b].by \in 1 .. Len(sends)
          /\ sends[record[b].by].fate \in TakenUp
          /\ sends[record[b].by].value = record[b].value
      BY <1>2, <2>1 DEF CallsHold
    <3> QED
      BY <1>5, <3>1
  <2>2. ASSUME NEW j \in 1 .. Len(sends'), sends'[j].fate \in TakenUp
        PROVE  \E b \in 1 .. Len(record) : record[b].by = j
    <3>1. j # Len(sends) + 1
      BY <1>4, <1>5, <2>2, Fates
    <3>2. j \in 1 .. Len(sends) /\ sends[j].fate \in TakenUp
      BY <1>5, <2>2, <3>1
    <3> QED
      BY <1>2, <3>2 DEF CallsHold
  <2> QED
    BY <2>1, <2>2 DEF CallsHold
<1> QED
  BY <1>4, <1>5, <1>6, <1>7

LEMMA EditSubmitted ==
  ASSUME EditInv, E!Submitted \/ E!SubmittedUnheard
  PROVE  EditInv'
<1>1. E!Broadcast /\ edit.status = "signing"
      /\ UNCHANGED <<record, settled, copy, data, read, loadError, note>>
  BY DEF E!Submitted, E!SubmittedUnheard, E!Failure, E!Broadcast, E!world, E!load
<1>2. /\ WorldTypes' /\ CallsHold' /\ Len(sends) \in Nat
      /\ Len(sends') = Len(sends) + 1 /\ Len(sends') <= MaxWrites
      /\ sends'[Len(sends')].value = edit.value
  BY <1>1, CallAdded
<1>3. CardTypes /\ NoteHolds /\ edit \in Editing
  BY DEF EditInv, CardTypes
<1>4. NoteHolds'
  BY <1>1, <1>3 DEF NoteHolds
<1>5. CASE E!Submitted
  <2>1. PICK y : y = [edit EXCEPT !.status = "pending", !.id = Len(sends) + 1]
    OBVIOUS
  <2>2. edit' = y /\ overlay' = edit.value
    BY <1>5, <2>1 DEF E!Submitted
  <2>3. Len(sends) + 1 \in 0 .. MaxWrites
    BY <1>2
  <2>4. /\ y \in Editing /\ y.status = "pending" /\ y.id = Len(sends')
        /\ y.value = edit.value /\ y.nothing = edit.nothing
    BY <1>2, <1>3, <2>1, <2>3 DEF Editing, E!Statuses
  <2>5. edit.nothing = FALSE
    BY <1>1, <1>3 DEF EditInv, EditHolds, Editing
  <2>6. CardTypes'
    BY <1>1, <1>3, <2>2, <2>4 DEF CardTypes, Editing
  <2>7. EditHolds'
    BY <1>2, <2>2, <2>4, <2>5 DEF EditHolds
  <2> QED
    BY <1>2, <1>4, <2>6, <2>7 DEF EditInv
<1>6. CASE E!SubmittedUnheard
  <2>1. edit' = [edit EXCEPT !.status = "failed", !.nothing = FALSE] /\ overlay' = None
    BY <1>6 DEF E!SubmittedUnheard, E!Failure, E!RolledBack
  <2>2. PICK y : y = [edit EXCEPT !.status = "failed", !.nothing = FALSE]
    OBVIOUS
  <2>3. y \in Editing /\ y.status = "failed" /\ y.nothing = FALSE
    BY <1>3, <2>2 DEF Editing, E!Statuses
  <2>4. CardTypes'
    BY <1>1, <1>3, <2>1, <2>2, <2>3 DEF CardTypes
  <2>5. EditHolds'
    BY <2>1, <2>2, <2>3 DEF EditHolds
  <2> QED
    BY <1>2, <1>4, <2>4, <2>5 DEF EditInv
<1> QED
  BY <1>5, <1>6

LEMMA EditIndexed ==
  ASSUME EditInv, E!Indexed
  PROVE  EditInv'
<1>1. /\ edit.status = "pending" /\ sends[edit.id].fate # "waiting" /\ ~ E!Undone
      /\ edit' = [edit EXCEPT !.status = "indexed", !.block = E!ReceiptBlock]
      /\ note' = [block |-> E!Later(E!ReceiptBlock), left |-> Fresh]
      /\ overlay' = None /\ read' = E!Asking /\ loadError' = FALSE
      /\ UNCHANGED <<record, settled, copy, sends, data>>
  BY DEF E!Indexed, E!HasReceipt, E!Fate, E!Reloads, E!Restarted, E!world
<1>2. WorldTypes /\ CardTypes /\ CallsHold /\ EditHolds /\ NoteHolds
  BY DEF EditInv
<1>3. /\ edit \in Editing /\ edit.id \in 1 .. Len(sends)
      /\ sends[edit.id].value = edit.value /\ sends[edit.id] \in Sending
  BY <1>1, <1>2 DEF CardTypes, EditHolds, WorldTypes
<1>4. sends[edit.id].fate \in TakenUp
  BY <1>1, <1>3
     DEF E!Undone, E!ReplacedBy, E!Fate, TakenUp, Sending, E!Fates
<1>5. PICK rb : rb = E!ReceiptBlock
  OBVIOUS
<1>6. DOMAIN record = 1 .. Len(record) /\ Len(record) \in 1 .. MaxHeight
  BY <1>2, EditNumbers DEF WorldTypes
<1>7. rb \in 1 .. Len(record) /\ record[rb].by = edit.id
  <2>1. \E b \in DOMAIN record : record[b].by = edit.id
    BY <1>2, <1>3, <1>4, <1>6 DEF CallsHold
  <2>2. rb = CHOOSE b \in DOMAIN record : record[b].by = edit.id
    BY <1>5, <2>1 DEF E!ReceiptBlock
  <2>3. rb \in DOMAIN record /\ record[rb].by = edit.id
    BY <2>1, <2>2, Zenon
  <2> QED
    BY <1>6, <2>3
<1>8. rb \in E!Block /\ record[rb] \in Entry
  BY <1>2, <1>6, <1>7, EditNumbers DEF WorldTypes
<1>9. edit.id # 0
  BY <1>3
<1>10. record[rb].value = edit.value
  BY <1>2, <1>3, <1>7, <1>9 DEF CallsHold
<1>11. record[rb] = [value |-> edit.value, by |-> edit.id]
  BY <1>7, <1>8, <1>10 DEF Entry
<1>12. PICK y : y = [edit EXCEPT !.status = "indexed", !.block = rb]
  OBVIOUS
<1>13. /\ y \in Editing /\ y.status = "indexed" /\ y.block = rb /\ y.id = edit.id
       /\ y.value = edit.value /\ y.nothing = edit.nothing
  BY <1>3, <1>8, <1>12 DEF Editing, E!Statuses
<1>14. edit' = y
  BY <1>1, <1>5, <1>12
<1>15. edit.nothing = FALSE
  BY <1>1, <1>2, <1>3 DEF EditHolds, Editing
<1>16. EditHolds'
  BY <1>1, <1>7, <1>11, <1>13, <1>14, <1>15 DEF EditHolds
<1>17. PICK nb : nb = E!Later(rb)
  OBVIOUS
<1>18. nb \in E!Block /\ nb <= Len(record)
  <2>1. nb = rb \/ (note # None /\ nb = note.block)
    BY <1>17 DEF E!Later
  <2> QED
    BY <1>2, <1>6, <1>7, <1>8, <2>1 DEF CardTypes, NoteHolds, Noting
<1>19. note' = [block |-> nb, left |-> Fresh]
  BY <1>1, <1>5, <1>17
<1>20. note' \in Noting /\ note'.block = nb /\ note'.left = Fresh
  BY <1>18, <1>19, EditNumbers DEF Noting
<1>21. CardTypes'
  BY <1>1, <1>2, <1>13, <1>14, <1>20, EditIdle DEF CardTypes
<1>22. NoteHolds'
  <2>1. \A b \in E!Block : copy[b] <= Fresh
    BY <1>2, EditNumbers DEF WorldTypes
  <2> QED
    BY <1>1, <1>18, <1>20, <2>1, EditIdle, EditNumbers, NoneIsNoReading DEF NoteHolds
<1> QED
  BY <1>1, <1>2, <1>16, <1>21, <1>22 DEF EditInv, WorldTypes, CallsHold

LEMMA EditKept ==
  ASSUME EditInv, E!Next
  PROVE  EditInv'
<1>1. CASE E!Behind \/ E!ReadFails \/ E!Delivered \/ E!Refetch \/ E!Remount
  BY <1>1, EditReads, EditMounts
<1>2. CASE E!Elsewhere \/ E!TakesEffect \/ E!NeverHappens \/ E!Tick \/ E!Answered
           \/ E!StartEdit \/ E!Save \/ E!Refused \/ E!Simulated \/ E!Submitted
           \/ E!SubmittedUnheard \/ E!FailsOnReceipt \/ E!Indexed \/ E!NoReceipt
  BY <1>2, EditElsewhere, EditTakes, EditNever, EditTick, EditAnswered, EditStarts,
     EditFails, EditSubmitted, EditIndexed
<1> QED
  BY <1>1, <1>2 DEF E!Next

LEMMA EditShows ==
  ASSUME EditInv
  PROVE  /\ E!TypeOK /\ E!IndexedIsWritten
         /\ E!NothingChangedIsTrue /\ E!OldIsReadAgain
<1>1. WorldTypes /\ CardTypes /\ CallsHold /\ EditHolds
  BY DEF EditInv
<1>2. E!TypeOK
  BY <1>1 DEF WorldTypes, CardTypes, Entry, Sending, Editing, Reading, Noting, E!TypeOK
<1>3. E!IndexedIsWritten
  BY <1>1 DEF EditHolds, E!IndexedIsWritten
<1>4. E!NothingChangedIsTrue
  <2>1. ASSUME edit.nothing, NEW b \in DOMAIN record PROVE record[b].by # edit.id
    <3>1. /\ edit.id \in 1 .. Len(sends) /\ edit.id # 0
          /\ sends[edit.id].fate \notin TakenUp
      BY <1>1, <2>1, Fates DEF EditHolds
    <3>2. b \in 1 .. Len(record)
      BY <1>1 DEF WorldTypes
    <3> QED
      BY <1>1, <3>1, <3>2 DEF CallsHold
  <2> QED
    BY <2>1 DEF E!NothingChangedIsTrue
<1>5. E!OldIsReadAgain
  BY DEF EditInv, NoteHolds, E!OldIsReadAgain
<1> QED
  BY <1>2, <1>3, <1>4, <1>5

-----------------------------------------------------------------------------
(* The reservations of a name. Each is committed to at most once, and so   *)
(* what the chain has of it stays: a commitment that landed is not under   *)
(* way, and one that is dead never lands. What a wallet has saved is its   *)
(* latest reservation.                                                     *)
Ids == 1 .. Len(made)
Transaction == [kind : {"commit", "register"}, r : Id, by : Wallet,
                fate : {"waiting", "mined", "reverted", "cancelled", "replaced"}]
Reservation == [owner : Wallet, savedAt : Time]
Check == [r : Id, answer : Phases \cup {"none", "failed"}]
PanelStep == [kind : {"none", "checking", "confirming", "waiting", "ready"},
              r : Id \cup {None}, until : 0 .. MaxNow + MinAge]
PanelTx == [status : Statuses, kind : {"none", "commit", "register"},
            r : Id \cup {None}, id : 0 .. MaxSent]

Commits(i, r) == sent[i].kind = "commit" /\ sent[i].r = r

ChainTypes ==
  /\ now \in Time /\ winner \in Ids \cup {None}
  /\ commit \in [Wallet -> [Id -> Time]]
  /\ sent \in Seq(Transaction) /\ Len(sent) <= MaxSent
  /\ made \in Seq(Reservation) /\ Len(made) <= MaxMade

ChainHolds ==
  /\ \A i \in 1 .. Len(sent) : sent[i].r \in Ids
  /\ \A i, j \in 1 .. Len(sent) :
       Commits(i, sent[i].r) /\ Commits(j, sent[i].r) => i = j
  /\ \A w \in Wallet, r \in Id : commit[w][r] > 0 =>
       /\ r \in Ids /\ commit[w][r] <= now
       /\ commit[w][r] - made[r].savedAt < Grace
       /\ \E i \in 1 .. Len(sent) : Commits(i, r) /\ sent[i].fate = "mined"
  /\ \A i \in 1 .. Len(sent) :
       sent[i].kind = "register" /\ sent[i].fate = "mined" => winner = sent[i].r

SavedHolds(w, r) ==
  /\ r \in Ids /\ made[r].owner = w
  /\ \A q \in Ids : made[q].owner = w => q <= r
StoreHolds ==
  /\ store \in [Wallet -> Id \cup {None}]
  /\ \A w \in Wallet : store[w] # None => SavedHolds(w, store[w])

StepIs(s, w) ==
  /\ s \in PanelStep
  /\ s.r # None => s.r \in Ids /\ made[s.r].owner = w
  /\ s.kind \in {"confirming", "waiting", "ready"} => s.r # None
StepHolds == wallet \in Wallet /\ StepIs(step, wallet)

CheckHolds(c) ==
  /\ c \in Check /\ c.r \in Ids
  /\ c.answer = "missing" =>
       Committed(c.r) = 0 \/ winner = c.r \/ Committed(c.r) = now
  /\ c.answer = "expired" => Stale(c.r)
ChecksHold ==
  /\ checks \in Seq(Check) /\ Len(checks) <= MaxChecks
  /\ \A i \in 1 .. Len(checks) : CheckHolds(checks[i])

TxHolds ==
  /\ tx \in PanelTx /\ registered \in BOOLEAN /\ placing \subseteq 1 .. Len(sent)
  /\ tx.status # "idle" => tx.kind # "none"
  /\ IF tx.kind = "none" THEN tx.r = None ELSE tx.r \in Ids
  /\ tx.status \in {"simulating", "signing"} /\ tx.kind = "commit" =>
       \A i \in 1 .. Len(sent) : ~ Commits(i, tx.r)
  /\ tx.status = "pending" =>
       /\ tx.id \in 1 .. Len(sent)
       /\ sent[tx.id].kind = tx.kind /\ sent[tx.id].r = tx.r
  /\ registered => tx.kind = "register" /\ tx.status \in {"pending", "indexed"}
  /\ tx.kind = "register" /\ tx.status = "indexed" => winner = tx.r

ReserveInv ==
  ChainTypes /\ ChainHolds /\ StoreHolds /\ StepHolds /\ ChecksHold /\ TxHolds

(* The step drops no saved secret that is of use, but one an older         *)
(* reservation of its wallet is cleared with, and the secret of a commit   *)
(* the wallet has broadcast and answered with an error.                    *)
SecretsKept ==
  \A w \in Wallet, r \in DOMAIN made :
    Drops(w, r) => ~ Useful(r)' \/ OlderInPlay(r) \/ Unheard

LEMMA ReserveNumbers ==
  /\ MinAge \in Nat /\ MaxAge \in Nat /\ Grace \in Nat /\ None \notin Nat
  /\ MaxNow \in Nat \ {0} /\ MaxMade \in Nat /\ MaxSent \in Nat
  /\ MaxChecks \in Nat \ {0} /\ Id = 1 .. MaxMade /\ Time = 0 .. MaxNow
BY ReservationConstants DEF Id, Time

LEMMA IdsAre ==
  ASSUME ChainTypes
  PROVE  /\ Len(made) \in Nat /\ Len(sent) \in Nat /\ Ids \subseteq Id
         /\ None \notin Ids /\ None \notin Id /\ DOMAIN made = Ids
         /\ DOMAIN sent = 1 .. Len(sent) /\ now \in Nat
         /\ \A r \in Ids : r \in Nat /\ made[r].owner \in Wallet /\ made[r].savedAt \in Nat
         /\ \A w \in Wallet, r \in Id : commit[w][r] \in Nat /\ commit[w][r] \in Time
         /\ \A r \in Ids : Committed(r) \in Nat /\ Committed(r) \in Time
         /\ \A i \in 1 .. Len(sent) : sent[i] \in Transaction
<1>1. Len(made) \in Nat /\ Len(sent) \in Nat /\ Len(made) <= MaxMade
  BY DEF ChainTypes
<1>2. Ids \subseteq Id /\ None \notin Ids /\ None \notin Id
  BY <1>1, ReserveNumbers DEF Ids
<1>3. \A r \in Ids : made[r] \in Reservation
  BY DEF ChainTypes, Ids
<1>4. \A w \in Wallet, r \in Id : commit[w][r] \in Nat /\ commit[w][r] \in Time
  BY ReserveNumbers DEF ChainTypes
<1>5. \A r \in Ids : Committed(r) \in Nat /\ Committed(r) \in Time
  BY <1>2, <1>3, <1>4 DEF Committed, Reservation
<1>6. \A r \in Ids : r \in Nat /\ made[r].owner \in Wallet /\ made[r].savedAt \in Nat
  BY <1>1, <1>3, ReserveNumbers DEF Reservation, Ids
<1>7. /\ DOMAIN made = Ids /\ DOMAIN sent = 1 .. Len(sent) /\ now \in Nat
      /\ \A i \in 1 .. Len(sent) : sent[i] \in Transaction
  BY ReserveNumbers DEF ChainTypes, Ids
<1> QED
  BY <1>1, <1>2, <1>4, <1>5, <1>6, <1>7

LEMMA NoneShown ==
  /\ NoStep \in PanelStep /\ NoStep.r = None /\ NoStep.kind = "none"
  /\ Step("checking", None, 0) \in PanelStep
  /\ Step("checking", None, 0).r = None /\ Step("checking", None, 0).kind = "checking"
  /\ Idle \in PanelTx /\ Idle.status = "idle" /\ Idle.kind = "none"
  /\ Idle.r = None
<1>1. 0 \in 0 .. MaxNow + MinAge /\ 0 \in 0 .. MaxSent
  BY ReserveNumbers
<1> QED
  BY <1>1 DEF NoStep, Step, Idle, PanelStep, PanelTx, Statuses

LEMMA NoStepIs ==
  ASSUME NEW w
  PROVE  StepIs(NoStep, w) /\ StepIs(Step("checking", None, 0), w)
BY NoneShown DEF StepIs

LEMMA StoreSame ==
  ASSUME ReserveInv, UNCHANGED store
  PROVE  SecretsKept
<1>1. ASSUME NEW w \in Wallet, NEW r \in DOMAIN made, Drops(w, r) PROVE FALSE
  BY <1>1, IdsAre DEF Drops, ReserveInv
<1> QED
  BY <1>1 DEF SecretsKept

LEMMA UsefulSame ==
  ASSUME UNCHANGED <<now, winner, commit, sent, made>>
  PROVE  \A r : Useful(r)' <=> Useful(r)
BY DEF Useful, UnderWay, Committed, Stale, Age

LEMMA WorldSame ==
  ASSUME ChainTypes, ChainHolds, UNCHANGED <<now, winner, commit, sent, made>>
  PROVE  /\ ChainTypes' /\ ChainHolds' /\ Ids' = Ids
         /\ StoreHolds /\ UNCHANGED store => StoreHolds'
         /\ \A s, w : StepIs(s, w) => StepIs(s, w)'
         /\ \A c : CheckHolds(c) => CheckHolds(c)'
         /\ \A w, r : SavedHolds(w, r) => SavedHolds(w, r)'
<1>1. Ids' = Ids
  BY DEF Ids
<1>2. ChainTypes' /\ ChainHolds'
  BY <1>1 DEF ChainTypes, ChainHolds, Commits
<1>3. /\ \A s, w : StepIs(s, w) => StepIs(s, w)'
      /\ \A w, r : SavedHolds(w, r) => SavedHolds(w, r)'
  BY <1>1 DEF StepIs, SavedHolds
<1>4. \A c : CheckHolds(c) => CheckHolds(c)'
  BY <1>1 DEF CheckHolds, Stale, Committed
<1>5. StoreHolds /\ UNCHANGED store => StoreHolds'
  BY <1>1 DEF StoreHolds, SavedHolds
<1> QED
  BY <1>1, <1>2, <1>3, <1>4, <1>5

LEMMA StepSame ==
  ASSUME StepHolds, UNCHANGED <<made, wallet, step>>
  PROVE  StepHolds'
BY DEF StepHolds, StepIs, Ids

LEMMA StoreHeld ==
  ASSUME StoreHolds, UNCHANGED <<made, store>>
  PROVE  StoreHolds'
BY DEF StoreHolds, SavedHolds, Ids

LEMMA ChecksSame ==
  ASSUME ChecksHold, UNCHANGED checks, \A c : CheckHolds(c) => CheckHolds(c)'
  PROVE  ChecksHold'
<1>1. ASSUME NEW i \in 1 .. Len(checks) PROVE CheckHolds(checks[i])'
  <2>1. PICK c : c = checks[i]
    OBVIOUS
  <2>2. CheckHolds(c)'
    BY <2>1 DEF ChecksHold
  <2> QED
    BY <2>1, <2>2
<1> QED
  BY <1>1 DEF ChecksHold

LEMMA ReserveInit == Init => ReserveInv /\ StepIsOnScreen
<1> SUFFICES ASSUME Init PROVE ReserveInv /\ StepIsOnScreen
  OBVIOUS
<1>1. /\ now = 1 /\ winner = None /\ commit = [w \in Wallet |-> [r \in Id |-> 0]]
      /\ sent = <<>> /\ made = <<>> /\ store = [w \in Wallet |-> None]
      /\ wallet \in Wallet /\ step = NoStep /\ checks = <<>> /\ placing = {}
      /\ tx = Idle /\ registered = FALSE
  BY DEF Init
<1>2. Len(sent) = 0 /\ Len(made) = 0 /\ Len(checks) = 0
  BY <1>1
<1>3. ChainTypes
  <2>1. commit \in [Wallet -> [Id -> Time]] /\ now \in Time
    BY <1>1, ReserveNumbers
  <2>2. sent \in Seq(Transaction) /\ made \in Seq(Reservation)
    BY <1>1
  <2> QED
    BY <1>1, <1>2, <2>1, <2>2, ReserveNumbers DEF ChainTypes
<1>4. ChainHolds
  BY <1>1, <1>2 DEF ChainHolds
<1>5. StoreHolds
  BY <1>1 DEF StoreHolds
<1>6. StepHolds /\ StepIsOnScreen
  BY <1>1, NoStepIs, NoneShown DEF StepHolds, StepIsOnScreen
<1>7. ChecksHold
  BY <1>1, <1>2, ReserveNumbers DEF ChecksHold
<1>8. TxHolds
  BY <1>1, NoneShown DEF TxHolds
<1> QED
  BY <1>3, <1>4, <1>5, <1>6, <1>7, <1>8 DEF ReserveInv

(* The chain and the wallet.                                               *)
LEMMA ReserveTick ==
  ASSUME ReserveInv, Tick
  PROVE  ReserveInv' /\ SecretsKept
<1>1. /\ now < MaxNow /\ now' = now + 1
      /\ \A i \in DOMAIN checks : checks[i].answer = "none"
      /\ UNCHANGED <<winner, commit, sent, made, store, wallet, step, checks,
                     placing, registered, tx>>
  BY DEF Tick, Quiet, chain, panel
<1>2. /\ ChainTypes /\ ChainHolds /\ StoreHolds /\ StepHolds /\ ChecksHold /\ TxHolds
      /\ Ids' = Ids /\ now \in Nat
  BY <1>1, IdsAre DEF ReserveInv, Ids
<1>3. ChainTypes'
  BY <1>1, <1>2, ReserveNumbers DEF ChainTypes
<1>4. ChainHolds'
  <2>1. \A w \in Wallet, r \in Id : commit[w][r] <= now => commit[w][r] <= now + 1
    BY <1>2, IdsAre
  <2> QED
    BY <1>1, <1>2, <2>1 DEF ChainHolds, Commits
<1>5. ChecksHold'
  <2>1. ASSUME NEW i \in 1 .. Len(checks) PROVE CheckHolds(checks[i])'
    <3>1. PICK c : c = checks[i]
      OBVIOUS
    <3>2. CheckHolds(c) /\ c.answer = "none"
      BY <1>1, <1>2, <3>1 DEF ChecksHold
    <3>3. CheckHolds(c)'
      BY <1>1, <1>2, <3>2 DEF CheckHolds
    <3> QED
      BY <1>1, <3>1, <3>3
  <2> QED
    BY <1>1, <1>2, <2>1 DEF ChecksHold
<1>6. TxHolds'
  BY <1>1, <1>2 DEF TxHolds, Commits
<1> QED
  BY <1>1, <1>2, <1>3, <1>4, <1>5, <1>6, StoreHeld, StepSame, StoreSame DEF ReserveInv

LEMMA TransactionMet ==
  ASSUME ReserveInv, NEW fate \in {"mined", "reverted", "cancelled", "replaced"},
         NEW i \in 1 .. Len(sent), Meets(i, fate)
  PROVE  /\ sent' \in Seq(Transaction) /\ Len(sent') = Len(sent) /\ Len(sent) \in Nat
         /\ sent[i].fate = "waiting" /\ sent'[i].fate = fate
         /\ \A j \in 1 .. Len(sent) : /\ sent'[j].kind = sent[j].kind
                                      /\ sent'[j].r = sent[j].r
                                      /\ sent'[j].by = sent[j].by
                                      /\ j # i => sent'[j] = sent[j]
<1>1. sent[i].fate = "waiting" /\ sent' = [sent EXCEPT ![i].fate = fate]
  BY DEF Meets
<1>2. sent \in Seq(Transaction) /\ Len(sent) \in Nat /\ sent[i] \in Transaction
  BY IdsAre DEF ReserveInv, ChainTypes
<1>3. PICK x : x = [sent[i] EXCEPT !.fate = fate]
  OBVIOUS
<1>4. /\ x \in Transaction /\ x.fate = fate /\ x.kind = sent[i].kind
      /\ x.r = sent[i].r /\ x.by = sent[i].by
  BY <1>2, <1>3 DEF Transaction
<1>5. sent' = [sent EXCEPT ![i] = x]
  BY <1>1, <1>2, <1>3 DEF Transaction
<1>6. sent' \in Seq(Transaction) /\ Len(sent') = Len(sent)
  BY <1>2, <1>4, <1>5
<1>7. \A j \in 1 .. Len(sent) : sent'[j] = IF j = i THEN x ELSE sent[j]
  BY <1>2, <1>5
<1> QED
  BY <1>1, <1>2, <1>4, <1>6, <1>7

(* What a step of the chain leaves to show.                                *)
LEMMA ChainSteps ==
  ASSUME ReserveInv, NEW fate \in {"mined", "reverted", "cancelled", "replaced"},
         NEW i \in 1 .. Len(sent), Meets(i, fate),
         ChainTypes', ChainHolds', \A c : CheckHolds(c) => CheckHolds(c)',
         winner # None => winner' = winner
  PROVE  ReserveInv' /\ SecretsKept
<1>1. UNCHANGED <<now, made, store, wallet, step, checks, placing, registered, tx>>
  BY DEF Meets, panel
<1>2. /\ ChainTypes /\ StoreHolds /\ StepHolds /\ ChecksHold /\ TxHolds
      /\ Ids' = Ids
  BY <1>1 DEF ReserveInv, Ids
<1>3. /\ Len(sent') = Len(sent)
      /\ \A j \in 1 .. Len(sent) : sent'[j].kind = sent[j].kind /\ sent'[j].r = sent[j].r
  BY TransactionMet
<1>4. tx' = tx
  BY <1>1
<1>5. TxHolds'
  <2>1. /\ tx.kind # "none" => tx.r \in Ids /\ tx.r \in Id /\ tx.r # None
        /\ tx.kind = "register" /\ tx.status = "indexed" => winner' = tx.r
    BY <1>2, IdsAre DEF TxHolds
  <2>2. tx.status \in {"simulating", "signing"} /\ tx.kind = "commit" =>
          \A j \in 1 .. Len(sent') : ~ Commits(j, tx.r)'
    BY <1>2, <1>3, <1>4 DEF TxHolds, Commits
  <2>3. tx.status = "pending" =>
          /\ tx.id \in 1 .. Len(sent')
          /\ sent'[tx.id].kind = tx.kind /\ sent'[tx.id].r = tx.r
    BY <1>2, <1>3 DEF TxHolds
  <2>4. placing' \subseteq 1 .. Len(sent')
    BY <1>1, <1>2, <1>3 DEF TxHolds
  <2> QED
    BY <1>1, <1>2, <2>1, <2>2, <2>3, <2>4 DEF TxHolds
<1> QED
  BY <1>1, <1>2, <1>5, StoreHeld, StepSame, ChecksSame, StoreSame DEF ReserveInv

LEMMA ReserveCommits ==
  ASSUME ReserveInv, CommitLands
  PROVE  ReserveInv' /\ SecretsKept
<1>1. PICK i \in DOMAIN sent :
        /\ sent[i].kind = "commit" /\ Age(sent[i].r) < Grace /\ Meets(i, "mined")
        /\ commit' = [commit EXCEPT ![sent[i].by][sent[i].r] = now] /\ winner' = winner
  BY DEF CommitLands
<1>2. PICK q \in Ids : q = sent[i].r
  BY IdsAre DEF ReserveInv, ChainHolds
<1>3. /\ ChainTypes /\ ChainHolds /\ i \in 1 .. Len(sent)
      /\ UNCHANGED <<now, made>> /\ Ids' = Ids
  BY <1>1, IdsAre DEF ReserveInv, Meets, Ids
<1>4. /\ Ids \subseteq Id /\ q \in Id /\ now \in Nat /\ made[q].savedAt \in Nat
      /\ now - made[q].savedAt < Grace /\ now \in Time
  BY <1>1, <1>2, <1>3, IdsAre DEF Age, ChainTypes
<1>5. /\ sent' \in Seq(Transaction) /\ Len(sent') = Len(sent) /\ Len(sent) \in Nat
      /\ sent[i].fate = "waiting" /\ sent'[i].fate = "mined"
      /\ \A j \in 1 .. Len(sent) : /\ sent'[j].kind = sent[j].kind
                                   /\ sent'[j].r = sent[j].r
                                   /\ j # i => sent'[j] = sent[j]
  BY <1>1, <1>3, TransactionMet DEF ReserveInv
<1>12. PICK v \in Wallet : v = sent[i].by
  BY <1>3, IdsAre DEF Transaction
<1>6. /\ commit' \in [Wallet -> [Id -> Time]] /\ commit'[v][q] = now
      /\ \A w \in Wallet, r \in Id : w # v \/ r # q => commit'[w][r] = commit[w][r]
  <2>1. PICK f \in [Id -> Time] : f = [commit[v] EXCEPT ![q] = now]
    BY <1>3, <1>4 DEF ChainTypes
  <2>2. commit' = [commit EXCEPT ![v] = f]
    BY <1>1, <1>2, <1>12, <2>1
  <2> QED
    BY <1>3, <1>4, <2>1, <2>2 DEF ChainTypes
<1>7. \A w \in Wallet : ~ (commit[w][q] > 0)
  <2>1. ASSUME NEW w \in Wallet, commit[w][q] > 0 PROVE FALSE
    <3>1. PICK j \in 1 .. Len(sent) : Commits(j, q) /\ sent[j].fate = "mined"
      BY <1>3, <1>4, <2>1 DEF ChainHolds
    <3>2. j = i
      BY <1>1, <1>2, <1>3, <3>1 DEF ChainHolds, Commits
    <3> QED
      BY <1>5, <3>1, <3>2
  <2> QED
    BY <2>1
<1>8. ChainTypes'
  BY <1>1, <1>3, <1>5, <1>6 DEF ChainTypes
<1>9. \A j \in 1 .. Len(sent), r \in Id : Commits(j, r)' <=> Commits(j, r)
  BY <1>5 DEF Commits
<1>10. ChainHolds'
  <2>1. ASSUME NEW w \in Wallet, NEW r \in Id, commit'[w][r] > 0
        PROVE  /\ r \in Ids /\ commit'[w][r] <= now
               /\ commit'[w][r] - made[r].savedAt < Grace
               /\ \E j \in 1 .. Len(sent) : Commits(j, r)' /\ sent'[j].fate = "mined"
    <3>1. CASE r = q /\ w = v
      <4>1. Commits(i, r)' /\ sent'[i].fate = "mined"
        BY <1>1, <1>2, <1>3, <1>5, <3>1 DEF Commits
      <4> QED
        BY <1>3, <1>4, <1>6, <3>1, <4>1
    <3>2. CASE ~ (r = q /\ w = v)
      <4>1. PICK j \in 1 .. Len(sent) : Commits(j, r) /\ sent[j].fate = "mined"
        BY <1>3, <1>6, <2>1, <3>2 DEF ChainHolds
      <4>2. Commits(j, r)' /\ sent'[j].fate = "mined"
        BY <1>5, <1>9, <4>1
      <4> QED
        BY <1>3, <1>6, <2>1, <3>2, <4>2 DEF ChainHolds
    <3> QED
      BY <3>1, <3>2
  <2>2. \A j \in 1 .. Len(sent') : sent'[j].r \in Ids
    BY <1>3, <1>5 DEF ChainHolds
  <2>3. \A j, k \in 1 .. Len(sent') :
          Commits(j, sent[j].r)' /\ Commits(k, sent[j].r)' => j = k
    BY <1>3, <1>5 DEF ChainHolds, Commits
  <2>4. \A j \in 1 .. Len(sent') :
          sent'[j].kind = "register" /\ sent'[j].fate = "mined" => winner' = sent'[j].r
    BY <1>1, <1>3, <1>5 DEF ChainHolds
  <2> QED
    BY <1>3, <1>5, <2>1, <2>2, <2>3, <2>4 DEF ChainHolds
<1>11. ASSUME NEW c, CheckHolds(c) PROVE CheckHolds(c)'
  <2>3. PICK r \in Ids : r = c.r
    BY <1>11 DEF CheckHolds
  <2>4. PICK w \in Wallet : w = made[r].owner
    BY <1>3, IdsAre
  <2>5. /\ r \in Id /\ Committed(r) = commit[w][r]
        /\ Committed(r)' = commit'[w][r]
    BY <1>3, <1>4, <2>4 DEF Committed
  <2>1. CASE r = q /\ w = v
    <3>1. c.answer # "expired"
      BY <1>7, <1>11, <2>1, <2>3, <2>5 DEF CheckHolds, Stale
    <3>2. Committed(c.r)' = now'
      BY <1>3, <1>6, <2>1, <2>3, <2>5
    <3> QED
      BY <1>3, <1>11, <3>1, <3>2 DEF CheckHolds
  <2>2. CASE ~ (r = q /\ w = v)
    <3>1. Committed(r)' = Committed(r)
      BY <1>6, <2>2, <2>5
    <3>2. Stale(r)' <=> Stale(r)
      BY <1>3, <3>1 DEF Stale
    <3> QED
      BY <1>1, <1>3, <1>11, <2>3, <3>1, <3>2 DEF CheckHolds
  <2> QED
    BY <2>1, <2>2
<1> QED
  BY <1>1, <1>3, <1>8, <1>10, <1>11, ChainSteps

LEMMA ReserveRegisters ==
  ASSUME ReserveInv, RegisterLands
  PROVE  ReserveInv' /\ SecretsKept
<1>1. PICK i \in DOMAIN sent :
        /\ sent[i].kind = "register" /\ commit' = commit
        /\ \/ Registers(i) /\ Meets(i, "mined") /\ winner' = sent[i].r
           \/ ~ Registers(i) /\ Meets(i, "reverted") /\ winner' = winner
  BY DEF RegisterLands
<1>2. PICK fate \in {"mined", "reverted"} :
        /\ Meets(i, fate)
        /\ fate = "mined" => winner = None /\ winner' = sent[i].r
        /\ fate = "reverted" => winner' = winner
  BY <1>1 DEF Registers
<1>3. /\ ChainTypes /\ ChainHolds /\ i \in 1 .. Len(sent)
      /\ UNCHANGED <<now, made>> /\ Ids' = Ids /\ Ids \subseteq Id
      /\ None \notin Ids /\ sent[i].r \in Ids
  BY <1>1, <1>2, IdsAre DEF ReserveInv, Meets, Ids, ChainHolds
<1>4. /\ sent' \in Seq(Transaction) /\ Len(sent') = Len(sent) /\ Len(sent) \in Nat
      /\ sent[i].fate = "waiting" /\ sent'[i].fate = fate
      /\ \A j \in 1 .. Len(sent) : /\ sent'[j].kind = sent[j].kind
                                   /\ sent'[j].r = sent[j].r
                                   /\ j # i => sent'[j] = sent[j]
  BY <1>2, <1>3, TransactionMet DEF ReserveInv
<1>5. /\ winner' \in Ids \cup {None} /\ (winner # None => winner' = winner)
      /\ \A r \in Ids : winner = r => winner' = r
  BY <1>2, <1>3 DEF ChainTypes
<1>6. ChainTypes'
  BY <1>1, <1>3, <1>4, <1>5 DEF ChainTypes
<1>7. \A j \in 1 .. Len(sent), r \in Id : Commits(j, r)' <=> Commits(j, r)
  BY <1>4 DEF Commits
<1>8. ChainHolds'
  <2>1. ASSUME NEW w \in Wallet, NEW r \in Id, commit'[w][r] > 0
        PROVE  /\ r \in Ids /\ commit'[w][r] <= now
               /\ commit'[w][r] - made[r].savedAt < Grace
               /\ \E j \in 1 .. Len(sent) : Commits(j, r)' /\ sent'[j].fate = "mined"
    <3>1. PICK j \in 1 .. Len(sent) : Commits(j, r) /\ sent[j].fate = "mined"
      BY <1>1, <1>3, <2>1 DEF ChainHolds
    <3>2. Commits(j, r)' /\ sent'[j].fate = "mined"
      BY <1>4, <1>7, <3>1
    <3> QED
      BY <1>1, <1>3, <2>1, <3>2 DEF ChainHolds
  <2>2. \A j \in 1 .. Len(sent') : sent'[j].r \in Ids
    BY <1>3, <1>4 DEF ChainHolds
  <2>3. \A j, k \in 1 .. Len(sent') :
          Commits(j, sent[j].r)' /\ Commits(k, sent[j].r)' => j = k
    BY <1>3, <1>4 DEF ChainHolds, Commits
  <2>4. ASSUME NEW j \in 1 .. Len(sent), sent'[j].kind = "register",
               sent'[j].fate = "mined"
        PROVE  winner' = sent'[j].r
    <3>1. CASE j = i
      BY <1>2, <1>4, <2>4, <3>1
    <3>2. CASE j # i
      <4>1. winner = sent[j].r /\ sent[j].r \in Ids
        BY <1>3, <1>4, <2>4, <3>2 DEF ChainHolds
      <4> QED
        BY <1>4, <1>5, <4>1
    <3> QED
      BY <3>1, <3>2
  <2> QED
    BY <1>1, <1>3, <1>4, <2>1, <2>2, <2>3, <2>4 DEF ChainHolds
<1>9. \A c : CheckHolds(c) => CheckHolds(c)'
  BY <1>1, <1>3, <1>5 DEF CheckHolds, Stale, Committed
<1> QED
  BY <1>2, <1>3, <1>5, <1>6, <1>8, <1>9, ChainSteps

LEMMA ReserveUndone ==
  ASSUME ReserveInv, Undone
  PROVE  ReserveInv' /\ SecretsKept
<1>1. PICK i \in DOMAIN sent :
        \E fate \in {"cancelled", "replaced"} :
          Meets(i, fate) /\ commit' = commit /\ winner' = winner
  BY DEF Undone
<1>2. PICK fate \in {"cancelled", "replaced"} :
        Meets(i, fate) /\ commit' = commit /\ winner' = winner
  BY <1>1
<1>3. /\ ChainTypes /\ ChainHolds /\ i \in 1 .. Len(sent)
      /\ UNCHANGED <<now, made>> /\ Ids' = Ids
  BY <1>1, <1>2, IdsAre DEF ReserveInv, Meets, Ids
<1>4. /\ sent' \in Seq(Transaction) /\ Len(sent') = Len(sent) /\ Len(sent) \in Nat
      /\ sent[i].fate = "waiting" /\ sent'[i].fate = fate
      /\ \A j \in 1 .. Len(sent) : /\ sent'[j].kind = sent[j].kind
                                   /\ sent'[j].r = sent[j].r
                                   /\ j # i => sent'[j] = sent[j]
  BY <1>2, <1>3, TransactionMet DEF ReserveInv
<1>5. ChainTypes'
  BY <1>2, <1>3, <1>4 DEF ChainTypes
<1>6. \A j \in 1 .. Len(sent), r \in Id : Commits(j, r)' <=> Commits(j, r)
  BY <1>4 DEF Commits
<1>7. ChainHolds'
  <2>1. ASSUME NEW w \in Wallet, NEW r \in Id, commit'[w][r] > 0
        PROVE  /\ r \in Ids /\ commit'[w][r] <= now
               /\ commit'[w][r] - made[r].savedAt < Grace
               /\ \E j \in 1 .. Len(sent) : Commits(j, r)' /\ sent'[j].fate = "mined"
    <3>1. PICK j \in 1 .. Len(sent) : Commits(j, r) /\ sent[j].fate = "mined"
      BY <1>2, <1>3, <2>1 DEF ChainHolds
    <3>2. Commits(j, r)' /\ sent'[j].fate = "mined"
      BY <1>4, <1>6, <3>1
    <3> QED
      BY <1>2, <1>3, <2>1, <3>2 DEF ChainHolds
  <2>2. \A j \in 1 .. Len(sent') : sent'[j].r \in Ids
    BY <1>3, <1>4 DEF ChainHolds
  <2>3. \A j, k \in 1 .. Len(sent') :
          Commits(j, sent[j].r)' /\ Commits(k, sent[j].r)' => j = k
    BY <1>3, <1>4 DEF ChainHolds, Commits
  <2>4. \A j \in 1 .. Len(sent') :
          sent'[j].kind = "register" /\ sent'[j].fate = "mined" => winner' = sent'[j].r
    BY <1>2, <1>3, <1>4 DEF ChainHolds
  <2> QED
    BY <1>2, <1>3, <1>4, <2>1, <2>2, <2>3, <2>4 DEF ChainHolds
<1>8. \A c : CheckHolds(c) => CheckHolds(c)'
  BY <1>2, <1>3 DEF CheckHolds, Stale, Committed
<1> QED
  BY <1>2, <1>3, <1>5, <1>7, <1>8, ChainSteps

(* What the panel does of itself. A reservation it asks about is one made, *)
(* and an answer is what the chain said in this tick.                      *)
LEMMA Unanswered ==
  ASSUME ReserveInv, NEW r \in Ids
  PROVE  /\ CheckHolds([r |-> r, answer |-> "none"])
         /\ [r |-> r, answer |-> "none"] \in Check
BY IdsAre DEF ReserveInv, CheckHolds, Check

LEMMA AskedHolds ==
  ASSUME ReserveInv, NEW r \in Ids, MayAsk, checks' = Asked(r),
         UNCHANGED <<now, winner, commit, sent, made>>
  PROVE  ChecksHold'
<1>1. PICK c : c = [r |-> r, answer |-> "none"]
  OBVIOUS
<1>2. CheckHolds(c) /\ c \in Check /\ checks \in Seq(Check) /\ Len(checks) \in Nat
  BY <1>1, Unanswered DEF ReserveInv, ChecksHold
<1>3. checks' = Append(checks, c) /\ Len(checks) < MaxChecks
  BY <1>1 DEF Asked, MayAsk
<1>4. /\ checks' \in Seq(Check) /\ Len(checks') = Len(checks) + 1
      /\ \A i \in 1 .. Len(checks) : checks'[i] = checks[i]
      /\ checks'[Len(checks) + 1] = c
  BY <1>2, <1>3
<1>5. \A d : CheckHolds(d) => CheckHolds(d)'
  BY WorldSame DEF ReserveInv
<1>6. ASSUME NEW i \in 1 .. Len(checks') PROVE CheckHolds(checks[i])'
  <2>1. PICK d : d = checks'[i]
    OBVIOUS
  <2>2. CheckHolds(d)
    BY <1>2, <1>4, <2>1 DEF ReserveInv, ChecksHold
  <2> QED
    BY <1>5, <2>1, <2>2
<1>7. Len(checks') <= MaxChecks
  BY <1>2, <1>3, <1>4, ReserveNumbers
<1> QED
  BY <1>4, <1>6, <1>7 DEF ChecksHold

LEMMA TxSame ==
  ASSUME TxHolds, UNCHANGED <<winner, sent, made, tx, registered>>,
         placing' \subseteq 1 .. Len(sent)
  PROVE  TxHolds'
BY DEF TxHolds, Commits, Ids

LEMMA ReserveSwitches ==
  ASSUME ReserveInv, SwitchWallet
  PROVE  ReserveInv' /\ SecretsKept
<1>1. /\ UNCHANGED <<now, winner, commit, sent, made, store, placing, tx, registered>>
      /\ \E w \in Wallet \ {wallet} : wallet' = w /\ PicksUp(w)
  BY DEF SwitchWallet, chain
<1>2. PICK w \in Wallet : wallet' = w /\ PicksUp(w)
  BY <1>1
<1>3. /\ ChainTypes' /\ ChainHolds' /\ StoreHolds' /\ TxHolds' /\ SecretsKept
      /\ \A c : CheckHolds(c) => CheckHolds(c)'
      /\ \A s, v : StepIs(s, v) => StepIs(s, v)'
  BY <1>1, WorldSame, StoreSame, TxSame DEF ReserveInv, TxHolds
<1>4. ChecksHold'
  <2>1. CASE store[w] = None
    BY <1>2, <1>3, <2>1, ChecksSame DEF PicksUp, ReserveInv
  <2>2. CASE store[w] # None
    <3>1. store[w] \in Ids
      BY <2>2 DEF ReserveInv, StoreHolds, SavedHolds
    <3> QED
      BY <1>1, <1>2, <2>2, <3>1, AskedHolds DEF PicksUp
  <2> QED
    BY <2>1, <2>2
<1>5. StepHolds'
  <2>1. PICK s \in {NoStep, Step("checking", None, 0)} : step' = s
    BY <1>2 DEF PicksUp
  <2>2. StepIs(s, w)'
    BY <1>3, <2>1, NoStepIs
  <2>3. wallet' = w
    BY <1>2
  <2> QED
    BY <2>1, <2>2, <2>3 DEF StepHolds, StepIs
<1> QED
  BY <1>3, <1>4, <1>5 DEF ReserveInv

LEMMA ReserveReloads ==
  ASSUME ReserveInv, Reload
  PROVE  ReserveInv' /\ SecretsKept
<1>1. /\ UNCHANGED <<now, winner, commit, sent, made, store, wallet>>
      /\ checks' = IF store[wallet] = None THEN <<>>
                   ELSE <<[r |-> store[wallet], answer |-> "none"]>>
      /\ step' = IF store[wallet] = None THEN NoStep ELSE Step("checking", None, 0)
      /\ placing' = {} /\ tx' = Idle /\ registered' = FALSE
  BY DEF Reload, chain
<1>2. /\ ChainTypes' /\ ChainHolds' /\ StoreHolds' /\ SecretsKept
      /\ \A c : CheckHolds(c) => CheckHolds(c)'
      /\ \A s, v : StepIs(s, v) => StepIs(s, v)'
  BY <1>1, WorldSame, StoreSame DEF ReserveInv
<1>3. TxHolds'
  BY <1>1, NoneShown DEF TxHolds
<1>4. ChecksHold'
  <2>1. CASE store[wallet] = None
    <3>1. checks' = <<>> /\ Len(checks') = 0
      BY <1>1, <2>1
    <3> QED
      BY <3>1, ReserveNumbers DEF ChecksHold
  <2>2. CASE store[wallet] # None
    <3>1. PICK c : c = [r |-> store[wallet], answer |-> "none"]
      OBVIOUS
    <3>2. wallet \in Wallet /\ store[wallet] \in Ids
      BY <2>2 DEF ReserveInv, StepHolds, StoreHolds, SavedHolds
    <3>3. CheckHolds(c)' /\ c \in Check
      BY <1>2, <3>1, <3>2, Unanswered
    <3>4. checks' = <<c>>
      BY <1>1, <2>2, <3>1
    <3>5. checks' \in Seq(Check) /\ Len(checks') = 1 /\ checks'[1] = c
      BY <3>3, <3>4
    <3>6. \A i \in 1 .. Len(checks') : i = 1
      BY <3>5
    <3>7. Len(checks') <= MaxChecks
      BY <3>5, ReserveNumbers
    <3>8. CheckHolds(checks[1])'
      BY <3>3, <3>5
    <3> QED
      BY <3>5, <3>6, <3>7, <3>8 DEF ChecksHold
  <2> QED
    BY <2>1, <2>2
<1>5. StepHolds'
  <2>1. PICK s \in {NoStep, Step("checking", None, 0)} : step' = s
    BY <1>1
  <2>2. StepIs(s, wallet)
    BY <2>1, NoStepIs
  <2>3. \A v : StepIs(s, v) => StepIs(s, v)'
    BY <1>2
  <2>4. PICK v \in Wallet : v = wallet /\ v = wallet'
    BY <1>1 DEF ReserveInv, StepHolds
  <2>5. StepIs(s, v)'
    BY <2>2, <2>3, <2>4
  <2> QED
    BY <2>1, <2>4, <2>5 DEF StepHolds, StepIs
<1> QED
  BY <1>2, <1>3, <1>4, <1>5 DEF ReserveInv

LEMMA ReadIsTrue ==
  ASSUME ReserveInv, NEW r \in Ids, NEW p \in PhasesRead(r) \cup {"failed"}
  PROVE  CheckHolds([r |-> r, answer |-> p])
<1>1. /\ p \in Phases \cup {"none", "failed"}
      /\ p = "missing" => Committed(r) = 0 \/ winner = r \/ Committed(r) = now
      /\ p = "expired" => Stale(r)
  BY DEF PhasesRead, Phases
<1> QED
  BY <1>1, IdsAre DEF ReserveInv, CheckHolds, Check

LEMMA ReserveReads ==
  ASSUME ReserveInv, ReadAnswers
  PROVE  ReserveInv' /\ SecretsKept
<1>1. /\ UNCHANGED <<now, winner, commit, sent, made, store, wallet, step,
                     placing, tx, registered>>
      /\ \E i \in DOMAIN checks : \E p \in PhasesRead(checks[i].r) \cup {"failed"} :
            checks' = [checks EXCEPT ![i].answer = p]
  BY DEF ReadAnswers, chain
<1>2. PICK i \in DOMAIN checks : \E p \in PhasesRead(checks[i].r) \cup {"failed"} :
            checks' = [checks EXCEPT ![i].answer = p]
  BY <1>1
<1>3. PICK p \in PhasesRead(checks[i].r) \cup {"failed"} :
            checks' = [checks EXCEPT ![i].answer = p]
  BY <1>2
<1>4. /\ checks \in Seq(Check) /\ Len(checks) \in Nat /\ Len(checks) <= MaxChecks
      /\ DOMAIN checks = 1 .. Len(checks)
      /\ \A j \in 1 .. Len(checks) : CheckHolds(checks[j])
  BY DEF ReserveInv, ChecksHold
<1>5. checks[i] \in Check /\ checks[i].r \in Ids
  BY <1>4 DEF CheckHolds
<1>6. PICK c : c = [r |-> checks[i].r, answer |-> p]
  OBVIOUS
<1>7. CheckHolds(c) /\ c \in Check
  <2>1. PICK r \in Ids : r = checks[i].r
    BY <1>5
  <2>2. p \in PhasesRead(r) \cup {"failed"} /\ c = [r |-> r, answer |-> p]
    BY <1>3, <1>6, <2>1
  <2>3. CheckHolds(c)
    BY <2>2, ReadIsTrue
  <2> QED
    BY <2>3 DEF CheckHolds
<1>8. checks' = [checks EXCEPT ![i] = c]
  <2>1. c = [checks[i] EXCEPT !.answer = p]
    BY <1>5, <1>6 DEF Check
  <2> QED
    BY <1>3, <1>4, <2>1
<1>9. /\ checks' \in Seq(Check) /\ Len(checks') = Len(checks)
      /\ \A j \in 1 .. Len(checks) : checks'[j] = IF j = i THEN c ELSE checks[j]
  BY <1>4, <1>7, <1>8
<1>10. /\ ChainTypes' /\ ChainHolds' /\ StoreHolds' /\ TxHolds' /\ SecretsKept
       /\ StepHolds' /\ \A d : CheckHolds(d) => CheckHolds(d)'
  BY <1>1, WorldSame, StoreSame, StepSame, TxSame DEF ReserveInv, TxHolds
<1>11. ASSUME NEW j \in 1 .. Len(checks') PROVE CheckHolds(checks[j])'
  <2>1. PICK d : d = checks'[j]
    OBVIOUS
  <2>2. CheckHolds(d)
    BY <1>4, <1>7, <1>9, <2>1
  <2> QED
    BY <1>10, <2>1, <2>2
<1>12. ChecksHold'
  BY <1>4, <1>9, <1>11 DEF ChecksHold
<1> QED
  BY <1>10, <1>12 DEF ReserveInv

LEMMA ReserveLooks ==
  ASSUME ReserveInv, LookAgain
  PROVE  ReserveInv' /\ SecretsKept
<1>1. /\ UNCHANGED <<now, winner, commit, sent, made, store, wallet, placing, tx,
                     registered>>
      /\ step.kind = "confirming" /\ MayAsk /\ checks' = Asked(step.r)
      /\ step' = Step("checking", None, 0)
  BY DEF LookAgain, chain, Shows
<1>2. step.r \in Ids
  BY <1>1 DEF ReserveInv, StepHolds, StepIs
<1>3. ChecksHold'
  BY <1>1, <1>2, AskedHolds
<1>4. /\ ChainTypes' /\ ChainHolds' /\ StoreHolds' /\ TxHolds' /\ SecretsKept
  BY <1>1, WorldSame, StoreSame, TxSame DEF ReserveInv, TxHolds
<1>5. StepHolds'
  BY <1>1, NoneShown DEF ReserveInv, StepHolds, StepIs
<1> QED
  BY <1>3, <1>4, <1>5 DEF ReserveInv

LEMMA ShownStep ==
  ASSUME ReserveInv, NEW r \in Ids, made[r].owner = wallet,
         NEW kind \in {"confirming", "waiting", "ready"},
         NEW until \in 0 .. MaxNow + MinAge,
         UNCHANGED <<made, wallet>>, step' = Step(kind, r, until)
  PROVE  StepHolds'
<1>1. PICK s : s = Step(kind, r, until)
  OBVIOUS
<1>2. s \in PanelStep /\ s.r = r /\ r # None /\ s.kind = kind
  BY <1>1, IdsAre DEF Step, PanelStep, ReserveInv
<1>3. Ids' = Ids
  BY DEF Ids
<1> QED
  BY <1>1, <1>2, <1>3 DEF StepHolds, StepIs, ReserveInv

LEMMA Untils ==
  ASSUME ReserveInv, NEW r \in Ids, NEW w \in Wallet
  PROVE  /\ 0 \in 0 .. MaxNow + MinAge
         /\ Committed(r) + MinAge \in 0 .. MaxNow + MinAge
         /\ commit[w][r] + MinAge \in 0 .. MaxNow + MinAge
<1>1. Committed(r) \in 0 .. MaxNow /\ commit[w][r] \in 0 .. MaxNow
  BY IdsAre, ReserveNumbers DEF ReserveInv
<1> QED
  BY <1>1, ReserveNumbers

LEMMA ReserveCounts ==
  ASSUME ReserveInv, Countdown
  PROVE  ReserveInv' /\ SecretsKept
<1>1. /\ UNCHANGED <<now, winner, commit, sent, made, store, wallet, checks, placing,
                     tx, registered>>
      /\ step.kind = "waiting" /\ step' = Step("ready", step.r, 0)
  BY DEF Countdown, chain, Shows
<1>2. step.r \in Ids /\ made[step.r].owner = wallet
  BY <1>1 DEF ReserveInv, StepHolds, StepIs
<1>3. 0 \in 0 .. MaxNow + MinAge
  BY ReserveNumbers
<1>4. StepHolds'
  BY <1>1, <1>2, <1>3, ShownStep
<1>5. /\ ChainTypes' /\ ChainHolds' /\ StoreHolds' /\ TxHolds' /\ SecretsKept
      /\ ChecksHold'
  BY <1>1, WorldSame, StoreSame, TxSame, ChecksSame DEF ReserveInv, TxHolds
<1> QED
  BY <1>4, <1>5 DEF ReserveInv

(* The writes that drop nothing.                                           *)
LEMMA OthersSame ==
  ASSUME ReserveInv, UNCHANGED <<now, winner, commit, sent, made, store, wallet,
                                 step, checks>>
  PROVE  /\ ChainTypes' /\ ChainHolds' /\ StoreHolds' /\ StepHolds' /\ ChecksHold'
         /\ SecretsKept /\ Ids' = Ids
BY WorldSame, StoreSame, StepSame, ChecksSame DEF ReserveInv

LEMMA ReserveRegistersStart ==
  ASSUME ReserveInv, Register
  PROVE  ReserveInv' /\ SecretsKept
<1>1. /\ UNCHANGED <<now, winner, commit, sent, made, store, wallet, step, checks, placing>>
      /\ step.kind = "ready" /\ tx' = Running("register", step.r) /\ registered' = FALSE
  BY DEF Register, chain, Shows
<1>2. step.r \in Ids /\ step.r \in Id
  BY <1>1, IdsAre DEF ReserveInv, StepHolds, StepIs
<1>3. 0 \in 0 .. MaxSent
  BY ReserveNumbers
<1>4. PICK x : x = Running("register", step.r)
  OBVIOUS
<1>5. /\ x \in PanelTx /\ x.status = "simulating" /\ x.kind = "register" /\ x.r = step.r
  BY <1>2, <1>3, <1>4 DEF Running, PanelTx, Statuses
<1>6. tx' = x /\ placing' \subseteq 1 .. Len(sent')
  BY <1>1, <1>4, OthersSame DEF ReserveInv, TxHolds
<1>7. TxHolds'
  BY <1>1, <1>2, <1>5, <1>6, OthersSame DEF TxHolds
<1> QED
  BY <1>1, <1>7, OthersSame DEF ReserveInv

LEMMA ReserveSimulated ==
  ASSUME ReserveInv, Simulated
  PROVE  ReserveInv' /\ SecretsKept
<1>1. /\ UNCHANGED <<now, winner, commit, sent, made, store, wallet, step, checks,
                     placing, registered>>
      /\ tx.status = "simulating" /\ tx' = [tx EXCEPT !.status = "signing"]
  BY DEF Simulated, chain, panel
<1>2. tx \in PanelTx
  BY DEF ReserveInv, TxHolds
<1>3. /\ tx' \in PanelTx /\ tx'.status = "signing" /\ tx'.kind = tx.kind
      /\ tx'.r = tx.r /\ tx'.id = tx.id
  BY <1>1, <1>2 DEF PanelTx, Statuses
<1>4. TxHolds'
  BY <1>1, <1>3, OthersSame DEF TxHolds, ReserveInv, Commits
<1> QED
  BY <1>1, <1>4, OthersSame DEF ReserveInv

LEMMA ReserveConfirmed ==
  ASSUME ReserveInv, CommitConfirmed
  PROVE  ReserveInv' /\ SecretsKept
<1>1. /\ UNCHANGED <<now, winner, commit, sent, made, store, wallet, step, checks,
                     registered>>
      /\ tx.kind = "commit" /\ tx.status = "pending"
      /\ tx' = [tx EXCEPT !.status = "indexed"]
      /\ placing' = placing \cup {tx.id}
  BY DEF CommitConfirmed, chain
<1>2. tx \in PanelTx /\ tx.r \in Ids /\ tx.id \in 1 .. Len(sent)
  BY <1>1 DEF ReserveInv, TxHolds
<1>3. /\ tx' \in PanelTx /\ tx'.status = "indexed" /\ tx'.kind = "commit"
      /\ tx'.r = tx.r /\ tx'.id = tx.id
  BY <1>1, <1>2 DEF PanelTx, Statuses
<1>4. placing' \subseteq 1 .. Len(sent') /\ Ids' = Ids
  BY <1>1, <1>2, OthersSame DEF TxHolds, ReserveInv
<1>5. ~ registered
  BY <1>1 DEF ReserveInv, TxHolds
<1>6. TxHolds'
  BY <1>1, <1>2, <1>3, <1>4, <1>5 DEF TxHolds, ReserveInv
<1> QED
  BY <1>1, <1>6, OthersSame DEF ReserveInv

LEMMA ReservePlaced ==
  ASSUME ReserveInv, Placed
  PROVE  ReserveInv' /\ SecretsKept
<1>1. /\ UNCHANGED <<now, winner, commit, sent, made, store, wallet, checks, tx,
                     registered>>
      /\ \E i \in placing :
           /\ placing' = placing \ {i}
           /\ IF IsCurrent(sent[i].r)
              THEN step' = Step("waiting", sent[i].r, BlockTime(i) + MinAge)
              ELSE UNCHANGED step
  BY DEF Placed, chain
<1>2. PICK i \in placing :
        /\ placing' = placing \ {i}
        /\ IF IsCurrent(sent[i].r)
           THEN step' = Step("waiting", sent[i].r, BlockTime(i) + MinAge)
           ELSE UNCHANGED step
  BY <1>1
<1>3. i \in 1 .. Len(sent) /\ placing' \subseteq 1 .. Len(sent)
  BY <1>2 DEF ReserveInv, TxHolds
<1>6. PICK r \in Ids : r = sent[i].r
  BY <1>3 DEF ReserveInv, ChainHolds
<1>7. PICK w \in Wallet : w = sent[i].by
  BY <1>3, IdsAre DEF ReserveInv, Transaction
<1>4. StepHolds'
  <2>1. CASE IsCurrent(r)
    <3>1. PICK u \in 0 .. MaxNow + MinAge : u = commit[w][r] + MinAge
      BY Untils
    <3>2. step' = Step("waiting", r, u)
      BY <1>2, <1>6, <1>7, <2>1, <3>1 DEF BlockTime
    <3> QED
      BY <1>1, <2>1, <3>2, ShownStep DEF IsCurrent
  <2>2. CASE ~ IsCurrent(r)
    BY <1>1, <1>2, <1>6, <2>2, StepSame DEF ReserveInv
  <2> QED
    BY <2>1, <2>2
<1>5. /\ ChainTypes' /\ ChainHolds' /\ StoreHolds' /\ TxHolds' /\ SecretsKept
      /\ ChecksHold'
  BY <1>1, <1>3, WorldSame, StoreSame, TxSame, ChecksSame DEF ReserveInv
<1> QED
  BY <1>4, <1>5 DEF ReserveInv

LEMMA ReservePlacingFails ==
  ASSUME ReserveInv, PlacingFails
  PROVE  ReserveInv' /\ SecretsKept
<1>1. /\ UNCHANGED <<now, winner, commit, sent, made, store, wallet, tx, registered>>
      /\ MayAsk
      /\ \E i \in placing :
           /\ placing' = placing \ {i}
           /\ IF IsCurrent(sent[i].r)
              THEN checks' = Asked(sent[i].r) /\ step' = Step("checking", None, 0)
              ELSE UNCHANGED <<checks, step>>
  BY DEF PlacingFails, chain
<1>2. PICK i \in placing :
        /\ placing' = placing \ {i}
        /\ IF IsCurrent(sent[i].r)
           THEN checks' = Asked(sent[i].r) /\ step' = Step("checking", None, 0)
           ELSE UNCHANGED <<checks, step>>
  BY <1>1
<1>3. i \in 1 .. Len(sent) /\ placing' \subseteq 1 .. Len(sent)
  BY <1>2 DEF ReserveInv, TxHolds
<1>6. PICK r \in Ids : r = sent[i].r
  BY <1>3 DEF ReserveInv, ChainHolds
<1>4. /\ ChainTypes' /\ ChainHolds' /\ StoreHolds' /\ TxHolds' /\ SecretsKept
      /\ \A c : CheckHolds(c) => CheckHolds(c)'
  BY <1>1, <1>3, WorldSame, StoreSame, TxSame DEF ReserveInv
<1>5. StepHolds' /\ ChecksHold'
  <2>1. CASE IsCurrent(r)
    <3>1. ChecksHold'
      BY <1>1, <1>2, <1>6, <2>1, AskedHolds
    <3>2. StepHolds'
      BY <1>1, <1>2, <1>6, <2>1, NoneShown DEF ReserveInv, StepHolds, StepIs
    <3> QED
      BY <3>1, <3>2
  <2>2. CASE ~ IsCurrent(r)
    BY <1>1, <1>2, <1>4, <1>6, <2>2, StepSame, ChecksSame DEF ReserveInv
  <2> QED
    BY <2>1, <2>2
<1> QED
  BY <1>4, <1>5 DEF ReserveInv

LEMMA BroadcastHolds ==
  ASSUME ReserveInv, Broadcast, UNCHANGED <<now, winner, commit, made, checks>>
  PROVE  /\ ChainTypes' /\ ChainHolds' /\ ChecksHold'
         /\ 1 .. Len(sent) \subseteq 1 .. Len(sent')
         /\ Len(sent) + 1 \in 1 .. Len(sent') /\ Len(sent) + 1 \in 0 .. MaxSent
         /\ sent'[Len(sent) + 1].kind = tx.kind /\ sent'[Len(sent) + 1].r = tx.r
         /\ tx \in PanelTx /\ tx.kind \in {"commit", "register"} /\ tx.r \in Ids
         /\ Ids' = Ids
<1>1. /\ UNCHANGED <<now, winner, commit, made, checks>>
      /\ tx.status = "signing" /\ Len(sent) < MaxSent
      /\ sent' = Append(sent, [kind |-> tx.kind, r |-> tx.r, by |-> wallet,
                               fate |-> "waiting"])
  BY DEF Broadcast
<1>4. /\ tx \in PanelTx /\ tx.kind \in {"commit", "register"} /\ tx.r \in Ids
      /\ tx.kind = "commit" => \A i \in 1 .. Len(sent) : ~ Commits(i, tx.r)
  BY <1>1 DEF ReserveInv, TxHolds, PanelTx
<1>5. /\ ChainTypes /\ ChainHolds /\ sent \in Seq(Transaction) /\ Len(sent) \in Nat
      /\ Ids' = Ids /\ Ids \subseteq Id /\ wallet \in Wallet
  BY <1>1, IdsAre DEF ReserveInv, ChainTypes, Ids, StepHolds
<1>6. PICK t : t = [kind |-> tx.kind, r |-> tx.r, by |-> wallet, fate |-> "waiting"]
  OBVIOUS
<1>7. /\ t \in Transaction /\ t.kind = tx.kind /\ t.r = tx.r /\ t.fate = "waiting"
  BY <1>4, <1>5, <1>6 DEF Transaction
<1>8. /\ sent' \in Seq(Transaction) /\ Len(sent') = Len(sent) + 1
      /\ \A j \in 1 .. Len(sent) : sent'[j] = sent[j]
      /\ sent'[Len(sent) + 1] = t
  BY <1>1, <1>5, <1>6, <1>7
<1>9. \A j \in 1 .. Len(sent') : j \in 1 .. Len(sent) \/ j = Len(sent) + 1
  BY <1>5, <1>8
<1>10. 1 .. Len(sent) \subseteq 1 .. Len(sent') /\ Len(sent') <= MaxSent
       /\ Len(sent) + 1 \in 1 .. Len(sent') /\ Len(sent) + 1 \in 0 .. MaxSent
  BY <1>1, <1>5, <1>8, ReserveNumbers
<1>11. ChainTypes'
  BY <1>1, <1>5, <1>8, <1>10 DEF ChainTypes
<1>12. \A j \in 1 .. Len(sent), r \in Id : Commits(j, r)' <=> Commits(j, r)
  BY <1>8 DEF Commits
<1>13. ChainHolds'
  <2>1. ASSUME NEW w \in Wallet, NEW r \in Id, commit'[w][r] > 0
        PROVE  /\ r \in Ids /\ commit'[w][r] <= now
               /\ commit'[w][r] - made[r].savedAt < Grace
               /\ \E j \in 1 .. Len(sent') : Commits(j, r)' /\ sent'[j].fate = "mined"
    <3>1. PICK j \in 1 .. Len(sent) : Commits(j, r) /\ sent[j].fate = "mined"
      BY <1>1, <1>5, <2>1 DEF ChainHolds
    <3>2. Commits(j, r)' /\ sent'[j].fate = "mined" /\ j \in 1 .. Len(sent')
      BY <1>8, <1>10, <1>12, <3>1
    <3> QED
      BY <1>1, <1>5, <2>1, <3>2 DEF ChainHolds
  <2>2. \A j \in 1 .. Len(sent') : sent'[j].r \in Ids
    BY <1>4, <1>5, <1>7, <1>8, <1>9 DEF ChainHolds
  <2>3. ASSUME NEW j \in 1 .. Len(sent'), NEW k \in 1 .. Len(sent'),
               Commits(j, sent[j].r)', Commits(k, sent[j].r)'
        PROVE  j = k
    <3>1. sent'[j].kind = "commit" /\ sent'[k].kind = "commit" /\ sent'[j].r = sent'[k].r
      BY <2>3 DEF Commits
    <3>2. CASE j \in 1 .. Len(sent) /\ k \in 1 .. Len(sent)
      <4>1. Commits(j, sent[j].r) /\ Commits(k, sent[j].r)
        BY <1>8, <3>1, <3>2 DEF Commits
      <4> QED
        BY <1>5, <3>2, <4>1 DEF ChainHolds
    <3>3. CASE j \in 1 .. Len(sent) /\ k = Len(sent) + 1
      <4>1. Commits(j, tx.r) /\ tx.kind = "commit"
        BY <1>7, <1>8, <3>1, <3>3 DEF Commits
      <4> QED
        BY <1>4, <3>3, <4>1
    <3>4. CASE k \in 1 .. Len(sent) /\ j = Len(sent) + 1
      <4>1. Commits(k, tx.r) /\ tx.kind = "commit"
        BY <1>7, <1>8, <3>1, <3>4 DEF Commits
      <4> QED
        BY <1>4, <3>4, <4>1
    <3> QED
      BY <1>9, <3>2, <3>3, <3>4
  <2>4. \A j \in 1 .. Len(sent') :
          sent'[j].kind = "register" /\ sent'[j].fate = "mined" => winner' = sent'[j].r
    BY <1>1, <1>5, <1>7, <1>8, <1>9 DEF ChainHolds
  <2> QED
    BY <1>1, <1>5, <2>1, <2>2, <2>3, <2>4 DEF ChainHolds
<1>14. ChecksHold'
  <2>1. \A c : CheckHolds(c) => CheckHolds(c)'
    BY <1>1, <1>5 DEF CheckHolds, Stale, Committed
  <2> QED
    BY <1>1, <2>1, ChecksSame DEF ReserveInv
<1> QED
  BY <1>4, <1>5, <1>7, <1>8, <1>10, <1>11, <1>13, <1>14

LEMMA ReserveSubmits ==
  ASSUME ReserveInv, Submitted
  PROVE  ReserveInv' /\ SecretsKept
<1>1. /\ UNCHANGED <<now, winner, commit, made, store, wallet, step, checks, placing>>
      /\ Broadcast
      /\ tx' = [tx EXCEPT !.status = "pending", !.id = Len(sent) + 1]
  BY DEF Submitted
<1>2. registered' = (tx.kind = "register")
  BY DEF Submitted
<1>3. registered' \in BOOLEAN
  BY <1>2
<1>4. /\ ChainTypes' /\ ChainHolds' /\ ChecksHold'
      /\ 1 .. Len(sent) \subseteq 1 .. Len(sent')
      /\ Len(sent) + 1 \in 1 .. Len(sent') /\ Len(sent) + 1 \in 0 .. MaxSent
      /\ sent'[Len(sent) + 1].kind = tx.kind /\ sent'[Len(sent) + 1].r = tx.r
      /\ tx \in PanelTx /\ tx.kind \in {"commit", "register"} /\ tx.r \in Ids
      /\ Ids' = Ids
  BY <1>1, BroadcastHolds
<1>15. /\ tx' \in PanelTx /\ tx'.status = "pending" /\ tx'.kind = tx.kind
       /\ tx'.r = tx.r /\ tx'.id = Len(sent) + 1
  BY <1>1, <1>4 DEF PanelTx, Statuses
<1>16. TxHolds'
  <2>1. placing' \subseteq 1 .. Len(sent')
    BY <1>1, <1>4 DEF ReserveInv, TxHolds
  <2>2. registered' => tx'.kind = "register" /\ tx'.status \in {"pending", "indexed"}
    BY <1>2, <1>15
  <2>3. /\ tx'.id \in 1 .. Len(sent')
        /\ sent'[tx'.id].kind = tx'.kind /\ sent'[tx'.id].r = tx'.r
    BY <1>4, <1>15
  <2>4. tx'.kind # "none" /\ tx'.r \in Ids'
    BY <1>4, <1>15
  <2> QED
    BY <1>3, <1>15, <2>1, <2>2, <2>3, <2>4 DEF TxHolds
<1> QED
  BY <1>1, <1>4, <1>16, StoreHeld, StepSame, StoreSame DEF ReserveInv

LEMMA ReserveReserves ==
  ASSUME ReserveInv, Reserve
  PROVE  ReserveInv' /\ SecretsKept
<1>1. /\ UNCHANGED <<now, winner, commit, sent, wallet, step, checks, placing>>
      /\ Len(made) < MaxMade
      /\ made' = Append(made, [owner |-> wallet, savedAt |-> now])
      /\ store' = [store EXCEPT ![wallet] = Len(made) + 1]
      /\ tx' = Running("commit", Len(made) + 1) /\ registered' = FALSE
  BY DEF Reserve, chain, SavedFor
<1>2. /\ ChainTypes /\ ChainHolds /\ made \in Seq(Reservation) /\ Len(made) \in Nat
      /\ wallet \in Wallet /\ now \in Time
  BY IdsAre DEF ReserveInv, ChainTypes, StepHolds
<1>3. PICK n \in Nat : n = Len(made) + 1
  BY <1>2
<1>4. PICK m : m = [owner |-> wallet, savedAt |-> now]
  OBVIOUS
<1>5. m \in Reservation /\ m.owner = wallet /\ m.savedAt = now
  BY <1>2, <1>4 DEF Reservation
<1>6. /\ made' \in Seq(Reservation) /\ Len(made') = n
      /\ \A q \in 1 .. Len(made) : made'[q] = made[q]
      /\ made'[n] = m
  BY <1>1, <1>2, <1>3, <1>4, <1>5
<1>7. /\ Ids' = Ids \cup {n} /\ Ids' \subseteq Id /\ n \notin Ids /\ n \in Id
      /\ n # None /\ Len(made') <= MaxMade /\ \A q \in Ids : q <= n
  BY <1>1, <1>2, <1>3, <1>6, ReserveNumbers DEF Ids
<1>8. \A q \in Ids : made'[q] = made[q]
  BY <1>6 DEF Ids
<1>9. ChainTypes'
  BY <1>1, <1>2, <1>6, <1>7 DEF ChainTypes
<1>10. ChainHolds'
  <2>1. \A w \in Wallet, r \in Id : commit[w][r] > 0 =>
          commit[w][r] - made'[r].savedAt < Grace /\ r \in Ids'
    BY <1>2, <1>7, <1>8 DEF ChainHolds
  <2>2. \A i, r : Commits(i, r)' <=> Commits(i, r)
    BY <1>1 DEF Commits
  <2>3. \A w \in Wallet, r \in Id : commit[w][r] > 0 =>
          /\ commit[w][r] <= now
          /\ \E i \in 1 .. Len(sent) : Commits(i, r)' /\ sent[i].fate = "mined"
    BY <1>2, <2>2 DEF ChainHolds
  <2>4. \A i, j \in 1 .. Len(sent) :
          Commits(i, sent[i].r)' /\ Commits(j, sent[i].r)' => i = j
    BY <1>1, <1>2 DEF ChainHolds, Commits
  <2>5. \A i \in 1 .. Len(sent) :
          /\ sent[i].r \in Ids'
          /\ sent[i].kind = "register" /\ sent[i].fate = "mined" => winner = sent[i].r
    BY <1>2, <1>7 DEF ChainHolds
  <2> QED
    BY <1>1, <2>1, <2>3, <2>4, <2>5 DEF ChainHolds
<1>11. StoreHolds'
  <2>1. store \in [Wallet -> Id \cup {None}]
    BY DEF ReserveInv, StoreHolds
  <2>2. /\ store' \in [Wallet -> Id \cup {None}] /\ store'[wallet] = n
        /\ \A w \in Wallet : w # wallet => store'[w] = store[w]
    BY <1>1, <1>2, <1>3, <1>7, <2>1
  <2>3. SavedHolds(wallet, n)'
    <3>1. PICK v : v = wallet /\ v = wallet'
      BY <1>1
    <3>2. SavedHolds(v, n)'
      BY <1>5, <1>6, <1>7, <3>1 DEF SavedHolds
    <3> QED
      BY <3>1, <3>2 DEF SavedHolds
  <2>4. ASSUME NEW w \in Wallet, store'[w] # None PROVE SavedHolds(w, store[w])'
    <3>1. CASE w = wallet
      <4>1. /\ n \in Ids' /\ made'[n].owner = w
            /\ \A q \in Ids' : made'[q].owner = w => q <= n
        BY <1>5, <1>6, <1>7, <3>1
      <4> QED
        BY <2>2, <3>1, <4>1 DEF SavedHolds
    <3>2. CASE w # wallet
      <4>1. PICK r : r = store[w] /\ r = store'[w]
        BY <2>2, <3>2
      <4>2. SavedHolds(w, r)
        BY <2>4, <4>1 DEF ReserveInv, StoreHolds
      <4>3. SavedHolds(w, r)'
        BY <1>5, <1>6, <1>7, <1>8, <3>2, <4>2 DEF SavedHolds
      <4> QED
        BY <4>1, <4>3 DEF SavedHolds
    <3> QED
      BY <3>1, <3>2
  <2> QED
    BY <2>2, <2>4 DEF StoreHolds
<1>12. StepHolds'
  BY <1>1, <1>7, <1>8 DEF ReserveInv, StepHolds, StepIs
<1>13. ChecksHold'
  <2>1. \A c : CheckHolds(c) => CheckHolds(c)'
    BY <1>1, <1>7, <1>8 DEF CheckHolds, Stale, Committed
  <2> QED
    BY <1>1, <2>1, ChecksSame DEF ReserveInv
<1>14. TxHolds'
  <2>1. PICK x : x = Running("commit", n)
    OBVIOUS
  <2>2. 0 \in 0 .. MaxSent
    BY ReserveNumbers
  <2>3. x \in PanelTx /\ x.status = "simulating" /\ x.kind = "commit" /\ x.r = n
    BY <1>7, <2>1, <2>2 DEF Running, PanelTx, Statuses
  <2>4. tx' = x /\ placing' \subseteq 1 .. Len(sent')
    BY <1>1, <1>3, <1>7, <2>1 DEF ReserveInv, TxHolds
  <2>5. \A i \in 1 .. Len(sent) : ~ Commits(i, n)'
    BY <1>1, <1>2, <1>7 DEF Commits, ChainHolds
  <2>6. \A i \in 1 .. Len(sent') : ~ Commits(i, tx.r)'
    BY <1>1, <2>3, <2>4, <2>5 DEF Commits
  <2> QED
    BY <1>1, <1>7, <2>3, <2>4, <2>6 DEF TxHolds
<1>15. SecretsKept
  <2>1. ASSUME NEW w \in Wallet, NEW r \in DOMAIN made, Drops(w, r) PROVE FALSE
    <3>1. store \in [Wallet -> Id \cup {None}] /\ r # None
      BY IdsAre DEF ReserveInv, StoreHolds
    <3> QED
      BY <1>1, <1>2, <1>3, <1>7, <2>1, <3>1 DEF Drops
  <2> QED
    BY <2>1 DEF SecretsKept
<1> QED
  BY <1>9, <1>10, <1>11, <1>12, <1>13, <1>14, <1>15 DEF ReserveInv

-----------------------------------------------------------------------------
(* Secrets that are dropped. A reservation the panel lets go of is of no   *)
(* more use, and what its wallet has saved is it or a later one.           *)
LEMMA ClearedHolds ==
  ASSUME ReserveInv, NEW r \in Ids, r \in InPlay, ~ Useful(r), store' = Cleared(r),
         UNCHANGED <<now, winner, commit, sent, made>>
  PROVE  StoreHolds' /\ SecretsKept
<1>1. /\ store \in [Wallet -> Id \cup {None}]
      /\ \A w \in Wallet : store[w] # None => SavedHolds(w, store[w])
      /\ made[r].owner \in Wallet /\ None \notin Ids /\ Ids \subseteq Int /\ r \in Int
  BY IdsAre DEF ReserveInv, StoreHolds
<1>2. /\ store' \in [Wallet -> Id \cup {None}]
      /\ \A w \in Wallet : w # made[r].owner => store'[w] = store[w]
      /\ store'[made[r].owner] = None
  BY <1>1 DEF Cleared
<1>3. ASSUME NEW w \in Wallet, store'[w] # None PROVE SavedHolds(w, store[w])'
  <2>1. PICK q : q = store[w] /\ q = store'[w]
    BY <1>2, <1>3
  <2>2. SavedHolds(w, q)
    BY <1>1, <1>3, <2>1
  <2>3. SavedHolds(w, q)'
    BY <2>2, WorldSame DEF ReserveInv
  <2> QED
    BY <2>1, <2>3 DEF SavedHolds
<1>4. ASSUME NEW w \in Wallet, NEW q \in DOMAIN made, Drops(w, q), q # r
      PROVE  OlderInPlay(q)
  <2>1. q \in Ids /\ q # None /\ store[w] = q /\ q \in Int
    BY <1>1, <1>4, IdsAre DEF Drops, ReserveInv
  <2>2. w = made[r].owner
    BY <1>2, <1>4, <2>1 DEF Drops
  <2>3. SavedHolds(w, q)
    BY <1>1, <2>1
  <2>4. made[q].owner = w /\ r <= q
    BY <2>2, <2>3 DEF SavedHolds
  <2>5. r < q
    BY <1>1, <1>4, <2>1, <2>4
  <2> QED
    BY <1>1, <2>2, <2>4, <2>5 DEF OlderInPlay
<1>5. SecretsKept
  BY <1>4, UsefulSame DEF SecretsKept
<1> QED
  BY <1>2, <1>3, <1>5 DEF StoreHolds

LEMMA LandedIsNotUnderWay ==
  ASSUME ReserveInv, NEW r \in Ids, NEW i \in 1 .. Len(sent),
         Commits(i, r), sent[i].fate # "waiting"
  PROVE  ~ UnderWay(r)
<1>1. ASSUME UnderWay(r) PROVE FALSE
  <2>1. PICK j \in DOMAIN sent :
          sent[j].r = r /\ sent[j].kind = "commit" /\ sent[j].fate = "waiting"
    BY <1>1 DEF UnderWay
  <2>2. j \in 1 .. Len(sent) /\ Commits(j, sent[i].r) /\ Commits(i, sent[i].r)
    BY <2>1, IdsAre DEF ReserveInv, Commits
  <2>3. i = j
    BY <2>2 DEF ReserveInv, ChainHolds
  <2> QED
    BY <2>1, <2>3
<1> QED
  BY <1>1

LEMMA StaleIsUseless ==
  ASSUME ReserveInv, NEW r \in Ids, Stale(r)
  PROVE  ~ Useful(r)
<1>1. r \in Id /\ made[r].owner \in Wallet /\ commit[made[r].owner][r] > 0
  BY IdsAre DEF ReserveInv, Stale, Committed
<1>2. PICK i \in 1 .. Len(sent) : Commits(i, r) /\ sent[i].fate = "mined"
  BY <1>1 DEF ReserveInv, ChainHolds
<1>3. ~ UnderWay(r)
  BY <1>2, LandedIsNotUnderWay
<1> QED
  BY <1>3 DEF Useful

LEMMA MissingIsUseless ==
  ASSUME ReserveInv, NEW r \in Ids, ~ (Age(r) < Grace),
         Committed(r) = 0 \/ winner = r \/ Committed(r) = now
  PROVE  ~ Useful(r)
<1>1. /\ r \in Id /\ r # None /\ now \in Nat /\ Committed(r) \in Nat
      /\ Committed(r) > 0 => Committed(r) - made[r].savedAt < Grace
  BY IdsAre DEF ReserveInv, ChainHolds, Committed
<1>2. ~ UnderWay(r)
  BY DEF UnderWay
<1>3. CASE winner = r
  BY <1>1, <1>3 DEF Useful
<1>4. CASE Committed(r) = 0
  BY <1>2, <1>4 DEF Useful
<1>5. CASE Committed(r) = now
  <2>1. ~ (Committed(r) > 0)
    BY <1>1, <1>5 DEF Age
  <2> QED
    BY <1>2, <2>1 DEF Useful
<1> QED
  BY <1>3, <1>4, <1>5

LEMMA CheckDone ==
  ASSUME ReserveInv, NEW i \in 1 .. Len(checks), checks' = RemoveAt(checks, i),
         UNCHANGED <<now, winner, commit, sent, made>>
  PROVE  ChecksHold'
<1>1. /\ checks \in Seq(Check) /\ Len(checks) \in Nat /\ Len(checks) <= MaxChecks
      /\ \A j \in 1 .. Len(checks) : CheckHolds(checks[j])
      /\ MaxChecks \in Nat
  BY ReserveNumbers DEF ReserveInv, ChecksHold
<1>2. PICK s : s = SubSeq(checks, 1, i - 1)
  OBVIOUS
<1>3. PICK t : t = SubSeq(checks, i + 1, Len(checks))
  OBVIOUS
<1>4. /\ s \in Seq(Check) /\ Len(s) = i - 1
      /\ \A j \in 1 .. i - 1 : s[j] = checks[j]
  BY <1>1, <1>2
<1>5. /\ t \in Seq(Check) /\ Len(t) = Len(checks) - i
      /\ \A j \in 1 .. Len(checks) - i : t[j] = checks[i + j]
  BY <1>1, <1>3
<1>6. checks' = s \o t
  BY <1>2, <1>3 DEF RemoveAt
<1>7. /\ checks' \in Seq(Check) /\ Len(checks') = Len(checks) - 1
      /\ \A j \in 1 .. Len(checks') :
           checks'[j] = IF j <= i - 1 THEN s[j] ELSE t[j - (i - 1)]
  BY <1>1, <1>4, <1>5, <1>6
<1>8. ASSUME NEW j \in 1 .. Len(checks') PROVE CheckHolds(checks[j])'
  <2>1. PICK d : d = checks'[j]
    OBVIOUS
  <2>2. CheckHolds(d)
    <3>1. CASE j <= i - 1
      <4>1. d = checks[j] /\ j \in 1 .. Len(checks)
        BY <1>1, <1>4, <1>7, <2>1, <3>1
      <4> QED
        BY <1>1, <4>1
    <3>2. CASE ~ (j <= i - 1)
      <4>1. j - (i - 1) \in 1 .. Len(checks) - i
        BY <1>1, <1>7, <3>2
      <4>2. d = checks[i + (j - (i - 1))] /\ i + (j - (i - 1)) \in 1 .. Len(checks)
        BY <1>1, <1>5, <1>7, <2>1, <3>2, <4>1
      <4> QED
        BY <1>1, <4>2
    <3> QED
      BY <3>1, <3>2
  <2>3. CheckHolds(d)'
    BY <2>2, WorldSame DEF ReserveInv
  <2> QED
    BY <2>1, <2>3
<1>9. Len(checks') <= MaxChecks
  BY <1>1, <1>7
<1> QED
  BY <1>7, <1>8, <1>9 DEF ChecksHold

LEMMA StepGone ==
  ASSUME ReserveInv, step' = NoStep, UNCHANGED wallet
  PROVE  StepHolds'
BY NoneShown DEF ReserveInv, StepHolds, StepIs

LEMMA RefreshDecides ==
  ASSUME ReserveInv, NEW i \in 1 .. Len(checks), checks[i].answer # "none",
         Decide(checks[i].r, checks[i].answer), IsCurrent(checks[i].r),
         UNCHANGED <<now, winner, commit, sent, made, wallet>>
  PROVE  StepHolds' /\ StoreHolds' /\ SecretsKept
<1>1. PICK c : c = checks[i]
  OBVIOUS
<1>2. CheckHolds(c) /\ c.r \in Ids /\ c.answer \in Phases \cup {"failed"}
  BY <1>1 DEF ReserveInv, ChecksHold, CheckHolds, Check
<1>3. PICK r \in Ids : r = c.r
  BY <1>2
<1>4. PICK p \in Phases \cup {"failed"} : p = c.answer
  BY <1>2
<1>5. /\ r \in InPlay /\ made[r].owner = wallet
      /\ 0 \in 0 .. MaxNow + MinAge /\ Committed(r) + MinAge \in 0 .. MaxNow + MinAge
  BY <1>1, <1>3, IdsAre, Untils DEF InPlay, IsCurrent, ReserveInv
<1>6. Decide(r, p)
  BY <1>1, <1>3, <1>4
<1>7. UNCHANGED store => StoreHolds' /\ SecretsKept
  BY StoreHeld, StoreSame DEF ReserveInv
<1>8. CASE p = "missing" /\ WithinGrace(r)
  <2>1. step' = Step("confirming", r, 0) /\ UNCHANGED store
    BY <1>6, <1>8 DEF Decide
  <2> QED
    BY <1>5, <1>7, <2>1, ShownStep
<1>9. CASE (p = "missing" /\ ~ WithinGrace(r)) \/ p = "expired"
  <2>1. step' = NoStep /\ store' = Cleared(r)
    BY <1>6, <1>9 DEF Decide
  <2>2. ~ Useful(r)
    <3>1. CASE p = "expired"
      <4>1. Stale(r)
        BY <1>2, <1>3, <1>4, <3>1 DEF CheckHolds
      <4> QED
        BY <4>1, StaleIsUseless
    <3>2. CASE p = "missing" /\ ~ WithinGrace(r)
      <4>1. Committed(r) = 0 \/ winner = r \/ Committed(r) = now
        BY <1>2, <1>3, <1>4, <3>2 DEF CheckHolds
      <4>2. ~ (Age(r) < Grace)
        BY <3>2 DEF WithinGrace
      <4> QED
        BY <4>1, <4>2, MissingIsUseless
    <3> QED
      BY <1>9, <3>1, <3>2
  <2> QED
    BY <1>5, <2>1, <2>2, ClearedHolds, StepGone
<1>10. CASE p = "waiting"
  <2>1. step' = Step("waiting", r, Committed(r) + MinAge) /\ UNCHANGED store
    BY <1>6, <1>10 DEF Decide
  <2> QED
    BY <1>5, <1>7, <2>1, ShownStep
<1>11. CASE p \notin {"missing", "expired", "waiting"}
  <2>1. step' = Step("ready", r, 0) /\ UNCHANGED store
    BY <1>6, <1>11 DEF Decide
  <2> QED
    BY <1>5, <1>7, <2>1, ShownStep
<1> QED
  BY <1>8, <1>9, <1>10, <1>11

LEMMA ReserveRefreshes ==
  ASSUME ReserveInv, Refreshed
  PROVE  ReserveInv' /\ SecretsKept
<1>1. PICK i \in 1 .. MaxChecks : RefreshedAt(i)
  BY DEF Refreshed
<1>2. /\ UNCHANGED <<now, winner, commit, sent, made, wallet, placing, tx, registered>>
      /\ i \in DOMAIN checks /\ checks[i].answer # "none" /\ checks' = RemoveAt(checks, i)
      /\ IF IsCurrent(checks[i].r) THEN Decide(checks[i].r, checks[i].answer)
         ELSE UNCHANGED <<step, store>>
  BY <1>1 DEF RefreshedAt, chain
<1>3. i \in 1 .. Len(checks)
  BY <1>2 DEF ReserveInv, ChecksHold
<1>4. ChainTypes' /\ ChainHolds' /\ TxHolds' /\ ChecksHold'
  BY <1>2, <1>3, WorldSame, TxSame, CheckDone DEF ReserveInv, TxHolds
<1>5. StepHolds' /\ StoreHolds' /\ SecretsKept
  <2>1. CASE IsCurrent(checks[i].r)
    BY <1>2, <1>3, <2>1, RefreshDecides
  <2>2. CASE ~ IsCurrent(checks[i].r)
    BY <1>2, <2>2, StoreHeld, StoreSame, StepSame DEF ReserveInv
  <2> QED
    BY <2>1, <2>2
<1> QED
  BY <1>4, <1>5 DEF ReserveInv

(* A run that ends.                                                        *)
LEMMA FailedTx ==
  ASSUME ReserveInv, RunFails, tx.kind # "none", registered' = FALSE,
         UNCHANGED made, placing' \subseteq 1 .. Len(sent')
  PROVE  TxHolds'
<1>1. tx \in PanelTx /\ tx' = [tx EXCEPT !.status = "failed"]
  BY DEF ReserveInv, TxHolds, RunFails
<1>2. /\ tx' \in PanelTx /\ tx'.status = "failed" /\ tx'.kind = tx.kind
      /\ tx'.r = tx.r /\ tx'.id = tx.id
  BY <1>1 DEF PanelTx, Statuses
<1>3. Ids' = Ids
  BY DEF Ids
<1>4. tx.kind # "none" => tx.r \in Ids
  BY DEF ReserveInv, TxHolds
<1> QED
  <2>1. tx'.status # "idle" => tx'.kind # "none"
    BY <1>2
  <2>2. /\ tx'.kind # "none" => tx'.r \in Ids'
        /\ tx'.status \notin {"simulating", "signing", "pending", "indexed"}
    BY <1>2, <1>3, <1>4
  <2> QED
    BY <1>2, <2>1, <2>2 DEF TxHolds

LEMMA DeadIsUseless ==
  ASSUME ReserveInv, NEW r \in Ids,
         \A i \in 1 .. Len(sent) :
           Commits(i, r) => sent[i].fate \notin {"waiting", "mined"}
  PROVE  ~ Useful(r)
<1>1. r \in Id /\ DOMAIN sent = 1 .. Len(sent) /\ made[r].owner \in Wallet
  BY IdsAre DEF ReserveInv
<1>2. ~ UnderWay(r)
  BY <1>1 DEF UnderWay, Commits
<1>3. ~ (Committed(r) > 0)
  BY <1>1 DEF ReserveInv, ChainHolds, Committed
<1> QED
  BY <1>2, <1>3 DEF Useful

LEMMA CommitFails ==
  ASSUME ReserveInv, RunFails, tx.kind = "commit", CommitDead, UNCHANGED registered,
         \A i \in 1 .. Len(sent) :
           Commits(i, tx.r) => sent[i].fate \notin {"waiting", "mined"},
         UNCHANGED <<now, winner, commit, sent, made, wallet, checks, placing>>
  PROVE  ReserveInv' /\ SecretsKept
<1>1. PICK r \in Ids : r = tx.r
  BY DEF ReserveInv, TxHolds
<1>2. r \in InPlay /\ ~ Useful(r) /\ store' = Cleared(r) /\ UNCHANGED step
  BY <1>1, DeadIsUseless DEF InPlay, CommitDead
<1>3. StoreHolds' /\ SecretsKept
  BY <1>2, ClearedHolds
<1>4. registered' = FALSE
  BY DEF ReserveInv, TxHolds
<1>5. ChainTypes' /\ ChainHolds' /\ ChecksHold' /\ StepHolds'
  BY <1>2, WorldSame, ChecksSame, StepSame DEF ReserveInv
<1> QED
  BY <1>3, <1>4, <1>5, FailedTx DEF ReserveInv, TxHolds

LEMMA RegisterFails ==
  ASSUME ReserveInv, RunFails, tx.kind # "none", NEW dropped \in BOOLEAN, RevealFails(dropped),
         dropped => tx.r \in Ids /\ ~ Useful(tx.r),
         UNCHANGED <<now, winner, commit, sent, made, wallet, checks, placing>>
  PROVE  ReserveInv' /\ SecretsKept
<1>1. registered' = FALSE
  BY DEF RevealFails
<1>2. ChainTypes' /\ ChainHolds' /\ ChecksHold' /\ TxHolds'
  BY <1>1, WorldSame, ChecksSame, FailedTx DEF ReserveInv, TxHolds
<1>3. StoreHolds' /\ StepHolds' /\ SecretsKept
  <2>1. CASE dropped
    <3>1. PICK r \in Ids : r = tx.r
      BY <2>1
    <3>2. r \in InPlay /\ ~ Useful(r) /\ store' = Cleared(r) /\ step' = NoStep
      BY <2>1, <3>1 DEF InPlay, RevealFails
    <3> QED
      BY <3>2, ClearedHolds, StepGone
  <2>2. CASE ~ dropped
    BY <2>2, StoreHeld, StoreSame, StepSame DEF ReserveInv, RevealFails
  <2> QED
    BY <2>1, <2>2
<1> QED
  BY <1>2, <1>3 DEF ReserveInv

LEMMA ReserveSimulationFails ==
  ASSUME ReserveInv, SimulationFails
  PROVE  ReserveInv' /\ SecretsKept
<1>1. /\ UNCHANGED <<now, winner, commit, sent, made, wallet, checks, placing>>
      /\ tx.status = "simulating" /\ RunFails
      /\ tx.kind # "none" /\ tx.r \in Ids
  BY DEF SimulationFails, chain, ReserveInv, TxHolds
<1>2. CASE tx.kind = "commit"
  <2>1. CommitDead /\ UNCHANGED registered
    BY <1>2 DEF SimulationFails
  <2>2. \A i \in 1 .. Len(sent) : ~ Commits(i, tx.r)
    BY <1>1, <1>2 DEF ReserveInv, TxHolds
  <2> QED
    BY <1>1, <1>2, <2>1, <2>2, CommitFails
<1>3. CASE tx.kind # "commit"
  <2>1. PICK dropped \in BOOLEAN : RevealFails(dropped) /\ (dropped => CannotBeUsed(tx.r))
    BY <1>3 DEF SimulationFails
  <2>2. dropped => ~ Useful(tx.r)
    <3>1. PICK r \in Ids : r = tx.r
      BY <1>1
    <3>2. ASSUME "missing" \in PhasesRead(r), Settled(r) PROVE ~ Useful(r)
      <4>1. Committed(r) = 0 \/ winner = r \/ Committed(r) = now
        BY <3>2 DEF PhasesRead
      <4>2. ~ (Age(r) < Grace)
        <5>1. Age(r) \in Int /\ Grace \in Nat
          BY IdsAre, ReserveNumbers DEF Age, ReserveInv
        <5> QED
          BY <3>2, <5>1 DEF Settled
      <4> QED
        BY <4>1, <4>2, MissingIsUseless
    <3>3. dropped => Stale(r) \/ ("missing" \in PhasesRead(r) /\ Settled(r))
      BY <2>1, <3>1 DEF CannotBeUsed
    <3> QED
      BY <3>1, <3>2, <3>3, StaleIsUseless
  <2> QED
    BY <1>1, <2>1, <2>2, RegisterFails
<1> QED
  BY <1>2, <1>3

LEMMA ReserveRefused ==
  ASSUME ReserveInv, WalletRefuses
  PROVE  ReserveInv' /\ SecretsKept
<1>1. /\ UNCHANGED <<now, winner, commit, sent, made, wallet, checks, placing>>
      /\ tx.status = "signing" /\ RunFails /\ tx.kind # "none"
  BY DEF WalletRefuses, NotSubmitted, ReserveInv, TxHolds
<1>2. CASE tx.kind = "commit"
  <2>1. CommitDead /\ UNCHANGED registered
    BY <1>2 DEF WalletRefuses, NotSubmitted
  <2>2. \A i \in 1 .. Len(sent) : ~ Commits(i, tx.r)
    BY <1>1, <1>2 DEF ReserveInv, TxHolds
  <2> QED
    BY <1>1, <1>2, <2>1, <2>2, CommitFails
<1>3. CASE tx.kind # "commit"
  <2>1. RevealFails(FALSE)
    BY <1>3 DEF WalletRefuses, NotSubmitted
  <2> QED
    BY <1>1, <2>1, RegisterFails
<1> QED
  BY <1>2, <1>3

(* A commit that was broadcast all the same: its secret may be dropped.    *)
LEMMA ReserveUnheard ==
  ASSUME ReserveInv, SubmittedUnheard
  PROVE  ReserveInv' /\ SecretsKept
<1>1. /\ UNCHANGED <<now, winner, commit, made, wallet, checks, placing>>
      /\ Broadcast /\ RunFails
      /\ IF tx.kind = "commit" THEN CommitDead /\ UNCHANGED registered
         ELSE RevealFails(FALSE)
  BY DEF SubmittedUnheard, NotSubmitted
<1>2. /\ ChainTypes' /\ ChainHolds' /\ ChecksHold'
      /\ 1 .. Len(sent) \subseteq 1 .. Len(sent')
      /\ tx \in PanelTx /\ tx.kind \in {"commit", "register"} /\ tx.r \in Ids
      /\ Ids' = Ids
  BY <1>1, BroadcastHolds
<1>3. registered' = FALSE
  BY <1>1 DEF RevealFails, ReserveInv, TxHolds
<1>4. placing' \subseteq 1 .. Len(sent')
  BY <1>1, <1>2 DEF ReserveInv, TxHolds
<1>5. TxHolds'
  BY <1>1, <1>2, <1>3, <1>4, FailedTx
<1>6. UNCHANGED step
  BY <1>1 DEF CommitDead, RevealFails
<1>7. StepHolds'
  BY <1>1, <1>6, StepSame DEF ReserveInv
<1>8. store' = Cleared(tx.r) \/ UNCHANGED store
  BY <1>1 DEF CommitDead, RevealFails
<1>9. StoreHolds'
  <2>1. /\ store \in [Wallet -> Id \cup {None}]
        /\ \A w \in Wallet : store[w] # None => SavedHolds(w, store[w])
    BY DEF ReserveInv, StoreHolds
  <2>2. /\ store' \in [Wallet -> Id \cup {None}]
        /\ \A w \in Wallet : store'[w] # None => store'[w] = store[w]
    BY <1>8, <2>1 DEF Cleared
  <2>3. ASSUME NEW w \in Wallet, store'[w] # None PROVE SavedHolds(w, store[w])'
    <3>1. PICK q : q = store[w] /\ q = store'[w]
      BY <2>2, <2>3
    <3>2. SavedHolds(w, q)
      BY <2>1, <2>3, <3>1
    <3>3. SavedHolds(w, q)'
      BY <1>1, <1>2, <3>2 DEF SavedHolds
    <3> QED
      BY <3>1, <3>3 DEF SavedHolds
  <2> QED
    BY <2>2, <2>3 DEF StoreHolds
<1>10. Unheard
  <2>1. tx'.status = "failed"
    BY <1>1, <1>2 DEF RunFails, PanelTx
  <2>2. Len(sent') # Len(sent)
    BY <1>1, IdsAre DEF Broadcast, ReserveInv, ChainTypes
  <2> QED
    BY <2>1, <2>2 DEF Unheard
<1> QED
  BY <1>2, <1>5, <1>7, <1>9, <1>10 DEF ReserveInv, SecretsKept

LEMMA ReserveReceiptFails ==
  ASSUME ReserveInv, ReceiptFails
  PROVE  ReserveInv' /\ SecretsKept
<1>1. /\ UNCHANGED <<now, winner, commit, sent, made, wallet, checks, placing>>
      /\ RunFails
      /\ \/ tx.kind = "commit" /\ Dead /\ CommitDead /\ UNCHANGED registered
         \/ tx.kind = "commit" /\ Unsure /\ CommitUnsure /\ UNCHANGED registered
         \/ tx.kind = "register" /\ (Dead \/ Unsure) /\ RevealFails(FALSE)
  BY DEF ReceiptFails, chain
<1>2. CASE tx.kind = "commit" /\ Dead /\ CommitDead /\ UNCHANGED registered
  <2>1. /\ tx.id \in 1 .. Len(sent) /\ tx.r \in Ids
        /\ Commits(tx.id, tx.r) /\ sent[tx.id].fate \in {"reverted", "cancelled"}
    BY <1>2 DEF Dead, Fate, ReserveInv, TxHolds, Commits
  <2>2. ASSUME NEW i \in 1 .. Len(sent), Commits(i, tx.r)
        PROVE  sent[i].fate \notin {"waiting", "mined"}
    <3>1. Commits(i, sent[i].r) /\ Commits(tx.id, sent[i].r)
      BY <2>1, <2>2 DEF Commits
    <3>2. i = tx.id
      BY <2>1, <3>1 DEF ReserveInv, ChainHolds
    <3> QED
      BY <2>1, <3>2
  <2> QED
    BY <1>1, <1>2, <2>2, CommitFails
<1>3. CASE tx.kind = "commit" /\ Unsure /\ CommitUnsure /\ UNCHANGED registered
  <2>1. registered' = FALSE /\ UNCHANGED store
    BY <1>3 DEF ReserveInv, TxHolds, CommitUnsure
  <2>2. ChainTypes' /\ ChainHolds' /\ ChecksHold' /\ TxHolds' /\ StoreHolds' /\ SecretsKept
    BY <1>1, <2>1, WorldSame, ChecksSame, FailedTx, StoreSame DEF ReserveInv, TxHolds
  <2>3. StepHolds'
    <3>1. PICK r \in Ids : r = tx.r
      BY <1>3 DEF ReserveInv, TxHolds
    <3>2. 0 \in 0 .. MaxNow + MinAge
      BY ReserveNumbers
    <3>3. CASE IsCurrent(r)
      BY <1>1, <1>3, <3>1, <3>2, <3>3, ShownStep DEF IsCurrent, CommitUnsure
    <3>4. CASE ~ IsCurrent(r)
      BY <1>1, <1>3, <3>1, <3>4, StepSame DEF CommitUnsure, ReserveInv
    <3> QED
      BY <3>3, <3>4
  <2> QED
    BY <2>2, <2>3 DEF ReserveInv
<1>4. CASE tx.kind = "register" /\ (Dead \/ Unsure) /\ RevealFails(FALSE)
  BY <1>1, <1>4, RegisterFails
<1> QED
  BY <1>1, <1>2, <1>3, <1>4

LEMMA ReserveRegistered ==
  ASSUME ReserveInv, RegisterConfirmed
  PROVE  ReserveInv' /\ SecretsKept
<1>1. /\ UNCHANGED <<now, winner, commit, sent, made, wallet, checks, placing, registered>>
      /\ tx.kind = "register" /\ tx.status = "pending" /\ sent[tx.id].fate = "mined"
      /\ tx' = [tx EXCEPT !.status = "indexed"]
      /\ store' = Cleared(tx.r) /\ step' = NoStep
  BY DEF RegisterConfirmed, chain, Succeeded, Fate
<1>2. PICK r \in Ids : r = tx.r
  BY <1>1 DEF ReserveInv, TxHolds
<1>3. /\ tx.id \in 1 .. Len(sent) /\ sent[tx.id].kind = "register"
      /\ sent[tx.id].r = tx.r
  BY <1>1 DEF ReserveInv, TxHolds
<1>4. winner = r /\ r # None
  BY <1>1, <1>2, <1>3, IdsAre DEF ReserveInv, ChainHolds
<1>5. r \in InPlay /\ ~ Useful(r)
  BY <1>2, <1>4 DEF InPlay, Useful
<1>6. StoreHolds' /\ SecretsKept /\ StepHolds'
  BY <1>1, <1>2, <1>5, ClearedHolds, StepGone
<1>7. /\ tx' \in PanelTx /\ tx'.status = "indexed" /\ tx'.kind = "register"
      /\ tx'.r = r /\ Ids' = Ids
  BY <1>1, <1>2 DEF PanelTx, Statuses, ReserveInv, TxHolds, Ids
<1>8. TxHolds'
  BY <1>1, <1>2, <1>4, <1>7 DEF TxHolds, ReserveInv
<1>9. ChainTypes' /\ ChainHolds' /\ ChecksHold'
  BY <1>1, WorldSame, ChecksSame DEF ReserveInv
<1> QED
  BY <1>6, <1>8, <1>9 DEF ReserveInv

LEMMA ReserveKept ==
  ASSUME ReserveInv, [Next]_vars
  PROVE  /\ ReserveInv'
         /\ [\A w \in Wallet, r \in DOMAIN made :
               Drops(w, r) => ~ Useful(r)' \/ OlderInPlay(r) \/ Unheard]_vars
<1>1. CASE UNCHANGED vars
  <2>1. /\ UNCHANGED <<now, winner, commit, sent, made>>
        /\ UNCHANGED <<store, wallet, step, checks, placing, tx, registered>>
    BY <1>1 DEF vars
  <2>2. ReserveInv'
    BY <2>1, OthersSame, TxSame DEF ReserveInv, TxHolds
  <2> QED
    BY <1>1, <2>2
<1>2. CASE Next
  <2>1. CASE Tick \/ CommitLands \/ RegisterLands \/ Undone
    BY <2>1, ReserveTick, ReserveCommits, ReserveRegisters, ReserveUndone DEF SecretsKept
  <2>2. CASE SwitchWallet \/ Reload \/ ReadAnswers \/ Refreshed \/ LookAgain \/ Countdown
    BY <2>2, ReserveSwitches, ReserveReloads, ReserveReads, ReserveRefreshes,
       ReserveLooks, ReserveCounts DEF SecretsKept
  <2>3. CASE Reserve \/ Register \/ SimulationFails \/ Simulated \/ WalletRefuses
    BY <2>3, ReserveReserves, ReserveRegistersStart, ReserveSimulationFails,
       ReserveSimulated, ReserveRefused DEF SecretsKept
  <2>4. CASE Submitted \/ SubmittedUnheard \/ ReceiptFails \/ CommitConfirmed \/ Placed \/ PlacingFails
             \/ RegisterConfirmed
    BY <2>4, ReserveSubmits, ReserveUnheard, ReserveReceiptFails, ReserveConfirmed, ReservePlaced,
       ReservePlacingFails, ReserveRegistered DEF SecretsKept
  <2> QED
    BY <1>2, <2>1, <2>2, <2>3, <2>4 DEF Next
<1> QED
  BY <1>1, <1>2

LEMMA ReserveShows ==
  ASSUME ReserveInv
  PROVE  TypeOK /\ StepIsOnScreen /\ YoursIsTrue
<1>1. /\ ChainTypes /\ DOMAIN made = Ids /\ Ids \subseteq Id
  BY IdsAre DEF ReserveInv
<1>2. store \in [Wallet -> Ids \cup {None}]
  BY DEF ReserveInv, StoreHolds, SavedHolds
<1>3. \A w \in Wallet : store[w] # None => made[store[w]].owner = w
  BY DEF ReserveInv, StoreHolds, SavedHolds
<1>4. step \in [kind : {"none", "checking", "confirming", "waiting", "ready"},
                r : Ids \cup {None}, until : 0 .. MaxNow + MinAge]
  BY DEF ReserveInv, StepHolds, StepIs, PanelStep
<1>5. checks \in Seq([r : Ids, answer : Phases \cup {"none", "failed"}])
  <2>1. PICK S : S = [r : Ids, answer : Phases \cup {"none", "failed"}]
    OBVIOUS
  <2>2. checks \in Seq(Check) /\ \A i \in 1 .. Len(checks) : checks[i] \in S
    BY <2>1 DEF ReserveInv, ChecksHold, CheckHolds, Check
  <2>3. Len(checks) \in Nat /\ checks \in [1 .. Len(checks) -> S]
    BY <2>2
  <2>4. checks \in Seq(S)
    BY <2>3
  <2> QED
    BY <2>1, <2>4
<1>6. /\ tx \in [status : Statuses, kind : {"none", "commit", "register"},
                 r : Ids \cup {None}, id : 0 .. MaxSent]
      /\ placing \subseteq DOMAIN sent /\ registered \in BOOLEAN
  <2>1. tx.r \in Ids \cup {None}
    BY DEF ReserveInv, TxHolds
  <2> QED
    BY <2>1, IdsAre DEF ReserveInv, TxHolds, PanelTx
<1>7. TypeOK
  BY <1>1, <1>2, <1>3, <1>4, <1>5, <1>6
     DEF TypeOK, ReserveInv, ChainTypes, StepHolds, ChecksHold, Transaction, Reservation
<1> QED
  BY <1>7 DEF ReserveInv, StepHolds, StepIs, StepIsOnScreen, TxHolds, YoursIsTrue,
       JustRegistered

-----------------------------------------------------------------------------
(* All the pages. A behaviour is one of its part.                          *)
PagesInv ==
  /\ part \in {"reserve", "edit", "book", "look"}
  /\ ReserveInv
  /\ part = "edit" => EditInv
  /\ part = "book" => BookInv
  /\ part = "look" => LookInv

LEMMA PagesStarts == PagesInit => PagesInv
BY ReserveInit, EditInit, BookInit, LookInit DEF PagesInit, PagesInv

LEMMA OthersStay ==
  ASSUME UNCHANGED all
  PROVE  (EditInv => EditInv') /\ (BookInv => BookInv') /\ (LookInv => LookInv')
<1>1. /\ UNCHANGED <<record, settled, sends, edit, overlay, data, read, loadError,
                  note>>
      /\ UNCHANGED <<rows, shown, mode, draft, call, loading, were, quiet>>
      /\ UNCHANGED <<page, account, value, timer, asked, shows, preview, led,
                     accounts, holder>>
      /\ UNCHANGED <<copy, changes>>
  BY DEF all, edits, book, look
<1>2. EditInv => EditInv'
  BY <1>1 DEF EditInv, WorldTypes, CardTypes, CallsHold, EditHolds, NoteHolds
<1>3. BookInv => BookInv'
  <2>1. BookInv => RowsHold' /\ FormHolds' /\ QuietHolds'
    BY <1>1 DEF BookInv, RowsHold, FormHolds, QuietHolds, Held, Sound, K!Alone
  <2> QED
    BY <1>1, <2>1, BookSame
<1>4. LookInv => LookInv'
  <2>1. LookInv => LookTypes' /\ ServerTypes' /\ ScreenHolds'
    BY <1>1 DEF LookInv, LookTypes, ServerTypes, ScreenHolds, Shown
  <2> QED
    BY <1>1, <2>1, RequestsStay DEF LookInv
<1> QED
  BY <1>2, <1>3, <1>4

LEMMA PagesKept ==
  ASSUME PagesInv, [PagesNext]_all
  PROVE  /\ PagesInv'
         /\ [\A w \in Wallet, r \in DOMAIN made :
               Drops(w, r) => ~ Useful(r)' \/ OlderInPlay(r) \/ Unheard]_vars
         /\ [/\ part = "edit" => E!ReadsReflectTheWrite
             /\ part = "look" => L!ChecksFirst]_all
<1>1. CASE Reserves
  BY <1>1, ReserveKept DEF Reserves, PagesInv
<1>2. CASE Edits
  <2>1. /\ part = "edit" /\ part' = part /\ UNCHANGED vars /\ E!Next /\ EditInv
    BY <1>2 DEF Edits, PagesInv
  <2> QED
    BY <2>1, EditKept, EditDelivers, ReserveKept DEF PagesInv
<1>3. CASE Books
  <2>1. /\ part = "book" /\ part' = part /\ UNCHANGED vars /\ K!Next /\ BookInv
    BY <1>3 DEF Books, PagesInv
  <2> QED
    BY <2>1, BookKept, ReserveKept DEF PagesInv
<1>4. CASE Looks
  <2>1. /\ part = "look" /\ part' = part /\ UNCHANGED vars /\ L!Next /\ LookInv
    BY <1>4 DEF Looks, PagesInv
  <2> QED
    BY <2>1, LookKept, ReserveKept DEF PagesInv
<1>5. CASE UNCHANGED all
  <2>1. UNCHANGED vars /\ part' = part
    BY <1>5 DEF all
  <2> QED
    BY <1>5, <2>1, OthersStay, ReserveKept DEF PagesInv
<1> QED
  BY <1>1, <1>2, <1>3, <1>4, <1>5 DEF PagesNext

LEMMA PagesShow ==
  ASSUME PagesInv
  PROVE  PagesTypeOK /\ PagesAreTrue
<1>1. TypeOK /\ StepIsOnScreen /\ YoursIsTrue
  BY ReserveShows DEF PagesInv
<1>2. part = "edit" => /\ E!TypeOK /\ E!IndexedIsWritten
                         /\ E!NothingChangedIsTrue /\ E!OldIsReadAgain
  BY EditShows DEF PagesInv
<1>3. part = "book" => K!TypeOK /\ K!RowsWereTrue /\ K!ConfirmedIsShown
  BY BookShows DEF PagesInv
<1>4. part = "look" => L!TypeOK /\ L!SaysOfShown
  BY LookShows DEF PagesInv
<1>5. PagesTypeOK
  <2>1. CASE part = "reserve"
    BY <1>1, <2>1 DEF PagesTypeOK
  <2>2. CASE part = "edit"
    BY <1>2, <2>2 DEF PagesTypeOK
  <2>3. CASE part = "book"
    BY <1>3, <2>3 DEF PagesTypeOK
  <2>4. CASE part = "look"
    BY <1>4, <2>4 DEF PagesTypeOK
  <2> QED
    BY <2>1, <2>2, <2>3, <2>4 DEF PagesInv
<1> QED
  BY <1>1, <1>2, <1>3, <1>4, <1>5 DEF PagesAreTrue

(* The inductive invariant of every page that manages names.               *)
THEOREM PagesInvariant == PagesSpec => []PagesInv
<1>1. PagesInv /\ [PagesNext]_all => PagesInv'
  BY PagesKept
<1> QED
  BY PagesStarts, <1>1, PTL DEF PagesSpec

(* What each page keeps is what its stage says (RegisterPanel.tsx,         *)
(* NameCard.tsx, AddressManager.tsx, ClaimInput.tsx).                      *)
THEOREM PagesTypeCorrect == PagesSpec => []PagesTypeOK
<1>1. PagesInv => PagesTypeOK
  BY PagesShow
<1> QED
  BY PagesInvariant, <1>1, PTL

(* What a page says of a name, a record or an address is so, or was so     *)
(* when it asked (RegisterPanel.tsx, NameCard.tsx, AddressManager.tsx,     *)
(* LookupPanel.tsx), however late the answers, receipts and blocks come. A *)
(* record from before a write is left on screen only while it is read      *)
(* again, or with the error that offers to.                                *)
THEOREM PagesAlwaysTrue == PagesSpec => []PagesAreTrue
<1>1. PagesInv => PagesAreTrue
  BY PagesShow
<1> QED
  BY PagesInvariant, <1>1, PTL

(* No saved secret of a registration is dropped while it is of use, but    *)
(* one an older reservation of its wallet is cleared with, and the secret  *)
(* of a commit that its wallet broadcast and answered with an error        *)
(* (registration.ts, refreshStep and onFailed of RegisterPanel.tsx).       *)
THEOREM UsefulSecretsAlwaysStay == PagesSpec => UsefulSecretsStay
<1>1. PagesInv /\ [PagesNext]_all =>
        [\A w \in Wallet, r \in DOMAIN made :
           Drops(w, r) => ~ Useful(r)' \/ OlderInPlay(r) \/ Unheard]_vars
  BY PagesKept
<1> QED
  BY PagesInvariant, <1>1, PTL DEF PagesSpec, UsefulSecretsStay

(* No read that a card is given once a write is noted is from before the   *)
(* write, and no claim is entered but with a verdict on what is typed, for *)
(* the wallet on screen (reads.ts, NameCard.tsx, ClaimInput.tsx).          *)
THEOREM NoStaleAnswerIsEverUsed == PagesSpec => NoStaleAnswerIsUsed
<1>1. PagesInv /\ [PagesNext]_all =>
        [/\ part = "edit" => E!ReadsReflectTheWrite
         /\ part = "look" => L!ChecksFirst]_all
  BY PagesKept
<1> QED
  BY PagesInvariant, <1>1, PTL DEF PagesSpec, NoStaleAnswerIsUsed
=============================================================================
