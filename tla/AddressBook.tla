----------------------------- MODULE AddressBook ----------------------------
(***************************************************************************)
(* The wallets of the dashboard: components/dashboard/AddressManager.tsx,   *)
(* refreshResolution of Dashboard.tsx and the signer of lib/verify.ts. The *)
(* page keeps a copy of the account's addresses, and replaces it by what   *)
(* the changes it asks for answer, or by re-reading /resolve, which may be *)
(* a cached copy. The requests themselves are those of Addresses.          *)
(***************************************************************************)
EXTENDS Naturals

CONSTANTS
  Chain,       \* the rows
  Verifiable,  \* the chains whose addresses can be verified
  Address,     \* well-formed addresses
  Own,         \* <<chain, address>> of the wallet that signed in
  Before,      \* the addresses when the page is opened
  None,        \* no address; a draft that is none
  MaxChanges   \* bound: changes made elsewhere, and drafts sent from here

VARIABLES
  server,    \* wallet_mappings of the account
  copy,      \* what some machine's cache would answer to /resolve
  shown,     \* resolution: the rows on screen, or None
  mode,      \* the row being edited or about to be removed
  draft,     \* what its field holds
  call,      \* saving, removing, verifying: the request of each
  loading,   \* the dashboard's own /resolve is under way
  were,      \* every row the server held (read by a property only)
  changes,   \* changes so far (bounded by MaxChanges)
  quiet      \* the request that has been the only one since it was sent,
             \* "yes" when it was confirmed and nothing changed since, or
             \* "no" (read by a property only)

vars == <<server, copy, shown, mode, draft, call, loading,
          were, changes, quiet>>
page == <<shown, mode, draft, call, loading>>

Row == [address : Address \cup {None}, verified : BOOLEAN]
Rows == [Chain -> Row]
NoRow == [address |-> None, verified |-> FALSE]

AddressBookConstants ==
  /\ Verifiable \subseteq Chain /\ None \notin Address /\ None \notin Rows
  /\ Before \in Rows
  /\ \A c \in Chain : Before[c].address = None => Before[c] = NoRow
  /\ MaxChanges \in Nat

Idle == [is |-> "idle"]
Editing(c) == [is |-> "editing", chain |-> c]
Confirming(c) == [is |-> "confirming", chain |-> c]

(* A request of each kind at a time. Its answer is the new rows, an error  *)
(* of the API, ADDRESS_NOT_FOUND, or another failure.                      *)
Kind == {"save", "remove", "verify"}
NoCall == [at |-> "idle", chain |-> None]
Asks(c, a) == [at |-> "asks", chain |-> c, address |-> a]
Signs(c, a, target) == [at |-> "signs", chain |-> c, address |-> a, target |-> target]
Submits(c, a, target) == [at |-> "submits", chain |-> c, address |-> a, target |-> target]
Answered(c, answer) == [at |-> "answered", chain |-> c, answer |-> answer]
Rereads(c) == [at |-> "rereads", chain |-> c]
NewRows(rows) == [is |-> "rows", rows |-> rows]
ApiError == [is |-> "error"]
NotFound == [is |-> "not found"]
Failure == [is |-> "failure"]
Answers == {NewRows(rows) : rows \in Rows} \cup {ApiError, NotFound, Failure}

TypeOK ==
  /\ server \in Rows /\ copy \in Rows /\ shown \in Rows \cup {None}
  /\ mode \in {Idle} \cup {Editing(c) : c \in Chain} \cup {Confirming(c) : c \in Chain}
  /\ draft \in Address \cup {None} /\ loading \in BOOLEAN
  /\ \A k \in Kind :
       /\ call[k].at \in {"idle", "asks", "signs", "submits", "answered", "rereads"}
       /\ call[k] # NoCall => call[k].chain \in Chain /\ shown # None
       /\ call[k].at = "answered" => call[k].answer \in Answers
       /\ call[k].at \in {"signs", "submits"} => k = "verify"
  /\ changes \in 0 .. MaxChanges /\ quiet \in Kind \cup {"yes", "no"}

Init ==
  /\ server = Before
  /\ copy = server /\ shown = None
  /\ mode = Idle /\ draft = None
  /\ call = [k \in Kind |-> NoCall] /\ loading = TRUE
  /\ were = [c \in Chain |-> {server[c]}]
  /\ changes = 0 /\ quiet = "no"

-----------------------------------------------------------------------------
(* The account's addresses on the server.                                  *)

Becomes(rows) ==
  /\ server' = rows
  /\ were' = [c \in Chain |-> were[c] \cup {rows[c]}]

With(c, a) == [server EXCEPT ![c] = IF @.address = a THEN @
                                    ELSE [address |-> a, verified |-> <<c, a>> \in Own]]
Without(rows, c) == [rows EXCEPT ![c] = NoRow]
Verified(c) == [server EXCEPT ![c].verified = TRUE]

(* The same account changed in another tab or on another device.           *)
Elsewhere ==
  /\ changes < MaxChanges
  /\ changes' = changes + 1 /\ quiet' = "no"
  /\ \/ \E c \in Chain, a \in Address : Becomes(With(c, a))
     \/ \E c \in Chain : Becomes(Without(server, c))
     \/ \E c \in Verifiable : server[c].address # None /\ Becomes(Verified(c))
  /\ UNCHANGED <<copy, page>>

CacheExpires ==
  /\ copy # server
  /\ copy' = server
  /\ UNCHANGED <<server, page, were, changes, quiet>>

-----------------------------------------------------------------------------
(* The rows.                                                               *)

(* refreshResolution without an argument; the last good one is kept.       *)
Reread == shown' \in {server, copy, shown}

Loads ==
  /\ loading /\ loading' = FALSE
  /\ Reread
  /\ UNCHANGED <<server, copy, mode, draft, call, were, changes, quiet>>

(* The page is reloaded when it has no rows to show.                       *)
Reload ==
  /\ shown = None /\ ~ loading
  /\ loading' = TRUE
  /\ UNCHANGED <<server, copy, shown, mode, draft, call, were, changes, quiet>>

(* Which buttons a row shows: a row being verified, edited or removed      *)
(* offers neither of the others.                                           *)
Free(c) ==
  /\ shown # None
  /\ mode \notin {Editing(c), Confirming(c)}
  /\ call["verify"].chain # c

StartEdit(c) ==
  /\ Free(c)
  /\ mode' = Editing(c) /\ draft' = shown[c].address
  /\ UNCHANGED <<server, copy, shown, call, loading, were, changes, quiet>>

AskRemove(c) ==
  /\ Free(c) /\ shown[c].address # None
  /\ mode' = Confirming(c) /\ draft' = None
  /\ UNCHANGED <<server, copy, shown, call, loading, were, changes, quiet>>

(* The field is told apart only while it is shown.                         *)
Closed == mode' = Idle /\ draft' = None

(* Cancel and Keep.                                                        *)
Reset ==
  /\ \/ mode.is = "editing" /\ call["save"] = NoCall
     \/ mode.is = "confirming" /\ call["remove"] = NoCall
  /\ Closed
  /\ UNCHANGED <<server, copy, shown, call, loading, were, changes, quiet>>

Type ==
  /\ mode.is = "editing"
  /\ draft' \in (Address \cup {None}) \ {draft}
  /\ UNCHANGED <<server, copy, shown, mode, call, loading, were, changes, quiet>>

Alone == \A k \in Kind : call[k] = NoCall

Start(k, request) ==
  /\ call[k] = NoCall
  /\ call' = [call EXCEPT ![k] = request]
  /\ quiet' = IF Alone THEN k ELSE "no"

(* The form: a draft that is no address only says so, one that is the      *)
(* address shown closes the form.                                          *)
Save(c) ==
  /\ mode = Editing(c) /\ call["save"] = NoCall /\ draft # None
  /\ \/ /\ draft = shown[c].address
        /\ Closed
        /\ UNCHANGED <<call, quiet, changes>>
     \/ /\ draft # shown[c].address /\ changes < MaxChanges
        /\ Start("save", Asks(c, draft)) /\ changes' = changes + 1
        /\ UNCHANGED <<mode, draft>>
  /\ UNCHANGED <<server, copy, shown, loading, were>>

Remove(c) ==
  /\ mode = Confirming(c) /\ changes < MaxChanges
  /\ Start("remove", Asks(c, None)) /\ changes' = changes + 1
  /\ UNCHANGED <<server, copy, shown, mode, draft, loading, were>>

Verify(c) ==
  /\ Free(c) /\ c \in Verifiable
  /\ shown[c].address # None /\ ~ shown[c].verified
  /\ Start("verify", Asks(c, shown[c].address))
  /\ UNCHANGED <<server, copy, shown, mode, draft, loading, were, changes>>

-----------------------------------------------------------------------------
(* The requests. Each may also fail, before the server did what it asks or *)
(* after; then the rows are read again if it was the API that said so.     *)

Answer(k, answer) == call' = [call EXCEPT ![k] = Answered(call[k].chain, answer)]

AtServer == <<copy, shown, mode, draft, loading, changes, quiet>>

Fails(k) ==
  /\ call[k].at \in {"asks", "signs", "submits"}
  /\ \/ Answer(k, ApiError) \/ Answer(k, Failure)
  /\ \/ UNCHANGED <<server, were>>
     \/ call[k].at = "asks" /\ k = "save" /\ Becomes(With(call[k].chain, call[k].address))
     \/ call[k].at = "asks" /\ k = "remove" /\ Becomes(Without(server, call[k].chain))
     \/ /\ call[k].at = "submits" /\ server[call[k].chain].address = call[k].target
        /\ call[k].address = call[k].target /\ Becomes(Verified(call[k].chain))
  /\ UNCHANGED AtServer

Saves ==
  /\ call["save"].at = "asks"
  /\ Becomes(With(call["save"].chain, call["save"].address))
  /\ Answer("save", NewRows(server'))
  /\ UNCHANGED AtServer

Removes ==
  /\ call["remove"].at = "asks"
  /\ LET c == call["remove"].chain IN
       IF server[c].address = None
       THEN Answer("remove", NotFound) /\ UNCHANGED <<server, were>>
       ELSE Becomes(Without(server, c)) /\ Answer("remove", NewRows(server'))
  /\ UNCHANGED AtServer

(* The message names the address mapped by then; the wallet is asked for a *)
(* signature of the one on screen.                                         *)
Challenges ==
  /\ call["verify"].at = "asks"
  /\ LET v == call["verify"] IN
       IF server[v.chain].address = None
       THEN Answer("verify", ApiError)
       ELSE call' = [call EXCEPT !["verify"] =
                       Signs(v.chain, v.address, server[v.chain].address)]
  /\ UNCHANGED <<server, were>> /\ UNCHANGED AtServer

(* signWith: the wallet holds the key and agrees, or Fails.                *)
SignsIt ==
  /\ call["verify"].at = "signs"
  /\ LET v == call["verify"] IN
       call' = [call EXCEPT !["verify"] = Submits(v.chain, v.address, v.target)]
  /\ UNCHANGED <<server, were>> /\ UNCHANGED AtServer

(* INVALID_SIGNATURE, ADDRESS_CHANGED, or verified.                        *)
Verifies ==
  /\ call["verify"].at = "submits"
  /\ LET v == call["verify"] IN
       IF v.address # v.target \/ server[v.chain].address # v.target
       THEN Answer("verify", ApiError) /\ UNCHANGED <<server, were>>
       ELSE Becomes(Verified(v.chain)) /\ Answer("verify", NewRows(server'))
  /\ UNCHANGED AtServer

(* onChanged with what the server answered ...                             *)
Applies(k) == shown' = call[k].answer.rows

Ends(k) ==
  /\ call' = [call EXCEPT ![k] = NoCall]
  /\ IF k = "verify" THEN UNCHANGED <<mode, draft>> ELSE Closed

Delivers(k) ==
  /\ call[k].at = "answered" /\ call[k].answer.is = "rows"
  /\ Applies(k) /\ Ends(k)
  /\ quiet' = IF quiet = k THEN "yes" ELSE "no"
  /\ UNCHANGED <<server, copy, loading, were, changes>>

(* ... with a row dropped, when it was gone already ...                    *)
DeliversGone ==
  /\ call["remove"].at = "answered" /\ call["remove"].answer = NotFound
  /\ shown' = Without(shown, call["remove"].chain)
  /\ Ends("remove") /\ quiet' = "no"
  /\ UNCHANGED <<server, copy, loading, were, changes>>

(* ... or with nothing: the rows are read again.                           *)
DeliversError(k) ==
  /\ call[k].at = "answered" /\ call[k].answer = ApiError
  /\ call' = [call EXCEPT ![k] = Rereads(call[k].chain)] /\ quiet' = "no"
  /\ UNCHANGED <<server, copy, shown, mode, draft, loading, were, changes>>
Resyncs(k) ==
  /\ call[k].at = "rereads"
  /\ Reread
  /\ call' = [call EXCEPT ![k] = NoCall]
  /\ IF k = "remove" THEN Closed ELSE UNCHANGED <<mode, draft>>
  /\ UNCHANGED <<server, copy, loading, were, changes, quiet>>
DeliversFailure(k) ==
  /\ call[k].at = "answered" /\ call[k].answer = Failure
  /\ call' = [call EXCEPT ![k] = NoCall]
  /\ IF k = "remove" THEN Closed ELSE UNCHANGED <<mode, draft>>
  /\ quiet' = "no"
  /\ UNCHANGED <<server, copy, shown, loading, were, changes>>

Next ==
  \/ Elsewhere \/ CacheExpires \/ Loads \/ Reload \/ Reset \/ Type
  \/ \E c \in Chain : StartEdit(c) \/ AskRemove(c) \/ Save(c) \/ Remove(c) \/ Verify(c)
  \/ Saves \/ Removes \/ Challenges \/ SignsIt \/ Verifies
  \/ \E k \in Kind : \/ Fails(k) \/ Delivers(k) \/ DeliversError(k)
                     \/ Resyncs(k) \/ DeliversFailure(k)
  \/ DeliversGone

Spec == Init /\ [][Next]_vars

-----------------------------------------------------------------------------
(* A row shows what the server held at some time, and never an address as  *)
(* verified that it did not have verified, in whatever order the answers   *)
(* of three requests and of a cache arrive (AddressManager.tsx:79).        *)
RowsWereTrue == shown # None => \A c \in Chain : shown[c] \in were[c]

(* After a change that was confirmed, nothing else being under way, the    *)
(* rows are the server's, though a cache may still hold older ones         *)
(* (Dashboard.tsx:111, "so the UI never re-reads a cached /resolve").      *)
ConfirmedIsShown == quiet = "yes" => shown = server
=============================================================================
