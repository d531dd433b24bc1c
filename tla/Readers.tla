------------------------------- MODULE Readers ------------------------------
(***************************************************************************)
(* Those who read a name's record through the API: a request for it on one *)
(* of the API's machines ("reads", OnchainReads), and the calls of an      *)
(* application that uses the SDK ("sdk", SdkClient). A behaviour is one of *)
(* the part it starts as, and the other stays as it is.                    *)
(***************************************************************************)
EXTENDS OnchainReads

CONSTANTS Caller, TTL, Timeout, MaxVersion, MaxTime   \* SdkClient

VARIABLES
  part,
  now, server, ended, client, calls                   \* SdkClient

K == INSTANCE SdkClient WITH cache <- client, call <- calls, Call <- Caller
ASSUME SdkHolds == K!SdkConstants

sdk == <<now, server, ended, client, calls>>
all == <<part, vars, sdk>>

NoSdk == now = 0 /\ server = 0 /\ ended = 0 /\ client = 0 /\ calls = 0
NoReads ==
  /\ head = 0 /\ owner = 0 /\ fork = 0 /\ stored = 0
  /\ synced = 0 /\ kept = 0 /\ cache = 0 /\ call = 0

ReadersInit ==
  \/ part = "reads" /\ Init /\ NoSdk
  \/ part = "sdk" /\ K!Init /\ NoReads
Reads == part = "reads" /\ Next /\ UNCHANGED <<part, sdk>>
Asks == part = "sdk" /\ K!Next /\ UNCHANGED <<part, vars>>

ReadersSpec == ReadersInit /\ [][Reads \/ Asks]_all
ReadsSpec == part = "reads" /\ Init /\ NoSdk /\ [][Reads]_all

-----------------------------------------------------------------------------
(* What both keep: a request or a call in progress holds what its stage    *)
(* says (onchainService.ts, packages/sdk/src/client.ts).                   *)
ReadersTypeOK ==
  IF part = "reads" THEN TypeOK ELSE K!TypeOK

(* What the API answers of a name, and what the SDK makes of an answer, is *)
(* true and not from before what its caller waits for                      *)
(* (onchainEventsService.ts:19, onchainService.ts:47, client.ts:46).       *)
ReadersSeeTrue ==
  /\ part = "reads" => ReadsAreSound
  /\ part = "sdk" => K!ValuesWithinWindow /\ K!ErrorsAreTrue
=============================================================================
