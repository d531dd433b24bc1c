---------------------------- MODULE StatusReport ----------------------------
(***************************************************************************)
(* The status page: the probes of web/lib/status.ts, which run side by     *)
(* side, the verdicts made of their answers, and app/status/page.tsx,      *)
(* rendered at every view and every refresh. What the probes ask changes   *)
(* while they ask it.                                                      *)
(***************************************************************************)
EXTENDS Naturals

CONSTANTS
  Old,      \* whether the API is one from before /ping read the database
  None      \* no answer

NoAnswer == Old \in BOOLEAN /\ None \notin {"200", "403", "429", "503"}

VARIABLES
  up,       \* the parts that work
  probes,   \* each probe of the view being rendered: its answer, or None
  pending,  \* those that have not ended
  down,     \* parts that did not work since these probes were sent
            \* (read by a property only)
  smooth    \* every part has worked since and no probe was cut off
            \* (read by a property only)

vars == <<up, probes, pending, down, smooth>>

(* The API's machine, its edge check, its database, and what answers a     *)
(* look-up of a name: the Base RPC, or a copy the API still has. The other *)
(* two probes, of the head and of npm, enter no verdict.                   *)
Part == {"machine", "edge", "database", "lookup"}
Probe == {"ping", "onchain"}
Health == {"ok", "degraded", "down"}
RankOf(h) == CASE h = "ok" -> 0 [] h = "degraded" -> 1 [] OTHER -> 2

(* Behind the machine and its edge. An old API's /ping reads nothing.      *)
Needs(p) ==
  CASE p = "onchain" -> {"lookup"}
    [] p = "ping" /\ ~ Old -> {"database"}
    [] OTHER -> {}

(* What a probe may answer now, unless its time is over.                   *)
Answer(p) ==
  CASE "machine" \notin up -> None
    [] "machine" \in up /\ "edge" \notin up -> "403"
    [] {"machine", "edge"} \cup Needs(p) \subseteq up -> "200"
    [] OTHER -> "503"

(* What /ping says of the database, by its status.                         *)
Database(ping) ==
  CASE Old \/ ping \notin {"200", "503"} -> "unknown"
    [] ~ Old /\ ping = "200" -> "ok"
    [] OTHER -> "unavailable"

ApiHealthByStatus(ping) == IF ping = None THEN "down" ELSE "ok"
ApiHealth(ping) ==
  CASE ping = None -> "down"
    [] ping = "200" /\ Database(ping) # "unavailable" -> "ok"
    [] ping # None /\ Database(ping) = "unavailable" -> "degraded"
    [] OTHER -> "down"

OnchainHealth(lookup) ==
  CASE lookup = "200" -> "ok" [] lookup = None -> "down" [] OTHER -> "degraded"

Worst(g, h) == IF RankOf(h) > RankOf(g) THEN h ELSE g

Report ==
  LET api == ApiHealth(probes["ping"])
      onchain == OnchainHealth(probes["onchain"])
  IN [overall |-> Worst(api, onchain), api |-> api, onchain |-> onchain]

TypeOK ==
  /\ up \subseteq Part /\ pending \subseteq Probe /\ down \subseteq Part
  /\ probes \in [Probe -> {None, "200", "403", "429", "503"}]
  /\ {Report.overall, Report.api, Report.onchain} \subseteq Health
  /\ smooth \in BOOLEAN

Unanswered == [p \in Probe |-> None]

Init ==
  /\ up \in SUBSET Part /\ probes = Unanswered /\ pending = Probe
  /\ down = Part \ up /\ smooth = (up = Part)

Breaks ==
  /\ \E part \in up : up' = up \ {part}
  /\ smooth' = FALSE
  /\ UNCHANGED <<probes, pending, down>>
Recovers ==
  /\ \E part \in Part \ up : up' = up \cup {part} /\ down' = down \ {part}
  /\ UNCHANGED <<probes, pending, smooth>>

(* A view of the page, or AutoRefresh in a visible tab: getStatus.         *)
View ==
  /\ pending = {}
  /\ pending' = Probe /\ probes' = Unanswered
  /\ down' = Part \ up /\ smooth' = (up = Part)
  /\ UNCHANGED up

Ends(p, answer) ==
  /\ p \in pending
  /\ pending' = pending \ {p} /\ probes' = [probes EXCEPT ![p] = answer]

Answers(p) == Ends(p, Answer(p)) /\ UNCHANGED <<up, down, smooth>>

(* Nothing in TIMEOUT_MS, or the look-up is over the limit of an address   *)
(* that others share.                                                      *)
CutOff(p) ==
  /\ \E answer \in {None} \cup (IF p = "onchain" THEN {"429"} ELSE {}) : Ends(p, answer)
  /\ smooth' = FALSE
  /\ UNCHANGED <<up, down>>

Next ==
  \/ Breaks \/ Recovers \/ View
  \/ \E p \in Probe : Answers(p) \/ CutOff(p)

Spec == Init /\ [][Next]_vars

-----------------------------------------------------------------------------
(* A part that did not work all the while the page was rendered shows,     *)
(* unless the API is too old to tell of its database; and nothing is said  *)
(* to be wrong when all worked (status.ts:47, "a misconfigured edge ...    *)
(* shows here as down").                                                   *)
DownShows ==
  pending = {} =>
    /\ {"machine", "edge"} \cap down # {} => Report.api = "down"
    /\ "database" \in down /\ ~ Old => Report.api # "ok"
    /\ down \ (IF Old THEN {"database"} ELSE {}) # {} => Report.overall # "ok"
    /\ smooth => Report.overall = "ok"
=============================================================================
