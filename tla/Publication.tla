------------------------------ MODULE Publication ------------------------------
(***************************************************************************)
(* What an optimisation run promises of the best kernel and of its result, *)
(* however it searches: nothing before the user's own source was measured; *)
(* only sources with a complete proof are accepted; a run that returns has *)
(* published the last one it accepted if it completed and none if it       *)
(* failed, and its result is written once, with what the kernel file       *)
(* holds.  A run that an exception breaks off promises less: a result that *)
(* says failed, and a kernel that is no unproven source, but may be        *)
(* damaged or the latest one.                                              *)
(***************************************************************************)
CONSTANTS Versions, Nothing, Damaged

VARIABLES source,   \* the user's own source
          asked,    \* the user asked to stop
          proven,   \* sources that were measured, measured again and undone
          latest,   \* the source accepted last, the user's own before
          kernel,   \* the best kernel: Nothing, a source, or Damaged by a copy
          outcome,  \* "open", or how the run ends, "raised" when an exception broke it off
          report    \* the result as written: its status and its best source

publicationVars == <<source, asked, proven, latest, kernel, outcome, report>>

Open == outcome = "open"

Init ==
    /\ source \in Versions /\ asked = FALSE
    /\ proven = {} /\ latest = source
    /\ kernel = Nothing
    /\ outcome = "open" /\ report = [status |-> "running", best |-> source]

Asks ==
    /\ ~asked /\ asked' = TRUE
    /\ UNCHANGED <<source, proven, latest, kernel, outcome, report>>

\* A run that never measured the user's source ends with its result and no kernel.
EndsEarly(status) ==
    /\ Open /\ kernel = Nothing
    /\ status \in {"unavailable", "failed", "cancelled"} /\ (status = "cancelled" => asked)
    /\ outcome' = status
    /\ UNCHANGED <<source, asked, proven, latest, kernel, report>>

\* The user's source was measured.  There may be nothing to optimise in it.
Measures ==
    /\ Open /\ kernel = Nothing /\ kernel' = source
    /\ outcome' \in {outcome, "unavailable"}
    /\ UNCHANGED <<source, asked, proven, latest, report>>

Proves(v) ==
    /\ Open /\ kernel = source /\ v # source /\ proven' = proven \union {v}
    /\ UNCHANGED <<source, asked, latest, kernel, outcome, report>>

Accepts(v) ==
    /\ Open /\ kernel = source /\ ~asked /\ v \in proven /\ latest' = v
    /\ UNCHANGED <<source, asked, proven, kernel, outcome, report>>

\* The kernel file becomes the accepted source, or the copy goes wrong.
Publishes ==
    /\ Open /\ ~asked /\ kernel = source /\ latest # source
    /\ kernel' \in {latest, Damaged}
    /\ UNCHANGED <<source, asked, proven, latest, outcome, report>>

Withdraws ==
    /\ Open /\ kernel # Nothing /\ kernel' = source
    /\ UNCHANGED <<source, asked, proven, latest, outcome, report>>

\* A cancelled run shows the user's source or what was published before the cancel.
Decides(status) ==
    /\ Open /\ kernel \in {source, latest}
    /\ \/ status = "completed" /\ ~asked /\ kernel = latest
       \/ status = "cancelled" /\ asked
       \/ status = "failed" /\ kernel = source
    /\ outcome' = status
    /\ UNCHANGED <<source, asked, proven, latest, kernel, report>>

Writes ==
    /\ outcome \notin {"open", "raised"} /\ report.status = "running"
    /\ report' = [status |-> outcome, best |-> IF kernel = Nothing THEN source ELSE kernel]
    /\ UNCHANGED <<source, asked, proven, latest, kernel, outcome>>

\* An exception ends the run, and the result on disk, old, new or in pieces, is marked as
\* failed.  In an open run it may have damaged the kernel, or left the latest there.
BreaksOff ==
    /\ report.status = "running" /\ outcome' = "raised"
    /\ report' \in [status: {"failed"}, best: {source, Nothing} \union (IF Open THEN {} ELSE {kernel})]
    /\ kernel' \in {kernel} \union (IF Open THEN {source, Damaged} ELSE {})
    /\ UNCHANGED <<source, asked, proven, latest>>

Next ==
    \/ Asks \/ Measures \/ Publishes \/ Withdraws \/ Writes \/ BreaksOff
    \/ \E v \in Versions : Proves(v) \/ Accepts(v)
    \/ \E status \in {"unavailable", "completed", "cancelled", "failed"} :
          EndsEarly(status) \/ Decides(status)

Spec == Init /\ [][Next]_publicationVars

=============================================================================
