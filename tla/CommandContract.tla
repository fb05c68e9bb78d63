--------------------------- MODULE CommandContract ---------------------------
(***************************************************************************)
(* What a caller of a cancellable command may rely on: while the           *)
(* connection is up, an answer that does not say "unverified" is given     *)
(* only when the command is not running and will not start any more.       *)
(***************************************************************************)
VARIABLES connected,  \* the connection has not broken
          command,    \* "ready", "running" or "over"
          answer      \* "none", then "finished", "stopped" or "unverified"

Init == connected = TRUE /\ command = "ready" /\ answer = "none"

Breaks ==
    /\ connected /\ connected' = FALSE
    /\ UNCHANGED <<command, answer>>

Settled == connected /\ answer \in {"finished", "stopped"}

Starts ==
    /\ command = "ready" /\ ~Settled
    /\ command' = "running"
    /\ UNCHANGED <<connected, answer>>

Ends ==
    /\ command = "running"
    /\ command' = "over"
    /\ UNCHANGED <<connected, answer>>

Answers ==
    /\ answer = "none"
    /\ answer' \in {"unverified"} \union
                   (IF connected /\ command = "running" THEN {} ELSE {"finished", "stopped"})
    /\ UNCHANGED <<connected, command>>

Next == Breaks \/ Starts \/ Ends \/ Answers

Spec == Init /\ [][Next]_<<connected, command, answer>>

=============================================================================
