----------------------------- MODULE MCSearchLoop -----------------------------
(* Three configurations; every combination of the request's switches that a   *)
(* run distinguishes.                                                         *)
EXTENDS SearchLoop

CONSTANTS c0, c1, c2

MCConfigs == {c0, c1, c2}
MCValues == 1..2
MCFaults == {"deploy", "audit", "restore", "stop", "link", "local"}

Asks(fileTask, ssh, build, collect, patching, search) ==
  [fileTask |-> fileTask, ssh |-> ssh, build |-> build, collect |-> collect,
   patching |-> patching, search |-> search]

MCRequests ==
  {Asks(TRUE, ssh, TRUE, ssh, FALSE, FALSE) : ssh \in BOOLEAN}
    \cup {Asks(FALSE, ssh, ~ssh, ssh, TRUE, TRUE) : ssh \in BOOLEAN}
    \cup {Asks(FALSE, TRUE, FALSE, FALSE, FALSE, TRUE)}
==============================================================================
