-------------------------- MODULE MCProfilerCollection --------------------------
(* Two calls over trees that differ from the usual one in one thing each:    *)
(* the texts, a secret, the counters, the number of the reports of each kind. *)
EXTENDS ProfilerCollection, TLC

CONSTANTS i1, i2

MCIds == {i1, i2}
MCFaults == {"straggler", "link", "disk"}

Usual == [reports |-> 1, report |-> 1, named |-> 1, kernel |-> 1, secret |-> FALSE, numeric |-> TRUE]

MCTrees ==
  {Usual, [Usual EXCEPT !.report = 2, !.kernel = 2], [Usual EXCEPT !.secret = TRUE],
   [Usual EXCEPT !.numeric = FALSE], [Usual EXCEPT !.named = 2],
   EmptyTree}

MCSymmetry == Permutations(MCIds)

Asks(obstacle, perKernel, append) ==
  [obstacle |-> obstacle, perKernel |-> perKernel, append |-> append]

MCRequests ==
  {Asks("none", TRUE, TRUE), Asks("none", FALSE, FALSE), Asks("secret_in_command", FALSE, FALSE)}
================================================================================
