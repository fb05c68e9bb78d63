---------------------------- MODULE MCTaskService ----------------------------
\* Two requests over the sessions the user or the requests open with one password.
EXTENDS TaskService, TLC

CONSTANTS s1, s2, r1, r2, pw

MCSessions == {s1, s2}
MCOneSession == {s1}
MCHolders == {r1, r2}
MCPasswords == {pw}
MCPasswordsOf == [s \in MCSessions |-> {pw}]
MCPasswordOfOne == [s \in MCOneSession |-> {pw}]
Symmetric == Permutations(MCSessions) \union Permutations(MCHolders)

Request(detect, ssh, optimise, fileTask) ==
    [detect |-> detect, ssh |-> ssh, optimise |-> optimise, fileTask |-> fileTask]

\* Kinds that meet at a session: a detection and the tasks with the longest path.
MCSessionKinds == {Request(TRUE, "user", FALSE, FALSE), Request(FALSE, "user", TRUE, TRUE),
                   Request(FALSE, "own", TRUE, TRUE)}

\* The same, and a task that has no session at all.
MCKinds == MCSessionKinds \union {Request(FALSE, "no", TRUE, FALSE)}

=============================================================================
