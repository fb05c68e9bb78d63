---------------------------- MODULE MCSSHSessions ----------------------------
\* Two sessions that share a password, one with a key, two threads.
EXTENDS SSHSessions, TLC

CONSTANTS s1, s2, key, h1, h2, pw

MCSessions == {s1, s2, key}
MCHolders == {h1, h2}
MCPasswords == {pw}
MCPasswordsOf == [s \in MCSessions |-> IF s = key THEN {} ELSE {pw}]
Symmetric == Permutations({s1, s2}) \union Permutations(MCHolders)

=============================================================================
