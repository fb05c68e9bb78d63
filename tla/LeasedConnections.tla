-------------------------- MODULE LeasedConnections --------------------------
(***************************************************************************)
(* What a store of shared connections promises its borrowers: a connection *)
(* is opened once, lent to any number of holders while it is open, and     *)
(* closed when no holder has it, possibly by the return of the last one.   *)
(***************************************************************************)
CONSTANTS Sessions, Holders, NoSession

VARIABLES open,     \* connections that work
          opened,   \* connections that were ever open
          borrowed  \* the connection each holder has

Borrowers(s) == {h \in Holders : borrowed[h] = s}

Init ==
    /\ open = {} /\ opened = {}
    /\ borrowed = [h \in Holders |-> NoSession]

Opens(s) ==
    /\ s \notin opened
    /\ open' = open \union {s} /\ opened' = opened \union {s}
    /\ UNCHANGED borrowed

Borrows(h, s) ==
    /\ s \in open /\ borrowed[h] = NoSession
    /\ borrowed' = [borrowed EXCEPT ![h] = s]
    /\ UNCHANGED <<open, opened>>

Returns(h) ==
    /\ borrowed[h] # NoSession
    /\ borrowed' = [borrowed EXCEPT ![h] = NoSession]
    /\ open' \in {open, IF Borrowers(borrowed[h]) = {h} THEN open \ {borrowed[h]} ELSE open}
    /\ UNCHANGED opened

Closes(s) ==
    /\ Borrowers(s) = {}
    /\ open' = open \ {s}
    /\ UNCHANGED <<opened, borrowed>>

Next ==
    \/ \E s \in Sessions : Opens(s) \/ Closes(s)
    \/ \E h \in Holders : Returns(h) \/ \E s \in Sessions : Borrows(h, s)

Spec == Init /\ [][Next]_<<open, opened, borrowed>>

=============================================================================
