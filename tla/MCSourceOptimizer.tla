-------------------------- MODULE MCSourceOptimizer --------------------------
(***************************************************************************)
(* Small instances of SourceOptimizer.  The versions form the lattice two  *)
(* targets span: applying them in either order gives the same source, and  *)
(* undoing the first gives the baseline back, so both kinds of duplicate   *)
(* occur.  "plain" is an entry file without a target.                      *)
(***************************************************************************)
EXTENDS SourceOptimizer

CONSTANTS base, left, right, both, plain, t1, t2

MCVersions == {base, left, right, both, plain}
MCTargets == {t1, t2}

MCTargetsOf == [v \in MCVersions |-> IF v = plain THEN {} ELSE MCTargets]

MCRewrite ==
    [v \in MCVersions |-> [t \in MCTargets |->
        CASE v = base  -> IF t = t1 THEN left ELSE right
          [] v = left  -> IF t = t1 THEN base ELSE both
          [] v = right -> both
          [] OTHER     -> v]]

\* Every combination of the switches, for a source with targets and for one without.
MCRequests == {r \in TaskRecords : r.source \in {base, plain}}

AllFaults == FaultKinds

=============================================================================
