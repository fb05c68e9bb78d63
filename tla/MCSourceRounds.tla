---------------------------- MODULE MCSourceRounds -----------------------------
(* Two rounds over a source with two targets; taken in either order they lead     *)
(* to the same version, so the second way to it is a duplicate.                   *)
EXTENDS SourceRounds

MCVersions == {"v0", "v1", "v2", "v3"}
MCTargetsOf == [v \in MCVersions |->
  CASE v = "v0" -> <<"t1", "t2">> [] v = "v1" -> <<"t2">> [] v = "v2" -> <<"t1", "t3">> [] v = "v3" -> <<>>]
MCRewrite == [v \in MCVersions |-> [t \in {"t1", "t2", "t3"} |->
  IF v = "v0" THEN IF t = "t1" THEN "v1" ELSE "v2"
  ELSE IF t = "t3" THEN "v0" ELSE "v3"]]
MCTemplateOf == [t \in {"t1", "t2", "t3"} |-> IF t = "t1" THEN "hoist" ELSE "reuse"]
\* Slow, middle and fast ones, and two that overlap with others.
MCSamples == {<<100, 101, 102>>, <<80, 82, 85>>, <<60, 61, 62>>, <<70, 80, 100>>, <<79, 90, 101>>}
===============================================================================
