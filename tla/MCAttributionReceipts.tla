------------------------- MODULE MCAttributionReceipts -------------------------
(* A collection of the trial a with its controls, and the same with one defect  *)
(* each; rows of other origin; a change of a report; the parents a and b.       *)
EXTENDS AttributionReceipts, TLC

Sha(path, n) == path[1] \o "." \o path[2] \o ToString(n)
Kinds == {"report", "config", "trace", "source"}
PathsOf(run) == [kind \in Kinds |-> <<run, kind>>]
Kernel(run) == IF run \in Modes THEN "attribution_" \o run ELSE "matmul"
IdentityOf(run) == [source_trial_id |-> run, source_sha256 |-> Sha(<<run, "source">>, 1),
                    device_id |-> "gpu0", kernel_name |-> Kernel(run), tool_version |-> "T",
                    launch_id |-> "L"]
Value(run) == CASE run = "mma" -> 8 [] run \in {"idle", "elementwise"} -> 0 [] OTHER -> 5

Report(run, n, value) == [sha |-> Sha(<<run, "report">>, n), value |-> value, error |-> FALSE]
Config(run, n, kernel) == [sha |-> Sha(<<run, "config">>, n), kernels |-> <<kernel>>, counts |-> 1,
                           custom_window |-> TRUE]
Trace(run, n, who, alone) ==
  [sha |-> Sha(<<run, "trace">>, n), identity |-> who, report |-> Sha(<<run, "report">>, 1),
   config |-> Sha(<<run, "config">>, 1), counter_scope |-> "kernel", target_only |-> alone,
   background_excluded |-> alone, counts |-> 1]
Source(run, n) == [sha |-> Sha(<<run, "source">>, n), calls |-> IF run = "mma" THEN 4 ELSE 0]

Changing == {<<"a", "report">>, <<"mma", "report">>}
\* The second version of a file is another file of its kind.
Versions(run, kind) ==
  LET first(f) == IF <<run, kind>> \in Changing THEN f ELSE <<f[1]>>
  IN CASE kind = "report" -> first(<<Report(run, 1, Value(run)), Report(run, 2, 9)>>)
       [] kind = "config" -> first(<<Config(run, 1, Kernel(run)), Config(run, 2, "other")>>)
       [] kind = "trace" -> first(<<Trace(run, 1, IdentityOf(run), TRUE), Trace(run, 2, IdentityOf(run), FALSE)>>)
       [] kind = "source" -> first(<<Source(run, 1), Source(run, 2)>>)

Runs == {"a"} \cup Modes
MCPaths == Runs \X Kinds
MCContents == [path \in MCPaths |-> Versions(path[1], path[2])]

Check(run) == [paths |-> PathsOf(run), expected |-> IdentityOf(run), observed |-> IdentityOf(run),
               hashes |-> [path \in {PathsOf(run)[kind] : kind \in Kinds} |-> Sha(path, 1)],
               counter_scope |-> "kernel", window_verified |-> TRUE, background_excluded |-> TRUE,
               counts |-> 1, observed_counts |-> 1, configured_kernels |-> <<Kernel(run)>>]
Capture(mode, n) == [mode |-> mode, repeat |-> n, value |-> Value(mode), calls |-> Source(mode, 1).calls,
                     source_sha256 |-> Sha(<<mode, "source">>, 1), report_sha256 |-> Sha(<<mode, "report">>, 1),
                     window_verified |-> TRUE, background_excluded |-> TRUE, check |-> Check(mode)]
Calibration == [tool_version |-> "T", captures |-> {Capture(mode, n) : mode \in Modes, n \in 1..2}]
\* The elementwise control shows a value of the counted instructions.
Responding == [Calibration EXCEPT !.captures =
  {IF c.mode = "elementwise"
   THEN [c EXCEPT !.value = 8, !.check = [Check("mma") EXCEPT !.expected.kernel_name = "attribution_elementwise"]]
   ELSE c : c \in @}]

MCCalibrations == [name \in {"sound", "responding"} |-> IF name = "sound" THEN Calibration ELSE Responding]

Row(run) == [own |-> [IdentityOf(run) EXCEPT !["source_trial_id"] = "absent", !["source_sha256"] = "absent"],
             scope |-> [f \in IdentityFields |-> IF f \in {"source_trial_id", "source_sha256"}
                                                 THEN IdentityOf(run)[f] ELSE "absent"],
             metric |-> "mma_duty", source |-> "mcprofiler", value |-> Value(run), unit |-> "percent",
             available |-> TRUE, requested |-> Kernel(run), window |-> TRUE, trusted |-> FALSE,
             claim |-> NoClaim]
Collection(run) == [row |-> Row(run), check |-> Check(run), calibration |-> "sound"]

MCCollections ==
  LET a == Collection("a")
  IN {a, [a EXCEPT !.row.value = 9], [a EXCEPT !.row.scope["kernel_name"] = "other"],
      [a EXCEPT !.calibration = "responding"], [a EXCEPT !.check.observed["launch_id"] = "null"]}

MCImported ==
  LET a == [Row("a") EXCEPT !.trusted = TRUE]
  IN {[a EXCEPT !.value = 9], [a EXCEPT !.source = "compiler_log"],
      [a EXCEPT !.scope["source_trial_id"] = "b", !.scope["source_sha256"] = Sha(<<"b", "source">>, 1)]}

MCParents == {[trial |-> run, source_sha256 |-> Sha(<<run, "source">>, 1), device_id |-> "gpu0",
               kernel_names |-> {"matmul"}] : run \in {"a", "b"}}
MCDefinitions == "T" :> 10
===============================================================================
