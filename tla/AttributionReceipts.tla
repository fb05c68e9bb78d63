-------------------------- MODULE AttributionReceipts --------------------------
(* When a counter of mcProfiler may be used as evidence: the validation of a    *)
(* collected row against its artifacts, the receipt it leaves in this process,  *)
(* the row in metric_observations.jsonl, and its use by a round that plans.     *)
(*                                                                              *)
(* A file is at one of its versions and never goes back to an earlier one; its  *)
(* hash names the version.  One call that hashes and reads is one step.  Of the *)
(* identity fields device_id also stands for shape_id and dtype, tool_version   *)
(* for tool_build and gpu_model, launch_id for the optional fields.             *)
EXTENDS Integers, Sequences, FiniteSets

CONSTANTS Paths,           \* the files of all workspaces
          Contents,        \* the versions of each file
          Collections,     \* what the collector may validate: row, artifacts, calibration
          Calibrations,    \* the control captures a collection may be validated with
          Imported,        \* rows that may come from elsewhere, claiming anything
          Parents,         \* parents of a round: trial, hash, device, kernel
          Definitions,     \* documented metric definitions by tool: their spread limit
          NativeReaders,   \* tools whose launch trace can be read
          MaxReceipts, MaxChanges, MaxRestarts, MaxRows

ASSUME ReceiptsAssumption == MaxReceipts \in Nat \ {0}
ASSUME RowsAssumption ==
  \A row \in Imported \cup {c.row : c \in Collections} :
    {"metric", "source", "own", "scope", "value", "unit", "available", "requested",
     "window", "claim", "trusted"} \subseteq DOMAIN row
ASSUME ChecksAssumption ==
  \A c \in Collections :
    /\ {"paths", "hashes"} \subseteq DOMAIN c.check
    /\ \A kind \in DOMAIN c.check.paths : c.check.paths[kind] \in Paths
\* A hash names one version of its file.
ASSUME VersionsAssumption ==
  \A path \in Paths :
    /\ Len(Contents[path]) \in Nat \ {0} /\ DOMAIN Contents[path] = 1..Len(Contents[path])
    /\ \A i, j \in DOMAIN Contents[path] : Contents[path][i].sha = Contents[path][j].sha => i = j

IdentityFields == {"source_trial_id", "source_sha256", "device_id", "kernel_name",
                   "tool_version", "launch_id"}
Required == IdentityFields \ {"launch_id"}
Modes == {"idle", "elementwise", "mma"}
NoClaim == [process |-> -1]
NoRow == [metric |-> "none"]

VARIABLES version,       \* of each file
          process,       \* the run of the backend: its receipt key
          receipts,      \* _RECEIPTS, oldest first
          validation,    \* the validation in progress
          rows,          \* metric_observations.jsonl
          use,           \* the row a round looks at, at which call
          decision       \* history: what the last step found, if it was the end of a look

vars == <<version, process, receipts, validation, rows, use, decision>>

Content(path) == Contents[path][version[path]]

(* -- identity.py ------------------------------------------------------------- *)
\* A field is looked up in the row itself and in its collection scope.
Given(row, f) == {row.own[f], row.scope[f]} \ {"absent"}
IdentityConflict(row) == \E f \in IdentityFields : Cardinality(Given(row, f)) > 1
Identity(row) == [f \in IdentityFields |->
                    IF Cardinality(Given(row, f)) # 1 THEN "null" ELSE CHOOSE v \in Given(row, f) : TRUE]

(* -- attribution_validation.py ----------------------------------------------- *)
Binding(row) == <<Identity(row), row.metric, row.source, row.value, row.unit, row.available,
                  row.requested, row.window>>

ArtifactsChanged(check) ==
  \/ \E kind \in DOMAIN check.paths : check.paths[kind] \notin DOMAIN check.hashes
  \/ \E path \in DOMAIN check.hashes : Content(path).sha # check.hashes[path]
ArtifactReasons(check) == IF ArtifactsChanged(check) THEN {"artifact"} ELSE {}

\* Nothing is read when an artifact changed.
Readable(check, kind) == check.paths[kind] \in DOMAIN check.hashes /\ ~ArtifactsChanged(check)
Read(check, kind) == Content(check.paths[kind])
Hash(check, kind) == check.hashes[check.paths[kind]]

ReportSays(check, value, idle) ==
  /\ Readable(check, "report")
  /\ Read(check, "report").value = value
  /\ Read(check, "report").error => idle
ConfigConfirms(check, idle) ==
  /\ Readable(check, "config")
  /\ idle \/ Read(check, "config").kernels = <<check.expected.kernel_name>>
  /\ Read(check, "config").counts = check.counts
  /\ Read(check, "config").custom_window
SourcesAgree(check) ==
  check.paths["source"] \in DOMAIN check.hashes
    /\ Hash(check, "source") = check.expected.source_sha256
TraceProves(check) ==
  /\ check.expected.tool_version \in NativeReaders
  /\ Readable(check, "trace")
  /\ LET proof == Read(check, "trace")
     IN /\ \A f \in IdentityFields : check.expected[f] # "null" /\ proof.identity[f] = check.expected[f]
        /\ proof.report = Hash(check, "report") /\ proof.config = Hash(check, "config")
        /\ proof.counter_scope = "kernel" /\ proof.target_only /\ proof.background_excluded
        /\ proof.counts = check.counts /\ proof.counts = check.observed_counts
SemanticReasons(value, check, idle) ==
  IF /\ ReportSays(check, value, idle) /\ ConfigConfirms(check, idle)
     /\ SourcesAgree(check) /\ TraceProves(check)
  THEN {} ELSE {"native"}

Captures(calibration, mode) == {c \in Calibrations[calibration].captures : c.mode = mode}
\* The spread of one mode, in percent of its largest value.
Repeats(captures, limit) ==
  \A a, b \in captures : (a.value - b.value) * 100 <= limit * a.value
CaptureReasons(tool, c) ==
  ArtifactReasons(c.check) \cup SemanticReasons(c.value, c.check, c.mode = "idle")
  \cup (IF /\ c.check.expected.tool_version = tool
           /\ c.check.expected.kernel_name = "attribution_" \o c.mode
           /\ c.mode \in Modes
           /\ c.source_sha256 = c.check.expected.source_sha256
           /\ c.report_sha256 = Hash(c.check, "report")
           /\ (IF c.mode = "idle" \/ ~Readable(c.check, "source") THEN 0
               ELSE Read(c.check, "source").calls) = c.calls
        THEN {} ELSE {"capture"})
ControlsRespond(calibration) ==
  /\ \A c \in Captures(calibration, "elementwise") : c.value = 0
  /\ \A c \in Captures(calibration, "mma") : c.value > 0
DefinitionReasons(tool) == IF tool \in DOMAIN Definitions THEN {} ELSE {"definition"}
ControlReasons(calibration) ==
  LET tool == Calibrations[calibration].tool_version
      all == Calibrations[calibration].captures
  IN IF /\ \A mode \in Modes : Cardinality(Captures(calibration, mode)) >= 2
        /\ ControlsRespond(calibration)
        /\ \A c \in all : IF c.mode = "mma" THEN c.calls > 0 ELSE c.calls = 0
        /\ \A c \in all : c.window_verified /\ c.background_excluded
        /\ \A c \in Captures(calibration, "idle") : c.value = 0
        /\ tool \in DOMAIN Definitions => Repeats(Captures(calibration, "mma"), Definitions[tool])
     THEN {} ELSE {"calibration"}
EvaluateCalibration(calibration) ==
  LET tool == Calibrations[calibration].tool_version
  IN (UNION {CaptureReasons(tool, c) : c \in Calibrations[calibration].captures})
     \cup DefinitionReasons(tool) \cup ControlReasons(calibration)

RowReasons(row, check) ==
  (IF /\ row.metric = "mma_duty" /\ row.source = "mcprofiler"
      /\ row.unit = "percent" /\ row.available
   THEN {} ELSE {"metric"})
  \cup (IF /\ \A f \in IdentityFields :
                check.expected[f] # "null" /\ check.observed[f] = check.expected[f]
           /\ \A f \in IdentityFields :
                LET v == Identity(row)[f]
                IN IF v = "null" THEN f \notin Required ELSE v = check.expected[f]
        THEN {} ELSE {"identity"})
  \cup (IF /\ check.counter_scope = "kernel" /\ check.window_verified /\ check.background_excluded
           /\ check.counts = check.observed_counts
           /\ check.configured_kernels = <<check.expected.kernel_name>>
        THEN {} ELSE {"window"})
CalibrationReasons(check, calibration) ==
  EvaluateCalibration(calibration)
  \cup (IF Calibrations[calibration].tool_version = check.expected.tool_version THEN {} ELSE {"calibration_tool"})

\* The id is a keyed digest of the binding and the result.
ReceiptId(row, result) == [process |-> process, binding |-> Binding(row), result |-> result]
\* The oldest receipt goes even when the new one takes the place of another.
Remember(receipt) ==
  LET kept == IF Len(receipts) >= MaxReceipts THEN Tail(receipts) ELSE receipts
  IN IF \E i \in DOMAIN kept : kept[i].id = receipt.id
     THEN [i \in DOMAIN kept |-> IF kept[i].id = receipt.id THEN receipt ELSE kept[i]]
     ELSE Append(kept, receipt)

Blocked(claim) == [verified |-> FALSE, claim |-> claim]
(* Mutant: a receipt is trusted without hashing the artifacts again. *)
TrustedReceipt(receipt) == {}
ChangedSince(receipt) ==
  ArtifactReasons(receipt.check)
  \cup (IF receipt.verified THEN EvaluateCalibration(receipt.calibration) ELSE {})
BackendValidation(row) ==
  LET known == {i \in DOMAIN receipts : receipts[i].id = row.claim}
  IN IF IdentityConflict(row) \/ known = {} THEN Blocked(NoClaim)
     ELSE LET receipt == receipts[CHOOSE i \in known : TRUE]
          IN IF Binding(row) # receipt.binding THEN Blocked(NoClaim)
             ELSE IF ChangedSince(receipt) # {} THEN Blocked(row.claim)
             ELSE [verified |-> receipt.verified, claim |-> row.claim]

(* -- attribution.py, rounds.py ----------------------------------------------- *)
CompilerMetrics == {"register_count", "shared_memory_bytes"}
\* trusted: the fields of the row that say it is attributed.
Eligible(row) ==
  /\ ~IdentityConflict(row)
  /\ \/ row.source = "compiler_log" /\ row.metric \in CompilerMetrics
     \/ row.source = "benchmark" /\ row.metric = "latency_ms"
     \/ /\ row.source = "mcprofiler"
        /\ row.requested = row.own["kernel_name"] /\ row.window
        /\ row.own["device_id"] \notin {"null", "absent"}
        /\ row.own["tool_version"] \notin {"null", "absent"}
        /\ BackendValidation(row).verified
  /\ row.available /\ row.trusted
  /\ row.own["kernel_name"] \notin {"null", "absent"}

(* Mutant: a verified row keeps the low confidence it was parsed with.          *)
AnnotatedDown(row) ==
  IF row.source # "mcprofiler" THEN row
  ELSE LET found == BackendValidation(row)
       IN [row EXCEPT !.claim = found.claim, !.trusted = found.verified /\ row.trusted]
\* What the JSON says of its own attribution is overwritten.
Annotated(row) ==
  IF row.source # "mcprofiler" THEN row
  ELSE LET found == BackendValidation(row)
       IN [row EXCEPT !.claim = found.claim, !.trusted = found.verified]

BoundTo(row, parent) ==
  /\ Identity(row)["source_trial_id"] = parent.trial
  /\ Identity(row)["source_sha256"] = parent.source_sha256
  /\ Identity(row)["device_id"] = parent.device_id
  /\ Identity(row)["kernel_name"] \in parent.kernel_names

\* History: the backend still has the receipt the row claims.
Known(row) == \E i \in DOMAIN receipts : receipts[i].id = row.claim

(* -- Actions ------------------------------------------------------------------ *)
Idle == [at |-> "idle"]
Undecided == [eligible |-> FALSE, row |-> NoRow]

Init ==
  /\ version = [path \in Paths |-> 1] /\ process = 0
  /\ receipts = <<>> /\ rows = {}
  /\ validation = Idle /\ use = Idle /\ decision = Undecided

\* validate_live_mma_observations hashes what the collector downloaded.
ValidationBegins(c) ==
  /\ validation.at = "idle" /\ Cardinality(rows) < MaxRows
  /\ validation' = [at |-> "artifacts", row |-> c.row, calibration |-> c.calibration, reasons |-> {},
       check |-> [c.check EXCEPT !.hashes =
                    [path \in {c.check.paths[kind] : kind \in DOMAIN c.check.paths} |->
                       Content(path).sha]]]
  /\ UNCHANGED <<version, process, receipts, rows, use>>

Append1(row) == rows' = rows \cup {Annotated(row)}
ConflictingRow ==
  /\ validation.at = "artifacts" /\ IdentityConflict(validation.row)
  /\ Append1(validation.row) /\ validation' = Idle
  /\ UNCHANGED <<version, process, receipts, use>>

Checks(from, to, reasons) ==
  /\ validation.at = from
  /\ validation' = [validation EXCEPT !.at = to, !.reasons = @ \cup reasons]
  /\ UNCHANGED <<version, process, receipts, rows, use>>
ArtifactsHashed ==
  /\ Checks("artifacts", "native", ArtifactReasons(validation.check))
  /\ ~IdentityConflict(validation.row)
NativeRead ==
  Checks("native", "calibration",
         SemanticReasons(validation.row.value, validation.check, FALSE)
           \cup RowReasons(validation.row, validation.check))
CalibrationEvaluated ==
  Checks("calibration", "receipt", CalibrationReasons(validation.check, validation.calibration))

ReceiptIssued ==
  /\ validation.at = "receipt"
  /\ LET id == ReceiptId(validation.row, validation.reasons)
     IN /\ receipts' = Remember([id |-> id, binding |-> Binding(validation.row),
                                 check |-> validation.check, calibration |-> validation.calibration,
                                 verified |-> validation.reasons = {}])
        /\ validation' = [validation EXCEPT !.at = "persist", !.row.claim = id]
  /\ UNCHANGED <<version, process, rows, use>>

\* import_report writes the trial into the row itself.
RowPersisted ==
  /\ validation.at = "persist"
  /\ Append1([validation.row EXCEPT !.own["source_trial_id"] = validation.row.scope["source_trial_id"]])
  /\ validation' = Idle
  /\ UNCHANGED <<version, process, receipts, use>>

\* A results directory may hold rows of other runs, with the claims of any row.
RowImported ==
  /\ Cardinality(rows) < MaxRows
  /\ \E row \in Imported, claim \in {r.claim : r \in rows} \cup {NoClaim} :
       rows' = rows \cup {[row EXCEPT !.claim = claim]}
  /\ UNCHANGED <<version, process, receipts, validation, use>>

Changes == {path \in DOMAIN version : version[path] > 1}
FileChanges(path) ==
  /\ version[path] < Len(Contents[path]) /\ Cardinality(Changes) < MaxChanges
  /\ \E v \in (version[path] + 1)..Len(Contents[path]) : version' = [version EXCEPT ![path] = v]
  /\ UNCHANGED <<process, receipts, validation, rows, use>>

Restart ==
  /\ process < MaxRestarts
  /\ process' = process + 1 /\ receipts' = <<>> /\ validation' = Idle /\ use' = Idle
  /\ UNCHANGED <<version, rows>>

\* bound_evidence: three calls ask the backend about one row.
RowAnnotated ==
  /\ use.at = "idle"
  /\ \E row \in rows, parent \in Parents :
       use' = [at |-> "annotated", raw |-> row, row |-> Annotated(row), parent |-> parent,
               eligible |-> TRUE, known |-> Known(row)]
  /\ UNCHANGED <<version, process, receipts, validation, rows>>
RowJudged ==
  /\ use.at = "annotated"
  /\ use' = [use EXCEPT !.at = "judged", !.known = @ /\ Known(use.raw),
       !.eligible = Eligible(use.row) /\ ~IdentityConflict(use.raw) /\ BoundTo(use.raw, use.parent)]
  /\ UNCHANGED <<version, process, receipts, validation, rows>>
RowTaken ==
  /\ use.at = "judged"
  /\ decision' = [eligible |-> use.eligible /\ Eligible(use.row), row |-> use.raw,
                  parent |-> use.parent, version |-> version,
                  known |-> use.known /\ Known(use.raw)]
  /\ use' = Idle
  /\ UNCHANGED <<version, process, receipts, validation, rows>>

Next ==
  \/ RowTaken
  \/ /\ \/ \E c \in Collections : ValidationBegins(c)
        \/ ConflictingRow \/ ArtifactsHashed \/ NativeRead \/ CalibrationEvaluated
        \/ ReceiptIssued \/ RowPersisted \/ RowImported
        \/ \E path \in DOMAIN version : FileChanges(path)
        \/ Restart \/ RowAnnotated \/ RowJudged
     /\ decision' = Undecided
Spec == Init /\ [][Next]_vars

(* A counter of mcProfiler, as the planner sees the last row it looked at.      *)
NoCounterPlans == decision.eligible => decision.row.metric # "mma_duty"

(* -- Properties ---------------------------------------------------------------- *)
(* A counter that a round may cite is still proved by the files on disk at that  *)
(* moment: the report says this value, the launch trace belongs to this report   *)
(* and shows this kernel alone, on this device, in the trial and source of the   *)
(* round's parent, and the controls respond to the counted instructions only.    *)
(* Flags in the row, receipts of other rows and files that changed give nothing. *)
EligibleIsProven ==
  decision.eligible /\ decision.row.metric = "mma_duty" =>
    \E c \in Collections :
      LET now(check, kind) == Contents[check.paths[kind]][decision.version[check.paths[kind]]]
          report == now(c.check, "report")
          trace == now(c.check, "trace")
          who == Identity(decision.row)
      IN /\ ~IdentityConflict(decision.row)
         /\ report.value = decision.row.value /\ trace.report = report.sha
         /\ trace.target_only /\ trace.background_excluded
         /\ \A f \in Required : trace.identity[f] = who[f]
         /\ who["source_trial_id"] = decision.parent.trial
         /\ who["source_sha256"] = decision.parent.source_sha256
         /\ who["kernel_name"] \in decision.parent.kernel_names
         /\ \A capture \in Calibrations[c.calibration].captures :
              (now(capture.check, "report").value > 0) <=> (capture.mode = "mma")

\* A row that passed its validation, of files that nobody touched.
Untouched(row) ==
  /\ ~IdentityConflict(row) /\ row.claim # NoClaim
  /\ row.claim.result = {} /\ row.claim.binding = Binding(row) /\ Changes = {}
  /\ row.requested = row.own["kernel_name"] /\ row.window
  /\ \A f \in {"kernel_name", "device_id", "tool_version"} : row.own[f] # "absent"

(* The gate is not empty: a row that passed its validation, whose receipt was    *)
(* known at each of the three calls and whose files are untouched, is accepted   *)
(* for its parent after it was written, read back and annotated.  A receipt that *)
(* is dropped and issued again between two of the calls takes the row out.       *)
UntouchedIsUsable ==
  decision # Undecided =>
    (decision.known /\ Untouched(decision.row) /\ BoundTo(decision.row, decision.parent)
       => decision.eligible)
===============================================================================
