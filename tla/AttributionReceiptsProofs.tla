----------------------- MODULE AttributionReceiptsProofs -----------------------
(* What a round cites of the counters is proved by the files as they are        *)
(* (CitedIsProven), and a row of untouched files whose receipt is known is cited *)
(* (UntouchedIsCited).  As long as no metric definition is documented, as in the *)
(* shipped code (_DOCUMENTED_MMA_DEFINITIONS is empty), no counter ever reaches  *)
(* a plan (NothingShippedPlans).                                                *)
EXTENDS AttributionReceipts, FiniteSetTheorems, TLAPS

RowFields == {"metric", "source", "own", "scope", "value", "unit", "available", "requested",
              "window", "claim", "trusted"}
IsRow(row) == RowFields \subseteq DOMAIN row

(* The store holds the new receipt and some of those it held.                   *)
LEMMA RememberOneMore ==
  ASSUME NEW S, receipts \in Seq(S), NEW receipt
  PROVE /\ Remember(receipt) \in Seq(S \cup {receipt})
        /\ \A j \in DOMAIN Remember(receipt) :
             \/ Remember(receipt)[j] = receipt
             \/ \E i \in DOMAIN receipts : Remember(receipt)[j] = receipts[i]
<1> DEFINE old(r) == \E i \in DOMAIN receipts : r = receipts[i]
           kept == IF Len(receipts) >= MaxReceipts THEN Tail(receipts) ELSE receipts
           replaced == [i \in DOMAIN kept |-> IF kept[i].id = receipt.id THEN receipt ELSE kept[i]]
<1>1. kept \in Seq(S) /\ \A i \in DOMAIN kept : old(kept[i])
  <2>1. CASE Len(receipts) >= MaxReceipts
    <3>1. receipts # <<>>
      BY <2>1, ReceiptsAssumption
    <3>2. Tail(receipts) \in Seq(S) /\ Len(Tail(receipts)) = Len(receipts) - 1
          /\ \A i \in 1..(Len(receipts) - 1) : Tail(receipts)[i] = receipts[i + 1]
      BY <3>1
    <3>3. \A i \in DOMAIN Tail(receipts) : i + 1 \in DOMAIN receipts /\ Tail(receipts)[i] = receipts[i + 1]
      BY <3>2
    <3> QED
      BY <2>1, <3>2, <3>3
  <2>2. CASE ~(Len(receipts) >= MaxReceipts)
    BY <2>2
  <2> QED
    BY <2>1, <2>2
<1> HIDE DEF kept, old
<1>2. /\ replaced \in Seq(S \cup {receipt})
      /\ \A i \in DOMAIN replaced : replaced[i] = receipt \/ old(replaced[i])
  <2>1. DOMAIN kept = 1..Len(kept) /\ Len(kept) \in Nat
    BY <1>1
  <2>2. \A i \in 1..Len(kept) : replaced[i] \in S \cup {receipt}
    BY <1>1, <2>1
  <2> QED
    BY <1>1, <2>1, <2>2
<1>3. /\ Append(kept, receipt) \in Seq(S \cup {receipt})
      /\ \A i \in DOMAIN Append(kept, receipt) :
           Append(kept, receipt)[i] = receipt \/ old(Append(kept, receipt)[i])
  <2>1. kept \in Seq(S \cup {receipt})
    BY <1>1
  <2> QED
    BY <1>1, <2>1
<1>4. Remember(receipt) = replaced \/ Remember(receipt) = Append(kept, receipt)
  BY DEF Remember, kept
<1> HIDE DEF replaced
<1>5. /\ Remember(receipt) \in Seq(S \cup {receipt})
      /\ \A j \in DOMAIN Remember(receipt) : Remember(receipt)[j] = receipt \/ old(Remember(receipt)[j])
  BY <1>2, <1>3, <1>4
<1> QED
  BY <1>5 DEF old

(* -- Without a definition ------------------------------------------------------ *)
NothingVerified ==
  /\ \E S : receipts \in Seq(S)
  /\ \A i \in DOMAIN receipts : ~receipts[i].verified
ValidationRefused ==
  validation.at # "idle" =>
    /\ {"at", "row", "reasons"} \subseteq DOMAIN validation /\ IsRow(validation.row)
    /\ validation.at = "receipt" => validation.reasons # {}
UseKeepsMetric ==
  use.at # "idle" => {"at", "raw", "row", "eligible"} \subseteq DOMAIN use
                       /\ use.row.metric = use.raw.metric
RefusalInvariant ==
  /\ NothingVerified /\ ValidationRefused /\ UseKeepsMetric
  /\ \A row \in rows : IsRow(row)
  /\ NoCounterPlans

(* An undefined metric is a reason against every calibration.                   *)
LEMMA UndefinedIsAReason ==
  ASSUME DOMAIN Definitions = {}, NEW check, NEW calibration
  PROVE CalibrationReasons(check, calibration) # {}
<1>1. "definition" \in DefinitionReasons(Calibrations[calibration].tool_version)
  BY DEF DefinitionReasons
<1>2. DefinitionReasons(Calibrations[calibration].tool_version) \subseteq EvaluateCalibration(calibration)
  BY DEF EvaluateCalibration
<1> QED
  BY <1>1, <1>2 DEF CalibrationReasons

(* The backend verifies nothing from receipts that verify nothing.              *)
LEMMA NothingIsVerified ==
  ASSUME NothingVerified, NEW row
  PROVE ~BackendValidation(row).verified
<1> DEFINE known == {i \in DOMAIN receipts : receipts[i].id = row.claim}
           receipt == receipts[CHOOSE i \in known : TRUE]
<1>1. CASE IdentityConflict(row) \/ known = {}
  BY <1>1 DEF BackendValidation, Blocked
<1>2. CASE ~(IdentityConflict(row) \/ known = {})
  <2>1. (CHOOSE i \in known : TRUE) \in known
    BY <1>2
  <2>2. ~receipt.verified
    BY <2>1 DEF NothingVerified
  <2>3. \/ BackendValidation(row) = Blocked(NoClaim)
        \/ BackendValidation(row) = Blocked(row.claim)
        \/ BackendValidation(row) = [verified |-> receipt.verified, claim |-> row.claim]
    BY <1>2 DEF BackendValidation
  <2> QED
    BY <2>2, <2>3 DEF Blocked
<1> QED
  BY <1>1, <1>2

LEMMA AnnotatedRow ==
  ASSUME NEW row, IsRow(row)
  PROVE IsRow(Annotated(row)) /\ Annotated(row).metric = row.metric
  BY DEF IsRow, RowFields, Annotated

LEMMA NotEligible ==
  ASSUME NothingVerified, NEW row, Eligible(row)
  PROVE row.metric # "mma_duty"
  BY NothingIsVerified DEF Eligible, CompilerMetrics

(* A receipt that verifies nothing may be added.                                *)
LEMMA RememberRefusal ==
  ASSUME NothingVerified, NEW receipt, ~receipt.verified
  PROVE /\ \E S : Remember(receipt) \in Seq(S)
        /\ \A i \in DOMAIN Remember(receipt) : ~Remember(receipt)[i].verified
<1>1. PICK S : receipts \in Seq(S)
  BY DEF NothingVerified
<1>2. /\ Remember(receipt) \in Seq(S \cup {receipt})
      /\ \A j \in DOMAIN Remember(receipt) :
           \/ Remember(receipt)[j] = receipt
           \/ \E i \in DOMAIN receipts : Remember(receipt)[j] = receipts[i]
  BY <1>1, RememberOneMore
<1> QED
  BY <1>2 DEF NothingVerified

LEMMA RefusalInit == Init => RefusalInvariant
<1> SUFFICES ASSUME Init PROVE RefusalInvariant
  OBVIOUS
<1>1. \E S : receipts \in Seq(S)
  <2>1. <<>> \in Seq({})
    OBVIOUS
  <2> QED
    BY <2>1 DEF Init
<1> QED
  BY <1>1 DEF Init, RefusalInvariant, NothingVerified, ValidationRefused, UseKeepsMetric,
              NoCounterPlans, Undecided, Idle

LEMMA RefusalStep ==
  ASSUME DOMAIN Definitions = {}
  PROVE RefusalInvariant /\ [Next]_vars => RefusalInvariant'
<1> SUFFICES ASSUME RefusalInvariant, [Next]_vars PROVE RefusalInvariant'
  OBVIOUS
<1> USE DEF RefusalInvariant
<1>1. CASE RowTaken
  <2>1. decision'.eligible => Eligible(use.row)
    BY <1>1 DEF RowTaken
  <2>2. decision'.row = use.raw
    BY <1>1 DEF RowTaken
  <2>3. NoCounterPlans'
    BY <1>1, <2>1, <2>2, NotEligible DEF NoCounterPlans, UseKeepsMetric, RowTaken
  <2> QED
    BY <1>1, <2>3 DEF RowTaken, Idle, NothingVerified, ValidationRefused, UseKeepsMetric
<1>2. ASSUME decision' = Undecided PROVE NoCounterPlans'
  BY <1>2 DEF Undecided, NoCounterPlans
<1>3. ASSUME NEW c \in Collections, ValidationBegins(c), decision' = Undecided
      PROVE RefusalInvariant'
  <2>1. IsRow(c.row)
    BY RowsAssumption DEF IsRow, RowFields
  <2> QED
    BY <1>3, <1>2, <2>1 DEF ValidationBegins, NothingVerified, ValidationRefused, UseKeepsMetric
<1>4. ASSUME ConflictingRow \/ RowPersisted, decision' = Undecided PROVE RefusalInvariant'
  <2>1. IsRow(validation.row)
        /\ IsRow([validation.row EXCEPT !.own["source_trial_id"] = validation.row.scope["source_trial_id"]])
    BY <1>4 DEF ConflictingRow, RowPersisted, ValidationRefused, IsRow, RowFields
  <2>2. \A row \in rows' : IsRow(row)
    BY <1>4, <2>1, AnnotatedRow DEF ConflictingRow, RowPersisted, Append1
  <2> QED
    BY <1>4, <1>2, <2>2 DEF ConflictingRow, RowPersisted, Append1, Idle, NothingVerified,
                            ValidationRefused, UseKeepsMetric
<1>5. ASSUME ArtifactsHashed \/ NativeRead, decision' = Undecided PROVE RefusalInvariant'
  BY <1>5, <1>2 DEF ArtifactsHashed, NativeRead, Checks, NothingVerified, ValidationRefused, UseKeepsMetric
<1>6. ASSUME CalibrationEvaluated, decision' = Undecided PROVE RefusalInvariant'
  <2>1. CalibrationReasons(validation.check, validation.calibration) # {}
    BY UndefinedIsAReason
  <2> QED
    BY <1>6, <1>2, <2>1 DEF CalibrationEvaluated, Checks, NothingVerified, ValidationRefused, UseKeepsMetric
<1>7. ASSUME ReceiptIssued, decision' = Undecided PROVE RefusalInvariant'
  <2> DEFINE id == ReceiptId(validation.row, validation.reasons)
             receipt == [id |-> id, binding |-> Binding(validation.row), check |-> validation.check,
                         calibration |-> validation.calibration, verified |-> validation.reasons = {}]
  <2>1. receipts' = Remember(receipt) /\ ~receipt.verified
    BY <1>7 DEF ReceiptIssued, ValidationRefused
  <2>2. NothingVerified'
    <3> HIDE DEF receipt
    <3> QED
      BY <2>1, RememberRefusal DEF NothingVerified
  <2>3. ValidationRefused'
    BY <1>7 DEF ReceiptIssued, ValidationRefused, IsRow, RowFields
  <2> QED
    BY <1>7, <1>2, <2>2, <2>3 DEF ReceiptIssued, UseKeepsMetric
<1>8. ASSUME RowImported, decision' = Undecided PROVE RefusalInvariant'
  <2>1. \A row \in Imported : \A claim : IsRow([row EXCEPT !.claim = claim])
    BY RowsAssumption DEF IsRow, RowFields
  <2>2. \A row \in rows' : IsRow(row)
    BY <1>8, <2>1 DEF RowImported
  <2> QED
    BY <1>8, <1>2, <2>2 DEF RowImported, NothingVerified, ValidationRefused, UseKeepsMetric
<1>9. ASSUME NEW path, FileChanges(path), decision' = Undecided PROVE RefusalInvariant'
  BY <1>9, <1>2 DEF FileChanges, NothingVerified, ValidationRefused, UseKeepsMetric
<1>10. ASSUME Restart, decision' = Undecided PROVE RefusalInvariant'
  <2>1. receipts' = <<>> /\ <<>> \in Seq({})
    BY <1>10 DEF Restart
  <2> QED
    BY <1>10, <1>2, <2>1 DEF Restart, Idle, NothingVerified, ValidationRefused, UseKeepsMetric
<1>11. ASSUME RowAnnotated, decision' = Undecided PROVE RefusalInvariant'
  <2>1. UseKeepsMetric'
    BY <1>11, AnnotatedRow DEF RowAnnotated, UseKeepsMetric
  <2> QED
    BY <1>11, <1>2, <2>1 DEF RowAnnotated, NothingVerified, ValidationRefused
<1>12. ASSUME RowJudged, decision' = Undecided PROVE RefusalInvariant'
  BY <1>12, <1>2 DEF RowJudged, NothingVerified, ValidationRefused, UseKeepsMetric
<1>13. CASE UNCHANGED vars
  BY <1>13 DEF vars, NothingVerified, ValidationRefused, UseKeepsMetric, NoCounterPlans
<1> QED
  BY <1>1, <1>3, <1>4, <1>5, <1>6, <1>7, <1>8, <1>9, <1>10, <1>11, <1>12, <1>13 DEF Next

(* With the shipped, empty table of definitions no value of the counter is ever *)
(* taken as evidence, whatever rows, receipts and flags the results hold.       *)
THEOREM NothingShippedPlans ==
  ASSUME DOMAIN Definitions = {}
  PROVE Spec => []NoCounterPlans
<1>1. Init => RefusalInvariant
  BY RefusalInit
<1>2. RefusalInvariant /\ [Next]_vars => RefusalInvariant'
  BY RefusalStep
<1>3. RefusalInvariant => NoCounterPlans
  BY DEF RefusalInvariant
<1> QED
  BY <1>1, <1>2, <1>3, PTL DEF Spec
---------------------------------------------------------------------------

(* -- What a round cites --------------------------------------------------------- *)
(* What a validation may rest on: the row, the collection and the versions of   *)
(* the report and the trace that its hashes name, whatever the files are now.   *)
ComesFrom(check, calibration) ==
  /\ DOMAIN check.hashes \subseteq Paths
  /\ \E c \in Collections : check.paths = c.check.paths /\ calibration = c.calibration
RowFits(row, check) ==
  /\ row.metric = "mma_duty" /\ row.source = "mcprofiler" /\ row.available
  /\ \A f \in Required : Identity(row)[f] # "null" /\ Identity(row)[f] = check.expected[f]
Has(check, kind) == check.paths[kind] \in DOMAIN check.hashes
ReportShows(row, check) ==
  /\ Has(check, "report")
  /\ \E i \in DOMAIN Contents[check.paths["report"]] :
       LET report == Contents[check.paths["report"]][i]
       IN report.sha = Hash(check, "report") /\ report.value = row.value
TraceShows(check) ==
  /\ Has(check, "trace")
  /\ \E i \in DOMAIN Contents[check.paths["trace"]] :
       LET trace == Contents[check.paths["trace"]][i]
       IN /\ trace.sha = Hash(check, "trace") /\ trace.report = Hash(check, "report")
          /\ trace.target_only /\ trace.background_excluded
          /\ \A f \in Required : trace.identity[f] = check.expected[f]
Certified(row, check) == RowFits(row, check) /\ ReportShows(row, check) /\ TraceShows(check)

VersionInv ==
  /\ version \in [Paths -> Nat \ {0}]
  /\ \A path \in Paths : version[path] \in DOMAIN Contents[path]

(* The current version of a file is the one a matching hash names.              *)
LEMMA HashNamesContent ==
  ASSUME VersionInv, NEW path \in Paths, NEW i \in DOMAIN Contents[path],
         Contents[path][i].sha = Content(path).sha
  PROVE Contents[path][i] = Content(path)
  BY VersionsAssumption DEF VersionInv, Content

LEMMA NativeProves ==
  ASSUME VersionInv, NEW row, NEW check, DOMAIN check.hashes \subseteq Paths,
         SemanticReasons(row.value, check, FALSE) \cup RowReasons(row, check) = {}
  PROVE Certified(row, check)
<1>1. RowReasons(row, check) = {} /\ SemanticReasons(row.value, check, FALSE) = {}
  OBVIOUS
<1>2. /\ row.metric = "mma_duty" /\ row.source = "mcprofiler" /\ row.available
      /\ \A f \in IdentityFields : check.expected[f] # "null"
      /\ \A f \in IdentityFields :
           LET v == Identity(row)[f]
           IN IF v = "null" THEN f \notin Required ELSE v = check.expected[f]
  BY <1>1, Zenon DEF RowReasons
<1>3. RowFits(row, check)
  BY <1>2 DEF RowFits, Required
<1>4. ReportSays(check, row.value, FALSE) /\ TraceProves(check)
  BY <1>1, Zenon DEF SemanticReasons
<1>5. ReportShows(row, check)
  <2> DEFINE path == check.paths["report"]
  <2>1. path \in DOMAIN check.hashes /\ Content(path).value = row.value
    BY <1>4 DEF ReportSays, Readable, Read
  <2>2. Content(path).sha = Hash(check, "report")
    BY <1>4 DEF ReportSays, Readable, ArtifactsChanged, Hash
  <2>3. version[path] \in DOMAIN Contents[path]
    BY <2>1 DEF VersionInv
  <2> QED
    BY <2>1, <2>2, <2>3 DEF ReportShows, Has, Content
<1>6. TraceShows(check)
  <2> DEFINE path == check.paths["trace"]
  <2>1. path \in DOMAIN check.hashes
    BY <1>4 DEF TraceProves, Readable
  <2>2. Content(path).sha = Hash(check, "trace")
    BY <1>4 DEF TraceProves, Readable, ArtifactsChanged, Hash
  <2>3. /\ Content(path).report = Hash(check, "report")
        /\ Content(path).target_only /\ Content(path).background_excluded
        /\ \A f \in IdentityFields : Content(path).identity[f] = check.expected[f]
    BY <1>4 DEF TraceProves, Read
  <2>4. version[path] \in DOMAIN Contents[path]
    BY <2>1 DEF VersionInv
  <2> QED
    BY <2>1, <2>2, <2>3, <2>4 DEF TraceShows, Has, Content, Required
<1> QED
  BY <1>3, <1>5, <1>6 DEF Certified

(* What is read from files that do not change does not change.                  *)
LEMMA SameFiles ==
  ASSUME version' = version, NEW check
  PROVE /\ ArtifactReasons(check)' = ArtifactReasons(check)
        /\ \A kind : Readable(check, kind)' <=> Readable(check, kind)
        /\ \A kind : Read(check, kind)' = Read(check, kind)
<1>1. \A path : Content(path)' = Content(path)
  BY DEF Content
<1>2. ArtifactsChanged(check)' <=> ArtifactsChanged(check)
  BY <1>1 DEF ArtifactsChanged
<1> QED
  BY <1>1, <1>2 DEF ArtifactReasons, Readable, Read

LEMMA SameCapture ==
  ASSUME version' = version, NEW tool, NEW c
  PROVE CaptureReasons(tool, c)' = CaptureReasons(tool, c)
  BY SameFiles DEF CaptureReasons, SemanticReasons, ReportSays, ConfigConfirms, SourcesAgree,
                   TraceProves, Hash

LEMMA SameCalibration ==
  ASSUME version' = version, NEW calibration
  PROVE EvaluateCalibration(calibration)' = EvaluateCalibration(calibration)
  BY SameCapture DEF EvaluateCalibration, DefinitionReasons, ControlReasons, ControlsRespond, Captures, Repeats

LEMMA SameReceipt ==
  ASSUME version' = version, NEW receipt
  PROVE ChangedSince(receipt)' = ChangedSince(receipt)
  BY SameFiles, SameCalibration DEF ChangedSince

\* A row and its annotated form differ in what they claim only.
Shows(row, raw) ==
  /\ row.metric = raw.metric /\ row.source = raw.source /\ row.own = raw.own /\ row.scope = raw.scope
  /\ row.value = raw.value /\ row.unit = raw.unit /\ row.available = raw.available
  /\ row.requested = raw.requested /\ row.window = raw.window

ReceiptSound(receipt) ==
  /\ receipt.id.binding = receipt.binding
  /\ receipt.id.result = {} => receipt.verified
  /\ receipt.verified =>
       /\ ComesFrom(receipt.check, receipt.calibration)
       /\ \E row : receipt.binding = Binding(row) /\ Certified(row, receipt.check)
       /\ Changes = {} => ChangedSince(receipt) = {}
ReceiptInv ==
  /\ \E S : receipts \in Seq(S)
  /\ \A receipt \in {receipts[i] : i \in DOMAIN receipts} : ReceiptSound(receipt)

ValidationFields == {"at", "row", "calibration", "reasons", "check"}
ValidationSound ==
  /\ ValidationFields \subseteq DOMAIN validation /\ IsRow(validation.row)
  /\ validation.at \in {"artifacts", "native", "calibration", "receipt", "persist"}
  /\ ComesFrom(validation.check, validation.calibration)
  /\ /\ validation.at \in {"native", "calibration", "receipt"}
     /\ validation.reasons = {} /\ Changes = {}
     => ArtifactReasons(validation.check) = {}
  /\ validation.at \in {"calibration", "receipt"} /\ validation.reasons = {}
     => Certified(validation.row, validation.check)
  /\ validation.at = "receipt" /\ validation.reasons = {} /\ Changes = {}
     => EvaluateCalibration(validation.calibration) = {}
ValidationInv == validation = Idle \/ ValidationSound

UseFields == {"at", "raw", "row", "parent", "eligible", "known"}
UseSound ==
  /\ UseFields \subseteq DOMAIN use /\ IsRow(use.raw) /\ IsRow(use.row)
  /\ use.at \in {"annotated", "judged"}
  /\ Shows(use.row, use.raw)
  /\ use.at = "judged" /\ use.eligible => ~IdentityConflict(use.raw) /\ BoundTo(use.raw, use.parent)
  /\ use.known /\ Untouched(use.raw) => use.row.claim = use.raw.claim /\ use.row.trusted
  /\ use.at = "judged" /\ use.known /\ Untouched(use.raw) /\ BoundTo(use.raw, use.parent) => use.eligible
UseInv == use = Idle \/ UseSound

RowsInv == \A row \in rows : IsRow(row)
EvidenceInv ==
  /\ VersionInv /\ ReceiptInv /\ ValidationInv /\ UseInv /\ RowsInv
  /\ EligibleIsProven /\ UntouchedIsUsable

(* A row that shows what another shows is the same evidence.                    *)
LEMMA SameEvidence ==
  ASSUME NEW row, NEW raw, Shows(row, raw)
  PROVE /\ Binding(row) = Binding(raw) /\ Identity(row) = Identity(raw)
        /\ IdentityConflict(row) <=> IdentityConflict(raw)
  BY DEF Shows, Binding, Identity, IdentityConflict, Given

LEMMA SameUntouched ==
  ASSUME version' = version
  PROVE Changes' = Changes /\ \A row : Untouched(row)' <=> Untouched(row)
  BY DEF Changes, Untouched

LEMMA AnnotatedShows ==
  ASSUME NEW row, IsRow(row)
  PROVE IsRow(Annotated(row)) /\ Shows(Annotated(row), row)
  BY DEF IsRow, RowFields, Annotated, Shows

(* The backend answers from one of its receipts.                                *)
LEMMA BackendAnswers ==
  ASSUME ReceiptInv, NEW row, BackendValidation(row).verified
  PROVE \E i \in DOMAIN receipts :
          /\ receipts[i].verified /\ Binding(row) = receipts[i].binding
          /\ ReceiptSound(receipts[i]) /\ ChangedSince(receipts[i]) = {}
<1> DEFINE known == {i \in DOMAIN receipts : receipts[i].id = row.claim}
           i == CHOOSE i \in known : TRUE
<1>1. ~(IdentityConflict(row) \/ known = {})
  BY DEF BackendValidation, Blocked
<1>2. i \in known
  BY <1>1
<1>3. \/ Binding(row) # receipts[i].binding /\ BackendValidation(row) = Blocked(NoClaim)
      \/ ChangedSince(receipts[i]) # {} /\ BackendValidation(row) = Blocked(row.claim)
      \/ /\ Binding(row) = receipts[i].binding /\ ChangedSince(receipts[i]) = {}
         /\ BackendValidation(row) = [verified |-> receipts[i].verified, claim |-> row.claim]
  BY <1>1 DEF BackendValidation
<1>4. /\ Binding(row) = receipts[i].binding /\ ChangedSince(receipts[i]) = {}
      /\ BackendValidation(row) = [verified |-> receipts[i].verified, claim |-> row.claim]
  BY <1>3 DEF Blocked
<1>5. receipts[i].verified
  BY <1>4
<1>6. i \in DOMAIN receipts /\ ReceiptSound(receipts[i])
  BY <1>2 DEF ReceiptInv
<1> QED
  BY <1>4, <1>5, <1>6

LEMMA BackendConfirms ==
  ASSUME ReceiptInv, NEW row, Untouched(row), Known(row)
  PROVE /\ BackendValidation(row).verified /\ BackendValidation(row).claim = row.claim
        /\ row.source = "mcprofiler" /\ row.available
        /\ \A f \in Required : Identity(row)[f] # "null"
<1> DEFINE known == {i \in DOMAIN receipts : receipts[i].id = row.claim}
           i == CHOOSE i \in known : TRUE
<1>1. known # {} /\ i \in known
  BY DEF Known
<1>2. ReceiptSound(receipts[i]) /\ receipts[i].id = row.claim
  BY <1>1 DEF ReceiptInv
<1>3. receipts[i].verified /\ Binding(row) = receipts[i].binding
  BY <1>2 DEF ReceiptSound, Untouched
<1>4. ChangedSince(receipts[i]) = {}
  BY <1>2, <1>3 DEF ReceiptSound, Untouched
<1>5. BackendValidation(row) = [verified |-> receipts[i].verified, claim |-> row.claim]
  BY <1>1, <1>3, <1>4 DEF BackendValidation, Untouched
<1>6. PICK other : receipts[i].binding = Binding(other) /\ Certified(other, receipts[i].check)
  BY <1>2, <1>3 DEF ReceiptSound
<1>7. Binding(row) = Binding(other) /\ RowFits(other, receipts[i].check)
  BY <1>3, <1>6 DEF Certified
<1>8. row.source = other.source /\ row.available = other.available /\ Identity(row) = Identity(other)
  BY <1>7 DEF Binding
<1> QED
  BY <1>3, <1>5, <1>7, <1>8 DEF RowFits

LEMMA PairIsFinite == ASSUME NEW a, NEW b PROVE IsFiniteSet({a, b})
<1>1. IsFiniteSet({a})
  BY FS_Singleton
<1>2. IsFiniteSet({a} \cup {b})
  BY <1>1, FS_AddElement, Zenon
<1>3. {a, b} = {a} \cup {b}
  OBVIOUS
<1> QED
  BY <1>2, <1>3, Zenon

(* An untouched row, annotated, is what the rest of the rule asks for.          *)
LEMMA UntouchedEligible ==
  ASSUME ReceiptInv, NEW raw, NEW row, Untouched(raw), Known(raw), Shows(row, raw),
         row.claim = raw.claim, row.trusted
  PROVE Eligible(row)
<1>1. Untouched(row) /\ Known(row)
  BY SameEvidence DEF Untouched, Known, Shows
<1>2. /\ BackendValidation(row).verified /\ row.source = "mcprofiler" /\ row.available
      /\ \A f \in Required : Identity(row)[f] # "null"
  BY <1>1, BackendConfirms
<1>3. \A f \in {"kernel_name", "device_id", "tool_version"} : row.own[f] \notin {"null", "absent"}
  <2> SUFFICES ASSUME NEW f \in {"kernel_name", "device_id", "tool_version"}, row.own[f] = "null"
               PROVE FALSE
    BY <1>1 DEF Untouched
  <2>1. f \in Required /\ f \in IdentityFields
    BY DEF Required, IdentityFields
  <2>2. "null" \in Given(row, f) /\ IsFiniteSet(Given(row, f))
    <3> DEFINE both == {row.own[f], row.scope[f]}
    <3>1. IsFiniteSet(both)
      BY PairIsFinite
    <3>2. Given(row, f) = both \ {"absent"}
      BY DEF Given
    <3>3. IsFiniteSet(both \ {"absent"})
      BY <3>1, FS_Subset
    <3> QED
      BY <3>2, <3>3
  <2>3. CASE Cardinality(Given(row, f)) = 1
    <3>1. PICK v : Given(row, f) = {v}
      BY <2>2, <2>3, FS_Singleton
    <3>2. (CHOOSE w \in Given(row, f) : TRUE) = "null"
      BY <3>1, <2>2
    <3>3. Identity(row)[f] = "null"
      BY <2>1, <2>3, <3>2 DEF Identity
    <3> QED
      BY <3>3, <2>1, <1>2
  <2>4. CASE Cardinality(Given(row, f)) # 1
    <3>1. Identity(row)[f] = "null"
      BY <2>1, <2>4 DEF Identity
    <3> QED
      BY <3>1, <2>1, <1>2
  <2> QED
    BY <2>3, <2>4
<1> QED
  BY <1>1, <1>2, <1>3 DEF Eligible, Untouched

LEMMA EvidenceInit == Init => EvidenceInv
<1> SUFFICES ASSUME Init PROVE EvidenceInv
  OBVIOUS
<1>1. \E S : receipts \in Seq(S)
  <2>1. <<>> \in Seq({})
    OBVIOUS
  <2> QED
    BY <2>1 DEF Init
<1>2. VersionInv
  BY VersionsAssumption DEF Init, VersionInv
<1>3. ReceiptInv /\ ValidationInv /\ UseInv /\ RowsInv
  BY <1>1 DEF Init, ReceiptInv, ValidationInv, UseInv, RowsInv
<1>4. EligibleIsProven /\ UntouchedIsUsable
  BY DEF Init, EligibleIsProven, UntouchedIsUsable, Undecided
<1> QED
  BY <1>2, <1>3, <1>4 DEF EvidenceInv

(* Nothing but a look at a row is a decision.                                   *)
LEMMA NoDecision ==
  ASSUME decision' = Undecided
  PROVE EligibleIsProven' /\ UntouchedIsUsable'
  BY DEF EligibleIsProven, UntouchedIsUsable, Undecided

(* While no file changes, what was found of the receipts and the rows remains.  *)
LEMMA ReceiptsKept ==
  ASSUME ReceiptInv, version' = version, receipts' = receipts PROVE ReceiptInv'
<1>1. \A receipt : ReceiptSound(receipt)' <=> ReceiptSound(receipt)
  BY SameReceipt, SameUntouched DEF ReceiptSound
<1> QED
  BY <1>1 DEF ReceiptInv

LEMMA UseKept ==
  ASSUME UseInv, version' = version, use' = use PROVE UseInv'
  BY SameUntouched DEF UseInv, UseSound

LEMMA ValidationKept ==
  ASSUME ValidationInv, version' = version, validation' = validation PROVE ValidationInv'
<1>1. CASE validation = Idle
  BY <1>1 DEF ValidationInv
<1>2. CASE ValidationSound
  <2>1. ValidationSound'
    BY <1>2, SameFiles, SameCalibration, SameUntouched DEF ValidationSound
  <2> QED
    BY <2>1 DEF ValidationInv
<1> QED
  BY <1>1, <1>2 DEF ValidationInv

LEMMA BeginsSound ==
  ASSUME NEW c \in Collections, ValidationBegins(c) PROVE ValidationInv'
<1>1. {"paths", "hashes"} \subseteq DOMAIN c.check
      /\ \A kind \in DOMAIN c.check.paths : c.check.paths[kind] \in Paths
  BY ChecksAssumption
<1>2. IsRow(c.row)
  BY RowsAssumption DEF IsRow, RowFields
<1> DEFINE hashes == [path \in {c.check.paths[kind] : kind \in DOMAIN c.check.paths} |-> Content(path).sha]
           check == [c.check EXCEPT !.hashes = hashes]
<1>3. check.paths = c.check.paths /\ check.hashes = hashes
  BY <1>1
<1>4. DOMAIN hashes \subseteq Paths
  BY <1>1
<1>5. ComesFrom(check, c.calibration)
  BY <1>3, <1>4 DEF ComesFrom
<1>6. validation' = [at |-> "artifacts", row |-> c.row, calibration |-> c.calibration,
                     reasons |-> {}, check |-> check]
  BY DEF ValidationBegins
<1> HIDE DEF check
<1>7. ValidationSound'
  BY <1>2, <1>5, <1>6 DEF ValidationSound, ValidationFields
<1> QED
  BY <1>7 DEF ValidationInv

LEMMA ChecksKeep ==
  ASSUME ValidationSound, NEW from, NEW to, NEW reasons, Checks(from, to, reasons)
  PROVE /\ validation.at = from /\ validation'.at = to
        /\ validation'.reasons = validation.reasons \cup reasons
        /\ validation'.row = validation.row /\ validation'.check = validation.check
        /\ validation'.calibration = validation.calibration
        /\ ValidationFields \subseteq DOMAIN validation'
        /\ version' = version
  BY DEF Checks, ValidationSound, ValidationFields

LEMMA ChecksSound ==
  ASSUME VersionInv, ValidationInv, ArtifactsHashed \/ NativeRead \/ CalibrationEvaluated
  PROVE ValidationInv'
<1>1. ValidationSound
  <2>1. validation.at # "idle"
    BY DEF ArtifactsHashed, NativeRead, CalibrationEvaluated, Checks
  <2> QED
    BY <2>1 DEF ValidationInv, Idle
<1>2. CASE ArtifactsHashed
  <2>1. Checks("artifacts", "native", ArtifactReasons(validation.check))
    BY <1>2 DEF ArtifactsHashed
  <2>2. /\ validation'.at = "native"
        /\ validation'.reasons = validation.reasons \cup ArtifactReasons(validation.check)
        /\ validation'.row = validation.row /\ validation'.check = validation.check
        /\ validation'.calibration = validation.calibration
        /\ ValidationFields \subseteq DOMAIN validation' /\ version' = version
    BY <1>1, <2>1, ChecksKeep
  <2>3. ArtifactReasons(validation.check)' = ArtifactReasons(validation.check)
    BY <2>2, SameFiles DEF ArtifactReasons, ArtifactsChanged, Content
  <2>4. ValidationSound'
    BY <1>1, <2>2, <2>3 DEF ValidationSound, ComesFrom, IsRow
  <2> QED
    BY <2>4 DEF ValidationInv
<1>3. CASE NativeRead
  <2> DEFINE new == SemanticReasons(validation.row.value, validation.check, FALSE)
                      \cup RowReasons(validation.row, validation.check)
  <2>1. Checks("native", "calibration", new)
    BY <1>3 DEF NativeRead
  <2>2. /\ validation.at = "native" /\ validation'.at = "calibration"
        /\ validation'.reasons = validation.reasons \cup new
        /\ validation'.row = validation.row /\ validation'.check = validation.check
        /\ validation'.calibration = validation.calibration
        /\ ValidationFields \subseteq DOMAIN validation' /\ version' = version
    BY <1>1, <2>1, ChecksKeep
  <2>3. ArtifactReasons(validation.check)' = ArtifactReasons(validation.check)
    BY <2>2 DEF ArtifactReasons, ArtifactsChanged, Content
  <2>4. DOMAIN validation.check.hashes \subseteq Paths
    BY <1>1 DEF ValidationSound, ComesFrom
  <2>5. new = {} => Certified(validation.row, validation.check)
    BY <2>4, NativeProves
  <2>6. Changes' = Changes
    BY <2>2, SameUntouched
  <2> HIDE DEF new
  <2>7. ValidationSound'
    <3>1. /\ IsRow(validation'.row) /\ ComesFrom(validation'.check, validation'.calibration)
      BY <1>1, <2>2 DEF ValidationSound
    <3>2. validation'.reasons = {} => Certified(validation'.row, validation'.check)
      BY <2>2, <2>5
    <3>3. validation'.reasons = {} /\ Changes' = {} => ArtifactReasons(validation.check)' = {}
      BY <1>1, <2>2, <2>3, <2>6 DEF ValidationSound
    <3> QED
      BY <2>2, <3>1, <3>2, <3>3 DEF ValidationSound
  <2> QED
    BY <2>7 DEF ValidationInv
<1>4. CASE CalibrationEvaluated
  <2> DEFINE new == CalibrationReasons(validation.check, validation.calibration)
  <2>1. Checks("calibration", "receipt", new)
    BY <1>4 DEF CalibrationEvaluated
  <2>2. /\ validation.at = "calibration" /\ validation'.at = "receipt"
        /\ validation'.reasons = validation.reasons \cup new
        /\ validation'.row = validation.row /\ validation'.check = validation.check
        /\ validation'.calibration = validation.calibration
        /\ ValidationFields \subseteq DOMAIN validation' /\ version' = version
    BY <1>1, <2>1, ChecksKeep
  <2>3. ArtifactReasons(validation.check)' = ArtifactReasons(validation.check)
    BY <2>2 DEF ArtifactReasons, ArtifactsChanged, Content
  <2>4. new = {} => EvaluateCalibration(validation.calibration) = {}
    BY DEF CalibrationReasons
  <2>6. \A calibration : EvaluateCalibration(calibration)' = EvaluateCalibration(calibration)
    BY <2>2, SameCalibration
  <2>7. Changes' = Changes
    BY <2>2, SameUntouched
  <2> HIDE DEF new
  <2>8. ValidationSound'
    <3>1. /\ IsRow(validation'.row) /\ ComesFrom(validation'.check, validation'.calibration)
      BY <1>1, <2>2 DEF ValidationSound
    <3>2. validation'.reasons = {} => Certified(validation'.row, validation'.check)
      BY <1>1, <2>2 DEF ValidationSound
    <3>3. validation'.reasons = {} /\ Changes' = {} => ArtifactReasons(validation.check)' = {}
      BY <1>1, <2>2, <2>3, <2>7 DEF ValidationSound
    <3>4. validation'.reasons = {} => EvaluateCalibration(validation.calibration)' = {}
      BY <2>2, <2>4, <2>6
    <3> QED
      BY <2>2, <3>1, <3>2, <3>3, <3>4 DEF ValidationSound
  <2> QED
    BY <2>8 DEF ValidationInv
<1> QED
  BY <1>2, <1>3, <1>4

LEMMA IssuedSound ==
  ASSUME ReceiptInv, ValidationInv, ReceiptIssued
  PROVE ReceiptInv' /\ ValidationInv'
<1> DEFINE id == ReceiptId(validation.row, validation.reasons)
           receipt == [id |-> id, binding |-> Binding(validation.row), check |-> validation.check,
                       calibration |-> validation.calibration, verified |-> validation.reasons = {}]
<1>1. ValidationSound /\ validation.at = "receipt"
  BY DEF ReceiptIssued, ValidationInv, Idle
<1>2. /\ receipts' = Remember(receipt) /\ version' = version
      /\ validation' = [validation EXCEPT !.at = "persist", !.row.claim = id]
  BY DEF ReceiptIssued
<1>3. ReceiptSound(receipt)
  <2>1. receipt.id.binding = receipt.binding /\ receipt.id.result = validation.reasons
    BY DEF ReceiptId
  <2>2. receipt.verified <=> validation.reasons = {}
    OBVIOUS
  <2>3. /\ receipt.check = validation.check /\ receipt.calibration = validation.calibration
        /\ receipt.binding = Binding(validation.row)
    OBVIOUS
  <2> HIDE DEF receipt
  <2>4. validation.reasons = {} /\ Changes = {} => ChangedSince(receipt) = {}
    BY <1>1, <2>3 DEF ValidationSound, ChangedSince
  <2>5. validation.reasons = {} =>
          ComesFrom(validation.check, validation.calibration) /\ Certified(validation.row, validation.check)
    BY <1>1 DEF ValidationSound
  <2> QED
    BY <2>1, <2>2, <2>3, <2>4, <2>5 DEF ReceiptSound
<1> HIDE DEF receipt
<1>4. \A r : ReceiptSound(r)' <=> ReceiptSound(r)
  BY <1>2, SameReceipt, SameUntouched DEF ReceiptSound
<1>5. ReceiptInv'
  <2>1. PICK S : receipts \in Seq(S)
    BY DEF ReceiptInv
  <2>2. /\ Remember(receipt) \in Seq(S \cup {receipt})
        /\ \A j \in DOMAIN Remember(receipt) :
             \/ Remember(receipt)[j] = receipt
             \/ \E i \in DOMAIN receipts : Remember(receipt)[j] = receipts[i]
    BY <2>1, RememberOneMore
  <2>3. \A r \in {receipts'[j] : j \in DOMAIN receipts'} : ReceiptSound(r)
    BY <1>2, <1>3, <2>2 DEF ReceiptInv
  <2> QED
    BY <1>2, <1>4, <2>2, <2>3 DEF ReceiptInv
<1>6. ValidationInv'
  <2>1. /\ validation'.at = "persist" /\ ValidationFields \subseteq DOMAIN validation'
        /\ IsRow(validation'.row) /\ validation'.check = validation.check
        /\ validation'.calibration = validation.calibration
    BY <1>1, <1>2 DEF ValidationSound, ValidationFields, IsRow
  <2> QED
    BY <1>1, <2>1 DEF ValidationInv, ValidationSound
<1> QED
  BY <1>5, <1>6

LEMMA ChangeSound ==
  ASSUME EvidenceInv, NEW path \in DOMAIN version, FileChanges(path)
  PROVE VersionInv' /\ ReceiptInv' /\ ValidationInv' /\ UseInv'
<1> USE DEF EvidenceInv
<1>1. PICK v \in (version[path] + 1)..Len(Contents[path]) : version' = [version EXCEPT ![path] = v]
  BY DEF FileChanges
<1>2. path \in Paths /\ version[path] \in Nat \ {0}
  BY DEF VersionInv
<1>3. VersionInv'
  BY <1>1, <1>2, VersionsAssumption DEF VersionInv
<1>4. Changes' # {}
  <2>1. path \in DOMAIN version' /\ version'[path] = v /\ v > 1
    BY <1>1, <1>2, VersionsAssumption DEF VersionInv
  <2>2. path \in Changes'
    BY <2>1 DEF Changes
  <2> QED
    BY <2>2
<1>5. ReceiptInv'
  <2>1. receipts' = receipts
    BY DEF FileChanges
  <2>2. \A r : ReceiptSound(r) => ReceiptSound(r)'
    BY <1>4 DEF ReceiptSound
  <2> QED
    BY <2>1, <2>2 DEF ReceiptInv
<1>6. ValidationInv'
  <2>1. validation' = validation
    BY DEF FileChanges
  <2> QED
    BY <2>1, <1>4 DEF ValidationInv, ValidationSound
<1>7. UseInv'
  <2>1. use' = use
    BY DEF FileChanges
  <2>2. \A row : ~Untouched(row)'
    BY <1>4 DEF Untouched
  <2> QED
    BY <2>1, <2>2 DEF UseInv, UseSound
<1> QED
  BY <1>3, <1>5, <1>6, <1>7

LEMMA AnnotateSound ==
  ASSUME EvidenceInv, RowAnnotated PROVE UseInv'
<1> USE DEF EvidenceInv
<1>1. PICK raw \in rows, parent \in Parents :
        use' = [at |-> "annotated", raw |-> raw, row |-> Annotated(raw), parent |-> parent,
                eligible |-> TRUE, known |-> Known(raw)]
  BY DEF RowAnnotated
<1>2. IsRow(raw) /\ IsRow(Annotated(raw)) /\ Shows(Annotated(raw), raw)
  BY AnnotatedShows DEF RowsInv
<1>3. /\ use'.at = "annotated" /\ use'.raw = raw /\ use'.row = Annotated(raw)
      /\ use'.known <=> Known(raw)
      /\ UseFields \subseteq DOMAIN use'
  BY <1>1 DEF UseFields
<1>4. version' = version
  BY DEF RowAnnotated
<1>5. Known(raw) /\ Untouched(raw) => Annotated(raw).claim = raw.claim /\ Annotated(raw).trusted
  <2> SUFFICES ASSUME Known(raw), Untouched(raw)
               PROVE Annotated(raw).claim = raw.claim /\ Annotated(raw).trusted
    OBVIOUS
  <2>1. /\ BackendValidation(raw).verified /\ BackendValidation(raw).claim = raw.claim
        /\ raw.source = "mcprofiler"
    BY BackendConfirms
  <2>2. Annotated(raw) = [raw EXCEPT !.claim = BackendValidation(raw).claim,
                                     !.trusted = BackendValidation(raw).verified]
    BY <2>1 DEF Annotated
  <2>3. "claim" \in DOMAIN raw /\ "trusted" \in DOMAIN raw
    BY <1>2 DEF IsRow, RowFields
  <2> QED
    BY <2>1, <2>2, <2>3
<1>6. Untouched(raw)' <=> Untouched(raw)
  BY <1>4, SameUntouched
<1>7. Untouched(use.raw)' => Untouched(raw)
  BY <1>3, <1>4, SameUntouched DEF Untouched
<1>8. UseSound'
  BY <1>2, <1>3, <1>5, <1>7 DEF UseSound
<1> QED
  BY <1>8 DEF UseInv

LEMMA JudgeSound ==
  ASSUME EvidenceInv, RowJudged PROVE UseInv'
<1> USE DEF EvidenceInv
<1>1. UseSound /\ use.at = "annotated"
  BY DEF RowJudged, UseInv, Idle
<1>2. UseFields \subseteq DOMAIN use
  BY <1>1 DEF UseSound
<1>3. use' = [use EXCEPT !.at = "judged", !.known = use.known /\ Known(use.raw),
                !.eligible = Eligible(use.row) /\ ~IdentityConflict(use.raw) /\ BoundTo(use.raw, use.parent)]
  BY DEF RowJudged
<1>4. /\ use'.at = "judged" /\ use'.raw = use.raw /\ use'.row = use.row /\ use'.parent = use.parent
      /\ UseFields \subseteq DOMAIN use'
  BY <1>2, <1>3 DEF UseFields
<1>5. use'.known <=> use.known /\ Known(use.raw)
  BY <1>2, <1>3 DEF UseFields
<1>6. use'.eligible <=> Eligible(use.row) /\ ~IdentityConflict(use.raw) /\ BoundTo(use.raw, use.parent)
  BY <1>2, <1>3 DEF UseFields
<1>7. version' = version
  BY DEF RowJudged
<1>8. \A row : Untouched(row)' <=> Untouched(row)
  BY <1>7, SameUntouched
<1>9. use.known /\ Known(use.raw) /\ Untouched(use.raw) => Eligible(use.row)
  BY <1>1, UntouchedEligible DEF UseSound
<1>10. Untouched(use.raw) => ~IdentityConflict(use.raw)
  BY DEF Untouched
<1>11. UseSound'
  BY <1>1, <1>4, <1>5, <1>6, <1>8, <1>9, <1>10 DEF UseSound
<1> QED
  BY <1>11 DEF UseInv

(* What a cited counter rests on, in the files as they are.                     *)
Backed(row, c) ==
  LET report == Content(c.check.paths["report"])
      trace == Content(c.check.paths["trace"])
  IN /\ report.value = row.value /\ trace.report = report.sha
     /\ trace.target_only /\ trace.background_excluded
     /\ \A f \in Required : trace.identity[f] = Identity(row)[f]
     /\ \A capture \in Calibrations[c.calibration].captures :
          (Content(capture.check.paths["report"]).value > 0) <=> (capture.mode = "mma")

LEMMA ControlsProve ==
  ASSUME NEW calibration, EvaluateCalibration(calibration) = {},
         NEW capture \in Calibrations[calibration].captures
  PROVE (Content(capture.check.paths["report"]).value > 0) <=> (capture.mode = "mma")
<1> DEFINE tool == Calibrations[calibration].tool_version
<1>1. CaptureReasons(tool, capture) = {} /\ ControlReasons(calibration) = {}
  BY DEF EvaluateCalibration
<1>2. SemanticReasons(capture.value, capture.check, capture.mode = "idle") = {}
  BY <1>1, Zenon DEF CaptureReasons
<1>3. Content(capture.check.paths["report"]).value = capture.value
  BY <1>2, Zenon DEF SemanticReasons, ReportSays, Read
<1>4. capture.mode \in Modes
  BY <1>1 DEF CaptureReasons
<1>5. ControlsRespond(calibration) /\ \A c \in Captures(calibration, "idle") : c.value = 0
  BY <1>1, Zenon DEF ControlReasons
<1>6. /\ capture.mode = "mma" => capture.value > 0
      /\ capture.mode # "mma" => capture.value = 0
  BY <1>4, <1>5 DEF ControlsRespond, Captures, Modes
<1> QED
  BY <1>3, <1>6

LEMMA EligibleBacked ==
  ASSUME VersionInv, ReceiptInv, NEW row, Eligible(row), row.metric = "mma_duty"
  PROVE \E c \in Collections : Backed(row, c)
<1>1. BackendValidation(row).verified
  BY DEF Eligible, CompilerMetrics
<1>2. PICK i \in DOMAIN receipts :
        /\ receipts[i].verified /\ Binding(row) = receipts[i].binding
        /\ ReceiptSound(receipts[i]) /\ ChangedSince(receipts[i]) = {}
  BY <1>1, BackendAnswers
<1> DEFINE receipt == receipts[i]
           check == receipt.check
<1>3. ArtifactReasons(check) = {} /\ EvaluateCalibration(receipt.calibration) = {}
  BY <1>2 DEF ChangedSince
<1>4. \A path \in DOMAIN check.hashes : Content(path).sha = check.hashes[path]
  BY <1>3, Zenon DEF ArtifactReasons, ArtifactsChanged
<1>5. PICK other : receipt.binding = Binding(other) /\ Certified(other, check)
  BY <1>2 DEF ReceiptSound
<1>6. Identity(row) = Identity(other) /\ row.value = other.value
  BY <1>2, <1>5 DEF Binding
<1>7. PICK c \in Collections : check.paths = c.check.paths /\ receipt.calibration = c.calibration
  BY <1>2 DEF ReceiptSound, ComesFrom
<1>8. DOMAIN check.hashes \subseteq Paths
  BY <1>2 DEF ReceiptSound, ComesFrom
<1> HIDE DEF check, receipt
<1>9. /\ Content(check.paths["report"]).value = row.value
      /\ Content(check.paths["report"]).sha = Hash(check, "report")
  <2> DEFINE path == check.paths["report"]
  <2>1. PICK j \in DOMAIN Contents[path] :
          Contents[path][j].sha = Hash(check, "report") /\ Contents[path][j].value = other.value
    BY <1>5 DEF Certified, ReportShows
  <2>2. path \in DOMAIN check.hashes
    BY <1>5 DEF Certified, ReportShows, Has
  <2>3. Content(path).sha = Contents[path][j].sha /\ path \in Paths
    BY <2>1, <2>2, <1>4, <1>8 DEF Hash
  <2>4. Contents[path][j] = Content(path)
    BY <2>3, HashNamesContent
  <2> QED
    BY <2>1, <2>4, <1>6
<1>10. LET trace == Content(check.paths["trace"])
       IN /\ trace.report = Hash(check, "report") /\ trace.target_only /\ trace.background_excluded
          /\ \A f \in Required : trace.identity[f] = check.expected[f]
  <2> DEFINE path == check.paths["trace"]
  <2>1. PICK j \in DOMAIN Contents[path] :
          LET trace == Contents[path][j]
          IN /\ trace.sha = Hash(check, "trace") /\ trace.report = Hash(check, "report")
             /\ trace.target_only /\ trace.background_excluded
             /\ \A f \in Required : trace.identity[f] = check.expected[f]
    BY <1>5 DEF Certified, TraceShows
  <2>2. path \in DOMAIN check.hashes
    BY <1>5 DEF Certified, TraceShows, Has
  <2>3. Content(path).sha = Contents[path][j].sha /\ path \in Paths
    BY <2>1, <2>2, <1>4, <1>8 DEF Hash
  <2>4. Contents[path][j] = Content(path)
    BY <2>3, HashNamesContent
  <2> QED
    BY <2>1, <2>4
<1>11. \A f \in Required : Identity(row)[f] = check.expected[f]
  BY <1>5, <1>6 DEF Certified, RowFits
<1>12. \A capture \in Calibrations[c.calibration].captures :
         (Content(capture.check.paths["report"]).value > 0) <=> (capture.mode = "mma")
  BY <1>3, <1>7, ControlsProve
<1> QED
  BY <1>7, <1>9, <1>10, <1>11, <1>12 DEF Backed

LEMMA TakenSound ==
  ASSUME EvidenceInv, RowTaken PROVE EligibleIsProven' /\ UntouchedIsUsable'
<1> USE DEF EvidenceInv
<1>1. UseSound /\ use.at = "judged"
  BY DEF RowTaken, UseInv, Idle
<1>2. /\ decision'.eligible <=> use.eligible /\ Eligible(use.row)
      /\ decision'.known <=> use.known /\ Known(use.raw)
      /\ decision'.row = use.raw /\ decision'.parent = use.parent /\ decision'.version = version
      /\ version' = version
  BY DEF RowTaken
<1>3. EligibleIsProven'
  <2> SUFFICES ASSUME decision'.eligible, decision'.row.metric = "mma_duty"
               PROVE EligibleIsProven'
    BY DEF EligibleIsProven
  <2>1. use.eligible /\ Eligible(use.row) /\ use.row.metric = "mma_duty"
    BY <1>1, <1>2 DEF UseSound, Shows
  <2>2. PICK c \in Collections : Backed(use.row, c)
    BY <2>1, EligibleBacked
  <2>3. Identity(use.row) = Identity(use.raw) /\ use.row.value = use.raw.value
    BY <1>1, SameEvidence DEF UseSound, Shows
  <2>4. ~IdentityConflict(use.raw) /\ BoundTo(use.raw, use.parent)
    BY <1>1, <2>1 DEF UseSound
  <2>5. Backed(use.raw, c)
    BY <2>2, <2>3 DEF Backed
  <2> DEFINE now(check, kind) == Contents[check.paths[kind]][decision'.version[check.paths[kind]]]
             who == Identity(decision'.row)
  <2>6. \A check, kind : now(check, kind) = Content(check.paths[kind])
    BY <1>2 DEF Content
  <2>7. /\ ~IdentityConflict(decision'.row)
        /\ now(c.check, "report").value = decision'.row.value
        /\ now(c.check, "trace").report = now(c.check, "report").sha
        /\ now(c.check, "trace").target_only /\ now(c.check, "trace").background_excluded
        /\ \A f \in Required : now(c.check, "trace").identity[f] = who[f]
        /\ \A capture \in Calibrations[c.calibration].captures :
             (now(capture.check, "report").value > 0) <=> (capture.mode = "mma")
    <3> HIDE DEF now
    <3> QED
      BY <1>2, <2>4, <2>5, <2>6 DEF Backed
  <2>8. /\ who["source_trial_id"] = decision'.parent.trial
        /\ who["source_sha256"] = decision'.parent.source_sha256
        /\ who["kernel_name"] \in decision'.parent.kernel_names
    BY <1>2, <2>4 DEF BoundTo
  <2> QED
    BY <2>7, <2>8, Zenon DEF EligibleIsProven
<1>4. UntouchedIsUsable'
  <2>1. \A row : Untouched(row)' <=> Untouched(row)
    BY <1>2, SameUntouched
  <2>2. Untouched(decision.row)' => Untouched(use.raw)
    BY <1>2, SameUntouched DEF Untouched
  <2>3. use.known /\ Known(use.raw) /\ Untouched(use.raw) => Eligible(use.row)
    BY <1>1, UntouchedEligible DEF UseSound
  <2>4. use.known /\ Untouched(use.raw) /\ BoundTo(use.raw, use.parent) => use.eligible
    BY <1>1 DEF UseSound
  <2> QED
    BY <1>2, <2>2, <2>3, <2>4 DEF UntouchedIsUsable
<1> QED
  BY <1>3, <1>4

LEMMA EvidenceStep == EvidenceInv /\ [Next]_vars => EvidenceInv'
<1> SUFFICES ASSUME EvidenceInv, [Next]_vars PROVE EvidenceInv'
  OBVIOUS
<1> USE DEF EvidenceInv
<1>1. CASE RowTaken
  <2>1. version' = version /\ receipts' = receipts /\ validation' = validation /\ rows' = rows /\ use' = Idle
    BY <1>1 DEF RowTaken
  <2> QED
    BY <1>1, <2>1, TakenSound, ReceiptsKept, ValidationKept DEF VersionInv, UseInv, RowsInv
<1>2. ASSUME NEW c \in Collections, ValidationBegins(c), decision' = Undecided PROVE EvidenceInv'
  <2>1. version' = version /\ receipts' = receipts /\ rows' = rows /\ use' = use
    BY <1>2 DEF ValidationBegins
  <2> QED
    BY <1>2, <2>1, BeginsSound, NoDecision, ReceiptsKept, UseKept DEF VersionInv, RowsInv
<1>3. ASSUME ConflictingRow \/ RowPersisted, decision' = Undecided PROVE EvidenceInv'
  <2>1. version' = version /\ receipts' = receipts /\ validation' = Idle /\ use' = use
    BY <1>3 DEF ConflictingRow, RowPersisted
  <2>2. IsRow(validation.row)
    BY <1>3 DEF ConflictingRow, RowPersisted, ValidationInv, ValidationSound, Idle
  <2>3. IsRow([validation.row EXCEPT !.own["source_trial_id"] = validation.row.scope["source_trial_id"]])
    BY <2>2 DEF IsRow
  <2>4. RowsInv'
    BY <1>3, <2>2, <2>3, AnnotatedShows DEF ConflictingRow, RowPersisted, Append1, RowsInv
  <2> QED
    BY <1>3, <2>1, <2>4, NoDecision, ReceiptsKept, UseKept DEF VersionInv, ValidationInv
<1>4. ASSUME ArtifactsHashed \/ NativeRead \/ CalibrationEvaluated, decision' = Undecided
      PROVE EvidenceInv'
  <2>1. version' = version /\ receipts' = receipts /\ rows' = rows /\ use' = use
    BY <1>4 DEF ArtifactsHashed, NativeRead, CalibrationEvaluated, Checks
  <2> QED
    BY <1>4, <2>1, ChecksSound, NoDecision, ReceiptsKept, UseKept DEF VersionInv, RowsInv
<1>5. ASSUME ReceiptIssued, decision' = Undecided PROVE EvidenceInv'
  <2>1. version' = version /\ rows' = rows /\ use' = use
    BY <1>5 DEF ReceiptIssued
  <2> QED
    BY <1>5, <2>1, IssuedSound, NoDecision, UseKept DEF VersionInv, RowsInv
<1>6. ASSUME RowImported, decision' = Undecided PROVE EvidenceInv'
  <2>1. /\ version' = version /\ receipts' = receipts /\ validation' = validation /\ use' = use
    BY <1>6 DEF RowImported
  <2>2. \A row \in Imported : \A claim : IsRow([row EXCEPT !.claim = claim])
    BY RowsAssumption DEF IsRow, RowFields
  <2>3. RowsInv'
    BY <1>6, <2>2 DEF RowImported, RowsInv
  <2> QED
    BY <1>6, <2>1, <2>3, NoDecision, ReceiptsKept, UseKept, ValidationKept DEF VersionInv
<1>7. ASSUME NEW path \in DOMAIN version, FileChanges(path), decision' = Undecided PROVE EvidenceInv'
  <2>1. rows' = rows
    BY <1>7 DEF FileChanges
  <2> QED
    BY <1>7, <2>1, ChangeSound, NoDecision DEF RowsInv
<1>8. ASSUME Restart, decision' = Undecided PROVE EvidenceInv'
  <2>1. receipts' = <<>> /\ <<>> \in Seq({})
    BY <1>8 DEF Restart
  <2>2. version' = version /\ rows' = rows /\ validation' = Idle /\ use' = Idle
    BY <1>8 DEF Restart
  <2> QED
    BY <1>8, <2>1, <2>2, NoDecision DEF VersionInv, ReceiptInv, ValidationInv, UseInv, RowsInv
<1>9. ASSUME RowAnnotated \/ RowJudged, decision' = Undecided PROVE EvidenceInv'
  <2>1. version' = version /\ receipts' = receipts /\ validation' = validation /\ rows' = rows
    BY <1>9 DEF RowAnnotated, RowJudged
  <2> QED
    BY <1>9, <2>1, AnnotateSound, JudgeSound, NoDecision, ReceiptsKept, ValidationKept DEF VersionInv, RowsInv
<1>10. CASE UNCHANGED vars
  <2>1. /\ version' = version /\ receipts' = receipts /\ validation' = validation /\ rows' = rows
        /\ use' = use /\ decision' = decision
    BY <1>10 DEF vars
  <2>2. UntouchedIsUsable'
    BY <2>1, SameUntouched DEF UntouchedIsUsable, Untouched
  <2> QED
    BY <2>1, <2>2, ReceiptsKept, ValidationKept, UseKept DEF VersionInv, RowsInv, EligibleIsProven
<1> QED
  BY <1>1, <1>2, <1>3, <1>4, <1>5, <1>6, <1>7, <1>8, <1>9, <1>10 DEF Next

(* Receipts, validations, rows and looks stay as EvidenceInv describes them.     *)
THEOREM EvidenceInvariance == Spec => []EvidenceInv
<1>1. Init => EvidenceInv
  BY EvidenceInit
<1>2. EvidenceInv /\ [Next]_vars => EvidenceInv'
  BY EvidenceStep
<1> QED
  BY <1>1, <1>2, PTL DEF Spec

(* A counter a round may cite is proved by the report, the trace and the control *)
(* captures on disk at that moment, for this trial, source, device and kernel.   *)
THEOREM CitedIsProven == Spec => []EligibleIsProven
<1>1. EvidenceInv => EligibleIsProven
  BY DEF EvidenceInv
<1> QED
  BY <1>1, EvidenceInvariance, PTL

(* A validated row of untouched files is taken for its parent when its receipt   *)
(* is known at each of the three calls of a look.                                *)
THEOREM UntouchedIsCited == Spec => []UntouchedIsUsable
<1>1. EvidenceInv => UntouchedIsUsable
  BY DEF EvidenceInv
<1> QED
  BY <1>1, EvidenceInvariance, PTL
===============================================================================
