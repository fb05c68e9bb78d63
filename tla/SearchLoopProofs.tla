--------------------------- MODULE SearchLoopProofs ---------------------------
(* For every search space, number of iterations and candidates, request and     *)
(* set of faults: the reported kernel is the one that was measured, every tried *)
(* configuration is recorded, and a file task leaves its baseline behind.       *)
EXTENDS SearchLoop, FiniteSetTheorems, WellFoundedInduction, TLAPS

(* -- types -------------------------------------------------------------------- *)
\* Whose trial it is.
TrialOwned == pc \in TrialSteps \cup {"setupFailed"} => Current \in Configs
BaseInv == TypeOK /\ TrialOwned

(* A failing trial keeps all but its status.                                    *)
LEMMA FailingIs ==
  ASSUME trial \in Trials, NEW status \in Statuses
  PROVE /\ Failing(status) \in Trials /\ Failing(status).config = trial.config
        /\ Failing(status).status = status /\ Failing(status).failed
        /\ Failing(status).runner = trial.runner /\ Failing(status).dead = trial.dead
        /\ Failing(status).last = trial.last /\ Failing(status).value = trial.value
  BY DEF Failing, Trials

LEMMA NoTrialIs ==
  /\ NoTrial \in Trials /\ NoTrial.status = "none"
  /\ ~NoTrial.failed /\ ~NoTrial.runner /\ ~NoTrial.dead
  BY DEF NoTrial, Trials, Statuses, NoValue

LEMMA BaseInit == Init => BaseInv
<1> SUFFICES ASSUME Init PROVE BaseInv
  OBVIOUS
<1>1. trial \in Trials
  BY NoTrialIs DEF Init
<1>2. files \in [Configs -> Contents] /\ measured \in [Configs -> Contents]
  BY DEF Init, Contents
<1>3. records \in Seq(Records)
  BY DEF Init
<1>4. patch \in Patches
  BY DEF Init, NoPatch, Patches
<1>5. report \in [best: Configs \cup {NoConfig}, kernel: Contents]
  BY DEF Init, NoReport, Contents
<1>6. iteration \in 0..MaxIterations /\ leaked \in Nat
  BY SearchAssumption DEF Init
<1> QED
  BY <1>1, <1>2, <1>3, <1>4, <1>5, <1>6, SearchAssumption
     DEF Init, BaseInv, TypeOK, TrialOwned, TrialSteps, Trials, Patches, Records

(* A set of natural numbers has a least element.                                *)
LEMMA LeastOfSet ==
  ASSUME NEW T, T \subseteq Nat, T # {}
  PROVE  \E x \in T : \A y \in T : x <= y
<1> DEFINE R == OpToRel(<, Nat)
<1>1. IsWellFoundedOn(R, Nat)
  BY NatLessThanWellFounded
<1>2. \A x, y \in Nat : x < y => <<x, y>> \in R
  BY DEF OpToRel
<1> HIDE DEF R
<1>3. PICK x \in T : \A y \in T : ~(<<y, x>> \in R)
  BY <1>1, WFMin
<1>4. ASSUME NEW y \in T PROVE x <= y
  <2>1. x \in Nat /\ y \in Nat
    OBVIOUS
  <2>2. ~(y < x)
    BY <1>2, <1>3, <2>1
  <2> QED
    BY <2>1, <2>2
<1> QED
  BY <1>4

(* What a trial and its failure are recorded as.                                *)
LEMMA EntryIs ==
  ASSUME TypeOK, Current \in Configs
  PROVE Entry \in Records /\ SetupFailure \in Records
  BY DEF TypeOK, Trials, Entry, SetupFailure, Records, Statuses

(* The first of the best measurements.                                          *)
LEMMA BestExists ==
  ASSUME records \in Seq(Records), Measurements # {}
  PROVE /\ BestRecord \in Measurements
        /\ \A j \in Measurements : records[BestRecord].value <= records[j].value
<1>1. \A i \in Measurements : records[i].value \in Nat /\ i \in Nat
  <2> SUFFICES ASSUME NEW i \in Measurements PROVE records[i].value \in Nat /\ i \in Nat
    OBVIOUS
  <2>1. i \in Nat /\ records[i] \in Records /\ records[i].value # NoValue
    BY DEF Measurements
  <2>2. records[i].value \in Values \cup {NoValue}
    BY <2>1 DEF Records
  <2> QED
    BY <2>1, <2>2, SearchAssumption DEF NoValue
<1> DEFINE V == {records[i].value : i \in Measurements}
<1>2. PICK v \in V : \A w \in V : v <= w
  BY <1>1, LeastOfSet
<1> DEFINE I == {i \in Measurements : records[i].value = v}
<1>3. PICK i \in I : \A j \in I : i <= j
  <2>1. I \subseteq Nat /\ I # {}
    BY <1>1, <1>2
  <2> HIDE DEF I
  <2> QED
    BY <2>1, LeastOfSet
<1>4. i \in Measurements /\ \A j \in Measurements : Precedes(i, j)
  <2>1. i \in Measurements /\ records[i].value = v
    BY <1>3
  <2>2. ASSUME NEW j \in Measurements PROVE Precedes(i, j)
    <3>1. records[j].value \in V
      OBVIOUS
    <3>2. v <= records[j].value /\ v \in Nat /\ records[j].value \in Nat
      BY <3>1, <1>1, <1>2
    <3>3. records[j].value = v => i <= j
      BY <1>3
    <3> HIDE DEF V, I
    <3> QED
      BY <2>1, <3>2, <3>3 DEF Precedes
  <2> QED
    BY <2>1, <2>2
<1>5. BestRecord \in Measurements /\ \A j \in Measurements : Precedes(BestRecord, j)
  BY <1>4 DEF BestRecord
<1> QED
  BY <1>1, <1>5 DEF Precedes

(* One step of each kind keeps the types.                                       *)
LEMMA BaseStep == BaseInv /\ [Next]_vars => BaseInv'
<1> SUFFICES ASSUME BaseInv, [Next]_vars PROVE BaseInv'
  OBVIOUS
<1> USE DEF BaseInv, TypeOK, TrialOwned, Current, loopVars, worldVars, outVars
<1>0. trial \in Trials /\ patch \in Patches /\ (pc \in TrialSteps \cup {"setupFailed"} => Current \in Configs)
  OBVIOUS
<1>1. CASE BaselineSkipped
  BY <1>1 DEF BaselineSkipped, TrialSteps
<1>2. CASE BaselineStarts
  <2>1. trial' \in Trials /\ trial'.config \in Configs
    BY <1>2, <1>0, NoTrialIs, SearchAssumption DEF BaselineStarts, TrialBegins, Trials
  <2> QED
    BY <1>2, <2>1, SearchAssumption DEF BaselineStarts, TrialBegins, TrialSteps, Contents
<1>3. CASE IterationStarts
  <2>1. /\ iteration' = iteration + 1 /\ iteration < MaxIterations /\ tried' = tried /\ trial' = trial
        /\ pc' \in {"report", "candidate"} /\ batch' \subseteq Configs /\ batch' \cap tried = {}
    BY <1>3 DEF IterationStarts
  <2>2. iteration' \in 0..MaxIterations
    BY <2>1, SearchAssumption
  <2> QED
    BY <1>3, <2>1, <2>2 DEF IterationStarts, TrialSteps
<1>4. CASE SearchEnds
  BY <1>4 DEF SearchEnds, TrialSteps
<1>5. CASE CandidateStarts
  <2>1. trial' \in Trials /\ trial'.config \in Configs
    BY <1>5, <1>0, NoTrialIs, SearchAssumption DEF CandidateStarts, TrialBegins, Trials
  <2> QED
    BY <1>5, <2>1 DEF CandidateStarts, TrialBegins, TrialSteps, Contents
<1>6. CASE BatchEnds
  BY <1>6 DEF BatchEnds, TrialSteps
<1>7. CASE Deployed
  <2>1. trial' \in Trials /\ trial'.config = trial.config
    BY <1>7, <1>0 DEF Deployed, Trials, FirstStage, StageAfter
  <2> QED
    BY <1>7, <2>1 DEF Deployed, TrialSteps
<1>8. CASE DeployFails
  <2>1. trial' \in Trials /\ trial'.config = trial.config
    BY <1>8, <1>0, FailingIs DEF DeployFails, Statuses
  <2> QED
    BY <1>8, <2>1 DEF DeployFails, TrialSteps
<1>9. CASE CommandRefused
  <2>1. trial' \in Trials /\ trial'.config = trial.config
    BY <1>9, <1>0, FailingIs DEF CommandRefused, Statuses
  <2> QED
    BY <1>9, <2>1 DEF CommandRefused, TrialSteps
<1>10. CASE CommandStarts
  BY <1>10 DEF CommandStarts, TrialSteps
<1>11. CASE CommandPasses
  <2>1. trial' \in Trials /\ trial'.config = trial.config
    BY <1>11, <1>0 DEF CommandPasses, Trials, FirstStage, StageAfter
  <2> QED
    BY <1>11, <2>1 DEF CommandPasses, TrialSteps
<1>12. CASE BenchmarkPasses
  <2>1. trial' \in Trials /\ trial'.config = trial.config
    BY <1>12, <1>0 DEF BenchmarkPasses, Trials, Statuses
  <2> QED
    BY <1>12, <2>1 DEF BenchmarkPasses, TrialSteps, Executed, Contents
<1>13. CASE CommandFails
  <2>1. trial' \in Trials /\ trial'.config = trial.config
    BY <1>13, <1>0 DEF CommandFails, Failing, Trials, Statuses
  <2> QED
    BY <1>13, <2>1 DEF CommandFails, TrialSteps, Contents
<1>14. CASE CommandTimesOut
  <2>1. trial' \in Trials /\ trial'.config = trial.config
    BY <1>14, <1>0 DEF CommandTimesOut, Failing, Trials, Statuses
  <2> QED
    BY <1>14, <2>1 DEF CommandTimesOut, TrialSteps, Contents
<1>15. CASE StopUnverified
  <2>1. trial' \in Trials /\ trial'.config = trial.config
    BY <1>15, <1>0 DEF StopUnverified, Failing, Trials, Statuses
  <2> QED
    BY <1>15, <2>1 DEF StopUnverified, TrialSteps, Contents
<1>16. CASE LinkBreaks
  <2>1. trial' \in Trials /\ trial'.config = trial.config
    BY <1>16, <1>0 DEF LinkBreaks, Failing, Trials, Statuses
  <2> QED
    BY <1>16, <2>1 DEF LinkBreaks, TrialSteps, Contents
<1>17. CASE AuditFails
  <2>1. trial' \in Trials /\ trial'.config = trial.config
    BY <1>17, <1>0 DEF AuditFails, Failing, Trials, Statuses
  <2>2. files' \in [Configs -> Contents]
    BY <1>17 DEF AuditFails, Contents
  <2> QED
    BY <1>17, <2>1, <2>2 DEF AuditFails, TrialSteps
<1>18. CASE Settles
  <2>1. trial' \in Trials /\ trial'.config = trial.config
    BY <1>18, <1>0, FailingIs DEF Settles, Statuses
  <2> QED
    BY <1>18, <2>1 DEF Settles, TrialSteps
<1>19. CASE RestoreWithheld
  <2>1. trial' \in Trials /\ trial'.config = trial.config
    BY <1>19, <1>0, FailingIs DEF RestoreWithheld, Statuses
  <2> QED
    BY <1>19, <2>1 DEF RestoreWithheld, TrialSteps
<1>20. CASE RestoreSucceeds
  <2>1. files' \in [Configs -> Contents] /\ remote' \in Configs \cup {NoConfig}
    BY <1>20 DEF RestoreSucceeds, Contents, TrialSteps
  <2> QED
    BY <1>20, <2>1 DEF RestoreSucceeds, TrialSteps
<1>21. CASE RestoreFails
  <2>1. trial' \in Trials /\ trial'.config = trial.config
    BY <1>21, <1>0, FailingIs DEF RestoreFails, Statuses
  <2> QED
    BY <1>21, <2>1 DEF RestoreFails, TrialSteps
<1>22. CASE Collects
  BY <1>22 DEF Collects, TrialSteps
<1>23. CASE PatchSkipped
  BY <1>23 DEF PatchSkipped, TrialSteps
<1>24. CASE PatchRejected
  <2>1. patch' \in Patches
    BY <1>24, <1>0 DEF PatchRejected, PatchIs, TrialSteps, Patches
  <2> QED
    BY <1>24, <2>1 DEF PatchRejected, TrialSteps, Contents
<1>25. CASE PatchApplied
  <2>1. patch' \in Patches
    BY <1>25, <1>0 DEF PatchApplied, PatchIs, TrialSteps, Patches
  <2> QED
    BY <1>25, <2>1 DEF PatchApplied, TrialSteps, Contents
<1>26. CASE PatchCompiles
  BY <1>26 DEF PatchCompiles, TrialSteps
<1>27. CASE SyntaxFails
  <2>1. patch' \in Patches
    BY <1>27, <1>0 DEF SyntaxFails, PatchIs, TrialSteps, Patches
  <2> QED
    BY <1>27, <2>1 DEF SyntaxFails, TrialSteps, Contents
<1>28. CASE CompileRaises
  <2>1. patch' \in Patches
    BY <1>28, <1>0 DEF CompileRaises, PatchIs, TrialSteps, Patches
  <2> QED
    BY <1>28, <2>1 DEF CompileRaises, TrialSteps, Contents
<1>29. CASE PatchRuns
  <2>1. patch' \in Patches
    BY <1>29, <1>0 DEF PatchRuns, PatchIs, TrialSteps, Patches
  <2> QED
    BY <1>29, <2>1 DEF PatchRuns, TrialSteps, Contents
<1>30. CASE RollsBack
  <2>1. patch' \in Patches
    BY <1>30, <1>0 DEF RollsBack, PatchIs, TrialSteps, Patches
  <2> QED
    BY <1>30, <2>1 DEF RollsBack, TrialSteps, Contents
<1>31. CASE RollbackFails
  <2>1. patch' \in Patches
    BY <1>31, <1>0 DEF RollbackFails, PatchIs, TrialSteps, Patches
  <2> QED
    BY <1>31, <2>1 DEF RollbackFails, TrialSteps, Contents
<1>32. CASE Closes
  <2>1. trial' \in Trials /\ trial'.config = trial.config
    BY <1>32, <1>0 DEF Closes, Trials, FirstStage, StageAfter
  <2> QED
    BY <1>32, <2>1 DEF Closes, TrialSteps
<1>33. CASE Recorded
  <2>1. records' \in Seq(Records)
    BY <1>33, EntryIs DEF Recorded, TrialSteps
  <2> QED
    BY <1>33, <2>1, NoTrialIs DEF Recorded, TrialSteps, Following
<1>34. CASE TrialRaises
  <2>1. patch' \in Patches
    BY <1>34, <1>0 DEF TrialRaises, NoPatch, Patches
  <2>2. records' \in Seq(Records)
    BY <1>34, EntryIs DEF TrialRaises, TrialSteps
  <2> QED
    BY <1>34, <2>1, <2>2 DEF TrialRaises, TrialSteps
<1>35. CASE FailureRecorded
  <2>1. records' \in Seq(Records)
    BY <1>35, EntryIs DEF FailureRecorded, TrialSteps
  <2> QED
    BY <1>35, <2>1, NoTrialIs DEF FailureRecorded, TrialSteps
<1>36. CASE FailureUnrecorded
  <2>1. records' \in Seq(Records)
    BY <1>36, EntryIs DEF FailureUnrecorded, TrialSteps
  <2> QED
    BY <1>36, <2>1, NoTrialIs DEF FailureUnrecorded, TrialSteps
<1>37. CASE ReportWritten
  <2>1. report' \in [best: Configs \cup {NoConfig}, kernel: Contents]
    <3>1. CASE Measurements = {}
      BY <1>37, <3>1 DEF ReportWritten, NoReport, Contents
    <3>2. CASE Measurements # {}
      <4>1. BestRecord \in Measurements
        BY <3>2, BestExists DEF TypeOK
      <4>2. records[BestRecord].config \in Configs
        <5>1. records[BestRecord] \in Records
          BY <4>1 DEF Measurements
        <5> QED
          BY <5>1 DEF Records
      <4> QED
        BY <1>37, <3>2, <4>2 DEF ReportWritten
    <3> QED
      BY <3>1, <3>2
  <2> QED
    BY <1>37, <2>1 DEF ReportWritten, TrialSteps
<1>38. CASE ReportRaises
  BY <1>38 DEF ReportRaises, TrialSteps
<1>39. CASE Cancel
  BY <1>39 DEF Cancel, TrialSteps
<1>40. CASE StrayEnds
  BY <1>40 DEF StrayEnds, TrialSteps
<1>41. CASE Terminated
  BY <1>41 DEF Terminated, TrialSteps, vars
<1>42. CASE UNCHANGED vars
  BY <1>42 DEF vars, TrialSteps
<1> QED
    BY <1>1, <1>2, <1>3, <1>4, <1>5, <1>6, <1>7, <1>8, <1>9, <1>10, <1>11, <1>12, <1>13, <1>14, <1>15,
     <1>16, <1>17, <1>18, <1>19, <1>20, <1>21, <1>22, <1>23, <1>24, <1>25, <1>26, <1>27, <1>28, <1>29,
     <1>30, <1>31, <1>32, <1>33, <1>34, <1>35, <1>36, <1>37, <1>38, <1>39, <1>40, <1>41, <1>42 DEF Next,
     Worker

(* -- the stages of a trial ------------------------------------------------------ *)
\* The kernel that runs is the one rendered for the trial.
Placed == files[Current] = "rendered" /\ (task.ssh => remote = Current)
PhaseInv ==
  /\ trial.status = "benchmark_ok" => ~trial.failed
  /\ pc = "deploy" =>
       /\ trial.status = "none" /\ ~trial.failed /\ ~trial.runner /\ ~trial.dead /\ trial.last = "none"
       /\ files[Current] = "rendered"
  /\ pc \in {"command", "running"} =>
       /\ trial.status = "none" /\ ~trial.failed /\ trial.runner /\ ~trial.dead
       /\ trial.last \in {"none", "clean"} /\ Placed
  /\ pc \in TrialSteps \ {"deploy", "command", "running"} => trial.failed \/ trial.status = "benchmark_ok"
  /\ pc \in TrialSteps \ {"deploy", "command", "running"} /\ ~trial.failed => measured[Current] = "rendered"
  /\ pc \in {"settle", "collect", "patch"} /\ ~trial.failed => Placed
  /\ pc = "restore" => trial.failed /\ trial.runner /\ task.fileTask
  /\ pc \in {"compile", "patchRun", "rollback"} =>
       patch.config = Current /\ ~patch.verified /\ ~task.fileTask
  /\ pc \in {"close", "append"} /\ ~trial.failed =>
       files[Current] = "rendered" \/ (patch.config = Current /\ ~patch.verified)

LEMMA RequestIs ==
  ASSUME TypeOK
  PROVE /\ task.fileTask => ~task.search /\ ~task.patching
        /\ task \in RequestRecords
  BY SearchAssumption DEF TypeOK, RequestRecords

(* What the stage of a trial says of its status, its runner, its files and the patch. *)
LEMMA PhaseStep == BaseInv /\ PhaseInv /\ [Next]_vars => PhaseInv'
<1> SUFFICES ASSUME BaseInv, PhaseInv, [Next]_vars PROVE PhaseInv'
  OBVIOUS
<1> USE DEF BaseInv, PhaseInv, Placed, TrialOwned, Current, loopVars, worldVars, outVars
<1>0. /\ trial \in Trials /\ patch \in Patches /\ files \in [Configs -> Contents]
      /\ measured \in [Configs -> Contents]
  BY DEF TypeOK
<1>1. CASE BaselineSkipped
  BY <1>1 DEF BaselineSkipped, TrialSteps
<1>2. CASE BaselineStarts
  BY <1>2, <1>0, NoTrialIs, RequestIs, SearchAssumption DEF BaselineStarts, TrialSteps, Statuses,
     Trials, Patches, TrialBegins, NoTrial
<1>3. CASE IterationStarts
  BY <1>3 DEF IterationStarts, TrialSteps
<1>4. CASE SearchEnds
  BY <1>4 DEF SearchEnds, TrialSteps
<1>5. CASE CandidateStarts
  BY <1>5, NoTrialIs DEF CandidateStarts, TrialSteps, TrialBegins, NoTrial, TypeOK
<1>6. CASE BatchEnds
  BY <1>6 DEF BatchEnds, TrialSteps
<1>7. CASE Deployed
  BY <1>7 DEF Deployed, TrialSteps
<1>8. CASE DeployFails
  BY <1>8 DEF DeployFails, TrialSteps, Failing
<1>9. CASE CommandRefused
  BY <1>9 DEF CommandRefused, TrialSteps, Failing
<1>10. CASE CommandStarts
  BY <1>10 DEF CommandStarts, TrialSteps
<1>11. CASE CommandPasses
  BY <1>11 DEF CommandPasses, TrialSteps
<1>12. CASE BenchmarkPasses
  BY <1>12, <1>0 DEF BenchmarkPasses, TrialSteps, Trials, Patches, Executed
<1>13. CASE CommandFails
  BY <1>13 DEF CommandFails, TrialSteps, Failing
<1>14. CASE CommandTimesOut
  BY <1>14 DEF CommandTimesOut, TrialSteps, Failing
<1>15. CASE StopUnverified
  BY <1>15 DEF StopUnverified, TrialSteps, Failing
<1>16. CASE LinkBreaks
  BY <1>16 DEF LinkBreaks, TrialSteps, Failing
<1>17. CASE AuditFails
  BY <1>17 DEF AuditFails, TrialSteps, Failing
<1>18. CASE Settles
  BY <1>18 DEF Settles, TrialSteps, Failing
<1>19. CASE RestoreWithheld
  BY <1>19 DEF RestoreWithheld, TrialSteps, Failing
<1>20. CASE RestoreSucceeds
  BY <1>20 DEF RestoreSucceeds, TrialSteps
<1>21. CASE RestoreFails
  BY <1>21 DEF RestoreFails, TrialSteps, Failing
<1>22. CASE Collects
  BY <1>22 DEF Collects, TrialSteps
<1>23. CASE PatchSkipped
  BY <1>23 DEF PatchSkipped, TrialSteps
<1>24. CASE PatchRejected
  BY <1>24 DEF PatchRejected, TrialSteps, PatchIs
<1>25. CASE PatchApplied
  BY <1>25, <1>0, RequestIs, SearchAssumption DEF PatchApplied, TrialSteps, Statuses, Trials, Patches,
     PatchIs, PatchWanted
<1>26. CASE PatchCompiles
  BY <1>26 DEF PatchCompiles, TrialSteps
<1>27. CASE SyntaxFails
  BY <1>27 DEF SyntaxFails, TrialSteps, PatchIs
<1>28. CASE CompileRaises
  BY <1>28 DEF CompileRaises, TrialSteps, PatchIs
<1>29. CASE PatchRuns
  BY <1>29 DEF PatchRuns, TrialSteps, PatchIs
<1>30. CASE RollsBack
  BY <1>30, <1>0 DEF RollsBack, TrialSteps, Trials, Patches
<1>31. CASE RollbackFails
  BY <1>31 DEF RollbackFails, TrialSteps
<1>32. CASE Closes
  BY <1>32 DEF Closes, TrialSteps
<1>33. CASE Recorded
  BY <1>33, NoTrialIs DEF Recorded, TrialSteps, NoTrial, Following
<1>34. CASE TrialRaises
  BY <1>34 DEF TrialRaises, TrialSteps
<1>35. CASE FailureRecorded
  BY <1>35, NoTrialIs DEF FailureRecorded, TrialSteps, NoTrial
<1>36. CASE FailureUnrecorded
  BY <1>36 DEF FailureUnrecorded, TrialSteps
<1>37. CASE ReportWritten
  BY <1>37 DEF ReportWritten, TrialSteps
<1>38. CASE ReportRaises
  BY <1>38 DEF ReportRaises, TrialSteps
<1>39. CASE Cancel
  BY <1>39 DEF Cancel, TrialSteps
<1>40. CASE StrayEnds
  BY <1>40 DEF StrayEnds, TrialSteps
<1>41. CASE Terminated
  BY <1>41 DEF Terminated, TrialSteps, vars
<1>42. CASE UNCHANGED vars
  BY <1>42 DEF vars, TrialSteps
<1> QED
    BY <1>1, <1>2, <1>3, <1>4, <1>5, <1>6, <1>7, <1>8, <1>9, <1>10, <1>11, <1>12, <1>13, <1>14, <1>15,
     <1>16, <1>17, <1>18, <1>19, <1>20, <1>21, <1>22, <1>23, <1>24, <1>25, <1>26, <1>27, <1>28, <1>29,
     <1>30, <1>31, <1>32, <1>33, <1>34, <1>35, <1>36, <1>37, <1>38, <1>39, <1>40, <1>41, <1>42 DEF Next,
     Worker

(* -- the clean-up of a file task ------------------------------------------------ *)
\* A file task has the one trial of its baseline.
StopInv ==
  /\ pc = "setupFailed" => Current # Baseline
  /\ task.fileTask => pc \notin {"candidate", "setupFailed"} /\ (pc \in TrialSteps => Current = Baseline)
  /\ task.fileTask /\ pc \in {"baseline", "deploy", "command", "running"} => ~stray
  /\ task.fileTask /\ pc \in {"settle", "restore"} /\ stray =>
       /\ trial.failed /\ trial.runner
       /\ trial.status = "cleanup_unverified" \/ (trial.dead /\ trial.last = "bad")
  /\ SettledTaskLeavesBaseline

(* What is left running behind a command of a file task is known to its status. *)
LEMMA StopStep == BaseInv /\ PhaseInv /\ StopInv /\ [Next]_vars => StopInv'
<1> SUFFICES ASSUME BaseInv, PhaseInv, StopInv, [Next]_vars PROVE StopInv'
  OBVIOUS
<1> USE DEF BaseInv, PhaseInv, StopInv, SettledTaskLeavesBaseline, Placed, TrialOwned, Current,
   loopVars, worldVars, outVars
<1>0. /\ trial \in Trials /\ patch \in Patches /\ files \in [Configs -> Contents]
      /\ stray \in BOOLEAN /\ Baseline \in Configs
  BY SearchAssumption DEF TypeOK
<1>1. CASE BaselineSkipped
  BY <1>1 DEF BaselineSkipped, TrialSteps
<1>2. CASE BaselineStarts
  BY <1>2, NoTrialIs DEF BaselineStarts, TrialSteps, TrialBegins, NoTrial
<1>3. CASE IterationStarts
  BY <1>3, <1>0, RequestIs DEF IterationStarts, TrialSteps, Statuses, Trials
<1>4. CASE SearchEnds
  BY <1>4 DEF SearchEnds, TrialSteps
<1>5. CASE CandidateStarts
  BY <1>5, NoTrialIs DEF CandidateStarts, TrialSteps, TrialBegins, NoTrial
<1>6. CASE BatchEnds
  BY <1>6 DEF BatchEnds, TrialSteps
<1>7. CASE Deployed
  BY <1>7 DEF Deployed, TrialSteps
<1>8. CASE DeployFails
  BY <1>8 DEF DeployFails, TrialSteps, Failing
<1>9. CASE CommandRefused
  BY <1>9 DEF CommandRefused, TrialSteps, Failing
<1>10. CASE CommandStarts
  BY <1>10 DEF CommandStarts, TrialSteps
<1>11. CASE CommandPasses
  BY <1>11 DEF CommandPasses, TrialSteps
<1>12. CASE BenchmarkPasses
  BY <1>12 DEF BenchmarkPasses, TrialSteps
<1>13. CASE CommandFails
  BY <1>13 DEF CommandFails, TrialSteps, Failing
<1>14. CASE CommandTimesOut
  BY <1>14, <1>0, FailingIs DEF CommandTimesOut, TrialSteps, Statuses, Trials, Failing
<1>15. CASE StopUnverified
  BY <1>15 DEF StopUnverified, TrialSteps, Failing
<1>16. CASE LinkBreaks
  BY <1>16 DEF LinkBreaks, TrialSteps, Failing
<1>17. CASE AuditFails
  BY <1>17 DEF AuditFails, TrialSteps, Failing
<1>18. CASE Settles
  BY <1>18 DEF Settles, TrialSteps, Failing, StoppedByCancel
<1>19. CASE RestoreWithheld
  BY <1>19 DEF RestoreWithheld, TrialSteps, Failing
<1>20. CASE RestoreSucceeds
  BY <1>20, <1>0 DEF RestoreSucceeds, TrialSteps, Trials
<1>21. CASE RestoreFails
  BY <1>21 DEF RestoreFails, TrialSteps, Failing
<1>22. CASE Collects
  BY <1>22 DEF Collects, TrialSteps
<1>23. CASE PatchSkipped
  BY <1>23 DEF PatchSkipped, TrialSteps, PatchWanted
<1>24. CASE PatchRejected
  BY <1>24 DEF PatchRejected, TrialSteps, PatchWanted
<1>25. CASE PatchApplied
  BY <1>25 DEF PatchApplied, TrialSteps, PatchWanted
<1>26. CASE PatchCompiles
  BY <1>26 DEF PatchCompiles, TrialSteps
<1>27. CASE SyntaxFails
  BY <1>27 DEF SyntaxFails, TrialSteps
<1>28. CASE CompileRaises
  BY <1>28 DEF CompileRaises, TrialSteps
<1>29. CASE PatchRuns
  BY <1>29 DEF PatchRuns, TrialSteps
<1>30. CASE RollsBack
  BY <1>30 DEF RollsBack, TrialSteps
<1>31. CASE RollbackFails
  BY <1>31 DEF RollbackFails, TrialSteps
<1>32. CASE Closes
  BY <1>32 DEF Closes, TrialSteps
<1>33. CASE Recorded
  BY <1>33, NoTrialIs DEF Recorded, TrialSteps, NoTrial, Following
<1>34. CASE TrialRaises
  BY <1>34 DEF TrialRaises, TrialSteps
<1>35. CASE FailureRecorded
  BY <1>35, NoTrialIs DEF FailureRecorded, TrialSteps, NoTrial
<1>36. CASE FailureUnrecorded
  BY <1>36 DEF FailureUnrecorded, TrialSteps
<1>37. CASE ReportWritten
  BY <1>37 DEF ReportWritten, TrialSteps
<1>38. CASE ReportRaises
  BY <1>38 DEF ReportRaises, TrialSteps
<1>39. CASE Cancel
  BY <1>39 DEF Cancel, TrialSteps
<1>40. CASE StrayEnds
  BY <1>40 DEF StrayEnds, TrialSteps
<1>41. CASE Terminated
  BY <1>41 DEF Terminated, TrialSteps, vars
<1>42. CASE UNCHANGED vars
  BY <1>42 DEF vars, TrialSteps
<1> QED
    BY <1>1, <1>2, <1>3, <1>4, <1>5, <1>6, <1>7, <1>8, <1>9, <1>10, <1>11, <1>12, <1>13, <1>14, <1>15,
     <1>16, <1>17, <1>18, <1>19, <1>20, <1>21, <1>22, <1>23, <1>24, <1>25, <1>26, <1>27, <1>28, <1>29,
     <1>30, <1>31, <1>32, <1>33, <1>34, <1>35, <1>36, <1>37, <1>38, <1>39, <1>40, <1>41, <1>42 DEF Next,
     Worker

(* -- what was tried and what is recorded ---------------------------------------- *)
Kept == {records[i].config : i \in DOMAIN records}
SetupFailures == {i \in DOMAIN records : records[i].status = "candidate_setup_failed"}

TriedInv ==
  /\ Baseline \in tried
  /\ pc = "baseline" => Kept = {} /\ tried = {Baseline}
  /\ pc \in {"iterate", "candidate", "report", "done"} =>
       tried = Kept \cup {c \in {Baseline} : cancel /\ Kept = {}}
  /\ pc \in TrialSteps => Current \notin Kept /\ tried = Kept \cup {Current}
  /\ pc = "setupFailed" => tried = Kept \cup {Current}
SecondsInv ==
  \A i, j \in DOMAIN records :
    i < j /\ records[i].config = records[j].config => records[j].status = "candidate_setup_failed"
LeakInv == leaked <= Cardinality(SetupFailures) + (IF pc \in {"setupFailed", "raised"} THEN 1 ELSE 0)

(* The indices and the entries of an appended sequence.                         *)
LEMMA AppendIs ==
  ASSUME NEW s \in Seq(Records), NEW e \in Records
  PROVE /\ DOMAIN Append(s, e) = DOMAIN s \cup {Len(s) + 1} /\ Len(s) + 1 \in Nat
        /\ \A i \in DOMAIN s : i \in Nat /\ i < Len(s) + 1 /\ Append(s, e)[i] = s[i]
        /\ Append(s, e)[Len(s) + 1] = e
  OBVIOUS

(* An appended record keeps its configuration and those of the others.          *)
LEMMA KeptGrows ==
  ASSUME TypeOK, NEW e \in Records, records' = Append(records, e)
  PROVE Kept' = Kept \cup {e.config}
<1>1. records \in Seq(Records)
  BY DEF TypeOK
<1> QED
  BY <1>1, AppendIs DEF Kept

LEMMA NothingKept ==
  ASSUME TypeOK
  PROVE Kept = {} <=> records = <<>>
<1>1. records \in Seq(Records)
  BY DEF TypeOK
<1>2. CASE records = <<>>
  BY <1>2 DEF Kept
<1>3. CASE records # <<>>
  <2>1. Len(records) \in Nat /\ Len(records) # 0 /\ DOMAIN records = 1..Len(records)
    BY <1>1, <1>3
  <2>2. 1 \in DOMAIN records
    BY <2>1
  <2> QED
    BY <1>3, <2>2 DEF Kept
<1> QED
  BY <1>2, <1>3

LEMMA KeptSame == records' = records => Kept' = Kept /\ SetupFailures' = SetupFailures
  BY DEF Kept, SetupFailures

(* What was tried is what is recorded, and the trial at work.                   *)
LEMMA TriedStep == BaseInv /\ StopInv /\ TriedInv /\ [Next]_vars => TriedInv'
<1> SUFFICES ASSUME BaseInv, StopInv, TriedInv, [Next]_vars PROVE TriedInv'
  OBVIOUS
<1> USE DEF TriedInv, Current, loopVars, worldVars, outVars
<1>0. /\ trial \in Trials /\ cancel \in BOOLEAN /\ batch \cap tried = {}
      /\ pc \in TrialSteps \cup {"setupFailed"} => Current \in Configs
  BY DEF BaseInv, TypeOK, TrialOwned
<1>t. TypeOK
  BY DEF BaseInv
<1>e. pc \in TrialSteps \cup {"setupFailed"} =>
        /\ Entry \in Records /\ Entry.config = Current
        /\ SetupFailure \in Records /\ SetupFailure.config = Current
  BY <1>t, <1>0, EntryIs DEF Entry, SetupFailure
<1>1. CASE BaselineSkipped
  BY <1>1, KeptSame DEF BaselineSkipped, TrialSteps
<1>2. CASE BaselineStarts
  BY <1>2, KeptSame, NoTrialIs DEF BaselineStarts, TrialSteps, TrialBegins, NoTrial
<1>3. CASE IterationStarts
  BY <1>3, KeptSame DEF IterationStarts, TrialSteps
<1>4. CASE SearchEnds
  BY <1>4, KeptSame DEF SearchEnds, TrialSteps
<1>5. CASE CandidateStarts
  BY <1>5, <1>0, KeptSame, NoTrialIs DEF CandidateStarts, TrialSteps, Trials, TrialBegins, NoTrial
<1>6. CASE BatchEnds
  BY <1>6, KeptSame DEF BatchEnds, TrialSteps
<1>7. CASE Deployed
  BY <1>7, KeptSame DEF Deployed, TrialSteps
<1>8. CASE DeployFails
  BY <1>8, KeptSame DEF DeployFails, TrialSteps, Failing
<1>9. CASE CommandRefused
  BY <1>9, KeptSame DEF CommandRefused, TrialSteps, Failing
<1>10. CASE CommandStarts
  BY <1>10, KeptSame DEF CommandStarts, TrialSteps
<1>11. CASE CommandPasses
  BY <1>11, KeptSame DEF CommandPasses, TrialSteps
<1>12. CASE BenchmarkPasses
  BY <1>12, KeptSame DEF BenchmarkPasses, TrialSteps
<1>13. CASE CommandFails
  BY <1>13, KeptSame DEF CommandFails, TrialSteps, Failing
<1>14. CASE CommandTimesOut
  BY <1>14, KeptSame DEF CommandTimesOut, TrialSteps, Failing
<1>15. CASE StopUnverified
  BY <1>15, KeptSame DEF StopUnverified, TrialSteps, Failing
<1>16. CASE LinkBreaks
  BY <1>16, KeptSame DEF LinkBreaks, TrialSteps, Failing
<1>17. CASE AuditFails
  BY <1>17, KeptSame DEF AuditFails, TrialSteps, Failing
<1>18. CASE Settles
  BY <1>18, KeptSame DEF Settles, TrialSteps, Failing
<1>19. CASE RestoreWithheld
  BY <1>19, KeptSame DEF RestoreWithheld, TrialSteps, Failing
<1>20. CASE RestoreSucceeds
  BY <1>20, KeptSame DEF RestoreSucceeds, TrialSteps
<1>21. CASE RestoreFails
  BY <1>21, KeptSame DEF RestoreFails, TrialSteps, Failing
<1>22. CASE Collects
  BY <1>22, KeptSame DEF Collects, TrialSteps
<1>23. CASE PatchSkipped
  BY <1>23, KeptSame DEF PatchSkipped, TrialSteps
<1>24. CASE PatchRejected
  BY <1>24, KeptSame DEF PatchRejected, TrialSteps
<1>25. CASE PatchApplied
  BY <1>25, KeptSame DEF PatchApplied, TrialSteps
<1>26. CASE PatchCompiles
  BY <1>26, KeptSame DEF PatchCompiles, TrialSteps
<1>27. CASE SyntaxFails
  BY <1>27, KeptSame DEF SyntaxFails, TrialSteps
<1>28. CASE CompileRaises
  BY <1>28, KeptSame DEF CompileRaises, TrialSteps
<1>29. CASE PatchRuns
  BY <1>29, KeptSame DEF PatchRuns, TrialSteps
<1>30. CASE RollsBack
  BY <1>30, KeptSame DEF RollsBack, TrialSteps
<1>31. CASE RollbackFails
  BY <1>31, KeptSame DEF RollbackFails, TrialSteps
<1>32. CASE Closes
  BY <1>32, KeptSame DEF Closes, TrialSteps
<1>33. CASE Recorded
  <2>1. records' = records => Kept' = Kept
    BY KeptSame
  <2>2. records' = Append(records, Entry) /\ pc \in TrialSteps => Kept' = Kept \cup {Current}
    BY <1>e, <1>t, KeptGrows
  <2>3. records' = Append(records, SetupFailure) /\ pc = "setupFailed" => Kept' = Kept \cup {Current}
    BY <1>e, <1>t, KeptGrows
  <2> QED
    BY <1>33, <1>0, <2>1, <2>2, <2>3, NoTrialIs DEF Recorded, TrialSteps, Following, StopInv
<1>34. CASE TrialRaises
  <2>1. records' = records => Kept' = Kept
    BY KeptSame
  <2>2. records' = Append(records, Entry) /\ pc \in TrialSteps => Kept' = Kept \cup {Current}
    BY <1>e, <1>t, KeptGrows
  <2>3. records' = Append(records, SetupFailure) /\ pc = "setupFailed" => Kept' = Kept \cup {Current}
    BY <1>e, <1>t, KeptGrows
  <2> QED
    BY <1>34, <1>0, <2>1, <2>2, <2>3, NoTrialIs DEF TrialRaises, TrialSteps, Following, StopInv
<1>35. CASE FailureRecorded
  <2>1. records' = records => Kept' = Kept
    BY KeptSame
  <2>2. records' = Append(records, Entry) /\ pc \in TrialSteps => Kept' = Kept \cup {Current}
    BY <1>e, <1>t, KeptGrows
  <2>3. records' = Append(records, SetupFailure) /\ pc = "setupFailed" => Kept' = Kept \cup {Current}
    BY <1>e, <1>t, KeptGrows
  <2> QED
    BY <1>35, <1>0, <2>1, <2>2, <2>3, NoTrialIs DEF FailureRecorded, TrialSteps, Following, StopInv
<1>36. CASE FailureUnrecorded
  <2>1. records' = records => Kept' = Kept
    BY KeptSame
  <2>2. records' = Append(records, Entry) /\ pc \in TrialSteps => Kept' = Kept \cup {Current}
    BY <1>e, <1>t, KeptGrows
  <2>3. records' = Append(records, SetupFailure) /\ pc = "setupFailed" => Kept' = Kept \cup {Current}
    BY <1>e, <1>t, KeptGrows
  <2> QED
    BY <1>36, <1>0, <2>1, <2>2, <2>3, NoTrialIs DEF FailureUnrecorded, TrialSteps, Following, StopInv
<1>37. CASE ReportWritten
  BY <1>37, KeptSame DEF ReportWritten, TrialSteps
<1>38. CASE ReportRaises
  BY <1>38, KeptSame DEF ReportRaises, TrialSteps
<1>39. CASE Cancel
  BY <1>39, KeptSame DEF Cancel, TrialSteps
<1>40. CASE StrayEnds
  BY <1>40, KeptSame DEF StrayEnds, TrialSteps
<1>41. CASE Terminated
  BY <1>41, KeptSame DEF Terminated, TrialSteps, vars
<1>42. CASE UNCHANGED vars
  BY <1>42, KeptSame DEF vars, TrialSteps
<1> QED
    BY <1>1, <1>2, <1>3, <1>4, <1>5, <1>6, <1>7, <1>8, <1>9, <1>10, <1>11, <1>12, <1>13, <1>14, <1>15,
     <1>16, <1>17, <1>18, <1>19, <1>20, <1>21, <1>22, <1>23, <1>24, <1>25, <1>26, <1>27, <1>28, <1>29,
     <1>30, <1>31, <1>32, <1>33, <1>34, <1>35, <1>36, <1>37, <1>38, <1>39, <1>40, <1>41, <1>42 DEF Next,
     Worker

(* A second record of a configuration is one of a trial that broke off.         *)
LEMMA SecondsGrow ==
  ASSUME TypeOK, SecondsInv, NEW e \in Records, records' = Append(records, e),
         e.config \notin Kept \/ e.status = "candidate_setup_failed"
  PROVE SecondsInv'
<1>1. records \in Seq(Records)
  BY DEF TypeOK
<1> DEFINE n == Len(records) + 1
<1>2. /\ DOMAIN records' = DOMAIN records \cup {n} /\ n \in Nat
      /\ \A i \in DOMAIN records : i \in Nat /\ i < n /\ records'[i] = records[i]
      /\ records'[n] = e
  BY <1>1, AppendIs
<1> HIDE DEF n
<1>3. \A i \in DOMAIN records : e.config \notin Kept => records[i].config # e.config
  BY DEF Kept
<1> QED
  BY <1>2, <1>3 DEF SecondsInv

(* A trial that broke off adds one to the records that say so.                  *)
LEMMA SetupFailuresGrow ==
  ASSUME TypeOK, NEW e \in Records, records' = Append(records, e)
  PROVE /\ Cardinality(SetupFailures) \in Nat /\ Cardinality(SetupFailures') \in Nat
        /\ Cardinality(SetupFailures) <= Cardinality(SetupFailures')
        /\ e.status = "candidate_setup_failed" =>
              Cardinality(SetupFailures') = Cardinality(SetupFailures) + 1
<1>1. records \in Seq(Records)
  BY DEF TypeOK
<1> DEFINE n == Len(records) + 1
<1>2. /\ DOMAIN records' = DOMAIN records \cup {n} /\ n \in Nat /\ n \notin DOMAIN records
      /\ \A i \in DOMAIN records : records'[i] = records[i]
      /\ records'[n] = e
  BY <1>1, AppendIs
<1> HIDE DEF n
<1>3. IsFiniteSet(SetupFailures)
  <2>1. SetupFailures \subseteq 1..Len(records) /\ Len(records) \in Nat
    BY <1>1 DEF SetupFailures
  <2>2. IsFiniteSet(1..Len(records))
    BY <2>1, FS_Interval
  <2> QED
    BY <2>1, <2>2, FS_Subset
<1>4. SetupFailures' = IF e.status = "candidate_setup_failed" THEN SetupFailures \cup {n} ELSE SetupFailures
  BY <1>2 DEF SetupFailures
<1>5. n \notin SetupFailures
  BY <1>2 DEF SetupFailures
<1>6. Cardinality(SetupFailures \cup {n}) = Cardinality(SetupFailures) + 1
  BY <1>3, <1>5, FS_AddElement
<1>7. Cardinality(SetupFailures) \in Nat
  BY <1>3, FS_CardinalityType
<1> QED
  BY <1>4, <1>6, <1>7

RecordInv == SecondsInv /\ LeakInv
LEMMA RecordStep == BaseInv /\ TriedInv /\ RecordInv /\ [Next]_vars => RecordInv'
<1> SUFFICES ASSUME BaseInv, TriedInv, RecordInv, [Next]_vars PROVE RecordInv'
  OBVIOUS
<1> USE DEF RecordInv, loopVars, worldVars, outVars
<1>t. TypeOK /\ leaked \in Nat /\ trial \in Trials
  BY DEF BaseInv, TypeOK
<1>e. pc \in TrialSteps \cup {"setupFailed"} =>
        /\ Entry \in Records /\ Entry.config = Current
        /\ SetupFailure \in Records /\ SetupFailure.status = "candidate_setup_failed"
  BY <1>t, EntryIs DEF Entry, SetupFailure, BaseInv, TrialOwned
<1>c. Cardinality(SetupFailures) \in Nat
  <2>1. SetupFailures \subseteq 1..Len(records) /\ Len(records) \in Nat
    BY <1>t DEF SetupFailures, TypeOK
  <2>2. IsFiniteSet(1..Len(records))
    BY <2>1, FS_Interval
  <2>3. IsFiniteSet(SetupFailures)
    BY <2>1, <2>2, FS_Subset
  <2> QED
    BY <2>3, FS_CardinalityType
<1>s. records' = records => SecondsInv' /\ Cardinality(SetupFailures') = Cardinality(SetupFailures)
  BY KeptSame DEF SecondsInv
<1>f. /\ records' = Append(records, Entry) /\ pc = "append" =>
            /\ SecondsInv' /\ Cardinality(SetupFailures') \in Nat
            /\ Cardinality(SetupFailures) <= Cardinality(SetupFailures')
      /\ records' = Append(records, SetupFailure) /\ pc = "setupFailed" =>
            SecondsInv' /\ Cardinality(SetupFailures') = Cardinality(SetupFailures) + 1
  BY <1>t, <1>e, SecondsGrow, SetupFailuresGrow DEF TriedInv, TrialSteps
<1>0. CASE /\ records' = records /\ leaked' = leaked
           /\ pc' \in {"setupFailed", "raised"} <=> pc \in {"setupFailed", "raised"} \/ pc' = "raised"
  BY <1>0, <1>s, <1>t, <1>c DEF LeakInv
<1>1. CASE BaselineSkipped
  BY <1>1, <1>0 DEF BaselineSkipped, TrialSteps
<1>2. CASE BaselineStarts
  BY <1>2, <1>0 DEF BaselineStarts, TrialBegins, TrialSteps
<1>3. CASE IterationStarts
  BY <1>3, <1>0 DEF IterationStarts, TrialSteps
<1>4. CASE SearchEnds
  BY <1>4, <1>0 DEF SearchEnds, TrialSteps
<1>5. CASE CandidateStarts
  BY <1>5, <1>0 DEF CandidateStarts, TrialBegins, TrialSteps
<1>6. CASE BatchEnds
  BY <1>6, <1>0 DEF BatchEnds, TrialSteps
<1>7. CASE Deployed
  BY <1>7, <1>0 DEF Deployed, TrialSteps
<1>8. CASE DeployFails
  BY <1>8, <1>0 DEF DeployFails, TrialSteps
<1>9. CASE CommandRefused
  BY <1>9, <1>0 DEF CommandRefused, TrialSteps
<1>10. CASE CommandStarts
  BY <1>10, <1>0 DEF CommandStarts, TrialSteps
<1>11. CASE CommandPasses
  BY <1>11, <1>0 DEF CommandPasses, TrialSteps
<1>12. CASE BenchmarkPasses
  BY <1>12, <1>0 DEF BenchmarkPasses, TrialSteps
<1>13. CASE CommandFails
  BY <1>13, <1>0 DEF CommandFails, TrialSteps
<1>14. CASE CommandTimesOut
  BY <1>14, <1>0 DEF CommandTimesOut, TrialSteps
<1>15. CASE StopUnverified
  BY <1>15, <1>0 DEF StopUnverified, TrialSteps
<1>16. CASE LinkBreaks
  BY <1>16, <1>0 DEF LinkBreaks, TrialSteps
<1>17. CASE AuditFails
  BY <1>17, <1>0 DEF AuditFails, TrialSteps
<1>18. CASE Settles
  BY <1>18, <1>0 DEF Settles, TrialSteps
<1>19. CASE RestoreWithheld
  BY <1>19, <1>0 DEF RestoreWithheld, TrialSteps
<1>20. CASE RestoreSucceeds
  BY <1>20, <1>0 DEF RestoreSucceeds, TrialSteps
<1>21. CASE RestoreFails
  BY <1>21, <1>0 DEF RestoreFails, TrialSteps
<1>22. CASE Collects
  BY <1>22, <1>0 DEF Collects, TrialSteps
<1>23. CASE PatchSkipped
  BY <1>23, <1>0 DEF PatchSkipped, TrialSteps
<1>24. CASE PatchRejected
  BY <1>24, <1>0 DEF PatchRejected, TrialSteps
<1>25. CASE PatchApplied
  BY <1>25, <1>0 DEF PatchApplied, TrialSteps
<1>26. CASE PatchCompiles
  BY <1>26, <1>0 DEF PatchCompiles, TrialSteps
<1>27. CASE SyntaxFails
  BY <1>27, <1>0 DEF SyntaxFails, TrialSteps
<1>28. CASE CompileRaises
  BY <1>28, <1>0 DEF CompileRaises, TrialSteps
<1>29. CASE PatchRuns
  BY <1>29, <1>0 DEF PatchRuns, TrialSteps
<1>30. CASE RollsBack
  BY <1>30, <1>0 DEF RollsBack, TrialSteps
<1>31. CASE RollbackFails
  BY <1>31, <1>0 DEF RollbackFails, TrialSteps
<1>32. CASE Closes
  BY <1>32, <1>0 DEF Closes, TrialSteps
<1>33. CASE Recorded
  BY <1>33, <1>t, <1>c, <1>s, <1>f DEF Recorded, LeakInv, TrialSteps, Following
<1>34. CASE TrialRaises
  BY <1>34, <1>t, <1>c, <1>s, <1>f DEF TrialRaises, LeakInv, TrialSteps
<1>35. CASE FailureRecorded
  BY <1>35, <1>t, <1>c, <1>s, <1>f DEF FailureRecorded, LeakInv, TrialSteps
<1>36. CASE FailureUnrecorded
  BY <1>36, <1>t, <1>c, <1>s, <1>f DEF FailureUnrecorded, LeakInv, TrialSteps
<1>37. CASE ReportWritten
  BY <1>37, <1>0 DEF ReportWritten, TrialSteps
<1>38. CASE ReportRaises
  BY <1>38, <1>0 DEF ReportRaises, TrialSteps
<1>39. CASE Cancel
  BY <1>39, <1>0 DEF Cancel, TrialSteps
<1>40. CASE StrayEnds
  BY <1>40, <1>0 DEF StrayEnds, TrialSteps
<1>41. CASE Terminated
  BY <1>41, <1>0 DEF Terminated, TrialSteps, vars
<1>42. CASE UNCHANGED vars
  BY <1>42, <1>0 DEF vars
<1> QED
    BY <1>1, <1>2, <1>3, <1>4, <1>5, <1>6, <1>7, <1>8, <1>9, <1>10, <1>11, <1>12, <1>13, <1>14, <1>15,
     <1>16, <1>17, <1>18, <1>19, <1>20, <1>21, <1>22, <1>23, <1>24, <1>25, <1>26, <1>27, <1>28, <1>29,
     <1>30, <1>31, <1>32, <1>33, <1>34, <1>35, <1>36, <1>37, <1>38, <1>39, <1>40, <1>41, <1>42 DEF Next,
     Worker

\* What is on disk for a configuration is what was measured, or a patch is to blame.
Faithful(c) == measured[c] = "rendered" /\ (files[c] = "rendered" \/ (patch.config = c /\ ~patch.verified))
MeasuredConfigs == {records[i].config : i \in Measurements}
MeasuredInv == \A c \in MeasuredConfigs : Faithful(c)

LEMMA MeasuredAreKept == MeasuredConfigs \subseteq Kept
  BY DEF MeasuredConfigs, Kept, Measurements

(* Only the record of a passed benchmark is a new measurement.                  *)
LEMMA MeasuredGrow ==
  ASSUME TypeOK, NEW e \in Records, records' = Append(records, e)
  PROVE MeasuredConfigs' \subseteq MeasuredConfigs \cup {c \in {e.config} : e.status = "benchmark_ok"}
<1>1. records \in Seq(Records)
  BY DEF TypeOK
<1> DEFINE n == Len(records) + 1
<1>2. /\ DOMAIN records' = DOMAIN records \cup {n}
      /\ \A i \in DOMAIN records : records'[i] = records[i]
      /\ records'[n] = e
  BY <1>1, AppendIs
<1> HIDE DEF n
<1> QED
  BY <1>2 DEF MeasuredConfigs, Measurements

(* What is on disk for a recorded configuration stays what was measured.        *)
LEMMA MeasuredStep == BaseInv /\ PhaseInv /\ TriedInv /\ MeasuredInv /\ [Next]_vars => MeasuredInv'
<1> SUFFICES ASSUME BaseInv, PhaseInv, TriedInv, MeasuredInv, [Next]_vars PROVE MeasuredInv'
  OBVIOUS
<1> USE DEF MeasuredInv, Faithful, Current, loopVars, worldVars, outVars
<1>t. /\ TypeOK /\ patch \in Patches /\ trial \in Trials
      /\ files \in [Configs -> Contents] /\ measured \in [Configs -> Contents]
      /\ batch \cap tried = {} /\ tried \subseteq Configs /\ NoConfig \notin Configs
      /\ pc # "raised" => Kept \subseteq tried
  <2>2. pc # "raised" => Kept \subseteq tried
    BY DEF BaseInv, TypeOK, TriedInv, TrialSteps
  <2> QED
    BY <2>2, SearchAssumption DEF BaseInv, TypeOK
<1>e. pc \in TrialSteps \cup {"setupFailed"} =>
        /\ Entry \in Records /\ Entry.config = Current /\ Entry.status = trial.status
        /\ SetupFailure \in Records /\ SetupFailure.status = "candidate_setup_failed"
  BY <1>t, EntryIs DEF Entry, SetupFailure, BaseInv, TrialOwned
<1>s. records' = records => MeasuredConfigs' = MeasuredConfigs
  BY DEF MeasuredConfigs, Measurements
<1>f. /\ records' = Append(records, Entry) /\ pc = "append" =>
            MeasuredConfigs' \subseteq MeasuredConfigs \cup {c \in {Current} : trial.status = "benchmark_ok"}
      /\ records' = Append(records, SetupFailure) /\ pc = "setupFailed" =>
            MeasuredConfigs' \subseteq MeasuredConfigs
  BY <1>t, <1>e, MeasuredGrow DEF TrialSteps
<1>n. MeasuredConfigs \subseteq Kept
  BY MeasuredAreKept
<1>0. CASE records' = records /\ files' = files /\ measured' = measured /\ patch' = patch
  BY <1>0, <1>s
<1>1. CASE BaselineSkipped
  BY <1>1, <1>0 DEF BaselineSkipped
<1>2. CASE BaselineStarts
  BY <1>2, <1>t, <1>s, <1>n DEF BaselineStarts, TrialBegins, TrialSteps, TriedInv, PhaseInv
<1>3. CASE IterationStarts
  BY <1>3, <1>0 DEF IterationStarts
<1>4. CASE SearchEnds
  BY <1>4, <1>0 DEF SearchEnds
<1>5. CASE CandidateStarts
  BY <1>5, <1>t, <1>s, <1>n DEF CandidateStarts, TrialBegins, TrialSteps, TriedInv, PhaseInv
<1>6. CASE BatchEnds
  BY <1>6, <1>0 DEF BatchEnds
<1>7. CASE Deployed
  BY <1>7, <1>0 DEF Deployed
<1>8. CASE DeployFails
  BY <1>8, <1>0 DEF DeployFails
<1>9. CASE CommandRefused
  BY <1>9, <1>0 DEF CommandRefused
<1>10. CASE CommandStarts
  BY <1>10, <1>0 DEF CommandStarts
<1>11. CASE CommandPasses
  BY <1>11, <1>0 DEF CommandPasses
<1>12. CASE BenchmarkPasses
  BY <1>12, <1>t, <1>s, <1>n DEF BenchmarkPasses, TrialSteps, TriedInv, PhaseInv
<1>13. CASE CommandFails
  BY <1>13, <1>0 DEF CommandFails
<1>14. CASE CommandTimesOut
  BY <1>14, <1>0 DEF CommandTimesOut
<1>15. CASE StopUnverified
  BY <1>15, <1>0 DEF StopUnverified
<1>16. CASE LinkBreaks
  BY <1>16, <1>0 DEF LinkBreaks
<1>17. CASE AuditFails
  BY <1>17, <1>t, <1>s, <1>n DEF AuditFails, TrialSteps, TriedInv, PhaseInv
<1>18. CASE Settles
  BY <1>18, <1>0 DEF Settles
<1>19. CASE RestoreWithheld
  BY <1>19, <1>0 DEF RestoreWithheld
<1>20. CASE RestoreSucceeds
  BY <1>20, <1>t, <1>s, <1>n DEF RestoreSucceeds, TrialSteps, TriedInv, PhaseInv
<1>21. CASE RestoreFails
  BY <1>21, <1>0 DEF RestoreFails
<1>22. CASE Collects
  BY <1>22, <1>0 DEF Collects
<1>23. CASE PatchSkipped
  BY <1>23, <1>0 DEF PatchSkipped
<1>24. CASE PatchRejected
  BY <1>24, <1>t, <1>s, <1>n DEF PatchRejected, TrialSteps, TriedInv, PhaseInv, PatchIs, PatchWanted
<1>25. CASE PatchApplied
  BY <1>25, <1>t, <1>s, <1>n DEF PatchApplied, TrialSteps, TriedInv, PhaseInv, PatchIs, PatchWanted
<1>26. CASE PatchCompiles
  BY <1>26, <1>0 DEF PatchCompiles
<1>27. CASE SyntaxFails
  BY <1>27, <1>t, <1>s, <1>n DEF SyntaxFails, TrialSteps, TriedInv, PhaseInv, PatchIs
<1>28. CASE CompileRaises
  BY <1>28, <1>t, <1>s, <1>n DEF CompileRaises, TrialSteps, TriedInv, PhaseInv, PatchIs
<1>29. CASE PatchRuns
  BY <1>29, <1>t, <1>s, <1>n DEF PatchRuns, TrialSteps, TriedInv, PhaseInv, PatchIs
<1>30. CASE RollsBack
  BY <1>30, <1>t, <1>s, <1>n DEF RollsBack, TrialSteps, TriedInv, PhaseInv
<1>31. CASE RollbackFails
  BY <1>31, <1>t, <1>s, <1>n DEF RollbackFails, TrialSteps, TriedInv, PhaseInv
<1>32. CASE Closes
  BY <1>32, <1>0 DEF Closes
<1>33. CASE Recorded
  BY <1>33, <1>t, <1>s, <1>f, <1>n DEF Recorded, TrialSteps, TriedInv, PhaseInv
<1>34. CASE TrialRaises
  BY <1>34, <1>t, <1>s, <1>f, <1>n DEF TrialRaises, TrialSteps, TriedInv, PhaseInv
<1>35. CASE FailureRecorded
  BY <1>35, <1>t, <1>s, <1>f, <1>n DEF FailureRecorded, TrialSteps, TriedInv, PhaseInv
<1>36. CASE FailureUnrecorded
  BY <1>36, <1>t, <1>s, <1>f, <1>n DEF FailureUnrecorded, TrialSteps, TriedInv, PhaseInv
<1>37. CASE ReportWritten
  BY <1>37, <1>0 DEF ReportWritten
<1>38. CASE ReportRaises
  BY <1>38, <1>0 DEF ReportRaises
<1>39. CASE Cancel
  BY <1>39, <1>0 DEF Cancel
<1>40. CASE StrayEnds
  BY <1>40, <1>0 DEF StrayEnds
<1>41. CASE Terminated
  BY <1>41, <1>0 DEF Terminated, vars
<1>42. CASE UNCHANGED vars
  BY <1>42, <1>0 DEF vars
<1> QED
    BY <1>1, <1>2, <1>3, <1>4, <1>5, <1>6, <1>7, <1>8, <1>9, <1>10, <1>11, <1>12, <1>13, <1>14, <1>15,
     <1>16, <1>17, <1>18, <1>19, <1>20, <1>21, <1>22, <1>23, <1>24, <1>25, <1>26, <1>27, <1>28, <1>29,
     <1>30, <1>31, <1>32, <1>33, <1>34, <1>35, <1>36, <1>37, <1>38, <1>39, <1>40, <1>41, <1>42 DEF Next,
     Worker

(* -- the invariant and the theorems --------------------------------------------- *)
SearchInv ==
  /\ BaseInv /\ PhaseInv /\ StopInv /\ TriedInv /\ RecordInv /\ MeasuredInv
  /\ BestIsMeasured

LEMMA SearchInit == Init => SearchInv
<1> SUFFICES ASSUME Init PROVE SearchInv
  OBVIOUS
<1>1. BaseInv
  BY BaseInit
<1>2. /\ trial = NoTrial /\ pc = "baseline" /\ stray = FALSE /\ tried = {Baseline} /\ leaked = 0
      /\ records = <<>>
  BY DEF Init
<1>3. Kept = {} /\ SetupFailures = {} /\ MeasuredConfigs = {} /\ SecondsInv
  BY <1>2 DEF Kept, SetupFailures, MeasuredConfigs, Measurements, SecondsInv
<1>4. Cardinality(SetupFailures) = 0
  BY <1>3, FS_EmptySet
<1> QED
  BY <1>1, <1>2, <1>3, <1>4, NoTrialIs
     DEF SearchInv, PhaseInv, StopInv, SettledTaskLeavesBaseline, TriedInv, RecordInv, LeakInv,
         MeasuredInv, BestIsMeasured, TrialSteps, Current

(* The report is written from the best of the records.                          *)
LEMMA BestWritten ==
  ASSUME SearchInv, ReportWritten
  PROVE BestIsMeasured'
<1> USE DEF SearchInv, worldVars, loopVars
<1>1. /\ records' = records /\ measured' = measured /\ patch' = patch
      /\ report' = IF Measurements = {} THEN NoReport
                   ELSE [best |-> records[BestRecord].config, kernel |-> files[records[BestRecord].config]]
  BY DEF ReportWritten
<1>2. Measurements' = Measurements
  BY <1>1 DEF Measurements
<1>3. NoConfig \notin Configs /\ records \in Seq(Records)
  BY SearchAssumption DEF BaseInv, TypeOK
<1>4. CASE Measurements = {}
  BY <1>1, <1>2, <1>4 DEF BestIsMeasured, NoReport
<1>5. CASE Measurements # {}
  <2> DEFINE i == BestRecord
             best == records[i].config
  <2>1. i \in Measurements /\ \A j \in Measurements : records[i].value <= records[j].value
    BY <1>3, <1>5, BestExists
  <2>2. best \in Configs
    <3>1. records[i] \in Records
      BY <1>3, <2>1 DEF Measurements
    <3> QED
      BY <3>1 DEF Records
  <2>3. Faithful(best)
    BY <2>1 DEF MeasuredInv, MeasuredConfigs
  <2>4. report'.best = best /\ report'.kernel = files[best]
    BY <1>1, <1>5
  <2> HIDE DEF i
  <2>5. files[best] = measured[best] \/ (patch.config = best /\ ~patch.verified)
    BY <2>3 DEF Faithful
  <2> QED
    BY <1>1, <1>2, <1>3, <2>1, <2>2, <2>4, <2>5 DEF BestIsMeasured
<1> QED
  BY <1>4, <1>5

LEMMA BestStep == SearchInv /\ [Next]_vars => BestIsMeasured'
<1> SUFFICES ASSUME SearchInv, [Next]_vars PROVE BestIsMeasured'
  OBVIOUS
<1>1. CASE ReportWritten
  BY <1>1, BestWritten
<1>2. CASE pc' # "done"
  BY <1>2 DEF BestIsMeasured
<1>3. CASE UNCHANGED <<pc, report, records, measured, patch>>
  BY <1>3 DEF BestIsMeasured, Measurements, SearchInv
<1>4. ReportWritten \/ pc' # "done" \/ UNCHANGED <<pc, report, records, measured, patch>>
  <2>1. CASE Worker
        BY <2>1 DEF Worker, TrialBegins, Following, BaselineSkipped, BaselineStarts,
              IterationStarts, SearchEnds, CandidateStarts, BatchEnds, Deployed, DeployFails,
              CommandRefused, CommandStarts, CommandPasses, BenchmarkPasses, CommandFails,
              CommandTimesOut, StopUnverified, LinkBreaks, AuditFails, Settles, RestoreWithheld,
              RestoreSucceeds, RestoreFails, Collects, PatchSkipped, PatchRejected,
              PatchApplied, PatchCompiles, SyntaxFails, CompileRaises, PatchRuns, RollsBack,
              RollbackFails, Closes, Recorded, TrialRaises, FailureRecorded, FailureUnrecorded,
              ReportRaises
  <2>2. CASE Cancel
    BY <2>2 DEF Cancel
  <2>3. CASE StrayEnds
    BY <2>3 DEF StrayEnds, outVars
  <2>4. CASE Terminated \/ UNCHANGED vars
    BY <2>4 DEF Terminated, vars, outVars
  <2> QED
    BY <2>1, <2>2, <2>3, <2>4 DEF Next
<1> QED
  BY <1>1, <1>2, <1>3, <1>4

(* Types, the stage a trial has come to, what runs behind a stop, the tried and  *)
(* the recorded configurations and what is on disk stay as SearchInv says.        *)
THEOREM SearchInvariance == Spec => []SearchInv
<1>1. SearchInv /\ [Next]_vars => SearchInv'
  <2> SUFFICES ASSUME SearchInv, [Next]_vars PROVE SearchInv'
    OBVIOUS
  <2>1. BaseInv' /\ PhaseInv' /\ StopInv'
    BY BaseStep, PhaseStep, StopStep DEF SearchInv
  <2>2. TriedInv' /\ RecordInv'
    BY TriedStep, RecordStep DEF SearchInv
  <2>3. MeasuredInv' /\ BestIsMeasured'
    BY MeasuredStep, BestStep DEF SearchInv
  <2> QED
    BY <2>1, <2>2, <2>3 DEF SearchInv
<1> QED
  BY <1>1, SearchInit, PTL DEF Spec

(* Every variable keeps its type.                                               *)
THEOREM SearchTypes == Spec => []TypeOK
<1>1. SearchInv => TypeOK
  BY DEF SearchInv, BaseInv
<1> QED
  BY <1>1, SearchInvariance, PTL

(* The reported kernel is the text that was measured for the best record, unless *)
(* the record of the patch trial says that its rollback was not verified.        *)
THEOREM BestMeasured == Spec => []BestIsMeasured
<1>1. SearchInv => BestIsMeasured
  BY DEF SearchInv
<1> QED
  BY <1>1, SearchInvariance, PTL

(* Between two trials every tried configuration has a record, a second record    *)
(* says that a trial broke off, and open runners belong to such trials.          *)
THEOREM TrialsRecorded == Spec => []EveryTrialRecorded
<1>1. SearchInv => EveryTrialRecorded
  <2> SUFFICES ASSUME SearchInv PROVE EveryTrialRecorded
    OBVIOUS
  <2>1. Kept = {} <=> records = <<>>
    BY NothingKept DEF SearchInv, BaseInv
  <2>2. pc \in {"iterate", "candidate", "report", "done"} =>
          tried = Kept \cup {c \in {Baseline} : cancel /\ records = <<>>}
    <3> HIDE DEF Kept
    <3> QED
      BY <2>1 DEF SearchInv, TriedInv
  <2> QED
    BY <2>2 DEF SearchInv, RecordInv, SecondsInv, LeakInv, SetupFailures, Kept, EveryTrialRecorded
<1> QED
  BY <1>1, SearchInvariance, PTL

(* Behind the clean-up of a file task's trial the workspace is the baseline and   *)
(* no command of the trial runs, or the status says rollback_failed.             *)
THEOREM TaskSettled == Spec => []SettledTaskLeavesBaseline
<1>1. SearchInv => SettledTaskLeavesBaseline
  BY DEF SearchInv, StopInv
<1> QED
  BY <1>1, SearchInvariance, PTL
===============================================================================
