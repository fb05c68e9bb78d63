------------------------ MODULE SourceOptimizerProofs ------------------------
(***************************************************************************)
(* What holds of run_source_optimization for every set of versions, every  *)
(* budget, every number of repeats and every fault: the variables keep     *)
(* their types; the published kernel is the baseline or a version that was *)
(* measured, rechecked against its parent and rolled back cleanly; a       *)
(* cancel lets at most one more command start; no source is tried twice;   *)
(* the files, the result and the machine agree at the end; nothing is      *)
(* rewritten under a command that may still be running; and what a client  *)
(* sees of a run is a behaviour of Publication.                            *)
(***************************************************************************)
EXTENDS SourceOptimizer, SequenceTheorems, TLAPS

-----------------------------------------------------------------------------
(* The inductive invariant.                                                *)

\* Places at which the current trial's verdict is still open, and places at which
\* the winner of the accepted chain is being published.
TrialPlaces == {"candidate", "gate", "recheck", "settle"}
PublishPlaces == {"deploying", "deployed", "undeploy", "copying", "copied", "unpublish",
                  "announced"}

\* The trial under way has a source of its own.
TrialHasSource ==
    pc \in TrialPlaces => Current \in Nat \ {0} /\ trials[Current].after \in Versions

\* No decision of an earlier trial is left over, and an acceptance was earned.
GateIsFresh == pc \in {"candidate", "gate", "recheck"} => gate = "none"
GateIsEarned == pc = "settle" /\ gate = "accepted" => trials[Current].after \in verified

\* Every member of the accepted chain names a trial whose source is verified.
ChainVerified ==
    \A k \in 1..Len(candidates) :
        candidates[k] \in 1..Current /\ trials[candidates[k]].after \in verified

WinnerExists == pc \in PublishPlaces => candidates # <<>>

\* Why the published kernel is verified: where its bytes come from.
Provenance ==
    /\ TrialHasSource
    /\ GateIsFresh
    /\ GateIsEarned
    /\ ChainVerified
    /\ WinnerExists
    /\ PublishedIsVerified

IInv == TypeOK /\ Provenance

-----------------------------------------------------------------------------
(* Sequences of trials.                                                    *)

\* Overwriting the two fields a verdict or a rollback sets keeps a list of trials one.
LEMMA TrialRuled ==
    ASSUME trials \in Seq(Trials), NEW i, NEW status \in TrialStatus,
           NEW ok \in BOOLEAN \union {None}
    PROVE  /\ Ruled(i, status, ok) \in Seq(Trials)
           /\ Len(Ruled(i, status, ok)) = Current
           /\ \A j \in 1..Current : Ruled(i, status, ok)[j].after = trials[j].after
<1> DEFINE t == [trials EXCEPT ![i].status = status, ![i].rollbackVerified = ok]
<1>1. /\ trials \in [1..Current -> Trials]
      /\ Current \in Nat
      /\ DOMAIN trials = 1..Current
  BY LenProperties DEF Current
<1>2. t \in [1..Current -> Trials]
  BY <1>1 DEF Trials
<1>3. \A j \in 1..Current : t[j].after = trials[j].after
  BY <1>1 DEF Trials
<1> HIDE DEF t
<1>4. t \in Seq(Trials)
  BY <1>1, <1>2, SeqDef
<1>5. Len(t) \in Nat /\ DOMAIN t = 1..Len(t)
  BY <1>4, LenProperties
<1>6. Len(t) = Current
  BY <1>1, <1>2, <1>5
<1> QED
  BY <1>3, <1>4, <1>6 DEF t, Ruled

-----------------------------------------------------------------------------
(* Types of the version under execution.                                   *)

\* The history counter and a cancel check keep their types.
LEMMA CountStartType ==
    ASSUME lateCommands \in 0..MaxLate, CountStart
    PROVE  lateCommands' \in 0..MaxLate
BY DEF CountStart, MaxLate

LEMMA CheckedType ==
    ASSUME exec \in Executions, NEW next \in Executions, lateCommands \in 0..MaxLate, Checked(next)
    PROVE  exec' \in Executions /\ lateCommands' \in 0..MaxLate
<1>1. CASE cancelRequested
  BY <1>1 DEF Checked, Executions, Stages, OutcomeStatus
<1>2. CASE ~cancelRequested
  BY <1>2, CountStartType DEF Checked
<1> QED BY <1>1, <1>2

\* An outcome that returns, moves to a stage, or has its repeat counted is typed.
LEMMA OutcomeType ==
    ASSUME exec \in Executions, NEW stage \in Stages, NEW status \in OutcomeStatus,
           NEW runner \in BOOLEAN, NEW allowed \in BOOLEAN
    PROVE  /\ [exec EXCEPT !.stage = stage] \in Executions
           /\ [exec EXCEPT !.stage = stage, !.status = status] \in Executions
           /\ [exec EXCEPT !.runner = runner, !.stage = stage] \in Executions
           /\ [exec EXCEPT !.stage = stage, !.runner = runner] \in Executions
           /\ [exec EXCEPT !.stage = stage, !.status = status, !.runner = runner] \in Executions
           /\ [exec EXCEPT !.stage = stage, !.status = status, !.restoreAllowed = allowed]
                 \in Executions
BY DEF Executions

\* A version in execution is always one of Executions, whatever it runs into.
LEMMA ExecutionKeepsType ==
    ASSUME ExecTypeOK, ExecStep, UNCHANGED requestVars
    PROVE  ExecTypeOK'
<1> DEFINE Kept == /\ workspace' \in Contents
                   /\ runaway' \in Roles \union {"none"}
                   /\ exec' \in Executions
                   /\ lateCommands' \in 0..MaxLate
<1> SUFFICES Kept
  BY DEF ExecTypeOK, requestVars
<1> USE DEF Stages, Commands, OutcomeStatus, Failures, Contents, Disturbed
<1>a. /\ workspace \in Contents /\ runaway \in Roles \union {"none"}
      /\ exec \in Executions /\ lateCommands \in 0..MaxLate
  BY DEF ExecTypeOK
<1>b. /\ exec.role \in Roles /\ exec.version \in Versions /\ exec.stage \in Stages
      /\ exec.repeat \in 0..Repeats
  BY <1>a DEF Executions
<1>c. exec.stage \in Commands => FailureOf(exec.stage) \in OutcomeStatus
  BY DEF FailureOf
<1>1. CASE EntryCancelled
  BY <1>1, <1>a, OutcomeType DEF EntryCancelled, Return
<1>2. CASE EntryProtectedChanged
  BY <1>2, <1>a, OutcomeType DEF EntryProtectedChanged, Return
<1>3. CASE EntryPasses
  BY <1>3, <1>a, OutcomeType DEF EntryPasses
<1>4. CASE DeployRaises
  BY <1>4, <1>a, OutcomeType DEF DeployRaises, Return
<1>5. CASE DeployAuditFails
  BY <1>5, <1>a, <1>b, OutcomeType DEF DeployAuditFails
<1>6. CASE DeployBuilds
  BY <1>6, <1>a, <1>b, OutcomeType, CountStartType DEF DeployBuilds
<1>7. CASE DeployWithoutBuild
  BY <1>7, <1>a, <1>b, OutcomeType, CheckedType DEF DeployWithoutBuild
<1>8. CASE CommandStopUnverified
  BY <1>8, <1>a, <1>b, OutcomeType DEF CommandStopUnverified
<1>20. CASE CommandLost
  BY <1>20, <1>a, <1>b, OutcomeType DEF CommandLost
<1>9. CASE CommandAuditFails
  BY <1>9, <1>a, OutcomeType DEF CommandAuditFails, Return
<1>10. CASE CommandInterrupted
  BY <1>10, <1>a, OutcomeType DEF CommandInterrupted, Return
<1>11. CASE CommandFails
  BY <1>c, <1>11, <1>a, OutcomeType DEF CommandFails, Return
<1>12. CASE BuildPasses
  BY <1>12, <1>a, OutcomeType, CheckedType DEF BuildPasses, CommandPasses
<1>13. CASE CorrectnessPasses
  BY <1>13, <1>a, OutcomeType, CheckedType DEF CorrectnessPasses, CommandPasses
<1>14. CASE BenchmarkRepeats
  <2>1. [exec EXCEPT !.repeat = @ + 1] \in Executions
    BY <1>14, <1>a, <1>b, RepeatsPositive DEF BenchmarkRepeats, Executions
  <2> QED BY <2>1, <1>14, <1>a, CheckedType DEF BenchmarkRepeats
<1>15. CASE BenchmarkFinishes
  <2> DEFINE next == IF task.profiler /\ exec.role # "recheck" THEN "profiler" ELSE "returned"
  <2>1. next \in Stages /\ exec.repeat + 1 \in 0..Repeats
    BY <1>15, <1>b, RepeatsPositive DEF BenchmarkFinishes
  <2> HIDE DEF next
  <2>2. [exec EXCEPT !.repeat = exec.repeat + 1, !.stage = next] \in Executions
    BY <2>1, <1>a DEF Executions
  <2> QED BY <2>2, <1>15, <1>a DEF BenchmarkFinishes, next
<1>16. CASE ProfilerEnters
  BY <1>16, <1>a, OutcomeType DEF ProfilerEnters
<1>17. CASE ProfilerStarts
  BY <1>17, <1>a, OutcomeType, CountStartType DEF ProfilerStarts
<1>18. CASE ProfilerStopUnverified
  BY <1>18, <1>a, <1>b, OutcomeType DEF ProfilerStopUnverified
<1>19. ASSUME NEW ok \in BOOLEAN, ProfilerAudited(ok) PROVE Kept
  BY <1>19, <1>a, OutcomeType DEF ProfilerAudited, Return
<1> QED
  BY ONLY ExecStep, <1>1, <1>2, <1>3, <1>4, <1>5, <1>6, <1>7, <1>8, <1>9, <1>10, <1>11, <1>12, <1>13,
          <1>14, <1>15, <1>16, <1>17, <1>18, <1>19, <1>20 DEF ExecStep

\* A call starts from a typed outcome, and a restore leaves typed bytes.
LEMMA CallType ==
    ASSUME NEW role \in Roles, NEW version \in Versions
    PROVE  Call(role, version) \in Executions
BY RepeatsPositive DEF Call, Executions, Stages, OutcomeStatus

LEMMA RestoreType ==
    ASSUME NEW hasRunner, NEW snapshot \in Versions, NEW ok, workspace \in Contents,
           Restore(hasRunner, snapshot, ok)
    PROVE  workspace' \in Contents
BY DEF Restore, Disturbed, Contents

LEMMA RollbackType ==
    ASSUME NEW snapshot \in Versions, NEW ok, workspace \in Contents, Rollback(snapshot, ok)
    PROVE  workspace' \in Contents
BY RestoreType DEF Rollback

LEMMA ExecutionUntouched ==
    ASSUME ExecTypeOK, UNCHANGED <<requestVars, execVars>>
    PROVE  ExecTypeOK'
BY DEF ExecTypeOK, requestVars, execVars

-----------------------------------------------------------------------------
(* The initial state and the steps.                                        *)

\* Versions, the damaged bytes and no file at all are told apart.
LEMMA ContentsApart ==
    ASSUME NEW v \in Versions
    PROVE  v # Unknown /\ v # None /\ None # Unknown
BY UnknownIsNoVersion, NoneIsNoVersion DEF Contents

LEMMA InitInv == Init => IInv
<1> SUFFICES ASSUME Init PROVE IInv
  OBVIOUS
<1>1. task \in TaskRecords /\ task.source \in Versions
  BY RequestsType DEF Init, TaskRecords
<1>2. exec \in Executions
  BY <1>1, CallType DEF Init, Executions, Stages, Roles
<1>0. cancelRequested \in BOOLEAN /\ restored \in BOOLEAN /\ rollbackFailed \in BOOLEAN
  BY Zenon DEF Init
<1>3. ExecTypeOK
  <2>1. /\ workspace = Unknown /\ runaway = "none" /\ lateCommands = 0
    BY DEF Init
  <2> QED BY <1>0, <1>1, <1>2, <2>1 DEF ExecTypeOK, Contents, MaxLate
<1>4. /\ trials = <<>> /\ candidates = <<>>
      /\ trials \in Seq(Trials) /\ candidates \in Seq(Nat)
  BY EmptySeq DEF Init
<1>5. result \in Results
  BY <1>1 DEF Init, Results, ResultStatus
<1>6. EngineTypeOK
  <2>1. /\ pc = "start" /\ round = 0 /\ parent = task.source /\ gate = "none"
        /\ attemptedTargets = {} /\ attempted = {task.source} /\ verified = {}
        /\ kernelFile = None /\ configFile = None /\ saved = result
    BY DEF Init
  <2> QED BY <1>0, <1>1, <1>4, <1>5, <2>1, BudgetType DEF EngineTypeOK, Places
<1>7. Provenance
  BY <1>1, <1>4, ContentsApart DEF Init, Provenance, TrialHasSource, GateIsFresh, GateIsEarned, ChainVerified,
              WinnerExists, PublishedIsVerified, TrialPlaces, PublishPlaces
<1> QED
  BY <1>3, <1>6, <1>7 DEF IInv, TypeOK

\* A step that leaves the trials, the chain, the decision and the published kernel
\* alone keeps their provenance if the place it goes to asks for nothing new.
LEMMA ProvenanceFrame ==
    ASSUME Provenance,
           UNCHANGED <<task, verified, trials, candidates, gate, kernelFile>>,
           pc' \in TrialPlaces => pc \in TrialPlaces,
           pc' \in TrialPlaces => gate = "none" \/ pc' = pc,
           pc' \in PublishPlaces => candidates # <<>>,
           pc \in {"unpublish", "raised"} => pc' \in {"unpublish", "raised"}
    PROVE  Provenance'
BY DEF Provenance, TrialHasSource, GateIsFresh, GateIsEarned, ChainVerified, WinnerExists,
       PublishedIsVerified, TrialPlaces, Current, Baseline

LEMMA EnvironmentKeepsInv ==
    ASSUME IInv, RequestCancel \/ RunawayInterferes \/ Executing \/ Finished
    PROVE  IInv'
<1>1. Provenance'
  BY ProvenanceFrame DEF IInv, Provenance, WinnerExists, RequestCancel, RunawayInterferes, Executing, Finished, vars,
     trialVars, publishVars, requestVars, GateIsFresh
<1>2. EngineTypeOK'
  BY DEF IInv, TypeOK, EngineTypeOK, RequestCancel, RunawayInterferes, Executing, Finished, vars,
     roundVars, trialVars, publishVars
<1>3. ExecTypeOK'
  <2>1. CASE RequestCancel \/ RunawayInterferes \/ Finished
    BY <2>1 DEF IInv, TypeOK, ExecTypeOK, RequestCancel, RunawayInterferes, RunawayWrites, Finished, Contents,
       vars, execVars, requestVars
  <2>2. CASE Executing
    BY <2>2, ExecutionKeepsType DEF IInv, TypeOK, Executing
  <2> QED BY <2>1, <2>2
<1> QED
  BY <1>1, <1>2, <1>3 DEF IInv, TypeOK

\* Facts every step proof starts from.
LEMMA InvFacts ==
    ASSUME IInv
    PROVE  /\ ExecTypeOK /\ EngineTypeOK /\ Provenance
           /\ Baseline \in Versions /\ parent \in Versions
           /\ workspace \in Contents
           /\ kernelFile \in Contents \union {None}
           /\ result \in Results /\ result.baselineVerified \in BOOLEAN
           /\ trials \in Seq(Trials) /\ candidates \in Seq(Nat) /\ Current \in Nat
BY LenProperties
   DEF IInv, TypeOK, ExecTypeOK, EngineTypeOK, TaskRecords, Baseline, Current, Results

\* New values of single fields of the result.
LEMMA ResultType ==
    ASSUME NEW r \in Results, NEW status \in ResultStatus, NEW best \in Versions,
           NEW accepted \in Nat \union {None}
    PROVE  /\ [r EXCEPT !.status = status] \in Results
           /\ [r EXCEPT !.baselineVerified = TRUE] \in Results
           /\ [r EXCEPT !.accepted = accepted, !.best = best] \in Results
           /\ [r EXCEPT !.status = status, !.accepted = accepted, !.best = best] \in Results
BY DEF Results

\* A result file that is marked as failed, or in pieces, is one a reader can tell apart.
LEMMA BrokenOffType ==
    ASSUME NEW written \in Results \union {Unreadable}, BreaksOff(written)
    PROVE  saved' \in Results \union {Unreadable}
<1>1. CASE written \in Results
  <2>1. [written EXCEPT !.status = "failed"] \in Results
    BY <1>1 DEF Results, ResultStatus
  <2> QED BY <2>1 DEF BreaksOff
<1>2. CASE written = Unreadable
  <2> DEFINE Broken == [status: {"failed"}, accepted: {None}, best: {None}, baselineVerified: {FALSE}]
  <2>1. written \in Broken
    BY <1>2 DEF Unreadable
  <2>2. [written EXCEPT !.status = "failed"] \in Broken
    BY <2>1
  <2>3. ASSUME NEW r \in Broken PROVE r = Unreadable
    <3>1. r = [status |-> r.status, accepted |-> r.accepted, best |-> r.best,
               baselineVerified |-> r.baselineVerified]
      OBVIOUS
    <3> QED BY <3>1, Zenon DEF Unreadable
  <2>4. saved' \in {[written EXCEPT !.status = "failed"], Unreadable}
    BY DEF BreaksOff
  <2> HIDE DEF Broken
  <2> QED BY <2>2, <2>3, <2>4
<1> QED BY <1>1, <1>2

LEMMA BaselineKeepsInv ==
    ASSUME IInv, Begin \/ BaselineStep
    PROVE  IInv'
<1> USE InvFacts DEF IInv, TypeOK
<1> USE DEF requestVars, execVars, roundVars, trialVars, publishVars
<1>1. CASE BeginUnavailable
  <2>1. result' \in Results
    BY <1>1, ResultType DEF BeginUnavailable, Decides, ResultStatus
  <2>2. EngineTypeOK'
    BY <1>1, <2>1 DEF BeginUnavailable, Decides, EngineTypeOK, Places
  <2>3. ExecTypeOK'
    BY <1>1, ExecutionUntouched DEF BeginUnavailable
  <2>4. Provenance'
    BY <1>1, ProvenanceFrame DEF BeginUnavailable, Decides, TrialPlaces, PublishPlaces
  <2> QED BY <2>2, <2>3, <2>4
<1>2. CASE BeginBaseline
  <2>1. ExecTypeOK'
    BY <1>2, CallType DEF BeginBaseline, ExecTypeOK, Roles
  <2>2. EngineTypeOK'
    BY <1>2 DEF BeginBaseline, EngineTypeOK, Places
  <2>3. Provenance'
    BY <1>2, ProvenanceFrame DEF BeginBaseline, TrialPlaces, PublishPlaces
  <2> QED BY <2>1, <2>2, <2>3
<1>3. CASE BaselineVerified
  <2>1. result' \in Results
    <3> DEFINE measured == [result EXCEPT !.baselineVerified = TRUE]
    <3>1. measured \in Results
      BY ResultType DEF ResultStatus
    <3>2. [measured EXCEPT !.status = "unavailable"] \in Results
      BY <3>1, ResultType DEF ResultStatus
    <3> QED BY <1>3, <3>1, <3>2 DEF BaselineVerified, Decides
  <2>2. EngineTypeOK'
    BY <1>3, <2>1 DEF BaselineVerified, Decides, EngineTypeOK, Places, Contents
  <2>3. ExecTypeOK'
    BY <1>3, ExecutionUntouched DEF BaselineVerified
  <2>4. Provenance'
    BY <1>3, ContentsApart DEF BaselineVerified, Decides, TrialPlaces, PublishPlaces, Provenance, TrialHasSource,
                GateIsFresh, GateIsEarned, ChainVerified, WinnerExists, PublishedIsVerified,
                Current, Baseline
  <2> QED BY <2>2, <2>3, <2>4
<1>4. ASSUME NEW ok \in BOOLEAN, NEW closed \in BOOLEAN, BaselineFails(ok, closed)
      PROVE  IInv'
  <2>1. result' \in Results
    BY <1>4, ResultType DEF BaselineFails, Decides, ResultStatus
  <2>2. EngineTypeOK'
    BY <1>4, <2>1 DEF BaselineFails, Decides, EngineTypeOK, Places
  <2>3. workspace' \in Contents
    BY <1>4, RollbackType DEF BaselineFails
  <2>4. ExecTypeOK'
    BY <1>4, <2>3 DEF BaselineFails, ExecTypeOK
  <2>5. Provenance'
    BY <1>4, ProvenanceFrame DEF BaselineFails, Decides, TrialPlaces, PublishPlaces
  <2> QED BY <2>2, <2>4, <2>5
<1> QED
  BY ONLY Begin \/ BaselineStep, <1>1, <1>2, <1>3, <1>4 DEF Begin, BaselineStep

\* Outside the trial places only the sources the trials name matter, and the kernel.
LEMMA ProvenanceOfPublication ==
    ASSUME Provenance, UNCHANGED <<task, verified, candidates>>,
           Len(trials') = Current, \A j \in 1..Current : trials'[j].after = trials[j].after,
           pc' \notin TrialPlaces, pc' \in PublishPlaces => candidates # <<>>,
           PublishedIsVerified'
    PROVE  Provenance'
BY DEF Provenance, TrialHasSource, GateIsFresh, GateIsEarned, ChainVerified, WinnerExists,
       TrialPlaces, Current

LEMMA RoundKeepsInv ==
    ASSUME IInv, RoundStep
    PROVE  IInv'
<1> USE InvFacts DEF IInv, TypeOK
<1> USE DEF requestVars, execVars, roundVars, trialVars, publishVars
<1>1. CASE RoundBegins \/ BudgetExhausted \/ PlanStops
  <2>1. EngineTypeOK'
    BY <1>1, BudgetType DEF RoundBegins, BudgetExhausted, PlanStops, EngineTypeOK, Places
  <2>2. ExecTypeOK'
    BY <1>1, ExecutionUntouched DEF RoundBegins, BudgetExhausted, PlanStops
  <2>3. Provenance'
    BY <1>1, ProvenanceFrame
       DEF RoundBegins, BudgetExhausted, PlanStops, TrialPlaces, PublishPlaces
  <2> QED BY <2>1, <2>2, <2>3
<1>2. ASSUME NEW t \in OpenTargets PROVE t \in Targets /\ Rewrite[parent][t] \in Versions
  BY TargetsOfType, RewriteType DEF OpenTargets
<1>3. ASSUME NEW t \in OpenTargets, RewriteRejected(t) PROVE IInv'
  <2> DEFINE refused == [before |-> parent, after |-> None, status |-> "validation_failed",
                         rollbackVerified |-> None]
  <2>1. refused \in Trials
    BY DEF Trials, TrialStatus, OutcomeStatus, Failures
  <2>2. /\ trials' \in Seq(Trials) /\ Len(trials') = Current + 1
        /\ \A j \in 1..Current : trials'[j] = trials[j]
    BY <1>3, <2>1, AppendProperties DEF RewriteRejected, Current
  <2>3. EngineTypeOK'
    BY <1>2, <1>3, <2>2 DEF RewriteRejected, EngineTypeOK, Places
  <2>4. ExecTypeOK'
    BY <1>3, ExecutionUntouched DEF RewriteRejected
  <2>5. Provenance'
    BY <1>3, <2>2 DEF RewriteRejected, TrialPlaces, PublishPlaces, Provenance, TrialHasSource,
       GateIsFresh, GateIsEarned, ChainVerified, WinnerExists, PublishedIsVerified, Current, Baseline
  <2> QED BY <2>3, <2>4, <2>5
<1>4. ASSUME NEW t \in OpenTargets, CandidateStarts(t) PROVE IInv'
  <2> DEFINE started == [before |-> parent, after |-> Rewrite[parent][t], status |-> "running",
                         rollbackVerified |-> None]
  <2>1. started \in Trials
    BY <1>2 DEF Trials, TrialStatus
  <2>2. /\ trials' \in Seq(Trials) /\ Len(trials') = Current + 1
        /\ \A j \in 1..Current : trials'[j] = trials[j]
        /\ trials'[Current + 1] = started
    BY <1>4, <2>1, AppendProperties DEF CandidateStarts, Current
  <2>3. EngineTypeOK'
    BY <1>2, <1>4, <2>2 DEF CandidateStarts, EngineTypeOK, Places
  <2>4. ExecTypeOK'
    BY <1>2, <1>4, CallType DEF CandidateStarts, ExecTypeOK, Roles
  <2>5. Provenance'
    BY <1>2, <1>4, <2>2 DEF CandidateStarts, TrialPlaces, PublishPlaces, Provenance, TrialHasSource,
       GateIsFresh, GateIsEarned, ChainVerified, WinnerExists, PublishedIsVerified, Current, Baseline
  <2> QED BY <2>3, <2>4, <2>5
<1> QED
  BY ONLY RoundStep, <1>1, <1>3, <1>4 DEF RoundStep

\* A verdict is a status of a trial, and only an earned gate makes it an acceptance.
LEMMA VerdictFacts ==
    ASSUME IInv, pc = "settle"
    PROVE  /\ Verdict \in TrialStatus
           /\ Verdict = "accepted" => restored /\ trials[Current].after \in verified
<1>1. exec.status \in OutcomeStatus
  BY DEF IInv, TypeOK, ExecTypeOK, Executions
<1>2. Verdict \in TrialStatus
  BY <1>1 DEF Verdict, TrialStatus, OutcomeStatus, Failures
<1>3. Verdict = "accepted" => restored /\ gate = "accepted"
  BY <1>1 DEF Verdict, OutcomeStatus, Failures
<1> QED
  BY <1>2, <1>3 DEF IInv, Provenance, GateIsEarned

LEMMA TrialKeepsInv ==
    ASSUME IInv, TrialStep
    PROVE  IInv'
<1> USE InvFacts DEF IInv, TypeOK
<1> USE DEF requestVars, execVars, roundVars, trialVars, publishVars
<1>1. ASSUME NEW ok \in BOOLEAN, CandidateRestored(ok) PROVE IInv'
  <2>1. EngineTypeOK'
    BY <1>1 DEF CandidateRestored, EngineTypeOK, Places
  <2>2. workspace' \in Contents
    BY <1>1, RollbackType DEF CandidateRestored
  <2>3. ExecTypeOK'
    BY <1>1, <2>2 DEF CandidateRestored, ExecTypeOK
  <2>4. gate = "none"
    BY <1>1 DEF CandidateRestored, Provenance, GateIsFresh
  <2>5. Provenance'
    BY <1>1, <2>4, ProvenanceFrame DEF CandidateRestored, TrialPlaces, PublishPlaces
  <2> QED BY <2>1, <2>3, <2>5
<1>2. CASE GateRejects
  <2>1. EngineTypeOK'
    BY <1>2 DEF GateRejects, EngineTypeOK, Places
  <2>2. ExecTypeOK'
    BY <1>2, ExecutionUntouched DEF GateRejects
  <2>3. Provenance'
    BY <1>2 DEF GateRejects, TrialPlaces, PublishPlaces, Provenance, TrialHasSource, GateIsFresh,
       GateIsEarned, ChainVerified, WinnerExists, PublishedIsVerified, Current, Baseline
  <2> QED BY <2>1, <2>2, <2>3
<1>3. CASE GateRechecks
  <2>1. EngineTypeOK'
    BY <1>3 DEF GateRechecks, EngineTypeOK, Places
  <2>2. ExecTypeOK'
    BY <1>3, CallType DEF GateRechecks, ExecTypeOK, Roles
  <2>3. gate = "none"
    BY <1>3 DEF GateRechecks, Provenance, GateIsFresh
  <2>4. Provenance'
    BY <1>3, <2>3, ProvenanceFrame DEF GateRechecks, TrialPlaces, PublishPlaces
  <2> QED BY <2>1, <2>2, <2>4
<1>4. CASE GateSkipped
  <2>1. EngineTypeOK'
    BY <1>4 DEF GateSkipped, EngineTypeOK, Places
  <2>2. ExecTypeOK'
    BY <1>4, ExecutionUntouched DEF GateSkipped
  <2>3. gate = "none"
    BY <1>4 DEF GateSkipped, Provenance, GateIsFresh
  <2>4. Provenance'
    BY <1>4, <2>3, ProvenanceFrame DEF GateSkipped, TrialPlaces, PublishPlaces
  <2> QED BY <2>1, <2>2, <2>4
<1>5. ASSUME NEW ok \in BOOLEAN, NEW d \in {"accepted", "rejected"}, RecheckRestored(ok, d)
      PROVE  IInv'
  <2>1. trials[Current].after \in Versions /\ Current \in Nat \ {0}
    BY <1>5 DEF RecheckRestored, Provenance, TrialHasSource, TrialPlaces
  <2>2. EngineTypeOK'
    BY <1>5, <2>1 DEF RecheckRestored, EngineTypeOK, Places
  <2>3. workspace' \in Contents
    BY <1>5, RestoreType DEF RecheckRestored
  <2>4. ExecTypeOK'
    BY <1>5, <2>3 DEF RecheckRestored, ExecTypeOK
  <2>5. verified \subseteq verified'
    BY <1>5 DEF RecheckRestored
  <2>6. gate' = "accepted" => trials[Current].after \in verified'
    <3>1. d = "accepted" => exec.status = "benchmark_ok" /\ ok
      BY <1>5 DEF RecheckRestored, RecheckAllows
    <3>2. d = "accepted" => trials[Current].after \in verified'
      <4> SUFFICES ASSUME d = "accepted" PROVE trials[Current].after \in verified'
        OBVIOUS
      <4>1. verified' = verified \union {trials[Current].after}
        BY <1>5, <3>1, Zenon DEF RecheckRestored
      <4> QED BY <4>1
    <3> QED BY <1>5, <3>2 DEF RecheckRestored
  <2>7. Provenance'
    BY <1>5, <2>1, <2>5, <2>6
       DEF RecheckRestored, TrialPlaces, PublishPlaces, Provenance, TrialHasSource, GateIsFresh,
           GateIsEarned, ChainVerified, WinnerExists, PublishedIsVerified, Current, Baseline
  <2> QED BY <2>2, <2>4, <2>7
<1>6. CASE TrialSettles
  <2>1. trials[Current].after \in Versions /\ Current \in Nat \ {0}
    BY <1>6 DEF TrialSettles, Provenance, TrialHasSource, TrialPlaces
  <2>2. restored \in BOOLEAN
    BY DEF EngineTypeOK
  <2>3. /\ trials' \in Seq(Trials) /\ Len(trials') = Current
        /\ \A j \in 1..Current : trials'[j].after = trials[j].after
    <3>1. Verdict \in TrialStatus
      BY <1>6, VerdictFacts DEF TrialSettles
    <3>2. trials \in Seq(Trials)
      OBVIOUS
    <3>3. restored \in BOOLEAN \union {None}
      BY <2>2
    <3> QED BY <1>6, <3>1, <3>2, <3>3, TrialRuled DEF TrialSettles
  <2>4. candidates' \in Seq(Nat)
    BY <1>6, AppendProperties DEF TrialSettles
  <2>5. parent' \in Versions
    BY <1>6, <2>1 DEF TrialSettles
  <2>6. rollbackFailed' \in BOOLEAN
    BY <1>6 DEF TrialSettles
  <2>7. pc' \in {"round", "final"}
    BY <1>6 DEF TrialSettles, AfterTrial
  <2>8. EngineTypeOK'
    BY <1>6, <2>3, <2>4, <2>5, <2>6, <2>7 DEF TrialSettles, EngineTypeOK, Places
  <2>9. ExecTypeOK'
    BY <1>6, ExecutionUntouched DEF TrialSettles
  <2>10. ChainVerified'
    <3>1. \A k \in 1..Len(candidates) :
            candidates[k] \in 1..Current /\ trials'[candidates[k]].after \in verified
      BY <2>3 DEF Provenance, ChainVerified
    <3>2. CASE Verdict = "accepted"
      <4>0. trials[Current].after \in verified
        BY <1>6, <3>2, VerdictFacts DEF TrialSettles
      <4>1. trials'[Current].after \in verified
        BY <2>1, <2>3, <4>0
      <4>2. /\ Len(candidates') = Len(candidates) + 1
            /\ \A k \in 1..Len(candidates) : candidates'[k] = candidates[k]
            /\ candidates'[Len(candidates) + 1] = Current
        BY <1>6, <3>2, AppendProperties DEF TrialSettles
      <4>3. Len(candidates) \in Nat
        BY LenProperties
      <4> QED BY <1>6, <2>1, <2>3, <3>1, <4>1, <4>2, <4>3 DEF TrialSettles, ChainVerified, Current
    <3>3. CASE Verdict # "accepted"
      BY <1>6, <2>3, <3>1, <3>3 DEF TrialSettles, ChainVerified, Current
    <3> QED BY <3>2, <3>3
  <2>11. Provenance'
    BY <1>6, <2>7, <2>10
       DEF TrialSettles, TrialPlaces, PublishPlaces, Provenance, TrialHasSource, GateIsFresh,
           GateIsEarned, WinnerExists, PublishedIsVerified, Baseline
  <2> QED BY <2>8, <2>9, <2>11
<1> QED
  BY ONLY TrialStep, <1>1, <1>2, <1>3, <1>4, <1>5, <1>6 DEF TrialStep

\* The winner of a non-empty chain, and the version it publishes.
LEMMA WinnerFacts ==
    ASSUME IInv, candidates # <<>>
    PROVE  /\ Winner \in 1..Current /\ Winner \in Nat
           /\ Published \in verified /\ Published \in Versions
<1>1. Len(candidates) \in Nat \ {0} /\ Current \in Nat
  BY EmptySeq, InvFacts, LenProperties
<1>2. Winner \in 1..Current /\ trials[Winner].after \in verified
  BY <1>1 DEF IInv, Provenance, ChainVerified, Winner
<1> QED
  BY <1>1, <1>2 DEF Published, IInv, TypeOK, EngineTypeOK

LEMMA CancelledTrialsFacts ==
    ASSUME IInv
    PROVE  /\ CancelledTrials \in Seq(Trials) /\ Len(CancelledTrials) = Current
           /\ \A j \in 1..Current : CancelledTrials[j].after = trials[j].after
<1>1. trials \in [1..Current -> Trials] /\ Current \in Nat
  BY InvFacts, LenProperties DEF Current
<1>2. \A i \in 1..Current : [trials[i] EXCEPT !.status = "cancelled"] \in Trials
  BY <1>1 DEF Trials, TrialStatus, OutcomeStatus
<1>3. CancelledTrials \in [1..Current -> Trials]
  BY <1>1, <1>2 DEF CancelledTrials
<1>4. CancelledTrials \in Seq(Trials)
  BY <1>1, <1>3, SeqDef
<1>5. Len(CancelledTrials) = Current
  BY <1>1, <1>3, <1>4, LenProperties
<1>6. \A j \in 1..Current : CancelledTrials[j].after = trials[j].after
  BY <1>1 DEF CancelledTrials, Trials
<1> QED
  BY <1>4, <1>5, <1>6

\* Steps on the way to and through the publication that copy nothing.
LEMMA FinalKeepsInv ==
    ASSUME IInv,
           \/ FinalProceeds \/ \E ok \in BOOLEAN : FinalCancelled(ok)
           \/ PublishSkipped \/ PublishBegins \/ PublishDeploys \/ PublishDeployFails
           \/ \E artifactOk \in BOOLEAN : DeployedChecked(artifactOk)
           \/ DeployedUnread \/ AnnouncedStands
    PROVE  IInv'
<1> USE InvFacts DEF IInv, TypeOK
<1> USE DEF requestVars, execVars, roundVars, trialVars, publishVars
<1>1. CASE FinalProceeds \/ PublishSkipped \/ AnnouncedStands
  <2>1. EngineTypeOK'
    BY <1>1 DEF FinalProceeds, PublishSkipped, AnnouncedStands, EngineTypeOK, Places
  <2>2. ExecTypeOK'
    BY <1>1, ExecutionUntouched DEF FinalProceeds, PublishSkipped, AnnouncedStands
  <2>3. Provenance'
    BY <1>1, ProvenanceFrame
       DEF FinalProceeds, PublishSkipped, AnnouncedStands, TrialPlaces, PublishPlaces
  <2> QED BY <2>1, <2>2, <2>3
<1>2. CASE PublishBegins
  <2>1. EngineTypeOK'
    BY <1>2 DEF PublishBegins, EngineTypeOK, Places
  <2>2. ExecTypeOK'
    BY <1>2, ExecutionUntouched DEF PublishBegins
  <2>3. Provenance'
    BY <1>2, ProvenanceFrame DEF PublishBegins, TrialPlaces, PublishPlaces
  <2> QED BY <2>1, <2>2, <2>3
<1>3. CASE PublishDeploys \/ PublishDeployFails
  <2>1. candidates # <<>>
    BY <1>3 DEF PublishDeploys, PublishDeployFails, Provenance, WinnerExists, PublishPlaces
  <2>2. Published \in Versions
    BY <2>1, WinnerFacts
  <2>3. EngineTypeOK'
    BY <1>3 DEF PublishDeploys, PublishDeployFails, EngineTypeOK, Places
  <2>4. workspace' \in Contents
    BY <1>3, <2>2 DEF PublishDeploys, PublishDeployFails, Disturbed, Contents
  <2>5. ExecTypeOK'
    BY <1>3, <2>4 DEF PublishDeploys, PublishDeployFails, ExecTypeOK
  <2>6. Provenance'
    BY <1>3, <2>1, ProvenanceFrame
       DEF PublishDeploys, PublishDeployFails, TrialPlaces, PublishPlaces
  <2> QED BY <2>3, <2>5, <2>6
<1>4. ASSUME NEW artifactOk \in BOOLEAN, DeployedChecked(artifactOk) PROVE IInv'
  <2>1. candidates # <<>>
    BY <1>4 DEF DeployedChecked, Provenance, WinnerExists, PublishPlaces
  <2>2. EngineTypeOK'
    BY <1>4 DEF DeployedChecked, EngineTypeOK, Places
  <2>3. ExecTypeOK'
    BY <1>4, ExecutionUntouched DEF DeployedChecked
  <2>4. Provenance'
    BY <1>4, <2>1, ProvenanceFrame DEF DeployedChecked, TrialPlaces, PublishPlaces
  <2> QED BY <2>2, <2>3, <2>4
<1>6. CASE DeployedUnread
  <2>1. candidates # <<>>
    BY <1>6 DEF DeployedUnread, Provenance, WinnerExists, PublishPlaces
  <2>2. EngineTypeOK'
    BY <1>6 DEF DeployedUnread, EngineTypeOK, Places
  <2>3. ExecTypeOK'
    BY <1>6, ExecutionUntouched DEF DeployedUnread
  <2>4. Provenance'
    BY <1>6, <2>1, ProvenanceFrame DEF DeployedUnread, TrialPlaces, PublishPlaces
  <2> QED BY <2>2, <2>3, <2>4
<1>5. ASSUME NEW ok \in BOOLEAN, FinalCancelled(ok) PROVE IInv'
  <2>1. rollbackFailed' \in BOOLEAN
    BY <1>5 DEF FinalCancelled, EngineTypeOK
  <2>2. workspace' \in Contents
    BY <1>5, RestoreType DEF FinalCancelled, Redeploy
  <2>3. EngineTypeOK'
    BY <1>5, <2>1, CancelledTrialsFacts DEF FinalCancelled, EngineTypeOK, Places
  <2>4. ExecTypeOK'
    BY <1>5, <2>2 DEF FinalCancelled, ExecTypeOK
  <2>5. PublishedIsVerified'
    BY <1>5 DEF FinalCancelled, Provenance, PublishedIsVerified, Baseline
  <2>6. Provenance'
    BY <1>5, <2>5, CancelledTrialsFacts, ProvenanceOfPublication
       DEF FinalCancelled, TrialPlaces, PublishPlaces
  <2> QED BY <2>3, <2>4, <2>6
<1> QED
  BY <1>1, <1>2, <1>3, <1>4, <1>5, <1>6

\* Steps that copy the winner, keep it, or give the publication up.
LEMMA PublishKeepsInv ==
    ASSUME IInv,
           \/ PublishNotStarted \/ KernelCopied \/ KernelCopyRaises
           \/ ConfigUpdated \/ ConfigUpdateRaises
           \/ \E ok \in BOOLEAN : Undeployed(ok) \/ Unpublished(ok) \/ AnnouncedCancelled(ok)
    PROVE  IInv'
<1> USE InvFacts DEF IInv, TypeOK
<1> USE DEF requestVars, execVars, roundVars, trialVars, publishVars
<1>1. pc \in PublishPlaces
  BY DEF PublishNotStarted, KernelCopied, KernelCopyRaises, ConfigUpdated, ConfigUpdateRaises,
         Undeployed, Unpublished, AnnouncedCancelled, PublishPlaces
<1>2. /\ candidates # <<>> /\ Winner \in 1..Current /\ Winner \in Nat
      /\ Published \in verified /\ Published \in Versions
  BY <1>1, WinnerFacts DEF Provenance, WinnerExists
<1>3. {"cancelled", "validation_failed"} \subseteq TrialStatus
  BY DEF TrialStatus, OutcomeStatus, Failures
<1>4. CASE PublishNotStarted
  <2>1. /\ trials' \in Seq(Trials) /\ Len(trials') = Current
        /\ \A j \in 1..Current : trials'[j].after = trials[j].after
    BY <1>3, <1>4, TrialRuled DEF PublishNotStarted, GiveUp
  <2>2. rollbackFailed' \in BOOLEAN
    BY <1>4 DEF PublishNotStarted, GiveUp
  <2>3. EngineTypeOK'
    BY <1>4, <2>1, <2>2 DEF PublishNotStarted, GiveUp, EngineTypeOK, Places
  <2>4. ExecTypeOK'
    BY <1>4, ExecutionUntouched DEF PublishNotStarted
  <2>5. PublishedIsVerified'
    BY <1>4 DEF PublishNotStarted, GiveUp, Provenance, PublishedIsVerified, Baseline
  <2>6. Provenance'
    BY <1>4, <2>1, <2>5, ProvenanceOfPublication
       DEF PublishNotStarted, GiveUp, TrialPlaces, PublishPlaces
  <2> QED BY <2>3, <2>4, <2>6
<1>5. ASSUME NEW ok \in BOOLEAN, Undeployed(ok) PROVE IInv'
  <2>1. /\ trials' \in Seq(Trials) /\ Len(trials') = Current
        /\ \A j \in 1..Current : trials'[j].after = trials[j].after
    BY <1>3, <1>5, TrialRuled DEF Undeployed, GiveUp
  <2>2. rollbackFailed' \in BOOLEAN /\ workspace' \in Contents
    BY <1>5, RestoreType DEF Undeployed, GiveUp, Redeploy
  <2>3. EngineTypeOK'
    BY <1>5, <2>1, <2>2 DEF Undeployed, GiveUp, EngineTypeOK, Places
  <2>4. ExecTypeOK'
    BY <1>5, <2>2 DEF Undeployed, ExecTypeOK
  <2>5. PublishedIsVerified'
    BY <1>5 DEF Undeployed, GiveUp, Provenance, PublishedIsVerified, Baseline
  <2>6. Provenance'
    BY <1>5, <2>1, <2>5, ProvenanceOfPublication
       DEF Undeployed, GiveUp, TrialPlaces, PublishPlaces
  <2> QED BY <2>3, <2>4, <2>6
<1>6. CASE KernelCopied \/ KernelCopyRaises \/ ConfigUpdateRaises
  <2>1. EngineTypeOK'
    BY <1>2, <1>6 DEF KernelCopied, KernelCopyRaises, ConfigUpdateRaises, EngineTypeOK, Places,
                      Contents
  <2>2. ExecTypeOK'
    BY <1>6, ExecutionUntouched DEF KernelCopied, KernelCopyRaises, ConfigUpdateRaises
  <2>3. PublishedIsVerified'
    BY <1>2, <1>6, ContentsApart
       DEF KernelCopied, KernelCopyRaises, ConfigUpdateRaises, Provenance, PublishedIsVerified,
           Baseline
  <2>4. Provenance'
    BY <1>2, <1>6, <2>3, ProvenanceOfPublication
       DEF KernelCopied, KernelCopyRaises, ConfigUpdateRaises, TrialPlaces, PublishPlaces, Current
  <2> QED BY <2>1, <2>2, <2>4
<1>7. CASE ConfigUpdated
  <2>1. trials' = Ruled(Winner, trials[Winner].status, None)
    BY <1>2, <1>7, LenProperties DEF ConfigUpdated, Ruled, Trials, Current
  <2>2. trials[Winner].status \in TrialStatus
    <3>1. trials[Winner] \in Trials
      BY <1>2, ElementOfSeq DEF Current
    <3> QED BY <3>1 DEF Trials
  <2>3. /\ trials' \in Seq(Trials) /\ Len(trials') = Current
        /\ \A j \in 1..Current : trials'[j].after = trials[j].after
    BY <2>1, <2>2, TrialRuled
  <2>4. result' \in Results
    BY <1>2, <1>7 DEF ConfigUpdated, Results
  <2>5. EngineTypeOK'
    BY <1>2, <1>7, <2>3, <2>4 DEF ConfigUpdated, EngineTypeOK, Places
  <2>6. ExecTypeOK'
    BY <1>7, ExecutionUntouched DEF ConfigUpdated
  <2>7. PublishedIsVerified'
    BY <1>7 DEF ConfigUpdated, Provenance, PublishedIsVerified, Baseline
  <2>8. Provenance'
    BY <1>2, <1>7, <2>3, <2>7, ProvenanceOfPublication DEF ConfigUpdated, TrialPlaces, PublishPlaces
  <2> QED BY <2>5, <2>6, <2>8
<1>8. ASSUME NEW ok \in BOOLEAN, Unpublished(ok) \/ AnnouncedCancelled(ok) PROVE IInv'
  <2>1. /\ trials' \in Seq(Trials) /\ Len(trials') = Current
        /\ \A j \in 1..Current : trials'[j].after = trials[j].after
    <3>1. CASE Unpublished(ok)
      BY <1>3, <3>1, TrialRuled DEF Unpublished
    <3>2. CASE AnnouncedCancelled(ok)
      BY <1>3, <3>2, TrialRuled DEF AnnouncedCancelled
    <3> QED BY <1>8, <3>1, <3>2
  <2>2. rollbackFailed' \in BOOLEAN /\ workspace' \in Contents
    BY <1>8, RestoreType DEF Unpublished, AnnouncedCancelled, EngineTypeOK
  <2>3. result' \in Results
    <3>1. result' = [result EXCEPT !.accepted = None, !.best = Baseline]
      BY <1>8 DEF Unpublished, AnnouncedCancelled, Reverted
    <3> QED BY <3>1 DEF Results
  <2>4. EngineTypeOK'
    BY <1>8, <2>1, <2>2, <2>3
       DEF Unpublished, AnnouncedCancelled, Reverted, EngineTypeOK, Places, Contents
  <2>5. ExecTypeOK'
    BY <1>8, <2>2 DEF Unpublished, AnnouncedCancelled, ExecTypeOK
  <2>6. PublishedIsVerified'
    BY <1>8, ContentsApart DEF Unpublished, AnnouncedCancelled, Reverted, PublishedIsVerified, Baseline
  <2>7. Provenance'
    BY <1>8, <2>1, <2>6, ProvenanceOfPublication
       DEF Unpublished, AnnouncedCancelled, TrialPlaces, PublishPlaces
  <2> QED BY <2>4, <2>5, <2>7
<1> QED
  BY <1>4, <1>5, <1>6, <1>7, <1>8

LEMMA FinishKeepsInv ==
    ASSUME IInv, StatusDecided \/ ResultWritten
    PROVE  IInv'
<1> USE InvFacts DEF IInv, TypeOK
<1> USE DEF requestVars, execVars, roundVars, trialVars, publishVars
<1>1. FinalResult \in Results
  BY ResultType DEF FinalResult, ResultStatus
<1>2. EngineTypeOK'
  BY <1>1 DEF StatusDecided, ResultWritten, End, EngineTypeOK, Places
<1>3. ExecTypeOK'
  BY ExecutionUntouched DEF StatusDecided, ResultWritten
<1>4. Provenance'
  BY ProvenanceFrame DEF StatusDecided, ResultWritten, End, TrialPlaces, PublishPlaces
<1> QED
  BY <1>2, <1>3, <1>4

\* An exception that leaves the engine changes no source, and damages the kernel at most.
LEMMA RaiseKeepsInv ==
    ASSUME IInv, EngineRaises \/ WriteRaises \/ \E ok \in BOOLEAN : UndoRaises(ok)
    PROVE  IInv'
<1> USE InvFacts DEF IInv, TypeOK
<1> USE DEF requestVars, execVars, roundVars, trialVars, publishVars
<1>1. CASE EngineRaises
  <2>1. kernelFile' \in {kernelFile, Baseline, Unknown} /\ pc' = "raised"
    BY <1>1 DEF EngineRaises, BreaksOff
  <2>2. saved' \in Results \union {Unreadable}
    BY <1>1, BrokenOffType DEF EngineRaises, EngineTypeOK
  <2>3. EngineTypeOK'
    BY <1>1, <2>1, <2>2 DEF EngineRaises, EngineTypeOK, Places, Contents
  <2>4. ExecTypeOK'
    BY <1>1, ExecutionUntouched DEF EngineRaises
  <2>5. PublishedIsVerified'
    BY <1>1, <2>1 DEF EngineRaises, Provenance, PublishedIsVerified, Baseline
  <2>6. Provenance'
    BY <1>1, <2>1, <2>5, ProvenanceOfPublication DEF EngineRaises, TrialPlaces, PublishPlaces, Current
  <2> QED BY <2>3, <2>4, <2>6
<1>2. CASE WriteRaises
  <2>1. pc' = "raised"
    BY <1>2 DEF WriteRaises, BreaksOff
  <2>2. saved' \in Results \union {Unreadable}
    BY <1>2, BrokenOffType DEF WriteRaises, EngineTypeOK
  <2>3. EngineTypeOK'
    BY <1>2, <2>1, <2>2 DEF WriteRaises, EngineTypeOK, Places
  <2>4. ExecTypeOK'
    BY <1>2, ExecutionUntouched DEF WriteRaises
  <2>5. Provenance'
    BY <1>2, <2>1, ProvenanceFrame DEF WriteRaises, TrialPlaces, PublishPlaces
  <2> QED BY <2>3, <2>4, <2>5
<1>3. ASSUME NEW ok \in BOOLEAN, UndoRaises(ok) PROVE IInv'
  <2>1. candidates # <<>> /\ pc' = "raised"
    BY <1>3 DEF UndoRaises, BreaksOff, Provenance, WinnerExists, PublishPlaces
  <2>2. /\ trials' \in Seq(Trials) /\ Len(trials') = Current
        /\ \A j \in 1..Current : trials'[j].after = trials[j].after
    <3>1. {"cancelled", "validation_failed"} \subseteq TrialStatus
      BY DEF TrialStatus, OutcomeStatus, Failures
    <3> QED BY <1>3, <2>1, <3>1, WinnerFacts, TrialRuled DEF UndoRaises
  <2>3. rollbackFailed' \in BOOLEAN /\ workspace' \in Contents
    BY <1>3, RestoreType DEF UndoRaises, EngineTypeOK
  <2>4. /\ result' \in Results
        /\ kernelFile' \in {kernelFile, Baseline, Unknown}
        /\ configFile' \in {configFile, None}
    BY <1>3 DEF UndoRaises, RevertRaises, Results
  <2>5. saved' \in Results \union {Unreadable}
    BY <1>3, BrokenOffType DEF UndoRaises, EngineTypeOK
  <2>6. EngineTypeOK'
    BY <1>3, <2>1, <2>2, <2>3, <2>4, <2>5 DEF UndoRaises, EngineTypeOK, Places, Contents
  <2>7. ExecTypeOK'
    BY <1>3, <2>3 DEF UndoRaises, ExecTypeOK
  <2>8. PublishedIsVerified'
    BY <1>3, <2>1, <2>4 DEF UndoRaises, Provenance, PublishedIsVerified, Baseline
  <2>9. Provenance'
    BY <1>3, <2>1, <2>2, <2>8, ProvenanceOfPublication DEF UndoRaises, TrialPlaces, PublishPlaces
  <2> QED BY <2>6, <2>7, <2>9
<1> QED
  BY <1>1, <1>2, <1>3

LEMMA StutterKeepsInv ==
    ASSUME IInv, UNCHANGED vars
    PROVE  IInv'
BY DEF vars, requestVars, execVars, roundVars, trialVars, publishVars, IInv, TypeOK, ExecTypeOK,
         EngineTypeOK, Provenance, TrialHasSource, GateIsFresh, GateIsEarned, ChainVerified,
         WinnerExists, PublishedIsVerified, Current, Baseline

-----------------------------------------------------------------------------
(* The theorems.                                                           *)

THEOREM Invariance == Spec => []IInv
<1>1. Init => IInv
  BY InitInv
<1>2. IInv /\ [Next]_vars => IInv'
  BY EnvironmentKeepsInv, BaselineKeepsInv, RoundKeepsInv, TrialKeepsInv, FinalKeepsInv,
     PublishKeepsInv, FinishKeepsInv, RaiseKeepsInv, StutterKeepsInv
     DEF Next, Engine, PublishStep, FinishStep
<1> QED
  BY <1>1, <1>2, PTL DEF Spec

\* The variables keep their types, for every instance of the engine.
THEOREM TypeCorrect == Spec => []TypeOK
<1>1. IInv => TypeOK
  BY DEF IInv
<1> QED
  BY <1>1, Invariance, PTL

\* best_kernel.py never holds an unverified candidate, for every number of versions, rounds
\* and faults and wherever an exception breaks the run off; damaged bytes only between a
\* raised copy and its undo, or for good after an exception left the engine.
THEOREM PublicationSafe == Spec => []PublishedIsVerified
<1>1. IInv => PublishedIsVerified
  BY DEF IInv, Provenance
<1> QED
  BY <1>1, Invariance, PTL

-----------------------------------------------------------------------------
(* Cancelling.                                                             *)

\* A late command is the last one: no place at which one starts unchecked follows it.
LateIsLast ==
    lateCommands # 0 =>
        cancelRequested /\ lateCommands = 1 /\ exec.stage \notin {"deploy", "tools"}

\* Every step of a version under execution keeps the bound on late commands.
LEMMA ExecutionKeepsLate ==
    ASSUME ExecTypeOK, LateIsLast, ExecStep, UNCHANGED requestVars
    PROVE  LateIsLast'
<1> USE DEF LateIsLast, requestVars, CountStart, MaxLate
<1>1. exec \in Executions /\ lateCommands \in 0..MaxLate /\ cancelRequested \in BOOLEAN
  BY DEF ExecTypeOK
<1>2. CASE UNCHANGED lateCommands /\ exec'.stage \notin {"deploy", "tools"}
  BY <1>2
<1>3. CASE EntryPasses \/ ProfilerEnters
  BY <1>1, <1>3 DEF EntryPasses, ProfilerEnters, Executions
<1>4. CASE DeployBuilds \/ ProfilerStarts
  <2>1. lateCommands = 0
    BY <1>4 DEF DeployBuilds, ProfilerStarts
  <2>2. exec'.stage \in {"build", "collection"}
    BY <1>1, <1>4 DEF DeployBuilds, ProfilerStarts, Executions
  <2>3. CountStart
    BY <1>4 DEF DeployBuilds, ProfilerStarts
  <2> QED
    BY <2>1, <2>2, <2>3, <1>1
<1>5. CASE DeployWithoutBuild \/ BuildPasses \/ CorrectnessPasses \/ BenchmarkRepeats
  BY <1>1, <1>5
     DEF DeployWithoutBuild, BuildPasses, CorrectnessPasses, CommandPasses, BenchmarkRepeats,
         Checked, Executions
<1>6. CASE BenchmarkFinishes
  BY <1>1, <1>2, <1>6 DEF BenchmarkFinishes, Executions
<1>7. CASE EntryCancelled \/ EntryProtectedChanged \/ DeployRaises \/ DeployAuditFails
           \/ CommandStopUnverified \/ CommandLost \/ CommandAuditFails \/ CommandInterrupted
           \/ CommandFails \/ ProfilerStopUnverified \/ \E ok \in BOOLEAN : ProfilerAudited(ok)
  <2>1. UNCHANGED lateCommands /\ exec'.stage = "returned"
    BY <1>1, <1>7
       DEF EntryCancelled, EntryProtectedChanged, DeployRaises, DeployAuditFails,
           CommandStopUnverified, CommandLost, CommandAuditFails, CommandInterrupted,
           CommandFails, ProfilerStopUnverified, ProfilerAudited, Return, Executions
  <2> QED
    BY <1>2, <2>1
<1> QED
  BY <1>3, <1>4, <1>5, <1>6, <1>7 DEF ExecStep

\* Every step of a run keeps the bound on late commands.
LEMMA LateIsLastKept ==
    ASSUME TypeOK, LateIsLast, [Next]_vars
    PROVE  LateIsLast'
<1> USE DEF requestVars, execVars, roundVars, trialVars, publishVars
<1>1. CASE Executing
  BY <1>1, ExecutionKeepsLate DEF Executing, TypeOK
<1>2. ASSUME NEW role, NEW version, exec' = Call(role, version), UNCHANGED lateCommands,
             cancelRequested => cancelRequested'
      PROVE  LateIsLast'
  BY <1>2 DEF Call, LateIsLast
<1>3. CASE UNCHANGED <<lateCommands, exec>> /\ (cancelRequested => cancelRequested')
  BY <1>3 DEF LateIsLast
<1>4. CASE Begin \/ BaselineStep \/ RoundStep
  BY <1>2, <1>3, <1>4
     DEF Begin, BaselineStep, RoundStep, BeginUnavailable, BeginBaseline, BaselineVerified,
         BaselineFails, RoundBegins, BudgetExhausted, PlanStops, RewriteRejected, CandidateStarts
<1>5. CASE TrialStep
  BY <1>2, <1>3, <1>5
     DEF TrialStep, CandidateRestored, GateRejects, GateRechecks, GateSkipped,
         RecheckRestored, TrialSettles
<1>6. CASE PublishStep
  BY <1>3, <1>6
     DEF PublishStep, FinalProceeds, FinalCancelled, PublishSkipped, PublishBegins,
         PublishNotStarted, PublishDeploys, PublishDeployFails, DeployedChecked, Undeployed,
         KernelCopied, KernelCopyRaises, ConfigUpdated, ConfigUpdateRaises, Unpublished,
         AnnouncedCancelled, AnnouncedStands, DeployedUnread, UndoRaises
<1>7. CASE FinishStep \/ RequestCancel \/ RunawayInterferes \/ Finished \/ UNCHANGED vars
  BY <1>3, <1>7
     DEF FinishStep, StatusDecided, ResultWritten, WriteRaises, EngineRaises, RequestCancel,
         RunawayInterferes, RunawayWrites, Finished, vars
<1> QED
  BY <1>1, <1>4, <1>5, <1>6, <1>7 DEF Next, Engine

\* After the user asked to stop, at most one command that was about to start still runs: every other
\* place at which engine.py starts one asks should_cancel first.
THEOREM LateCommandsBounded == Spec => []CancelBoundsWork
<1>1. Init => LateIsLast
  BY DEF Init, LateIsLast
<1>2. TypeOK /\ LateIsLast /\ [Next]_vars => LateIsLast'
  BY LateIsLastKept
<1>3. TypeOK /\ LateIsLast => CancelBoundsWork
  BY DEF LateIsLast, CancelBoundsWork, TypeOK, ExecTypeOK
<1> QED
  BY <1>1, <1>2, <1>3, TypeCorrect, PTL DEF Spec

-----------------------------------------------------------------------------
(* Sources are tried once.                                                 *)

SourcesRemembered ==
    /\ Baseline \in attempted
    /\ \A i \in 1..Current : trials[i].after # None => trials[i].after \in attempted

Tried == SourcesRemembered /\ NoVersionTriedTwice

\* Steps that leave the sources of the trials alone.
LEMMA TriedFrame ==
    ASSUME Tried, UNCHANGED <<task, attempted>>, Len(trials') = Current,
           \A j \in 1..Current : trials'[j].after = trials[j].after
    PROVE  Tried'
BY DEF Tried, SourcesRemembered, NoVersionTriedTwice, Current, Baseline

\* A trial is added: one without a source, or one with a source not attempted before.
LEMMA TriedGrows ==
    ASSUME IInv, Tried, UNCHANGED task, attempted \subseteq attempted', NEW trial \in Trials,
           trials' = Append(trials, trial),
           trial.after # None => trial.after \notin attempted /\ trial.after \in attempted'
    PROVE  Tried'
<1> USE DEF Tried, SourcesRemembered, NoVersionTriedTwice
<1>1. /\ Current \in Nat /\ Len(trials') = Current + 1
      /\ \A j \in 1..Current : trials'[j] = trials[j]
      /\ trials'[Current + 1] = trial
  BY InvFacts, AppendProperties DEF Current
<1>2. Baseline' = Baseline /\ Current' = Current + 1
  BY <1>1 DEF Baseline, Current
<1>3. \A i \in 1..(Current + 1) : i \in 1..Current \/ i = Current + 1
  BY <1>1
<1>4. SourcesRemembered'
  BY <1>1, <1>2, <1>3
<1>5. NoVersionTriedTwice'
  <2> SUFFICES ASSUME NEW i \in 1..(Current + 1), NEW j \in 1..(Current + 1),
                      trials'[i].after # None
               PROVE  /\ trials'[i].after # Baseline
                      /\ i # j => trials'[i].after # trials'[j].after
    BY <1>2
  <2>1. CASE i \in 1..Current /\ j \in 1..Current
    BY <2>1, <1>1
  <2>2. CASE i \in 1..Current /\ j = Current + 1
    BY <2>2, <1>1
  <2>3. CASE i = Current + 1
    BY <2>3, <1>1, <1>3
  <2> QED
    BY <2>1, <2>2, <2>3, <1>3
<1> QED
  BY <1>4, <1>5

\* The announced trial loses only the mark of its rollback.
LEMMA AnnouncedTrials ==
    ASSUME IInv, NEW t, t = [trials EXCEPT ![Winner].rollbackVerified = None], Winner \in 1..Current
    PROVE  Len(t) = Current /\ \A j \in 1..Current : t[j].after = trials[j].after
<1>1. trials \in Seq(Trials) /\ Winner \in Nat /\ trials[Winner].status \in TrialStatus
  <2>1. trials[Winner] \in Trials
    BY InvFacts, ElementOfSeq DEF Current
  <2> QED
    BY <2>1, InvFacts DEF Trials
<1>2. t = Ruled(Winner, trials[Winner].status, None)
  BY <1>1, LenProperties DEF Ruled, Trials, Current
<1> QED
  BY <1>1, <1>2, TrialRuled

\* No step adds a trial whose source an earlier one had.
LEMMA TriedKept ==
    ASSUME IInv, Tried, [Next]_vars
    PROVE  Tried'
<1> USE DEF requestVars, execVars, roundVars, trialVars, publishVars
<1>1. CASE UNCHANGED <<task, attempted, trials>>
  BY <1>1, TriedFrame DEF Current
<1>2. ASSUME NEW i, NEW status \in TrialStatus, NEW ok \in BOOLEAN \union {None},
             trials' = Ruled(i, status, ok), UNCHANGED <<task, attempted>>
      PROVE  Tried'
  BY <1>2, TrialRuled, TriedFrame, InvFacts
<1>3. {"cancelled", "validation_failed"} \subseteq TrialStatus /\ restored \in BOOLEAN
  BY DEF TrialStatus, OutcomeStatus, Failures, IInv, TypeOK, EngineTypeOK
<1>4. CASE Begin \/ BaselineStep \/ Executing \/ RequestCancel \/ RunawayInterferes \/ Finished
           \/ FinishStep \/ UNCHANGED vars
  BY <1>1, <1>4
     DEF Begin, BaselineStep, BeginUnavailable, BeginBaseline, BaselineVerified,
         BaselineFails, Executing, RequestCancel, RunawayInterferes, Finished, vars, FinishStep,
         StatusDecided, ResultWritten, WriteRaises, EngineRaises
<1>5. ASSUME NEW t \in OpenTargets, RewriteRejected(t) PROVE Tried'
  <2> DEFINE refused == [before |-> parent, after |-> None, status |-> "validation_failed",
                         rollbackVerified |-> None]
  <2>1. refused \in Trials /\ refused.after = None
    BY InvFacts DEF Trials, TrialStatus, OutcomeStatus, Failures
  <2> QED
    BY <1>5, <2>1, TriedGrows DEF RewriteRejected
<1>6. ASSUME NEW t \in OpenTargets, CandidateStarts(t) PROVE Tried'
  <2> DEFINE started == [before |-> parent, after |-> Rewrite[parent][t], status |-> "running",
                         rollbackVerified |-> None]
  <2>1. Rewrite[parent][t] \in Versions
    BY InvFacts, TargetsOfType, RewriteType DEF OpenTargets
  <2>2. started \in Trials /\ started.after = Rewrite[parent][t]
    BY <2>1, InvFacts DEF Trials, TrialStatus
  <2>3. trials' = Append(trials, started) /\ attempted' = attempted \union {started.after}
        /\ started.after \notin attempted /\ UNCHANGED task
    BY <1>6, <2>2 DEF CandidateStarts, AlreadyTried
  <2> QED
    BY <2>2, <2>3, TriedGrows
<1>7. CASE RoundStep
  BY <1>1, <1>5, <1>6, <1>7 DEF RoundStep, RoundBegins, BudgetExhausted, PlanStops
<1>8. CASE TrialStep
  <2>1. CASE TrialSettles
    BY <1>2, <1>3, <2>1, VerdictFacts DEF TrialSettles
  <2> QED
    BY <1>1, <1>8, <2>1
       DEF TrialStep, CandidateRestored, GateRejects, GateRechecks, GateSkipped,
           RecheckRestored
<1>9. ASSUME NEW ok \in BOOLEAN, FinalCancelled(ok) PROVE Tried'
  BY <1>9, CancelledTrialsFacts, TriedFrame DEF FinalCancelled
<1>10. CASE PublishNotStarted
  BY <1>2, <1>3, <1>10 DEF PublishNotStarted, GiveUp
<1>11. ASSUME NEW ok \in BOOLEAN, Undeployed(ok) PROVE Tried'
  BY <1>2, <1>3, <1>11 DEF Undeployed, GiveUp
<1>12. ASSUME NEW ok \in BOOLEAN, Unpublished(ok) \/ AnnouncedCancelled(ok) \/ UndoRaises(ok)
       PROVE  Tried'
  BY <1>2, <1>3, <1>12 DEF Unpublished, AnnouncedCancelled, UndoRaises
<1>13. CASE ConfigUpdated
  <2>1. /\ candidates # <<>> /\ Winner \in 1..Current /\ Winner \in Nat
    BY <1>13, WinnerFacts DEF ConfigUpdated, IInv, Provenance, WinnerExists, PublishPlaces
  <2>2. Len(trials') = Current /\ \A j \in 1..Current : trials'[j].after = trials[j].after
    BY <1>13, <2>1, InvFacts, LenProperties, AnnouncedTrials DEF ConfigUpdated
  <2> QED
    BY <1>13, <2>2, TriedFrame DEF ConfigUpdated
<1>14. CASE PublishStep
  BY <1>1, <1>9, <1>10, <1>11, <1>12, <1>13, <1>14
     DEF PublishStep, FinalProceeds, PublishSkipped, PublishBegins, PublishDeploys,
         PublishDeployFails, DeployedChecked, DeployedUnread, KernelCopied, KernelCopyRaises,
         ConfigUpdateRaises, AnnouncedStands
<1> QED
  BY <1>4, <1>7, <1>8, <1>14 DEF Next, Engine

\* What was attempted covers every trial: the inductive invariant behind the next theorem.
THEOREM TriedInvariance == Spec => []Tried
<1>1. Init => Tried
  <2> SUFFICES ASSUME Init PROVE Tried
    OBVIOUS
  <2>1. Current = 0 /\ Baseline \in attempted
    BY EmptySeq DEF Init, Current, Baseline
  <2> QED
    BY <2>1 DEF Tried, SourcesRemembered, NoVersionTriedTwice
<1>2. IInv /\ Tried /\ [Next]_vars => Tried'
  BY TriedKept
<1> QED
  BY <1>1, <1>2, Invariance, PTL DEF Spec

\* No source is built and measured twice in a run, and none that equals the baseline: the digests
\* in attempted remember every source, also of a trial that failed or was cancelled.
THEOREM NothingTriedTwice == Spec => []NoVersionTriedTwice
<1>1. Tried => NoVersionTriedTwice
  BY DEF Tried
<1> QED
  BY <1>1, TriedInvariance, PTL

-----------------------------------------------------------------------------
(* The files a run leaves.                                                 *)

\* Before the baseline is verified there are no results; afterwards there is its kernel.
BaselineFirst ==
    /\ pc \in {"start", "baseline"} => ~result.baselineVerified
    /\ pc \notin {"start", "baseline", "write", "done", "raised"} => result.baselineVerified
    /\ ~result.baselineVerified => result.accepted = None
    /\ ~result.baselineVerified /\ pc # "raised" => kernelFile = None /\ configFile = None

\* A result that names a trial is on disk, and only named at the end.
AcceptedIsOnDisk ==
    result.accepted # None =>
        /\ pc \in {"announced", "finish", "write", "done", "raised"}
        /\ result.accepted \in 1..Current
        /\ trials[result.accepted].after = result.best
        /\ kernelFile = result.best /\ configFile = result.best

\* A result that names none has the baseline on disk, except inside the publication and
\* after an exception.
NoneIsBaseline ==
    result.accepted = None =>
        /\ result.best = Baseline
        /\ result.baselineVerified /\ pc \notin {"copied", "unpublish", "raised"} =>
             kernelFile = Baseline /\ configFile = None

AnnouncedIsAccepted ==
    /\ pc = "copied" => kernelFile = Published
    /\ pc = "announced" => result.accepted # None /\ result.best = Published

\* A rollback that failed ends the publication and takes the acceptance back.
FailureTakesBack ==
    /\ pc \in PublishPlaces => ~rollbackFailed
    /\ pc = "finish" /\ rollbackFailed => result.accepted = None
    /\ result.status = "failed" => result.accepted = None
    /\ pc \notin {"write", "done", "raised"} => result.status = "running"

\* Before the end the file says that the run goes on; after an exception that it failed,
\* and it names no trial but the one the result did.
SavedAtTheEnd ==
    /\ pc = "done" => saved = result
    /\ pc \notin {"done", "raised"} =>
         saved.accepted = None /\ saved.best = Baseline /\ saved.status = "running"
    /\ pc = "raised" =>
         /\ saved.status = "failed"
         /\ saved.accepted # None => saved.accepted = result.accepted /\ saved.best = result.best

FilesInv ==
    /\ BaselineFirst
    /\ AcceptedIsOnDisk
    /\ NoneIsBaseline
    /\ AnnouncedIsAccepted
    /\ FailureTakesBack
    /\ SavedAtTheEnd

\* Places between the baseline and the end at which only the baseline is on disk.
FilePlaces == Places \ {"start", "baseline", "copied", "unpublish", "announced", "finish", "write",
                        "done", "raised"}

\* Steps that touch neither a file, a result nor a trial.
LEMMA FilesFrame ==
    ASSUME FilesInv,
           UNCHANGED <<task, pc, trials, candidates, rollbackFailed, kernelFile, configFile, result,
                       saved>>
    PROVE  FilesInv'
BY
   DEF FilesInv, BaselineFirst, AcceptedIsOnDisk, NoneIsBaseline, AnnouncedIsAccepted,
       FailureTakesBack, SavedAtTheEnd, Baseline, Current, Published, Winner

\* Between the baseline and the publication no trial is named and no file written.
LEMMA MiddleKeepsFiles ==
    ASSUME FilesInv, UNCHANGED <<task, kernelFile, configFile, result>>,
           pc \in FilePlaces, pc' \in FilePlaces \union {"finish"},
           saved' \in {saved, result}, pc' \in PublishPlaces => ~rollbackFailed'
    PROVE  FilesInv'
<1>1. result.accepted = None /\ result.baselineVerified
  BY DEF FilesInv, BaselineFirst, AcceptedIsOnDisk, FilePlaces
<1> QED
  BY <1>1
     DEF FilesInv, BaselineFirst, AcceptedIsOnDisk, NoneIsBaseline, AnnouncedIsAccepted,
         FailureTakesBack, SavedAtTheEnd, Baseline, FilePlaces

\* The baseline writes best/kernel.py once it is verified, and not before.
LEMMA BaselineKeepsFiles ==
    ASSUME IInv, FilesInv, Begin \/ BaselineStep
    PROVE  FilesInv'
<1> USE DEF FilesInv, BaselineFirst, AcceptedIsOnDisk, NoneIsBaseline, AnnouncedIsAccepted,
       FailureTakesBack, SavedAtTheEnd,
       PublishPlaces, publishVars, trialVars, requestVars, Decides
<1>1. result \in Results
  BY InvFacts
<1>2. CASE BeginUnavailable
  BY <1>1, <1>2 DEF BeginUnavailable, Baseline, Results
<1>3. CASE BeginBaseline
  BY <1>3 DEF BeginBaseline, Baseline
<1>4. CASE BaselineVerified
  <2>1. Baseline' = Baseline
    BY <1>4 DEF BaselineVerified, Baseline
  <2>2. CASE TargetsOf[Baseline] = {}
    BY <1>1, <1>4, <2>1, <2>2 DEF BaselineVerified, Results
  <2>3. CASE TargetsOf[Baseline] # {}
    BY <1>1, <1>4, <2>1, <2>3 DEF BaselineVerified, Results
  <2> QED
    BY <2>2, <2>3
<1>5. ASSUME NEW ok \in BOOLEAN, NEW closed \in BOOLEAN, BaselineFails(ok, closed) PROVE FilesInv'
  <2>1. Baseline' = Baseline
    BY <1>5 DEF BaselineFails, Baseline
  <2>2. result'.baselineVerified = result.baselineVerified /\ result'.accepted = result.accepted
        /\ result'.best = result.best
    BY <1>1, <1>5 DEF BaselineFails, Results
  <2> QED
    BY <1>5, <2>1, <2>2 DEF BaselineFails
<1> QED
  BY <1>2, <1>3, <1>4, <1>5 DEF Begin, BaselineStep

\* From the copied kernel to the announced result, and back.
LEMMA PublicationKeepsFiles ==
    ASSUME IInv, FilesInv,
           \/ KernelCopied \/ KernelCopyRaises \/ ConfigUpdated \/ ConfigUpdateRaises
           \/ AnnouncedStands
           \/ \E ok \in BOOLEAN : Unpublished(ok) \/ AnnouncedCancelled(ok)
    PROVE  FilesInv'
<1> USE DEF FilesInv, BaselineFirst, AcceptedIsOnDisk, NoneIsBaseline, AnnouncedIsAccepted,
       FailureTakesBack, SavedAtTheEnd,
       PublishPlaces, publishVars, trialVars, requestVars
<1>1. /\ result \in Results /\ trials \in Seq(Trials) /\ Current \in Nat
  BY InvFacts
<1>2. CASE KernelCopied \/ KernelCopyRaises \/ ConfigUpdateRaises
  BY <1>2 DEF KernelCopied, KernelCopyRaises, ConfigUpdateRaises, Baseline, Published, Winner
<1>3. CASE AnnouncedStands
  BY <1>3 DEF AnnouncedStands, Baseline, Current
<1>4. CASE ConfigUpdated
  <2>1. /\ candidates # <<>> /\ Winner \in 1..Current /\ Winner \in Nat
    BY <1>4, WinnerFacts DEF ConfigUpdated, IInv, Provenance, WinnerExists
  <2>2. Len(trials') = Current /\ \A j \in 1..Current : trials'[j].after = trials[j].after
    BY <1>4, <2>1, AnnouncedTrials DEF ConfigUpdated
  <2>3. /\ result'.accepted = Winner /\ result'.best = Published
        /\ result'.baselineVerified /\ result'.status = "running"
    BY <1>1, <1>4 DEF ConfigUpdated, Results
  <2>4. Winner # None /\ kernelFile = Published
    BY <1>4, <2>1, NoneIsNoVersion DEF ConfigUpdated
  <2>5. Current' = Current /\ Baseline' = Baseline /\ Published' = Published /\ Published = trials[Winner].after
    BY <1>4, <2>1, <2>2 DEF ConfigUpdated, Published, Winner, Current, Baseline
  <2>6. SavedAtTheEnd'
    BY <1>4, <2>5 DEF ConfigUpdated
  <2> QED
    BY <1>4, <2>1, <2>2, <2>3, <2>4, <2>5, <2>6 DEF ConfigUpdated
<1>5. ASSUME NEW ok \in BOOLEAN, Unpublished(ok) \/ AnnouncedCancelled(ok) PROVE FilesInv'
  <2>1. /\ result' = [result EXCEPT !.accepted = None, !.best = Baseline]
        /\ kernelFile' = Baseline /\ configFile' = None /\ Baseline' = Baseline
    BY <1>5 DEF Unpublished, AnnouncedCancelled, Reverted, Baseline
  <2>2. /\ result'.accepted = None /\ result'.best = Baseline
        /\ result'.baselineVerified = result.baselineVerified
        /\ result'.status = result.status
    BY <1>1, <2>1 DEF Results
  <2> QED
    BY <1>5, <2>1, <2>2 DEF Unpublished, AnnouncedCancelled
<1> QED
  BY <1>2, <1>3, <1>4, <1>5

\* The status is decided and the result file written.
LEMMA FinishKeepsFiles ==
    ASSUME IInv, FilesInv, StatusDecided \/ ResultWritten
    PROVE  FilesInv'
<1> USE DEF FilesInv, BaselineFirst, AcceptedIsOnDisk, NoneIsBaseline, AnnouncedIsAccepted,
       FailureTakesBack, SavedAtTheEnd,
       PublishPlaces, publishVars, trialVars, requestVars
<1>1. result \in Results
  BY InvFacts
<1>2. CASE StatusDecided
  <2>1. /\ pc = "finish" /\ pc' = "write"
        /\ UNCHANGED <<trials, kernelFile, configFile, saved>>
        /\ Current' = Current /\ Baseline' = Baseline
    BY <1>2 DEF StatusDecided, Baseline, Current
  <2>2. CASE rollbackFailed
    <3>1. result' = [result EXCEPT !.status = "failed", !.accepted = None, !.best = Baseline]
      BY <1>2, <2>2 DEF StatusDecided, FinalResult
    <3>2. /\ result'.accepted = None /\ result'.best = Baseline
          /\ result'.baselineVerified = result.baselineVerified
      BY <1>1, <3>1 DEF Results
    <3> QED
      BY <2>1, <2>2, <3>2
  <2>3. CASE ~rollbackFailed
    <3>1. result' = [result EXCEPT !.status = IF cancelRequested THEN "cancelled" ELSE "completed"]
      BY <1>2, <2>3 DEF StatusDecided, FinalResult
    <3>2. result'.accepted = result.accepted /\ result'.best = result.best
          /\ result'.baselineVerified = result.baselineVerified /\ result'.status # "failed"
      BY <1>1, <3>1 DEF Results
    <3> QED
      BY <2>1, <3>2
  <2> QED
    BY <2>2, <2>3
<1>3. CASE ResultWritten
  BY <1>3 DEF ResultWritten, End, Baseline, Current
<1> QED
  BY <1>2, <1>3

\* What a reader finds after an exception: a failed result that names what was written or nothing.
LEMMA BrokenOffFacts ==
    ASSUME NEW written \in Results \union {Unreadable}, BreaksOff(written)
    PROVE  /\ pc' = "raised" /\ saved'.status = "failed"
           /\ saved' = Unreadable \/ (saved'.accepted = written.accepted /\ saved'.best = written.best)
<1>1. CASE saved' = Unreadable
  BY <1>1 DEF BreaksOff, Unreadable
<1>2. CASE saved' # Unreadable /\ written \in Results
  BY <1>2 DEF BreaksOff, Results
<1>3. CASE saved' # Unreadable /\ written = Unreadable
  BY <1>3 DEF BreaksOff, Unreadable
<1> QED BY <1>1, <1>2, <1>3

\* An exception leaves the engine, from its middle, from an undo or from the last write.
LEMMA RaiseKeepsFiles ==
    ASSUME IInv, FilesInv, EngineRaises \/ WriteRaises \/ \E ok \in BOOLEAN : UndoRaises(ok)
    PROVE  FilesInv'
<1> USE DEF FilesInv, BaselineFirst, AcceptedIsOnDisk, NoneIsBaseline, AnnouncedIsAccepted,
       FailureTakesBack, SavedAtTheEnd,
       PublishPlaces, publishVars, trialVars, requestVars
<1>1. result \in Results /\ saved \in Results \union {Unreadable} /\ Unreadable.accepted = None
  BY InvFacts DEF IInv, TypeOK, EngineTypeOK, Unreadable
<1>2. CASE EngineRaises
  <2>1. pc' = "raised" /\ saved'.status = "failed" /\ saved'.accepted = None
    BY <1>1, <1>2, BrokenOffFacts DEF EngineRaises, Unguarded
  <2>2. result.accepted = None
    BY <1>2 DEF EngineRaises, Unguarded
  <2> QED
    BY <1>2, <2>1, <2>2 DEF EngineRaises, Baseline, Current
<1>3. CASE WriteRaises
  <2>1. PICK written \in {saved, result} : BreaksOff(written)
    BY <1>3 DEF WriteRaises
  <2>2. /\ pc' = "raised" /\ saved'.status = "failed"
        /\ saved' = Unreadable \/ (saved'.accepted = written.accepted /\ saved'.best = written.best)
    BY <1>1, <2>1, BrokenOffFacts
  <2>3. saved'.accepted # None => saved'.accepted = result.accepted /\ saved'.best = result.best
    BY <1>1, <1>3, <2>1, <2>2 DEF WriteRaises
  <2> QED
    BY <1>3, <2>2, <2>3 DEF WriteRaises, Baseline, Current
<1>4. ASSUME NEW ok \in BOOLEAN, UndoRaises(ok) PROVE FilesInv'
  <2>1. pc' = "raised" /\ saved'.status = "failed" /\ saved'.accepted = None
    BY <1>1, <1>4, BrokenOffFacts DEF UndoRaises
  <2>2. result' = [result EXCEPT !.accepted = None, !.best = Baseline]
    BY <1>4 DEF UndoRaises, RevertRaises
  <2>3. /\ result'.accepted = None /\ result'.best = Baseline
        /\ result'.status = result.status /\ result'.baselineVerified = result.baselineVerified
    BY <1>1, <2>2 DEF Results
  <2> QED
    BY <1>4, <2>1, <2>3 DEF UndoRaises, Baseline
<1> QED
  BY <1>2, <1>3, <1>4

\* Every step keeps the files and the result in agreement.
LEMMA FilesKept ==
    ASSUME IInv, FilesInv, [Next]_vars
    PROVE  FilesInv'
<1> USE DEF requestVars, execVars, roundVars, trialVars, publishVars
<1>1. CASE Executing \/ RequestCancel \/ RunawayInterferes \/ Finished \/ UNCHANGED vars
  BY <1>1, FilesFrame DEF Executing, RequestCancel, RunawayInterferes, Finished, vars
<1>2. CASE RoundStep
  BY <1>2, MiddleKeepsFiles
     DEF RoundStep, RoundBegins, BudgetExhausted, PlanStops, RewriteRejected, CandidateStarts,
         FilePlaces, Places, PublishPlaces
<1>3. CASE TrialStep
  BY <1>3, MiddleKeepsFiles
     DEF TrialStep, CandidateRestored, GateRejects, GateRechecks, GateSkipped,
         RecheckRestored, TrialSettles, AfterTrial, FilePlaces, Places, PublishPlaces
<1>4. ASSUME NEW ok \in BOOLEAN,
             \/ FinalProceeds \/ FinalCancelled(ok) \/ PublishSkipped \/ PublishBegins
             \/ PublishNotStarted \/ PublishDeploys \/ PublishDeployFails
             \/ DeployedChecked(ok) \/ DeployedUnread \/ Undeployed(ok)
      PROVE  FilesInv'
  <2>1. pc \in FilePlaces /\ pc' \in FilePlaces \union {"finish"}
    BY <1>4
       DEF FinalProceeds, FinalCancelled, PublishSkipped, PublishBegins, PublishNotStarted,
           PublishDeploys, PublishDeployFails, DeployedChecked, DeployedUnread, Undeployed, GiveUp,
           FilePlaces, Places
  <2>2. UNCHANGED <<task, kernelFile, configFile, result, saved>>
    BY <1>4
       DEF FinalProceeds, FinalCancelled, PublishSkipped, PublishBegins, PublishNotStarted,
           PublishDeploys, PublishDeployFails, DeployedChecked, DeployedUnread, Undeployed
  <2>3. pc' \in PublishPlaces => ~rollbackFailed'
    BY <1>4
       DEF FinalProceeds, FinalCancelled, PublishSkipped, PublishBegins, PublishNotStarted,
           PublishDeploys, PublishDeployFails, DeployedChecked, DeployedUnread, Undeployed, GiveUp,
           PublishPlaces, FilesInv, FailureTakesBack
  <2> QED
    BY <2>1, <2>2, <2>3, MiddleKeepsFiles
<1>5. CASE PublishStep
  BY <1>4, <1>5, PublicationKeepsFiles, RaiseKeepsFiles DEF PublishStep
<1> QED
  BY <1>1, <1>2, <1>3, <1>5, BaselineKeepsFiles, FinishKeepsFiles, RaiseKeepsFiles
     DEF Next, Engine, FinishStep

\* The result names what best_kernel.py and best_config.yaml hold at every place of a run, the
\* result file follows it, and what an exception leaves is bounded: a failed result that names
\* a trial only if that trial is on disk.  The inductive invariant behind what a run reports.
THEOREM FilesInvariance == Spec => []FilesInv
<1>1. Init => FilesInv
  <2> SUFFICES ASSUME Init PROVE FilesInv
    OBVIOUS
  <2> QED
    BY
       DEF Init, FilesInv, BaselineFirst, AcceptedIsOnDisk, NoneIsBaseline,
           AnnouncedIsAccepted, FailureTakesBack, SavedAtTheEnd, PublishPlaces, Baseline
<1>2. IInv /\ FilesInv /\ [Next]_vars => FilesInv'
  BY FilesKept
<1> QED
  BY <1>1, <1>2, Invariance, PTL DEF Spec

\* A run that returns failed reports no accepted trial, and the best files hold the baseline or nothing.
THEOREM FailurePublishesNothing == Spec => []FailedPublishesNothing
<1>1. FilesInv => FailedPublishesNothing
  BY
     DEF FilesInv, BaselineFirst, AcceptedIsOnDisk, NoneIsBaseline, AnnouncedIsAccepted,
         FailureTakesBack, SavedAtTheEnd, FailedPublishesNothing, Done
<1> QED
  BY <1>1, FilesInvariance, PTL

-----------------------------------------------------------------------------
(* The files on the machine.                                               *)

\* What is known of a version under execution: its runner, and its bytes once it passed.
ExecutionSound ==
    /\ exec.stage \in {"entry", "deploy"} => ~exec.runner
    /\ exec.stage \notin {"entry", "deploy", "returned"} => exec.runner
    /\ /\ pc \in {"baseline", "candidate", "recheck"} /\ runaway = "none"
       /\ exec.stage = "returned" /\ exec.status = "benchmark_ok"
       => workspace = exec.version

CallInProgress ==
    /\ pc \in {"baseline", "candidate", "recheck"} => exec.role = pc
    /\ pc = "baseline" => exec.version = Baseline

BaselineOrVerified == {Baseline} \union verified

\* A workspace a run may end or go on with.
Sound == workspace \in BaselineOrVerified /\ (candidates = <<>> => workspace = Baseline)

\* A candidate's call that has not touched the workspace.
Untouched ==
    /\ pc = "candidate"
    /\ \/ exec.stage \in {"entry", "deploy"}
       \/ exec.stage = "returned" /\ ~exec.runner /\ exec.status = "cancelled"

RestingPlaces == {"round", "planning", "gate", "settle", "final", "publish", "deploying", "finish",
                  "write", "done"}

ParentIsSound == parent \in BaselineOrVerified /\ (candidates = <<>> => parent = Baseline)

\* Where the last rollback must have been verified.
RestoredWhere ==
    /\ pc \in {"start", "baseline", "round", "planning", "candidate", "recheck"} => restored
    /\ pc \in {"final", "publish", "deploying"} => restored \/ rollbackFailed

\* A verified rollback, an untouched workspace and a deployed winner are sound.
WorkspaceSound ==
    runaway = "none" =>
        /\ Untouched => Sound
        /\ pc \in RestingPlaces /\ restored /\ result.baselineVerified => Sound
        /\ pc \in {"deployed", "copying", "copied", "announced"} => workspace = Published

\* A completed run leaves what it reports.
CompletedHolds ==
    runaway = "none" =>
        /\ pc = "finish" /\ ~rollbackFailed /\ ~cancelRequested => workspace = result.best
        /\ result.status = "completed" => workspace = result.best

WorkInv ==
    /\ ExecutionSound
    /\ CallInProgress
    /\ ParentIsSound
    /\ RestoredWhere
    /\ WorkspaceSound
    /\ CompletedHolds

\* A command that was left running ends its execution without a verdict to restore on.
LeftRunning ==
    /\ runaway' = exec.role
    /\ exec'.stage = "returned" /\ exec'.status = "validation_failed"
    /\ ~exec'.restoreAllowed \/ ~exec'.runner

\* What a step of _execute_version keeps: a command left running ends it, and as long as it may
\* still be called untouched the workspace is as it was.
LEMMA ExecutionFacts ==
    ASSUME ExecTypeOK, ExecutionSound, ExecStep, UNCHANGED <<cancelRequested, task, pc>>
    PROVE  /\ ExecutionSound'
           /\ exec'.role = exec.role /\ exec'.version = exec.version
           /\ runaway' = runaway \/ LeftRunning
           /\ Untouched' => Untouched /\ UNCHANGED workspace
<1> DEFINE Facts == /\ ExecutionSound'
                    /\ exec'.role = exec.role /\ exec'.version = exec.version
                    /\ runaway' = runaway \/ LeftRunning
                    /\ Untouched' => Untouched /\ UNCHANGED workspace
<1>1. exec \in Executions /\ exec.role # "none" /\ exec.role \in Roles
  BY DEF ExecTypeOK, Executions, Roles
<1> USE <1>1 DEF Executions, ExecutionSound, Untouched, Return, Commands
<1>2. CASE EntryCancelled \/ EntryProtectedChanged \/ EntryPasses
  BY <1>2 DEF EntryCancelled, EntryProtectedChanged, EntryPasses
<1>3. CASE DeployRaises \/ DeployAuditFails
  BY <1>3 DEF DeployRaises, DeployAuditFails
<1>4. CASE DeployBuilds
  BY <1>4 DEF DeployBuilds
<1>5. CASE DeployWithoutBuild
  BY <1>5 DEF DeployWithoutBuild, Checked
<1>6. CASE CommandStopUnverified \/ CommandLost \/ ProfilerStopUnverified
  BY <1>6 DEF CommandStopUnverified, CommandLost, ProfilerStopUnverified, LeftRunning, Roles
<1>7. CASE CommandAuditFails \/ CommandInterrupted
  BY <1>7 DEF CommandAuditFails, CommandInterrupted
<1>8. CASE CommandFails
  <2>1. FailureOf(exec.stage) \in Failures
    BY <1>8 DEF CommandFails, FailureOf, Failures
  <2> QED
    BY <1>8, <2>1 DEF CommandFails, Failures
<1>9. CASE BuildPasses \/ CorrectnessPasses
  BY <1>9 DEF BuildPasses, CorrectnessPasses, CommandPasses, Checked
<1>10. CASE BenchmarkRepeats
  BY <1>10 DEF BenchmarkRepeats, Checked
<1>11. CASE BenchmarkFinishes
  BY <1>11 DEF BenchmarkFinishes
<1>12. CASE ProfilerEnters \/ ProfilerStarts
  BY <1>12 DEF ProfilerEnters, ProfilerStarts
<1>13. ASSUME NEW ok \in BOOLEAN, ProfilerAudited(ok) PROVE Facts
  <2>1. CASE ok
    BY <1>13, <2>1 DEF ProfilerAudited
  <2>2. CASE ~ok
    BY <1>13, <2>2 DEF ProfilerAudited
  <2> QED
    BY <2>1, <2>2
<1> QED
  BY ONLY ExecStep, <1>2, <1>3, <1>4, <1>5, <1>6, <1>7, <1>8, <1>9, <1>10, <1>11, <1>12, <1>13
     DEF ExecStep

\* Steps that neither touch the machine nor decide anything.
LEMMA WorkFrame ==
    ASSUME WorkInv,
           UNCHANGED <<task, verified, workspace, runaway, exec, pc, parent, trials, candidates,
                       restored, rollbackFailed, result>>,
           cancelRequested => cancelRequested'
    PROVE  WorkInv'
BY
   DEF WorkInv, ExecutionSound, CallInProgress, ParentIsSound, RestoredWhere, WorkspaceSound,
       CompletedHolds, Untouched, Sound, BaselineOrVerified, Baseline, Published, Winner

\* The execution under way, the user, and a command left running.
LEMMA EnvironmentKeepsWork ==
    ASSUME IInv, FilesInv, WorkInv,
           Executing \/ RequestCancel \/ RunawayInterferes \/ Finished \/ UNCHANGED vars
    PROVE  WorkInv'
<1> USE DEF requestVars, execVars, roundVars, trialVars, publishVars
<1>1. CASE RequestCancel \/ Finished \/ UNCHANGED vars
  BY <1>1, WorkFrame DEF RequestCancel, Finished, vars
<1>2. CASE RunawayInterferes
  <2>1. /\ UNCHANGED <<task, verified, runaway, exec, pc, parent, trials, candidates, restored,
                       rollbackFailed, result>>
        /\ runaway' # "none"
    BY <1>2 DEF RunawayInterferes, RunawayWrites
  <2> QED
    BY <2>1
       DEF WorkInv, ExecutionSound, CallInProgress, ParentIsSound, RestoredWhere,
           WorkspaceSound, CompletedHolds, Baseline, BaselineOrVerified
<1>3. CASE Executing
  <2>1. /\ UNCHANGED <<task, verified, pc, parent, trials, candidates, restored, rollbackFailed,
                       result>>
        /\ UNCHANGED cancelRequested
        /\ pc \in {"baseline", "candidate", "recheck"}
        /\ ExecStep
    BY <1>3 DEF Executing
  <2>2. /\ ExecutionSound'
        /\ exec'.role = exec.role /\ exec'.version = exec.version
        /\ runaway' = runaway \/ LeftRunning
        /\ Untouched' => Untouched /\ UNCHANGED workspace
    BY <2>1, ExecutionFacts DEF IInv, TypeOK, WorkInv
  <2>3. exec.role # "none"
    BY DEF IInv, TypeOK, ExecTypeOK, Executions, Roles
  <2>4. runaway' = "none" => runaway = "none"
    BY <2>2, <2>3 DEF LeftRunning
  <2>5. CallInProgress' /\ ParentIsSound' /\ RestoredWhere'
    BY <2>1, <2>2
       DEF WorkInv, CallInProgress, ParentIsSound, RestoredWhere, Baseline, BaselineOrVerified
  <2>6. WorkspaceSound'
    BY <2>1, <2>2, <2>4
       DEF WorkInv, WorkspaceSound, Sound, RestingPlaces, Baseline, BaselineOrVerified
  <2>7. CompletedHolds'
    BY <2>1 DEF CompletedHolds, FilesInv, FailureTakesBack
  <2> QED
    BY <2>2, <2>5, <2>6, <2>7 DEF WorkInv
<1> QED
  BY <1>1, <1>2, <1>3

\* Steps that leave the machine alone and end at rest.
LEMMA RestKeepsWork ==
    ASSUME IInv, FilesInv, WorkInv,
           UNCHANGED <<task, workspace, runaway, exec, parent, trials, candidates, restored,
                       rollbackFailed, result>>,
           verified \subseteq verified',
           pc \in RestingPlaces,
           pc' \in RestingPlaces \ {"finish", "write", "done"},
           pc' \in {"round", "planning"} => restored,
           pc' \in {"final", "publish", "deploying"} => restored \/ rollbackFailed
    PROVE  WorkInv'
<1>1. Baseline' = Baseline
  BY DEF Baseline
<1>2. Sound => Sound'
  BY <1>1 DEF Sound, BaselineOrVerified
<1>3. result.status = "completed" => pc \in {"write", "done", "raised"}
  BY DEF FilesInv, FailureTakesBack
<1> QED
  BY <1>1, <1>2, <1>3
     DEF WorkInv, ExecutionSound, CallInProgress, ParentIsSound, RestoredWhere,
         WorkspaceSound, CompletedHolds, Untouched, RestingPlaces, BaselineOrVerified

\* The baseline call, deployed over the initial files and judged.
LEMMA BaselineKeepsWork ==
    ASSUME IInv, FilesInv, WorkInv, Begin \/ BaselineStep
    PROVE  WorkInv'
<1> USE DEF requestVars, execVars, roundVars, trialVars, publishVars, Decides
<1>1. result \in Results /\ result.status = "running" /\ ~result.baselineVerified
  BY InvFacts
     DEF Begin, BaselineStep, BeginUnavailable, BeginBaseline, BaselineVerified,
         BaselineFails, FilesInv, FailureTakesBack, BaselineFirst
<1>2. CASE BeginUnavailable
  <2>1. result'.status = "unavailable" /\ ~result'.baselineVerified
    BY <1>1, <1>2 DEF BeginUnavailable, Results
  <2> QED
    BY <1>2, <2>1
       DEF BeginUnavailable, WorkInv, ExecutionSound, CallInProgress, ParentIsSound,
           RestoredWhere, WorkspaceSound, CompletedHolds, Untouched, RestingPlaces,
           BaselineOrVerified, Baseline
<1>3. CASE BeginBaseline
  <2>1. /\ exec'.stage = "entry" /\ ~exec'.runner
        /\ exec'.role = "baseline" /\ exec'.version = Baseline
    BY <1>3 DEF BeginBaseline, Call
  <2> QED
    BY <1>1, <1>3, <2>1
       DEF BeginBaseline, WorkInv, ExecutionSound, CallInProgress, ParentIsSound,
           RestoredWhere, WorkspaceSound, CompletedHolds, Untouched, RestingPlaces,
           BaselineOrVerified, Baseline
<1>4. CASE BaselineVerified
  <2>1. result'.status # "completed"
    <3> DEFINE measured == [result EXCEPT !.baselineVerified = TRUE]
    <3>1. measured \in Results /\ measured.status = "running"
      BY <1>1, ResultType DEF Results
    <3>2. result' = measured \/ result' = [measured EXCEPT !.status = "unavailable"]
      BY <1>4 DEF BaselineVerified
    <3> HIDE DEF measured
    <3> QED
      BY <3>1, <3>2 DEF Results
  <2>2. /\ pc = "baseline" /\ pc' \in {"write", "round"}
        /\ exec.stage = "returned" /\ exec.status = "benchmark_ok"
        /\ UNCHANGED <<task, verified, workspace, runaway, exec, parent, trials, candidates,
                       restored>>
    BY <1>4 DEF BaselineVerified
  <2>3. runaway = "none" => workspace = Baseline
    BY <2>2 DEF WorkInv, ExecutionSound, CallInProgress
  <2> QED
    BY <2>1, <2>2, <2>3
       DEF WorkInv, ExecutionSound, CallInProgress, ParentIsSound, RestoredWhere,
           WorkspaceSound, CompletedHolds, Untouched, Sound, RestingPlaces, BaselineOrVerified,
           Baseline
<1>5. ASSUME NEW ok \in BOOLEAN, NEW closed \in BOOLEAN, BaselineFails(ok, closed) PROVE WorkInv'
  <2>1. result'.status # "completed" /\ ~result'.baselineVerified
    BY <1>1, <1>5 DEF BaselineFails, Results
  <2> QED
    BY <1>5, <2>1
       DEF BaselineFails, WorkInv, ExecutionSound, CallInProgress, ParentIsSound,
           RestoredWhere, WorkspaceSound, CompletedHolds, Untouched, RestingPlaces,
           BaselineOrVerified, Baseline
<1> QED
  BY <1>2, <1>3, <1>4, <1>5 DEF Begin, BaselineStep

\* A round plans, rewrites and starts a candidate; it never touches the workspace itself.
LEMMA RoundKeepsWork ==
    ASSUME IInv, FilesInv, WorkInv, RoundStep
    PROVE  WorkInv'
<1> USE DEF requestVars, execVars, roundVars, trialVars, publishVars
<1>1. /\ pc \in {"round", "planning"} /\ restored
      /\ result.status = "running" /\ result.baselineVerified
  BY
     DEF RoundStep, RoundBegins, BudgetExhausted, PlanStops, RewriteRejected, CandidateStarts,
         WorkInv, RestoredWhere, FilesInv, FailureTakesBack, BaselineFirst
<1>2. CASE RoundBegins \/ BudgetExhausted \/ PlanStops
  BY <1>1, <1>2, RestKeepsWork DEF RoundBegins, BudgetExhausted, PlanStops, RestingPlaces
<1>3. ASSUME NEW t \in OpenTargets, RewriteRejected(t) PROVE WorkInv'
  BY <1>1, <1>3
     DEF RewriteRejected, WorkInv, ExecutionSound, CallInProgress, ParentIsSound,
         RestoredWhere, WorkspaceSound, CompletedHolds, Untouched, Sound, RestingPlaces,
         BaselineOrVerified, Baseline
<1>4. ASSUME NEW t \in OpenTargets, CandidateStarts(t) PROVE WorkInv'
  <2>1. exec'.stage = "entry" /\ ~exec'.runner /\ exec'.role = "candidate"
    BY <1>4 DEF CandidateStarts, Call
  <2> QED
    BY <1>1, <1>4, <2>1
       DEF CandidateStarts, WorkInv, ExecutionSound, CallInProgress, ParentIsSound,
           RestoredWhere, WorkspaceSound, CompletedHolds, Untouched, Sound, RestingPlaces,
           BaselineOrVerified, Baseline
<1> QED
  BY <1>2, <1>3, <1>4 DEF RoundStep

\* An exception leaves the workspace to itself: nothing is claimed of it any more.
LEMMA RaiseKeepsWork ==
    ASSUME IInv, FilesInv, WorkInv,
           EngineRaises \/ WriteRaises \/ \E ok \in BOOLEAN : UndoRaises(ok)
    PROVE  WorkInv'
<1> USE DEF requestVars, execVars, roundVars, trialVars, publishVars
<1>1. /\ pc' = "raised"
      /\ UNCHANGED <<task, verified, runaway, exec, parent, candidates>>
  BY DEF EngineRaises, WriteRaises, UndoRaises, BreaksOff
<1>2. UNCHANGED <<workspace, result>> \/ result'.status # "completed"
  <2>1. CASE EngineRaises \/ WriteRaises
    BY <2>1 DEF EngineRaises, WriteRaises
  <2>2. ASSUME NEW ok \in BOOLEAN, UndoRaises(ok) PROVE result'.status # "completed"
    <3>1. result.status = "running"
      BY <2>2 DEF UndoRaises, FilesInv, FailureTakesBack
    <3> QED BY <2>2, <3>1, InvFacts DEF UndoRaises, RevertRaises, Results
  <2> QED BY <2>1, <2>2
<1> QED
  BY <1>1, <1>2
     DEF WorkInv, ExecutionSound, CallInProgress, ParentIsSound, RestoredWhere, WorkspaceSound,
         CompletedHolds, Untouched, RestingPlaces, BaselineOrVerified, Baseline

\* The rollback after a candidate and after a recheck, and the verdict.
LEMMA TrialKeepsWork ==
    ASSUME IInv, FilesInv, WorkInv, TrialStep
    PROVE  WorkInv'
<1> USE DEF requestVars, execVars, roundVars, trialVars, publishVars
<1>1. /\ pc \in {"candidate", "gate", "recheck", "settle"}
      /\ result.status = "running" /\ result.baselineVerified
  BY
     DEF TrialStep, CandidateRestored, GateRejects, GateRechecks, GateSkipped,
         RecheckRestored, TrialSettles, FilesInv, FailureTakesBack, BaselineFirst
<1>2. ASSUME NEW ok \in BOOLEAN, CandidateRestored(ok) PROVE WorkInv'
  <2>1. /\ UNCHANGED <<task, verified, runaway, exec, parent, trials, candidates, rollbackFailed,
                       result>>
        /\ pc = "candidate" /\ pc' = "gate" /\ exec.stage = "returned"
        /\ restored' = ok /\ Rollback(parent, ok)
    BY <1>2 DEF CandidateRestored
  <2>2. ok /\ runaway = "none" => Sound'
    <3> SUFFICES ASSUME ok, runaway = "none" PROVE Sound'
      OBVIOUS
    <3>1. CASE ~exec.runner /\ exec.status = "cancelled"
      <4>1. Sound
        BY <2>1, <3>1 DEF WorkInv, WorkspaceSound, Untouched
      <4>2. UNCHANGED workspace
        BY <2>1, <3>1 DEF Rollback, RestoreWithheld
      <4> QED
        BY <2>1, <4>1, <4>2 DEF Sound, BaselineOrVerified, Baseline
    <3>2. CASE ~(~exec.runner /\ exec.status = "cancelled")
      <4>1. workspace' = parent
        BY <2>1, <3>2 DEF Rollback, RestoreWithheld, Restore
      <4> QED
        BY <2>1, <4>1 DEF WorkInv, ParentIsSound, Sound, BaselineOrVerified, Baseline
    <3> QED
      BY <3>1, <3>2
  <2> QED
    BY <1>1, <2>1, <2>2
       DEF WorkInv, ExecutionSound, CallInProgress, ParentIsSound, RestoredWhere,
           WorkspaceSound, CompletedHolds, Untouched, RestingPlaces, BaselineOrVerified, Baseline
<1>3. CASE GateRejects \/ GateSkipped
  BY <1>1, <1>3, RestKeepsWork DEF GateRejects, GateSkipped, RestingPlaces
<1>4. CASE GateRechecks
  <2>1. exec'.stage = "entry" /\ ~exec'.runner /\ exec'.role = "recheck" /\ restored
    BY <1>4 DEF GateRechecks, Call, GateEntered
  <2> QED
    BY <1>1, <1>4, <2>1
       DEF GateRechecks, WorkInv, ExecutionSound, CallInProgress, ParentIsSound,
           RestoredWhere, WorkspaceSound, CompletedHolds, Untouched, RestingPlaces,
           BaselineOrVerified, Baseline
<1>5. ASSUME NEW ok \in BOOLEAN, NEW d \in {"accepted", "rejected"}, RecheckRestored(ok, d)
      PROVE  WorkInv'
  <2>1. /\ UNCHANGED <<task, runaway, exec, parent, trials, candidates, rollbackFailed, result>>
        /\ pc = "recheck" /\ pc' = "settle" /\ restored' = ok /\ Restore(exec.runner, parent, ok)
        /\ verified \subseteq verified'
    BY <1>5 DEF RecheckRestored
  <2>2. ok => Sound'
    BY <2>1 DEF Restore, WorkInv, ParentIsSound, Sound, BaselineOrVerified, Baseline
  <2> QED
    BY <1>1, <2>1, <2>2
       DEF WorkInv, ExecutionSound, CallInProgress, ParentIsSound, RestoredWhere,
           WorkspaceSound, CompletedHolds, Untouched, RestingPlaces, BaselineOrVerified, Baseline
<1>6. CASE TrialSettles
  <2>1. /\ UNCHANGED <<task, verified, workspace, runaway, exec, restored, result>>
        /\ pc = "settle" /\ pc' = (IF restored THEN "round" ELSE "final")
        /\ rollbackFailed' = (rollbackFailed \/ ~restored)
    BY <1>6 DEF TrialSettles, AfterTrial
  <2>2. ParentIsSound' /\ (candidates' = <<>> => candidates = <<>>)
    <3>1. CASE Verdict = "accepted"
      <4>1. parent' \in verified
        BY <1>6, <3>1, VerdictFacts DEF TrialSettles, Adopts
      <4>2. candidates' # <<>>
        BY <1>6, <3>1, InvFacts, AppendProperties, EmptySeq
           DEF TrialSettles, IInv, TypeOK, EngineTypeOK
      <4> QED
        BY <2>1, <4>1, <4>2 DEF ParentIsSound, BaselineOrVerified
    <3>2. CASE Verdict # "accepted"
      BY <1>6, <2>1, <3>2
         DEF TrialSettles, Adopts, WorkInv, ParentIsSound, BaselineOrVerified, Baseline
    <3> QED
      BY <3>1, <3>2
  <2>3. Sound => Sound'
    BY <2>1, <2>2 DEF Sound, BaselineOrVerified, Baseline
  <2> QED
    BY <1>1, <2>1, <2>2, <2>3
       DEF WorkInv, ExecutionSound, CallInProgress, RestoredWhere, WorkspaceSound,
           CompletedHolds, Untouched, RestingPlaces, BaselineOrVerified, Baseline
<1> QED
  BY <1>2, <1>3, <1>4, <1>5, <1>6 DEF TrialStep

\* Steps after the last round that leave the run neither cancelled nor failed only
\* if the workspace holds what the result names.
LEMMA FinalKeepsWork ==
    ASSUME IInv, FilesInv, WorkInv, PublishStep
    PROVE  WorkInv'
<1> USE DEF requestVars, execVars, roundVars, trialVars, publishVars
<1>1. pc \in {"final", "publish"} \union PublishPlaces
  BY
     DEF PublishStep, FinalProceeds, FinalCancelled, PublishSkipped, PublishBegins,
         PublishNotStarted, PublishDeploys, PublishDeployFails, DeployedChecked, Undeployed,
         KernelCopied, KernelCopyRaises, ConfigUpdated, ConfigUpdateRaises, Unpublished,
         AnnouncedCancelled, AnnouncedStands, DeployedUnread, UndoRaises, PublishPlaces
<1>2. result.status = "running" /\ result.baselineVerified
  BY <1>1 DEF FilesInv, FailureTakesBack, BaselineFirst, PublishPlaces
<1>3. pc \in PublishPlaces => candidates # <<>> /\ ~rollbackFailed /\ Published \in verified
  BY WinnerFacts DEF IInv, Provenance, WinnerExists, FilesInv, FailureTakesBack
<1>4. CASE FinalProceeds \/ PublishBegins
  BY <1>1, <1>4, RestKeepsWork
     DEF FinalProceeds, PublishBegins, RestingPlaces, WorkInv, RestoredWhere
  \* A step to "finish" that undoes what was deployed, or leaves what is sound.
<1>5. ASSUME UNCHANGED <<task, verified, runaway, exec, parent, candidates>>, pc' = "finish",
             result'.status # "completed", restored' /\ runaway = "none" => Sound',
             rollbackFailed' \/ cancelRequested' \/ (runaway = "none" => workspace' = result'.best)
      PROVE  WorkInv'
  BY <1>5
     DEF WorkInv, ExecutionSound, CallInProgress, ParentIsSound, RestoredWhere,
         WorkspaceSound, CompletedHolds, Untouched, RestingPlaces, BaselineOrVerified, Baseline
<1>6. ASSUME NEW ok \in BOOLEAN, FinalCancelled(ok) PROVE WorkInv'
  <2>1. ok /\ runaway = "none" => Sound'
    <3>1. CASE parent # Baseline /\ ~rollbackFailed
      BY <1>6, <3>1 DEF FinalCancelled, Redeploy, Restore, Sound, BaselineOrVerified, Baseline
    <3>2. CASE ~(parent # Baseline /\ ~rollbackFailed)
      BY <1>2, <1>6, <3>2
         DEF FinalCancelled, WorkInv, WorkspaceSound, RestingPlaces, Sound,
             BaselineOrVerified, Baseline
    <3> QED
      BY <3>1, <3>2
  <2> QED
    BY <1>2, <1>5, <1>6, <2>1 DEF FinalCancelled
<1>7. CASE PublishSkipped
  <2>1. restored /\ runaway = "none" => Sound
    BY <1>2, <1>7 DEF PublishSkipped, WorkInv, WorkspaceSound, RestingPlaces
  <2>2. result.best = Baseline
    BY <1>7 DEF PublishSkipped, FilesInv, AcceptedIsOnDisk, NoneIsBaseline
  <2>3. ~rollbackFailed => restored
    BY <1>7 DEF PublishSkipped, WorkInv, RestoredWhere
  <2>4. rollbackFailed \/ cancelRequested \/ (runaway = "none" => workspace = result.best)
    BY <1>7, <2>1, <2>2, <2>3 DEF PublishSkipped, Sound
  <2>5. (Sound => Sound') /\ (cancelRequested => cancelRequested')
    BY <1>7 DEF PublishSkipped, Sound, BaselineOrVerified, Baseline
  <2> QED
    BY <1>2, <1>5, <1>7, <2>1, <2>4, <2>5 DEF PublishSkipped
<1>8. CASE PublishNotStarted
  <2>1. runaway = "none" => Sound
    BY <1>2, <1>3, <1>8
       DEF PublishNotStarted, WorkInv, WorkspaceSound, RestoredWhere, RestingPlaces,
           PublishPlaces
  <2>2. (Sound => Sound') /\ (cancelRequested => cancelRequested')
    BY <1>8 DEF PublishNotStarted, GiveUp, Sound, BaselineOrVerified, Baseline
  <2> QED
    BY <1>2, <1>5, <1>8, <2>1, <2>2 DEF PublishNotStarted, GiveUp
<1>9. ASSUME NEW ok \in BOOLEAN, Undeployed(ok) PROVE WorkInv'
  <2>1. ok => Sound'
    BY <1>9 DEF Undeployed, Redeploy, Restore, Sound, BaselineOrVerified, Baseline
  <2>2. cancelRequested => cancelRequested'
    BY <1>9 DEF Undeployed
  <2> QED
    BY <1>2, <1>5, <1>9, <2>1, <2>2 DEF Undeployed, GiveUp
<1>10. ASSUME NEW ok \in BOOLEAN, Unpublished(ok) \/ AnnouncedCancelled(ok) PROVE WorkInv'
  <2>1. ok => Sound'
    BY <1>10 DEF Unpublished, AnnouncedCancelled, Restore, Sound, BaselineOrVerified, Baseline
  <2>2. result'.status # "completed"
    BY <1>2, <1>10, InvFacts DEF Unpublished, AnnouncedCancelled, Reverted, Results
  <2>3. rollbackFailed' \/ cancelRequested'
    <3>1. CASE Unpublished(ok)
      BY <3>1 DEF Unpublished
    <3>2. CASE AnnouncedCancelled(ok)
      BY <3>2 DEF AnnouncedCancelled
    <3> QED
      BY <1>10, <3>1, <3>2
  <2> QED
    BY <1>5, <1>10, <2>1, <2>2, <2>3 DEF Unpublished, AnnouncedCancelled
<1>11. CASE AnnouncedStands
  <2>1. runaway = "none" => workspace = Published
    BY <1>11 DEF AnnouncedStands, WorkInv, WorkspaceSound
  <2>2. result.best = Published
    BY <1>11 DEF AnnouncedStands, FilesInv, AnnouncedIsAccepted
  <2>3. runaway = "none" => Sound'
    BY <1>3, <1>11, <2>1 DEF AnnouncedStands, Sound, BaselineOrVerified, Baseline, PublishPlaces
  <2> QED
    BY <1>2, <1>5, <1>11, <2>1, <2>2, <2>3 DEF AnnouncedStands
  \* A step within the publication.
<1>12. ASSUME UNCHANGED <<task, verified, runaway, exec, parent, candidates, restored>>,
              pc' \in PublishPlaces \ {"deploying"}, result'.status # "completed",
              runaway = "none" /\ pc' \in {"deployed", "copying", "copied", "announced"} =>
                  workspace' = Published'
       PROVE  WorkInv'
  BY <1>12
     DEF WorkInv, ExecutionSound, CallInProgress, ParentIsSound, RestoredWhere,
         WorkspaceSound, CompletedHolds, Untouched, RestingPlaces, BaselineOrVerified, Baseline,
         PublishPlaces
<1>13. CASE \/ PublishDeploys \/ PublishDeployFails \/ KernelCopied \/ KernelCopyRaises
            \/ ConfigUpdateRaises \/ DeployedUnread
            \/ \E ok \in BOOLEAN : DeployedChecked(ok)
  <2>1. pc' \in {"deployed", "copying", "copied", "announced"} =>
            workspace' = Published \/ runaway # "none"
    BY <1>13
       DEF PublishDeploys, PublishDeployFails, KernelCopied, KernelCopyRaises,
           ConfigUpdateRaises, DeployedChecked, DeployedUnread, WorkInv, WorkspaceSound
  <2>2. Published' = Published
    BY <1>13
       DEF PublishDeploys, PublishDeployFails, KernelCopied, KernelCopyRaises,
           ConfigUpdateRaises, DeployedChecked, DeployedUnread, Published, Winner
  <2>3. /\ pc' \in PublishPlaces \ {"deploying"}
        /\ UNCHANGED <<task, verified, runaway, exec, parent, candidates, restored, result>>
    BY <1>13
       DEF PublishDeploys, PublishDeployFails, KernelCopied, KernelCopyRaises,
           ConfigUpdateRaises, DeployedChecked, DeployedUnread, PublishPlaces
  <2> QED
    BY <1>2, <1>12, <2>1, <2>2, <2>3
<1>14. CASE ConfigUpdated
  <2>1. Winner \in 1..Current
    BY <1>3, <1>14, WinnerFacts DEF ConfigUpdated, PublishPlaces
  <2>2. trials'[Winner].after = trials[Winner].after
    BY <1>14, <2>1, AnnouncedTrials DEF ConfigUpdated
  <2>3. Published' = Published
    BY <1>14, <2>2 DEF ConfigUpdated, Published, Winner
  <2>4. result'.status # "completed"
    BY <1>2, <1>14, InvFacts DEF ConfigUpdated, Results
  <2>5. runaway = "none" => workspace = Published
    BY <1>14 DEF ConfigUpdated, WorkInv, WorkspaceSound
  <2> QED
    BY <1>12, <1>14, <2>3, <2>4, <2>5 DEF ConfigUpdated, PublishPlaces
<1> QED
  BY <1>4, <1>6, <1>7, <1>8, <1>9, <1>10, <1>11, <1>13, <1>14, RaiseKeepsWork DEF PublishStep

\* A run is completed only if nothing was cancelled and no rollback failed.
LEMMA FinishKeepsWork ==
    ASSUME IInv, FilesInv, WorkInv, StatusDecided \/ ResultWritten
    PROVE  WorkInv'
<1> USE DEF requestVars, execVars, roundVars, trialVars, publishVars
<1>1. /\ UNCHANGED <<task, verified, workspace, runaway, exec, parent, candidates, restored,
                     rollbackFailed>>
      /\ pc \in {"finish", "write"} /\ pc' \in {"write", "done"}
      /\ result'.baselineVerified => result.baselineVerified
  BY DEF StatusDecided, ResultWritten, End, FilesInv, BaselineFirst
<1>2. result'.status = "completed" /\ runaway = "none" => workspace = result'.best
  <2>1. CASE StatusDecided
    <3>1. CASE rollbackFailed
      BY <2>1, <3>1, InvFacts DEF StatusDecided, FinalResult, Results
    <3>2. CASE ~rollbackFailed
      <4>1. /\ result'.best = result.best
            /\ result'.status = "completed" => ~cancelRequested
        BY <2>1, <3>2, InvFacts DEF StatusDecided, FinalResult, Results
      <4> QED
        BY <2>1, <3>2, <4>1 DEF StatusDecided, WorkInv, CompletedHolds
    <3> QED
      BY <3>1, <3>2
  <2>2. CASE ResultWritten
    BY <2>2 DEF ResultWritten, End, WorkInv, CompletedHolds
  <2> QED
    BY <2>1, <2>2
<1> QED
  BY <1>1, <1>2
     DEF WorkInv, ExecutionSound, CallInProgress, ParentIsSound, RestoredWhere,
         WorkspaceSound, CompletedHolds, Untouched, Sound, RestingPlaces, BaselineOrVerified,
         Baseline

\* Before a run begins nothing is claimed of the workspace.
LEMMA WorkInit ==
    ASSUME Init PROVE WorkInv
BY
   DEF Init, WorkInv, ExecutionSound, CallInProgress, ParentIsSound, RestoredWhere,
       WorkspaceSound, CompletedHolds, Untouched, RestingPlaces, BaselineOrVerified, Baseline,
       Call

\* Where the workspace stands at every place of a run: the inductive invariant behind the three
\* theorems about the files on the machine.
THEOREM WorkInvariance == Spec => []WorkInv
<1>1. IInv /\ FilesInv /\ WorkInv /\ [Next]_vars => WorkInv'
  BY EnvironmentKeepsWork, BaselineKeepsWork, RoundKeepsWork, TrialKeepsWork, FinalKeepsWork,
     FinishKeepsWork, RaiseKeepsWork
     DEF Next, Engine, FinishStep
<1> QED
  BY <1>1, WorkInit, Invariance, FilesInvariance, PTL DEF Spec

\* A round starts from a workspace that holds the baseline or a verified version, since a rollback
\* that could not be verified ends the rounds.
THEOREM RoundsStartVerified == Spec => []RoundStartsFromVerified
<1>1. FilesInv /\ WorkInv => RoundStartsFromVerified
  BY
     DEF FilesInv, BaselineFirst, WorkInv, WorkspaceSound, RestoredWhere, RestingPlaces,
         Sound, BaselineOrVerified, RoundStartsFromVerified
<1> QED
  BY <1>1, WorkInvariance, FilesInvariance, PTL

\* A run that returns after a last rollback that was verified leaves the baseline or a verified
\* version on the machine, and the baseline if it accepted nothing.  Nothing is said of a run
\* that raises: its candidate may still be deployed.
THEOREM RunsEndVerified == Spec => []EndsOnVerified
<1>1. FilesInv /\ WorkInv => EndsOnVerified
  BY
     DEF FilesInv, NoneIsBaseline, WorkInv, WorkspaceSound, RestingPlaces, Sound,
         BaselineOrVerified, EndsOnVerified, Done
<1> QED
  BY <1>1, WorkInvariance, FilesInvariance, PTL

\* The best version a finished run reports is the one in its files, and of a completed run the one
\* on the machine.
THEOREM ReportsAreOnDisk == Spec => []ReportedBestIsOnDisk
<1>1. FilesInv /\ WorkInv => ReportedBestIsOnDisk
  BY
     DEF FilesInv, AcceptedIsOnDisk, NoneIsBaseline, SavedAtTheEnd, WorkInv, CompletedHolds,
         ReportedBestIsOnDisk, Done
<1> QED
  BY <1>1, WorkInvariance, FilesInvariance, PTL

-----------------------------------------------------------------------------
(* Commands that could not be stopped.                                     *)

\* A baseline or candidate command may still be running.
StillRunning == runaway \in {"baseline", "candidate"}

\* Where a run can be while one of its commands may still be running.
StopHeld ==
    StillRunning =>
        \/ /\ pc \in {"baseline", "candidate"}
           /\ exec.stage = "returned" /\ exec.status = "validation_failed"
           /\ ~exec.restoreAllowed \/ ~exec.runner
        \/ pc \in {"gate", "settle"} /\ ~restored
        \/ pc \in {"final", "publish"} /\ rollbackFailed
        \/ pc \in {"finish", "write", "done", "raised"}

\* The steps such a run can take, each with what it does to the workspace.
LEMMA StoppedSteps ==
    ASSUME IInv, StopHeld, StillRunning, [Next]_vars
    PROVE  StopHeld' /\ (RunawayInterferes \/ UNCHANGED workspace)
<1> USE DEF requestVars, execVars, roundVars, trialVars, publishVars, StopHeld, StillRunning
<1>1. CASE Executing \/ Begin \/ RoundStep
  BY <1>1
     DEF Executing, Begin, BeginUnavailable, BeginBaseline, RoundStep, RoundBegins,
         BudgetExhausted, PlanStops, RewriteRejected, CandidateStarts
<1>2. CASE RequestCancel \/ Finished \/ UNCHANGED vars
  BY <1>2 DEF RequestCancel, Finished, vars
<1>3. CASE RunawayInterferes
  BY <1>3 DEF RunawayInterferes, RunawayWrites
<1>4. CASE BaselineStep
  <2>1. CASE BaselineVerified
    BY <2>1 DEF BaselineVerified
  <2>2. ASSUME NEW ok \in BOOLEAN, NEW closed \in BOOLEAN, BaselineFails(ok, closed)
        PROVE  StopHeld' /\ UNCHANGED workspace
    BY <2>2 DEF BaselineFails, Decides, Rollback, RestoreWithheld, Restore
  <2> QED
    BY <1>4, <2>1, <2>2 DEF BaselineStep
<1>5. ASSUME NEW ok \in BOOLEAN, CandidateRestored(ok) PROVE StopHeld' /\ UNCHANGED workspace
  BY <1>5 DEF CandidateRestored, Rollback, RestoreWithheld, Restore
<1>6. CASE GateRejects \/ GateRechecks \/ GateSkipped
  BY <1>6 DEF GateRejects, GateRechecks, GateSkipped, GateEntered
<1>7. CASE TrialSettles
  <2>1. ~restored /\ UNCHANGED workspace
    BY <1>7 DEF TrialSettles
  <2>2. pc' = "final" /\ rollbackFailed'
    BY <1>7, <2>1 DEF TrialSettles, AfterTrial
  <2> QED
    BY <2>1, <2>2
<1>8. ASSUME NEW ok \in BOOLEAN, NEW d \in {"accepted", "rejected"}, RecheckRestored(ok, d)
      PROVE  FALSE
  BY <1>8 DEF RecheckRestored
<1>9. CASE TrialStep
  BY <1>5, <1>6, <1>8, <1>9, <1>7 DEF TrialStep
<1>10. ASSUME NEW ok \in BOOLEAN, FinalCancelled(ok) PROVE StopHeld' /\ UNCHANGED workspace
  BY <1>10 DEF FinalCancelled
<1>11. CASE FinalProceeds \/ PublishSkipped
  BY <1>11 DEF FinalProceeds, PublishSkipped
<1>12. CASE PublishStep
  <2>1. pc \in {"final", "publish"} /\ rollbackFailed
    BY <1>12
       DEF PublishStep, FinalProceeds, FinalCancelled, PublishSkipped, PublishBegins,
           PublishNotStarted, PublishDeploys, PublishDeployFails, DeployedChecked, Undeployed,
           KernelCopied, KernelCopyRaises, ConfigUpdated, ConfigUpdateRaises, Unpublished,
           AnnouncedCancelled, AnnouncedStands, DeployedUnread, UndoRaises
  <2> QED
    BY <1>10, <1>11, <1>12, <2>1
       DEF PublishStep, PublishBegins, PublishNotStarted, PublishDeploys, PublishDeployFails,
           DeployedChecked, DeployedUnread, Undeployed, KernelCopied, KernelCopyRaises,
           ConfigUpdated, ConfigUpdateRaises, Unpublished, AnnouncedCancelled, AnnouncedStands,
           UndoRaises
<1>13. CASE FinishStep
  BY <1>13 DEF FinishStep, StatusDecided, ResultWritten, WriteRaises, EngineRaises, BreaksOff, End
<1> QED
  BY <1>1, <1>2, <1>3, <1>4, <1>9, <1>12, <1>13 DEF Next, Engine

\* A run in which nothing is left running comes to it only by the execution that leaves it.
LEMMA StopHeldKept ==
    ASSUME IInv, WorkInv, StopHeld, [Next]_vars
    PROVE  StopHeld'
<1> USE DEF requestVars, execVars, roundVars, trialVars, publishVars
<1>1. CASE StillRunning
  BY <1>1, StoppedSteps
<1>2. CASE ~StillRunning /\ Executing
  <2>1. pc \in {"baseline", "candidate", "recheck"} /\ exec.role = pc /\ pc' = pc
    BY <1>2 DEF Executing, WorkInv, CallInProgress
  <2>2. runaway' = runaway \/ LeftRunning
    BY <1>2, ExecutionFacts DEF Executing, IInv, TypeOK, WorkInv
  <2> QED
    BY <1>2, <2>1, <2>2 DEF StopHeld, StillRunning, LeftRunning
<1>3. CASE ~StillRunning /\ ~Executing
  <2>1. runaway' = runaway
    BY <1>3
       DEF Next, Engine, RequestCancel, RunawayInterferes, RunawayWrites, Finished, vars,
           Begin, BeginUnavailable, BeginBaseline, BaselineStep, BaselineVerified, BaselineFails,
           RoundStep, RoundBegins, BudgetExhausted, PlanStops, RewriteRejected, CandidateStarts,
           TrialStep, CandidateRestored, GateRejects, GateRechecks, GateSkipped, RecheckRestored,
           TrialSettles, PublishStep, FinalProceeds, FinalCancelled, PublishSkipped,
           PublishBegins, PublishNotStarted, PublishDeploys, PublishDeployFails, DeployedChecked,
           Undeployed, KernelCopied, KernelCopyRaises, ConfigUpdated, ConfigUpdateRaises,
           Unpublished, AnnouncedCancelled, AnnouncedStands, FinishStep, StatusDecided,
           ResultWritten, WriteRaises, DeployedUnread, UndoRaises, EngineRaises
  <2> QED
    BY <1>3, <2>1 DEF StopHeld, StillRunning
<1> QED
  BY <1>1, <1>2, <1>3

\* While a build, correctness or benchmark command may still be running on the machine, the engine
\* rewrites no source under it.
THEOREM NothingRewrittenUnderCommand == Spec => StopBlocksRewrite
<1>1. Init => StopHeld
  BY DEF Init, StopHeld, StillRunning
<1>2. IInv /\ WorkInv /\ StopHeld /\ [Next]_vars => StopHeld'
  BY StopHeldKept
<1>3. IInv /\ StopHeld /\ [Next]_vars =>
        [StillRunning /\ ~RunawayInterferes => UNCHANGED workspace]_vars
  BY StoppedSteps
<1> QED
  BY <1>1, <1>2, <1>3, Invariance, WorkInvariance, PTL DEF Spec, StopBlocksRewrite, StillRunning

-----------------------------------------------------------------------------
(* What a client is promised.                                              *)

\* An execution that ended as cancelled read a flag that was set.
AskedBefore == exec.status = "cancelled" => cancelRequested

KernelStays == result.baselineVerified => kernelFile # None

\* A result names no trial but the one accepted last.
NamedIsLatest ==
    result.accepted # None => candidates # <<>> /\ result.best = Published

\* A run that may still become completed has published what it accepted.
NothingHeldBack ==
    pc = "finish" /\ ~rollbackFailed /\ ~cancelRequested /\ candidates # <<>> =>
        result.accepted # None

PromiseInv ==
    /\ AskedBefore
    /\ KernelStays
    /\ NamedIsLatest
    /\ NothingHeldBack

\* No step changes the source of a trial that is there.
LEMMA SourcesKept ==
    ASSUME IInv, [Next]_vars
    PROVE  /\ \A j \in 1..Current : trials'[j].after = trials[j].after
           /\ Baseline' = Baseline
<1> DEFINE Same == \A j \in 1..Current : trials'[j].after = trials[j].after
<1> USE DEF requestVars, execVars, roundVars, trialVars, publishVars, Baseline
<1>1. CASE UNCHANGED <<task, trials>>
  BY <1>1
<1>2. ASSUME NEW i, NEW status \in TrialStatus, NEW ok \in BOOLEAN \union {None},
             trials' = Ruled(i, status, ok)
      PROVE  Same
  BY <1>2, TrialRuled, InvFacts
<1>3. {"cancelled", "validation_failed"} \subseteq TrialStatus /\ restored \in BOOLEAN
  BY DEF TrialStatus, OutcomeStatus, Failures, IInv, TypeOK, EngineTypeOK
<1>4. CASE Begin \/ BaselineStep \/ Executing \/ RequestCancel \/ RunawayInterferes \/ Finished
           \/ FinishStep \/ UNCHANGED vars
  BY <1>1, <1>4
     DEF Begin, BaselineStep, BeginUnavailable, BeginBaseline, BaselineVerified,
         BaselineFails, Executing, RequestCancel, RunawayInterferes, Finished, vars, FinishStep,
         StatusDecided, ResultWritten, WriteRaises, EngineRaises
<1>5. ASSUME NEW t \in OpenTargets, RewriteRejected(t) \/ CandidateStarts(t)
      PROVE  Same /\ UNCHANGED task
  <2>1. \A trial : trials' = Append(trials, trial) => Same
    BY InvFacts DEF Current
  <2> QED
    BY <1>5, <2>1 DEF RewriteRejected, CandidateStarts
<1>6. CASE RoundStep
  BY <1>1, <1>5, <1>6 DEF RoundStep, RoundBegins, BudgetExhausted, PlanStops
<1>7. CASE TrialStep
  <2>1. CASE TrialSettles
    BY <1>2, <1>3, <2>1, VerdictFacts DEF TrialSettles
  <2> QED
    BY <1>1, <1>7, <2>1
       DEF TrialStep, CandidateRestored, GateRejects, GateRechecks, GateSkipped, RecheckRestored
<1>8. ASSUME NEW ok \in BOOLEAN, FinalCancelled(ok) PROVE Same /\ UNCHANGED task
  BY <1>8, CancelledTrialsFacts DEF FinalCancelled
<1>9. ASSUME NEW ok \in BOOLEAN,
             \/ PublishNotStarted \/ Undeployed(ok) \/ Unpublished(ok) \/ AnnouncedCancelled(ok)
             \/ UndoRaises(ok)
      PROVE  Same /\ UNCHANGED task
  BY <1>2, <1>3, <1>9
     DEF PublishNotStarted, Undeployed, GiveUp, Unpublished, AnnouncedCancelled, UndoRaises
<1>10. CASE ConfigUpdated
  <2>1. /\ candidates # <<>> /\ Winner \in 1..Current /\ Winner \in Nat
    BY <1>10, WinnerFacts DEF ConfigUpdated, IInv, Provenance, WinnerExists, PublishPlaces
  <2> QED
    BY <1>10, <2>1, InvFacts, LenProperties, AnnouncedTrials DEF ConfigUpdated
<1>11. CASE PublishStep
  BY <1>1, <1>8, <1>9, <1>10, <1>11
     DEF PublishStep, FinalProceeds, PublishSkipped, PublishBegins, PublishDeploys,
         PublishDeployFails, DeployedChecked, DeployedUnread, KernelCopied, KernelCopyRaises,
         ConfigUpdateRaises, AnnouncedStands
<1> QED
  BY <1>4, <1>6, <1>7, <1>11 DEF Next, Engine

\* The accepted source of the last trial changes only with the list of accepted trials.
LEMMA LatestKept ==
    ASSUME IInv, [Next]_vars, UNCHANGED candidates
    PROVE  LatestAccepted' = LatestAccepted /\ (candidates # <<>> => Published' = Published)
<1>1. candidates # <<>> => Winner \in 1..Current
  BY WinnerFacts
<1> QED
  BY <1>1, SourcesKept DEF LatestAccepted, Published, Winner

\* A version under execution ends as cancelled only after it read the flag.
LEMMA ExecutionKeepsAsked ==
    ASSUME ExecTypeOK, AskedBefore, ExecStep, UNCHANGED cancelRequested
    PROVE  AskedBefore'
<1>1. exec \in Executions
  BY DEF ExecTypeOK
<1> USE <1>1 DEF Executions, AskedBefore, Return
<1>2. CASE EntryCancelled \/ EntryProtectedChanged \/ EntryPasses
  BY <1>2 DEF EntryCancelled, EntryProtectedChanged, EntryPasses
<1>3. CASE DeployRaises \/ DeployAuditFails \/ DeployBuilds
  BY <1>3 DEF DeployRaises, DeployAuditFails, DeployBuilds
<1>4. CASE CommandStopUnverified \/ CommandLost \/ ProfilerStopUnverified
  BY <1>4 DEF CommandStopUnverified, CommandLost, ProfilerStopUnverified
<1>5. CASE CommandAuditFails \/ CommandInterrupted
  BY <1>5 DEF CommandAuditFails, CommandInterrupted
<1>6. CASE CommandFails
  BY <1>6 DEF CommandFails, FailureOf, Commands
<1>7. CASE DeployWithoutBuild \/ BuildPasses \/ CorrectnessPasses \/ BenchmarkRepeats
  BY <1>7 DEF DeployWithoutBuild, BuildPasses, CorrectnessPasses, CommandPasses, BenchmarkRepeats,
              Checked
<1>8. CASE BenchmarkFinishes \/ ProfilerEnters \/ ProfilerStarts
  BY <1>8 DEF BenchmarkFinishes, ProfilerEnters, ProfilerStarts
<1>9. ASSUME NEW ok \in BOOLEAN, ProfilerAudited(ok) PROVE AskedBefore'
  BY <1>9 DEF ProfilerAudited
<1> QED
  BY <1>2, <1>3, <1>4, <1>5, <1>6, <1>7, <1>8, <1>9 DEF ExecStep

\* Steps that leave the kernel file, the result and the accepted trials alone.
LEMMA PromiseFrame ==
    ASSUME IInv, PromiseInv, [Next]_vars, UNCHANGED <<kernelFile, result, candidates>>,
           \/ UNCHANGED <<pc, rollbackFailed>> /\ (cancelRequested => cancelRequested')
           \/ pc' # "finish"
           \/ rollbackFailed' \/ cancelRequested' \/ candidates = <<>> \/ result.accepted # None
    PROVE  KernelStays' /\ NamedIsLatest' /\ NothingHeldBack'
<1>1. candidates # <<>> => Published' = Published
  BY LatestKept
<1> QED
  BY <1>1 DEF PromiseInv, KernelStays, NamedIsLatest, NothingHeldBack

LEMMA AskedKept ==
    ASSUME IInv, PromiseInv, [Next]_vars
    PROVE  AskedBefore'
<1> USE DEF requestVars, execVars, roundVars, trialVars, publishVars
<1>1. ASSUME NEW role, NEW version, exec' = Call(role, version) PROVE AskedBefore'
  BY <1>1 DEF Call, AskedBefore
<1>2. CASE exec' = exec /\ (cancelRequested => cancelRequested')
  BY <1>2 DEF PromiseInv, AskedBefore
<1>3. CASE Executing
  BY <1>3, InvFacts, ExecutionKeepsAsked DEF Executing, PromiseInv
<1>4. CASE Begin \/ BaselineStep \/ RoundStep
  BY <1>1, <1>2, <1>4
     DEF Begin, BaselineStep, RoundStep, BeginUnavailable, BeginBaseline, BaselineVerified,
         BaselineFails, RoundBegins, BudgetExhausted, PlanStops, RewriteRejected, CandidateStarts
<1>5. CASE TrialStep
  BY <1>1, <1>2, <1>5
     DEF TrialStep, CandidateRestored, GateRejects, GateRechecks, GateSkipped,
         RecheckRestored, TrialSettles
<1>6. CASE PublishStep
  BY <1>2, <1>6
     DEF PublishStep, FinalProceeds, FinalCancelled, PublishSkipped, PublishBegins,
         PublishNotStarted, PublishDeploys, PublishDeployFails, DeployedChecked, Undeployed,
         KernelCopied, KernelCopyRaises, ConfigUpdated, ConfigUpdateRaises, Unpublished,
         AnnouncedCancelled, AnnouncedStands, DeployedUnread, UndoRaises
<1>7. CASE FinishStep \/ RequestCancel \/ RunawayInterferes \/ Finished \/ UNCHANGED vars
  BY <1>2, <1>7
     DEF FinishStep, StatusDecided, ResultWritten, WriteRaises, EngineRaises, RequestCancel,
         RunawayInterferes, RunawayWrites, Finished, vars
<1> QED
  BY <1>3, <1>4, <1>5, <1>6, <1>7 DEF Next, Engine

LEMMA PromiseKept ==
    ASSUME IInv, FilesInv, PromiseInv, [Next]_vars
    PROVE  KernelStays' /\ NamedIsLatest' /\ NothingHeldBack'
<1> USE DEF requestVars, execVars, roundVars, trialVars, publishVars
<1> DEFINE Rest == KernelStays' /\ NamedIsLatest' /\ NothingHeldBack'
<1>1. result \in Results /\ Baseline # None /\ (candidates # <<>> => Published # None)
  BY InvFacts, WinnerFacts, NoneIsNoVersion DEF Contents
<1>2. CASE Executing \/ RequestCancel \/ RunawayInterferes \/ Finished \/ UNCHANGED vars
  BY <1>2, PromiseFrame DEF Executing, RequestCancel, RunawayInterferes, Finished, vars
<1>3. CASE BeginUnavailable \/ \E ok, closed \in BOOLEAN : BaselineFails(ok, closed)
  <2>1. /\ result'.accepted = result.accepted /\ pc' = "write" /\ result.accepted = None
        /\ ~result'.baselineVerified
    BY <1>1, <1>3
       DEF BeginUnavailable, BaselineFails, Decides, Results, FilesInv, BaselineFirst
  <2> QED
    BY <2>1 DEF KernelStays, NamedIsLatest, NothingHeldBack
<1>4. CASE BaselineVerified
  <2>1. /\ result'.accepted = result.accepted /\ pc' # "finish" /\ result.accepted = None
        /\ kernelFile' = Baseline
    BY <1>1, <1>4 DEF BaselineVerified, Decides, Results, FilesInv, BaselineFirst
  <2> QED
    BY <1>1, <2>1 DEF KernelStays, NamedIsLatest, NothingHeldBack
<1>5. CASE BeginBaseline \/ RoundStep
  BY <1>5, PromiseFrame
     DEF BeginBaseline, RoundStep, RoundBegins, BudgetExhausted, PlanStops, RewriteRejected,
         CandidateStarts
<1>6. CASE TrialSettles
  <2>1. result.accepted = None /\ pc' # "finish" /\ UNCHANGED <<result, kernelFile>>
    BY <1>6 DEF TrialSettles, AfterTrial, FilesInv, AcceptedIsOnDisk
  <2> QED
    BY <2>1 DEF KernelStays, NamedIsLatest, NothingHeldBack, PromiseInv
<1>7. CASE TrialStep
  BY <1>6, <1>7, PromiseFrame
     DEF TrialStep, CandidateRestored, GateRejects, GateRechecks, GateSkipped, RecheckRestored
<1>8. ASSUME NEW ok \in BOOLEAN,
             \/ FinalProceeds \/ FinalCancelled(ok) \/ PublishSkipped \/ PublishBegins
             \/ PublishNotStarted \/ PublishDeploys \/ PublishDeployFails
             \/ DeployedChecked(ok) \/ DeployedUnread \/ Undeployed(ok) \/ AnnouncedStands
      PROVE  Rest
  <2>1. pc = "announced" => result.accepted # None
    BY DEF FilesInv, AnnouncedIsAccepted
  <2>2. UNCHANGED <<kernelFile, result, candidates>>
    BY <1>8
       DEF FinalProceeds, FinalCancelled, PublishSkipped, PublishBegins, PublishNotStarted, GiveUp,
           PublishDeploys, PublishDeployFails, DeployedChecked, DeployedUnread, Undeployed,
           AnnouncedStands
  <2>3. \/ pc' # "finish" \/ rollbackFailed' \/ cancelRequested' \/ candidates = <<>>
        \/ result.accepted # None
    <3>1. CASE PublishNotStarted \/ Undeployed(ok)
      <4>1. (cancelRequested \/ rollbackFailed') /\ cancelRequested' = cancelRequested
        BY <3>1 DEF PublishNotStarted, Undeployed, GiveUp
      <4> QED BY <4>1
    <3>2. CASE FinalProceeds \/ PublishBegins \/ PublishDeploys \/ PublishDeployFails
               \/ DeployedChecked(ok) \/ DeployedUnread
      BY <3>2
         DEF FinalProceeds, PublishBegins, PublishDeploys, PublishDeployFails, DeployedChecked,
             DeployedUnread
    <3>3. CASE FinalCancelled(ok) \/ PublishSkipped \/ AnnouncedStands
      BY <2>1, <3>3 DEF FinalCancelled, PublishSkipped, AnnouncedStands
    <3> QED
      BY <1>8, <3>1, <3>2, <3>3
  <2> QED
    BY <2>2, <2>3, PromiseFrame
<1>9. CASE KernelCopied \/ KernelCopyRaises \/ ConfigUpdateRaises
  <2>1. /\ UNCHANGED <<result, candidates>> /\ pc' # "finish" /\ candidates # <<>>
        /\ kernelFile' \in {kernelFile, Published, Unknown}
    BY <1>9 DEF KernelCopied, KernelCopyRaises, ConfigUpdateRaises, IInv, Provenance, WinnerExists,
                PublishPlaces
  <2>2. KernelStays'
    BY <1>1, <2>1, NoneIsNoVersion DEF PromiseInv, KernelStays, Contents
  <2>3. Published' = Published
    BY <2>1, LatestKept
  <2> QED
    BY <2>1, <2>2, <2>3 DEF PromiseInv, NamedIsLatest, NothingHeldBack
<1>10. CASE ConfigUpdated
  <2>1. /\ UNCHANGED <<candidates, kernelFile>> /\ pc' # "finish" /\ candidates # <<>>
        /\ result'.best = Published /\ result'.baselineVerified = result.baselineVerified
    BY <1>1, <1>10 DEF ConfigUpdated, Results, IInv, Provenance, WinnerExists, PublishPlaces
  <2>2. Published' = Published
    BY <2>1, LatestKept
  <2> QED
    BY <2>1, <2>2 DEF PromiseInv, KernelStays, NamedIsLatest, NothingHeldBack
<1>11. ASSUME NEW ok \in BOOLEAN, Unpublished(ok) \/ AnnouncedCancelled(ok) PROVE Rest
  <2>1. /\ kernelFile' = Baseline
        /\ result' = [result EXCEPT !.accepted = None, !.best = Baseline]
    BY <1>11 DEF Unpublished, AnnouncedCancelled, Reverted
  <2>2. rollbackFailed' \/ cancelRequested'
    <3>1. CASE Unpublished(ok)
      BY <3>1 DEF Unpublished
    <3>2. CASE AnnouncedCancelled(ok)
      BY <3>2 DEF AnnouncedCancelled
    <3> QED
      BY <1>11, <3>1, <3>2
  <2>3. result'.accepted = None
    BY <1>1, <2>1 DEF Results
  <2> QED
    BY <1>1, <2>1, <2>2, <2>3 DEF KernelStays, NamedIsLatest, NothingHeldBack
<1>12. ASSUME NEW ok \in BOOLEAN, UndoRaises(ok) PROVE Rest
  <2>1. /\ kernelFile' \in {kernelFile, Unknown, Baseline} /\ pc' = "raised"
        /\ result' = [result EXCEPT !.accepted = None, !.best = Baseline]
    BY <1>12 DEF UndoRaises, RevertRaises, BreaksOff
  <2>2. result'.accepted = None /\ result'.baselineVerified = result.baselineVerified
    BY <1>1, <2>1 DEF Results
  <2>3. kernelFile' # None
    BY <1>1, <1>12, <2>1, NoneIsNoVersion
       DEF PromiseInv, KernelStays, Contents, FilesInv, BaselineFirst, UndoRaises
  <2> QED
    BY <2>1, <2>2, <2>3 DEF KernelStays, NamedIsLatest, NothingHeldBack
<1>15. CASE EngineRaises
  <2>1. /\ kernelFile' \in {kernelFile, Baseline, Unknown} /\ pc' = "raised"
        /\ UNCHANGED <<result, candidates>>
    BY <1>15 DEF EngineRaises, BreaksOff
  <2>2. KernelStays'
    BY <1>1, <2>1, NoneIsNoVersion DEF PromiseInv, KernelStays, Contents
  <2>3. candidates # <<>> => Published' = Published
    BY <2>1, LatestKept
  <2> QED
    BY <2>1, <2>2, <2>3 DEF PromiseInv, NamedIsLatest, NothingHeldBack
<1>16. CASE PublishStep
  BY <1>8, <1>9, <1>10, <1>11, <1>12, <1>16 DEF PublishStep
<1>13. CASE StatusDecided
  <2>1. /\ UNCHANGED <<candidates, kernelFile>> /\ pc' # "finish"
        /\ result'.baselineVerified = result.baselineVerified
        /\ result'.accepted = None \/ UNCHANGED <<result.accepted, result.best>>
    BY <1>1, <1>13 DEF StatusDecided, FinalResult, Results
  <2>2. candidates # <<>> => Published' = Published
    BY <2>1, LatestKept
  <2> QED
    BY <2>1, <2>2 DEF PromiseInv, KernelStays, NamedIsLatest, NothingHeldBack
<1>14. CASE ResultWritten \/ WriteRaises
  BY <1>14, PromiseFrame DEF ResultWritten, WriteRaises, BreaksOff, End
<1> QED
  BY <1>2, <1>3, <1>4, <1>5, <1>7, <1>13, <1>14, <1>15, <1>16
     DEF Next, Engine, Begin, BaselineStep, FinishStep

\* What a run has published, accepted and reported agrees at every place with what a client was
\* promised: the inductive invariant behind the refinement.
THEOREM PromiseInvariance == Spec => []PromiseInv
<1>1. Init => PromiseInv
  BY EmptySeq DEF Init, Call, PromiseInv, AskedBefore, KernelStays, NamedIsLatest, NothingHeldBack
<1>2. IInv /\ FilesInv /\ PromiseInv /\ [Next]_vars => PromiseInv'
  BY AskedKept, PromiseKept DEF PromiseInv
<1> QED
  BY <1>1, <1>2, Invariance, FilesInvariance, PTL DEF Spec

\* Steps a client cannot see.
LEMMA Unseen ==
    ASSUME IInv, [Next]_vars,
           UNCHANGED <<cancelRequested, verified, candidates, kernelFile>>, Outcome' = Outcome,
           saved'.status = saved.status, saved'.best = saved.best
    PROVE  UNCHANGED Promise!publicationVars
BY LatestKept, SourcesKept DEF Promise!publicationVars, Reported

\* As long as the end is not decided, the file says that the run goes on.
LEMMA StillOpen ==
    ASSUME FilesInv, pc \notin {"write", "done", "raised"}
    PROVE  /\ Outcome = "open" /\ result.status = "running"
           /\ saved.status = "running" /\ saved.best = Baseline
           /\ result.accepted = None => result.best = Baseline
BY DEF Outcome, FilesInv, SavedAtTheEnd, FailureTakesBack, NoneIsBaseline

\* A run that ends without a verified baseline.
LEMMA EarlyEnd ==
    ASSUME IInv, FilesInv, [Next]_vars, pc \in {"start", "baseline"}, pc' = "write",
           NEW status \in {"unavailable", "failed", "cancelled"}, status = "cancelled" => cancelRequested,
           result' = [result EXCEPT !.status = status],
           UNCHANGED <<cancelRequested, verified, candidates, kernelFile, saved>>
    PROVE  Promise!EndsEarly(status)
<1>1. Outcome = "open" /\ kernelFile = None
  BY StillOpen DEF FilesInv, BaselineFirst
<1>2. result'.status = status
  BY InvFacts DEF Results
<1>3. Outcome' = status /\ Reported' = Reported
  BY <1>2 DEF Outcome, Reported
<1> QED
  BY <1>1, <1>3, LatestKept, SourcesKept DEF Promise!EndsEarly, Promise!Open

\* The baseline is measured, or the run ends with it.
LEMMA BaselineIsPromised ==
    ASSUME IInv, FilesInv, PromiseInv, [Next]_vars, Begin \/ BaselineStep
    PROVE  [Promise!Next]_Promise!publicationVars
<1> USE DEF requestVars, execVars, roundVars, trialVars, publishVars
<1>1. CASE BeginBaseline
  BY <1>1, Unseen DEF BeginBaseline, Outcome
<1>2. CASE BeginUnavailable
  <2>1. Promise!EndsEarly("unavailable")
    BY <1>2, EarlyEnd DEF BeginUnavailable, Decides
  <2> QED
    BY <2>1 DEF Promise!Next
<1>3. ASSUME NEW ok \in BOOLEAN, NEW closed \in BOOLEAN, BaselineFails(ok, closed)
      PROVE  Promise!Next
  <2> DEFINE status == IF exec.status = "cancelled" /\ ok /\ closed THEN "cancelled" ELSE "failed"
  <2>1. status \in {"failed", "cancelled"} /\ (status = "cancelled" => cancelRequested)
    BY DEF PromiseInv, AskedBefore
  <2>2. /\ result' = [result EXCEPT !.status = status] /\ pc' = "write" /\ pc = "baseline"
        /\ UNCHANGED <<cancelRequested, verified, candidates, kernelFile, saved>>
    BY <1>3 DEF BaselineFails, Decides
  <2> HIDE DEF status
  <2>3. Promise!EndsEarly(status)
    BY <2>1, <2>2, EarlyEnd
  <2> QED
    BY <2>1, <2>3 DEF Promise!Next
<1>4. CASE BaselineVerified
  <2>1. Outcome = "open" /\ saved.status = "running" /\ saved.best = Baseline
        /\ result.best = Baseline /\ kernelFile = None
    BY <1>4, StillOpen DEF BaselineVerified, FilesInv, BaselineFirst
  <2>2. kernelFile' = Baseline /\ UNCHANGED <<cancelRequested, verified, candidates>>
    BY <1>4 DEF BaselineVerified
  <2>3. CASE TargetsOf[Baseline] = {}
    <3>1. result'.status = "unavailable" /\ saved' = saved /\ pc' = "write"
      BY <1>4, <2>1, <2>3, InvFacts DEF BaselineVerified, Decides, Results
    <3>2. Outcome' = "unavailable" /\ Reported' = Reported
      BY <3>1 DEF Outcome, Reported
    <3>3. Promise!Measures
      BY <2>1, <2>2, <3>2, LatestKept, SourcesKept DEF Promise!Measures, Promise!Open
    <3> QED
      BY <3>3 DEF Promise!Next
  <2>4. CASE TargetsOf[Baseline] # {}
    <3>1. Outcome' = "open" /\ Reported' = Reported
      BY <1>4, <2>4 DEF BaselineVerified, Outcome, Reported
    <3>2. Promise!Measures
      BY <2>1, <2>2, <3>1, LatestKept, SourcesKept DEF Promise!Measures, Promise!Open
    <3> QED
      BY <3>2 DEF Promise!Next
  <2> QED
    BY <2>3, <2>4
<1> QED
  BY <1>1, <1>2, <1>3, <1>4 DEF Begin, BaselineStep

\* Between the baseline and the publication the kernel file holds the user's source.
LEMMA MiddleOpen ==
    ASSUME FilesInv, pc \in FilePlaces
    PROVE  /\ Outcome = "open" /\ result.status = "running" /\ result.best = Baseline
           /\ saved.status = "running" /\ saved.best = Baseline
           /\ kernelFile = Baseline
<1>1. pc \notin {"write", "done", "raised"}
  BY DEF FilePlaces
<1>2. result.accepted = None /\ result.baselineVerified /\ pc \notin {"copied", "unpublish"}
  BY DEF FilesInv, BaselineFirst, AcceptedIsOnDisk, FilePlaces
<1> QED
  BY <1>1, <1>2, StillOpen DEF FilesInv, NoneIsBaseline

LEMMA MiddleUnseen ==
    ASSUME IInv, FilesInv, [Next]_vars, pc \in FilePlaces, pc' \in FilePlaces \union {"finish"},
           UNCHANGED <<cancelRequested, verified, candidates, kernelFile>>, saved' \in {saved, result}
    PROVE  UNCHANGED Promise!publicationVars
<1>1. Outcome' = "open"
  BY DEF Outcome, FilePlaces
<1>2. saved'.status = saved.status /\ saved'.best = saved.best
  BY MiddleOpen
<1> QED
  BY <1>1, <1>2, MiddleOpen, Unseen

LEMMA RoundsArePromised ==
    ASSUME IInv, FilesInv, Tried, [Next]_vars, RoundStep \/ TrialStep
    PROVE  [Promise!Next]_Promise!publicationVars
<1> USE DEF requestVars, execVars, roundVars, trialVars, publishVars
<1> DEFINE v == trials[Current].after
<1>1. pc \in FilePlaces /\ pc' \in FilePlaces
  BY DEF RoundStep, RoundBegins, BudgetExhausted, PlanStops, RewriteRejected, CandidateStarts,
         TrialStep, CandidateRestored, GateRejects, GateRechecks, GateSkipped, RecheckRestored,
         TrialSettles, AfterTrial, FilePlaces, Places
<1>2. UNCHANGED <<cancelRequested, kernelFile>> /\ saved' \in {saved, result}
  BY DEF RoundStep, RoundBegins, BudgetExhausted, PlanStops, RewriteRejected, CandidateStarts,
         TrialStep, CandidateRestored, GateRejects, GateRechecks, GateSkipped, RecheckRestored,
         TrialSettles
<1>3. Outcome' = "open" /\ Reported' = Reported /\ Outcome = "open" /\ kernelFile = Baseline
  BY <1>1, <1>2, MiddleOpen DEF Outcome, Reported, FilePlaces
<1>4. CASE UNCHANGED <<verified, candidates>>
  BY <1>1, <1>2, <1>4, MiddleUnseen
<1>5. ASSUME pc \in TrialPlaces PROVE v \in Versions /\ v # Baseline /\ Current \in 1..Current
  BY <1>5, InvFacts, NoneIsNoVersion
     DEF IInv, Provenance, TrialHasSource, Tried, NoVersionTriedTwice, Contents
<1> HIDE DEF v
<1>6. ASSUME NEW ok \in BOOLEAN, NEW decision \in {"accepted", "rejected"},
             RecheckRestored(ok, decision), ~UNCHANGED verified
      PROVE  Promise!Next
  <2>1. verified' = verified \union {v} /\ pc = "recheck" /\ UNCHANGED candidates
    BY <1>6 DEF RecheckRestored, v
  <2>2. v \in Versions /\ v # Baseline
    BY <1>5, <2>1 DEF TrialPlaces
  <2>3. Promise!Proves(v)
    BY <1>2, <1>3, <2>1, <2>2, LatestKept, SourcesKept DEF Promise!Proves, Promise!Open
  <2> QED
    BY <2>2, <2>3 DEF Promise!Next
<1>7. CASE TrialSettles /\ ~UNCHANGED candidates
  <2>1. /\ pc = "settle" /\ Verdict = "accepted" /\ candidates' = Append(candidates, Current)
        /\ UNCHANGED verified
    BY <1>7 DEF TrialSettles
  <2>2. v \in Versions /\ v # Baseline /\ Current \in 1..Current
    BY <1>5, <2>1 DEF TrialPlaces
  <2>3. v \in verified /\ ~cancelRequested
    BY <2>1, VerdictFacts, InvFacts DEF v, Verdict, IInv, TypeOK, ExecTypeOK
  <2>4. /\ Len(candidates') = Len(candidates) + 1 /\ Len(candidates) \in Nat
        /\ candidates'[Len(candidates) + 1] = Current
    BY <2>1, <2>2, InvFacts, AppendProperties, LenProperties
  <2>5. candidates' # <<>> /\ candidates'[Len(candidates')] = Current
    BY <2>4, EmptySeq
  <2>6. trials'[Current].after = v
    BY <2>2, SourcesKept DEF v
  <2>7. LatestAccepted' = v
    BY <2>5, <2>6 DEF LatestAccepted, Published, Winner
  <2>8. Promise!Accepts(v)
    BY <1>2, <1>3, <2>1, <2>3, <2>7, SourcesKept DEF Promise!Accepts, Promise!Open
  <2> QED
    BY <2>2, <2>8 DEF Promise!Next
<1>8. CASE RoundStep
  BY <1>4, <1>8
     DEF RoundStep, RoundBegins, BudgetExhausted, PlanStops, RewriteRejected, CandidateStarts
<1>9. CASE TrialStep
  <2>1. CASE TrialSettles
    BY <1>4, <1>7, <2>1 DEF TrialSettles
  <2>2. ASSUME NEW ok \in BOOLEAN, NEW decision \in {"accepted", "rejected"},
               RecheckRestored(ok, decision)
        PROVE  [Promise!Next]_Promise!publicationVars
    BY <1>4, <1>6, <2>2 DEF RecheckRestored
  <2>3. CASE GateRejects \/ GateRechecks \/ GateSkipped \/ \E ok \in BOOLEAN : CandidateRestored(ok)
    BY <1>4, <2>3 DEF GateRejects, GateRechecks, GateSkipped, CandidateRestored
  <2> QED
    BY <1>9, <2>1, <2>2, <2>3 DEF TrialStep
<1> QED
  BY <1>8, <1>9

\* An exception breaks the run off, with what it has done to the kernel file.
LEMMA RaiseIsPromised ==
    ASSUME IInv, FilesInv, PromiseInv, [Next]_vars,
           EngineRaises \/ WriteRaises \/ \E ok \in BOOLEAN : UndoRaises(ok)
    PROVE  Promise!Next
<1> USE DEF requestVars, execVars, roundVars, trialVars, publishVars
<1>1. result \in Results /\ saved \in Results \union {Unreadable} /\ Unreadable.best = None
  BY InvFacts DEF IInv, TypeOK, EngineTypeOK, Unreadable
<1>2. UNCHANGED <<cancelRequested, verified, candidates>>
  BY DEF EngineRaises, WriteRaises, UndoRaises
<1>3. LatestAccepted' = LatestAccepted /\ Baseline' = Baseline
  BY <1>2, LatestKept, SourcesKept
<1>4. CASE WriteRaises
  <2>1. PICK written \in {saved, result} : BreaksOff(written)
    BY <1>4 DEF WriteRaises
  <2>2. /\ pc = "write" /\ pc' = "raised" /\ saved'.status = "failed" /\ kernelFile' = kernelFile
        /\ saved' = Unreadable \/ saved'.best = written.best
    BY <1>1, <1>4, <2>1, BrokenOffFacts DEF WriteRaises
  <2>3. /\ Outcome' = "raised" /\ saved.status = "running" /\ saved.best = Baseline
        /\ result.best \in {Baseline, kernelFile} /\ Outcome # "open"
    BY <1>1, <2>2
       DEF Outcome, FilesInv, SavedAtTheEnd, BaselineFirst, AcceptedIsOnDisk, NoneIsBaseline,
           Results, ResultStatus
  <2>4. saved'.best \in {Baseline, None, kernelFile}
    BY <1>1, <2>1, <2>2, <2>3
  <2>5. Promise!BreaksOff
    BY <1>2, <1>3, <2>2, <2>3, <2>4 DEF Promise!BreaksOff, Promise!Open, Reported
  <2> QED
    BY <2>5 DEF Promise!Next
<1>5. CASE EngineRaises \/ \E ok \in BOOLEAN : UndoRaises(ok)
  <2>1. /\ pc \notin {"write", "done", "raised"} /\ BreaksOff(saved)
        /\ kernelFile' \in {kernelFile, Baseline, Unknown}
    BY <1>5 DEF EngineRaises, Unguarded, UndoRaises, RevertRaises
  <2>2. /\ pc' = "raised" /\ saved'.status = "failed"
        /\ saved' = Unreadable \/ saved'.best = saved.best
    BY <1>1, <2>1, BrokenOffFacts
  <2>3. Outcome = "open" /\ Outcome' = "raised" /\ saved.status = "running" /\ saved.best = Baseline
    BY <2>1, <2>2, StillOpen DEF Outcome
  <2>4. Promise!BreaksOff
    BY <1>1, <1>2, <1>3, <2>1, <2>2, <2>3 DEF Promise!BreaksOff, Promise!Open, Reported
  <2> QED
    BY <2>4 DEF Promise!Next
<1> QED
  BY <1>4, <1>5

\* The kernel file is written from the winner, or written back.
LEMMA PublishingIsPromised ==
    ASSUME IInv, FilesInv, PromiseInv, Tried, [Next]_vars, PublishStep
    PROVE  [Promise!Next]_Promise!publicationVars
<1> USE DEF requestVars, execVars, roundVars, trialVars, publishVars
<1>1. ASSUME NEW ok \in BOOLEAN,
             \/ FinalProceeds \/ FinalCancelled(ok) \/ PublishSkipped \/ PublishBegins
             \/ PublishNotStarted \/ PublishDeploys \/ PublishDeployFails
             \/ DeployedChecked(ok) \/ DeployedUnread \/ Undeployed(ok)
      PROVE  UNCHANGED Promise!publicationVars
  <2>1. pc \in FilePlaces /\ pc' \in FilePlaces \union {"finish"}
    BY <1>1
       DEF FinalProceeds, FinalCancelled, PublishSkipped, PublishBegins, PublishNotStarted,
           PublishDeploys, PublishDeployFails, DeployedChecked, DeployedUnread, Undeployed, GiveUp,
           FilePlaces, Places
  <2>2. UNCHANGED <<cancelRequested, verified, candidates, kernelFile, saved>>
    BY <1>1
       DEF FinalProceeds, FinalCancelled, PublishSkipped, PublishBegins, PublishNotStarted,
           PublishDeploys, PublishDeployFails, DeployedChecked, DeployedUnread, Undeployed, GiveUp
  <2> QED
    BY <2>1, <2>2, MiddleUnseen
<1>2. CASE ConfigUpdated \/ ConfigUpdateRaises \/ AnnouncedStands
  <2>1. /\ pc \notin {"write", "done", "raised"} /\ pc' \notin {"write", "done", "raised"}
        /\ UNCHANGED <<cancelRequested, verified, candidates, kernelFile, saved>>
    BY <1>2 DEF ConfigUpdated, ConfigUpdateRaises, AnnouncedStands
  <2> QED
    BY <2>1, Unseen DEF Outcome
<1>3. CASE KernelCopied \/ KernelCopyRaises
  <2>1. /\ pc = "copying" /\ pc' \notin {"write", "done", "raised"} /\ candidates # <<>>
        /\ UNCHANGED <<cancelRequested, verified, candidates, saved>>
    BY <1>3 DEF KernelCopied, KernelCopyRaises, IInv, Provenance, WinnerExists, PublishPlaces
  <2>2. Outcome = "open" /\ Outcome' = "open" /\ kernelFile = Baseline /\ Reported' = Reported
    BY <2>1, MiddleOpen DEF Outcome, Reported, FilePlaces, Places
  <2>3. LatestAccepted = Published /\ Published # Baseline
    BY <2>1, WinnerFacts, InvFacts, NoneIsNoVersion
       DEF LatestAccepted, Published, Tried, NoVersionTriedTwice, Contents
  <2>4. CASE kernelFile' = kernelFile
    BY <2>1, <2>2, <2>4, Unseen
  <2>5. CASE kernelFile' # kernelFile
    <3>1. ~cancelRequested /\ kernelFile' \in {Published, Unknown}
      BY <1>3, <2>5 DEF KernelCopied, KernelCopyRaises
    <3>2. Promise!Publishes
      BY <2>1, <2>2, <2>3, <3>1, LatestKept, SourcesKept DEF Promise!Publishes, Promise!Open
    <3> QED
      BY <3>2 DEF Promise!Next
  <2> QED
    BY <2>4, <2>5
<1>4. ASSUME NEW ok \in BOOLEAN, Unpublished(ok) \/ AnnouncedCancelled(ok)
      PROVE  Promise!Next
  <2>1. /\ pc \in {"unpublish", "announced"} /\ pc' = "finish" /\ kernelFile' = Baseline
        /\ UNCHANGED <<cancelRequested, verified, candidates, saved>>
    BY <1>4 DEF Unpublished, AnnouncedCancelled, Reverted
  <2>2. Outcome = "open" /\ Outcome' = "open" /\ Reported' = Reported
    BY <2>1 DEF Outcome, Reported
  <2>3. kernelFile # None
    BY <2>1 DEF FilesInv, BaselineFirst, PromiseInv, KernelStays
  <2>4. Promise!Withdraws
    BY <2>1, <2>2, <2>3, LatestKept, SourcesKept DEF Promise!Withdraws, Promise!Open
  <2> QED
    BY <2>4 DEF Promise!Next
<1> QED
  BY <1>1, <1>2, <1>3, <1>4, RaiseIsPromised DEF PublishStep

\* The end is decided, and written.
LEMMA EndIsPromised ==
    ASSUME IInv, FilesInv, PromiseInv, [Next]_vars, StatusDecided \/ ResultWritten
    PROVE  Promise!Next
<1> USE DEF requestVars, execVars, roundVars, trialVars, publishVars
<1>1. result \in Results /\ UNCHANGED <<cancelRequested, verified, candidates, kernelFile>>
  BY InvFacts DEF StatusDecided, ResultWritten
<1>2. /\ pc \in {"finish", "write"}
      /\ result.best = IF kernelFile = None THEN Baseline ELSE kernelFile
      /\ pc = "finish" => kernelFile # None
  BY InvFacts DEF StatusDecided, ResultWritten, FilesInv, BaselineFirst, AcceptedIsOnDisk,
         NoneIsBaseline, PromiseInv, KernelStays
<1>3. LatestAccepted' = LatestAccepted /\ Baseline' = Baseline
  BY <1>1, LatestKept, SourcesKept
<1>4. CASE StatusDecided
  <2>1. pc = "finish" /\ pc' = "write" /\ result' = FinalResult /\ saved' = saved
    BY <1>4 DEF StatusDecided
  <2>2. Outcome = "open" /\ Reported' = Reported /\ Outcome' = result'.status
    BY <2>1 DEF Outcome, Reported
  <2>3. kernelFile \in {Baseline, LatestAccepted}
    BY <1>2, <2>1 DEF FilesInv, NoneIsBaseline, PromiseInv, NamedIsLatest, LatestAccepted
  <2>4. CASE rollbackFailed
    <3>1. result'.status = "failed"
      BY <1>1, <2>1, <2>4 DEF FinalResult, Results
    <3>2. kernelFile = Baseline
      BY <1>2, <2>1, <2>4 DEF FilesInv, FailureTakesBack, NoneIsBaseline
    <3>3. Promise!Decides("failed")
      BY <1>1, <1>3, <2>2, <2>3, <3>1, <3>2 DEF Promise!Decides, Promise!Open
    <3> QED
      BY <3>3 DEF Promise!Next
  <2>5. CASE ~rollbackFailed /\ cancelRequested
    <3>1. result'.status = "cancelled"
      BY <1>1, <2>1, <2>5 DEF FinalResult, Results
    <3>2. Promise!Decides("cancelled")
      BY <1>1, <1>3, <2>2, <2>3, <2>5, <3>1 DEF Promise!Decides, Promise!Open
    <3> QED
      BY <3>2 DEF Promise!Next
  <2>6. CASE ~rollbackFailed /\ ~cancelRequested
    <3>1. result'.status = "completed"
      BY <1>1, <2>1, <2>6 DEF FinalResult, Results
    <3>2. kernelFile = LatestAccepted
      BY <1>2, <2>1, <2>6
         DEF FilesInv, NoneIsBaseline, PromiseInv, NamedIsLatest, NothingHeldBack, LatestAccepted
    <3>3. Promise!Decides("completed")
      BY <1>1, <1>3, <2>2, <2>3, <2>6, <3>1, <3>2 DEF Promise!Decides, Promise!Open
    <3> QED
      BY <3>3 DEF Promise!Next
  <2> QED
    BY <2>4, <2>5, <2>6
<1>5. CASE ResultWritten
  <2>1. /\ Outcome' = Outcome /\ Outcome = result.status /\ saved.status = "running"
        /\ result.status \notin {"open", "raised"}
    BY <1>1, <1>5 DEF ResultWritten, End, Outcome, FilesInv, SavedAtTheEnd, Results, ResultStatus
  <2>2. Reported' = [status |-> Outcome, best |-> IF kernelFile = None THEN Baseline ELSE kernelFile]
    BY <1>2, <1>5, <2>1 DEF ResultWritten, End, Reported
  <2>3. Promise!Writes
    BY <1>1, <1>3, <2>1, <2>2 DEF Promise!Writes, Reported
  <2> QED
    BY <2>3 DEF Promise!Next
<1> QED
  BY <1>4, <1>5

LEMMA StepIsPromised ==
    ASSUME IInv, FilesInv, Tried, PromiseInv, [Next]_vars
    PROVE  [Promise!Next]_Promise!publicationVars
<1> USE DEF requestVars, execVars, roundVars, trialVars, publishVars
<1>1. CASE Executing \/ RunawayInterferes \/ Finished \/ UNCHANGED vars
  BY <1>1, Unseen DEF Executing, RunawayInterferes, Finished, vars, Outcome
<1>2. CASE RequestCancel
  <2>1. /\ ~cancelRequested /\ cancelRequested' = TRUE
        /\ UNCHANGED <<verified, kernelFile, candidates>>
        /\ Outcome' = Outcome /\ Reported' = Reported
    BY <1>2 DEF RequestCancel, Outcome, Reported
  <2>2. Promise!Asks
    BY <2>1, LatestKept, SourcesKept DEF Promise!Asks
  <2> QED
    BY <2>2 DEF Promise!Next
<1> QED
  BY <1>1, <1>2, BaselineIsPromised, RoundsArePromised, PublishingIsPromised, EndIsPromised,
     RaiseIsPromised
     DEF Next, Engine, FinishStep

\* However the engine searches and whatever fails, what a client sees of a run is a behaviour of
\* Publication: a completed run has published the source it accepted last, a failed one that
\* returns nothing, and their result file says what best_kernel.py holds.  A run that an exception
\* breaks off, the undo of its publication included, leaves a failed result and a kernel that is
\* damaged, the user's source or the source accepted last.
THEOREM EngineKeepsPromise == Spec => ImplementsPublication
<1>1. Init => Promise!Init
  BY InitInv, InvFacts DEF Init, Promise!Init, Baseline, LatestAccepted, Outcome, Reported
<1>2. IInv /\ FilesInv /\ Tried /\ PromiseInv /\ [Next]_vars =>
          [Promise!Next]_Promise!publicationVars
  BY StepIsPromised
<1> QED
  BY <1>1, <1>2, Invariance, FilesInvariance, TriedInvariance, PromiseInvariance, PTL
     DEF Spec, ImplementsPublication, Promise!Spec

=============================================================================
