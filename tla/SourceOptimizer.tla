--------------------------- MODULE SourceOptimizer ---------------------------
(***************************************************************************)
(* run_source_optimization of source_optimizer/engine.py: the baseline, the*)
(* planning rounds, the candidate trials with their parent recheck and     *)
(* performance gate, the publication of the last accepted candidate and    *)
(* every rollback, as one thread that reads the cancel flag at each        *)
(* cancelled() call while the HTTP thread may set it between any two steps.*)
(***************************************************************************)
EXTENDS VersionExecution, Sequences

CONSTANTS Targets,    \* authorised transformation targets
          TargetsOf,  \* analyze_source: the targets of each version
          Rewrite,    \* rewrite_source_target: version and target to the new version
          Budget,     \* source_optimization.max_candidates
          Requests,   \* the task requests to consider
          None        \* no version, no trial

ASSUME TargetsOfType == TargetsOf \in [Versions -> SUBSET Targets]
ASSUME RewriteType == Rewrite \in [Versions -> [Targets -> Versions]]
ASSUME BudgetType == Budget \in Nat
ASSUME RequestsType == Requests \subseteq TaskRecords
ASSUME NoneIsNoVersion == None \notin Contents /\ None \notin Nat

VARIABLES pc,               \* where the engine stands
          round,            \* candidate rounds begun
          parent,           \* parent_source: the version candidates are derived from
          attemptedTargets, \* attempted_targets: <<parent, target>> pairs
          attempted,        \* attempted_hashes: versions that may not be tried again
          trials,           \* result.trials
          candidates,       \* candidates: indexes of the accepted trials
          restored,         \* the local of that name: was the last rollback verified
          gate,             \* the performance gate's decision on the current trial
          rollbackFailed,   \* rollback_failed
          kernelFile,       \* results/best_kernel.py
          configFile,       \* results/best_config.yaml: the trial version it records
          result,           \* the SourceOptimizationResult in memory
          saved,            \* source_optimization.json: the result as last written
          verified          \* history: versions whose measurement, recheck and rollback all held

roundVars == <<round, parent, attemptedTargets, attempted>>
trialVars == <<trials, candidates, restored, gate, rollbackFailed>>
publishVars == <<kernelFile, configFile, result, saved>>
vars == <<cancelRequested, task, execVars, pc, roundVars, trialVars, publishVars, verified>>

-----------------------------------------------------------------------------
Places == {"start", "baseline", "round", "planning", "candidate", "gate", "recheck", "settle",
           "final", "publish", "deploying", "deployed", "undeploy", "copying", "copied",
           "unpublish", "announced", "finish", "write", "done", "raised"}
TrialStatus == {"running", "accepted", "no_improvement"} \union OutcomeStatus
ResultStatus == {"running", "unavailable", "completed", "cancelled", "failed"}
Trials == [before: Versions, after: Versions \union {None}, status: TrialStatus,
           rollbackVerified: BOOLEAN \union {None}]
Results == [status: ResultStatus, accepted: Nat \union {None}, best: Versions,
            baselineVerified: BOOLEAN]
\* What a reader makes of a result file that a raised write left in pieces.
Unreadable == [status |-> "failed", accepted |-> None, best |-> None, baselineVerified |-> FALSE]

EngineTypeOK ==
    /\ pc \in Places
    /\ round \in 0..Budget
    /\ parent \in Versions
    /\ attemptedTargets \subseteq Versions \X Targets
    /\ attempted \subseteq Versions
    /\ trials \in Seq(Trials)
    /\ candidates \in Seq(Nat)
    /\ restored \in BOOLEAN
    /\ gate \in {"none", "accepted", "rejected"}
    /\ rollbackFailed \in BOOLEAN
    /\ kernelFile \in Contents \union {None}
    /\ configFile \in Versions \union {None}
    /\ result \in Results
    /\ saved \in Results \union {Unreadable}
    /\ verified \subseteq Versions

\* The variables of the execution and of the engine hold what the code keeps in them.
TypeOK == ExecTypeOK /\ EngineTypeOK

Terminal == pc \in {"done", "raised"}

Baseline == task.source
Current == Len(trials)

\* The pairs (current parent, target) still open this round.
OpenTargets == {t \in TargetsOf[parent] : <<parent, t>> \notin attemptedTargets}

\* accepted, accepted_source_path = candidates[-1]
Winner == candidates[Len(candidates)]
Published == trials[Winner].after

Init ==
    /\ cancelRequested = FALSE
    /\ task \in Requests
    /\ workspace = Unknown
    /\ runaway = "none"
    /\ exec = Call("baseline", task.source)
    /\ lateCommands = 0
    /\ pc = "start"
    /\ round = 0 /\ parent = task.source
    /\ attemptedTargets = {} /\ attempted = {task.source}
    /\ trials = <<>> /\ candidates = <<>>
    /\ restored = TRUE /\ gate = "none" /\ rollbackFailed = FALSE
    /\ kernelFile = None /\ configFile = None
    /\ result = [status |-> "running", accepted |-> None, best |-> task.source,
                 baselineVerified |-> FALSE]
    /\ saved = result
    /\ verified = {}

-----------------------------------------------------------------------------
\* POST /api/tasks/{id}/cancel: TaskManager.request_cancel only sets the flag.
RequestCancel ==
    /\ ~cancelRequested
    /\ cancelRequested' = TRUE
    /\ UNCHANGED <<task, verified, execVars, pc, roundVars, trialVars, publishVars>>

\* The version being executed makes a step of its own.
Executing ==
    /\ pc \in {"baseline", "candidate", "recheck"} /\ exec.stage # "returned"
    /\ ExecStep
    /\ UNCHANGED <<requestVars, verified, pc, roundVars, trialVars, publishVars>>

RunawayInterferes ==
    /\ RunawayWrites
    /\ UNCHANGED <<requestVars, verified, pc, roundVars, trialVars, publishVars>>

\* How the run ends, in memory: the records and the result file are still to be written.
Decides(final) ==
    /\ pc' = "write"
    /\ result' = final
    /\ UNCHANGED saved

\* Ends the run with the result in memory written to disk.
End(final) ==
    /\ pc' = "done"
    /\ result' = final
    /\ saved' = final

\* An exception leaves the engine: the job worker marks the result file as failed, the
\* one last written or one the exception left in pieces.
BreaksOff(written) ==
    /\ "local" \in Faults
    /\ pc' = "raised"
    /\ saved' \in {[written EXCEPT !.status = "failed"], Unreadable}

\* Copies, logs, round records and results that are read or written outside any try, the
\* record of a profiler collection that failed while its version is deployed included.
Unguarded ==
    \/ pc \in {"start", "round", "planning", "gate", "settle", "final", "deploying"}
    \/ /\ pc \in {"baseline", "candidate"}
       /\ exec.stage \in {"profiler", "tools", "collection", "returned"}

\* Local input or output that nothing guards raises out of the engine, which leaves the
\* workspace, the runner and the published files as they are.  The first write of
\* best_kernel.py may come to pass, or not, or in part.
EngineRaises ==
    /\ Unguarded
    /\ BreaksOff(saved)
    /\ kernelFile' \in IF pc = "baseline" /\ exec.stage = "returned" /\ exec.status = "benchmark_ok"
                      THEN {kernelFile, Baseline, Unknown} ELSE {kernelFile}
    /\ UNCHANGED <<requestVars, verified, execVars, roundVars, trialVars, configFile, result>>

-----------------------------------------------------------------------------
\* An empty analysis ends the run at once, unless a file task asks for its
\* measurement anyway.
BeginUnavailable ==
    /\ pc = "start" /\ TargetsOf[Baseline] = {} /\ ~task.fileTask
    /\ Decides([result EXCEPT !.status = "unavailable"])
    /\ UNCHANGED <<requestVars, verified, execVars, roundVars, trialVars, kernelFile, configFile>>

BeginBaseline ==
    /\ pc = "start" /\ (TargetsOf[Baseline] # {} \/ task.fileTask)
    /\ exec' = Call("baseline", Baseline)
    /\ pc' = "baseline"
    /\ UNCHANGED <<requestVars, verified, workspace, runaway, lateCommands, roundVars, trialVars,
                   publishVars>>

\* A command whose stop is unverified may still be writing: restore nothing.
NeverWithheld == FALSE  \* mutant: restore_allowed is not consulted
RestoreWithheld == ~exec.restoreAllowed

\* Undo an execution: withheld, a local comparison when a cancel came before any
\* runner existed, or the snapshot uploaded again and audited.
Rollback(snapshot, ok) ==
    IF RestoreWithheld THEN ~ok /\ UNCHANGED workspace
    ELSE IF ~exec.runner /\ exec.status = "cancelled"
    THEN (ok \/ "local" \in Faults) /\ UNCHANGED workspace
    ELSE Restore(exec.runner, snapshot, ok)

\* A baseline that did not pass: undo what may be undone and close the runner.  The
\* run is cancelled only when the execution says so, the rollback is verified and the
\* runner closed; every other way out is failed.
BaselineFails(ok, closed) ==
    /\ pc = "baseline" /\ exec.stage = "returned" /\ exec.status # "benchmark_ok"
    /\ Rollback(Baseline, ok)
    /\ closed \/ (exec.runner /\ "local" \in Faults)
    /\ restored' = ok
    /\ Decides([result EXCEPT !.status = IF exec.status = "cancelled" /\ ok /\ closed
                                         THEN "cancelled" ELSE "failed"])
    /\ UNCHANGED <<requestVars, verified, runaway, exec, lateCommands, roundVars, trials,
                   candidates, gate, rollbackFailed, kernelFile, configFile>>

\* The verified baseline becomes best_kernel.py before the first round.
BaselineVerified ==
    /\ pc = "baseline" /\ exec.stage = "returned" /\ exec.status = "benchmark_ok"
    /\ kernelFile' = Baseline
    /\ LET measured == [result EXCEPT !.baselineVerified = TRUE]
       IN IF TargetsOf[Baseline] = {}
          THEN Decides([measured EXCEPT !.status = "unavailable"])
          ELSE pc' = "round" /\ result' = measured /\ UNCHANGED saved
    /\ UNCHANGED <<requestVars, verified, execVars, roundVars, trialVars, configFile>>

-----------------------------------------------------------------------------
\* The head of the for loop: its check, or the end of the range.
RoundBegins ==
    /\ pc = "round" /\ round < Budget
    /\ round' = round + 1
    /\ pc' = IF cancelRequested THEN "final" ELSE "planning"
    /\ UNCHANGED <<requestVars, verified, execVars, parent, attemptedTargets, attempted, trialVars,
                   publishVars>>

BudgetExhausted ==
    /\ pc = "round" /\ round = Budget
    /\ pc' = "final"
    /\ UNCHANGED <<requestVars, verified, execVars, roundVars, trialVars, publishVars>>

\* choose_plan returns; a cancel during planning, a stop and an insufficient
\* evidence decision all leave the loop without a candidate.
PlanStops ==
    /\ pc = "planning"
    /\ pc' = "final"
    /\ UNCHANGED <<requestVars, verified, execVars, roundVars, trialVars, publishVars>>

TriedIsParent(version) == version = parent  \* mutant: compared with the parent alone
AlreadyTried(version) == version \in attempted

RewriteRetried(t) ==  \* mutant: a refused rewrite is planned again at no cost
    /\ pc = "planning" /\ ~cancelRequested
    /\ AlreadyTried(Rewrite[parent][t]) \/ "local" \in Faults
    /\ round' = round - 1
    /\ pc' = "round"
    /\ UNCHANGED <<requestVars, verified, execVars, parent, attemptedTargets, attempted, trialVars,
                   publishVars>>

\* The planned rewrite is refused: its template raises, a protected file changed,
\* or the version it gives was already attempted.
RewriteRejected(t) ==
    /\ pc = "planning" /\ ~cancelRequested
    /\ AlreadyTried(Rewrite[parent][t]) \/ "local" \in Faults
    /\ attemptedTargets' = attemptedTargets \union {<<parent, t>>}
    /\ trials' = Append(trials, [before |-> parent, after |-> None, status |-> "validation_failed",
                                 rollbackVerified |-> None])
    /\ pc' = "round"
    /\ saved' = result
    /\ UNCHANGED <<requestVars, verified, execVars, round, parent, attempted, candidates, restored,
                   gate, rollbackFailed, kernelFile, configFile, result>>

CandidateStarts(t) ==
    /\ pc = "planning" /\ ~cancelRequested
    /\ ~AlreadyTried(Rewrite[parent][t])
    /\ attemptedTargets' = attemptedTargets \union {<<parent, t>>}
    /\ attempted' = attempted \union {Rewrite[parent][t]}
    /\ trials' = Append(trials, [before |-> parent, after |-> Rewrite[parent][t],
                                 status |-> "running", rollbackVerified |-> None])
    /\ exec' = Call("candidate", Rewrite[parent][t])
    /\ gate' = "none"
    /\ pc' = "candidate"
    /\ saved' = result
    /\ UNCHANGED <<requestVars, verified, workspace, runaway, lateCommands, round, parent,
                   candidates, restored, rollbackFailed, kernelFile, configFile, result>>

\* The candidate's execution is over: the parent's bytes go back.
CandidateRestored(ok) ==
    /\ pc = "candidate" /\ exec.stage = "returned"
    /\ Rollback(parent, ok)
    /\ restored' = ok
    /\ pc' = "gate"
    /\ UNCHANGED <<requestVars, verified, runaway, exec, lateCommands, roundVars, trials,
                   candidates, gate, rollbackFailed, publishVars>>

\* assess_performance before the recheck.  Only a gain it would accept makes the
\* engine run the parent again.
GateEntered == exec.status = "benchmark_ok" /\ restored /\ ~cancelRequested

GateRejects ==
    /\ pc = "gate" /\ GateEntered
    /\ gate' = "rejected"
    /\ pc' = "settle"
    /\ UNCHANGED <<requestVars, verified, execVars, roundVars, trials, candidates, restored,
                   rollbackFailed, publishVars>>

GateRechecks ==
    /\ pc = "gate" /\ GateEntered
    /\ exec' = Call("recheck", parent)
    /\ pc' = "recheck"
    /\ UNCHANGED <<requestVars, verified, workspace, runaway, lateCommands, roundVars, trialVars,
                   publishVars>>

GateSkipped ==
    /\ pc = "gate" /\ ~GateEntered
    /\ pc' = "settle"
    /\ UNCHANGED <<requestVars, verified, execVars, roundVars, trialVars, publishVars>>

RecheckIgnored(decision, ok) == TRUE  \* mutant: the recheck's own failure is not looked at
RecheckAllows(decision, ok) == decision = "accepted" => exec.status = "benchmark_ok" /\ ok

\* The recheck's restore looks neither at restore_allowed nor at a cancel that
\* kept the recheck from starting.  The second assessment can still reject.
RecheckRestored(ok, decision) ==
    /\ pc = "recheck" /\ exec.stage = "returned"
    /\ Restore(exec.runner, parent, ok)
    /\ RecheckAllows(decision, ok)
    /\ gate' = decision
    /\ verified' = IF exec.status = "benchmark_ok" /\ ok /\ decision = "accepted"
                   THEN verified \union {trials[Current].after} ELSE verified
    /\ restored' = ok
    /\ pc' = "settle"
    /\ UNCHANGED <<requestVars, runaway, exec, lateCommands, roundVars, trials,
                   candidates, rollbackFailed, publishVars>>

\* A trial's record with its status and what became of its rollback.
Ruled(i, status, ok) ==
    [trials EXCEPT ![i].status = status, ![i].rollbackVerified = ok]

\* The trial's verdict: the gate or the execution, then a cancel, then a rollback
\* that failed, each overriding the one before.
Verdict ==
    IF ~restored THEN "validation_failed"
    ELSE IF cancelRequested THEN "cancelled"
    ELSE IF gate = "accepted" THEN "accepted"
    ELSE IF gate = "rejected" THEN "no_improvement"
    ELSE exec.status

Adopts == Verdict = "accepted"

AfterAnyTrial == "round"  \* mutant: a failed rollback does not leave the loop
AfterTrial == IF restored THEN "round" ELSE "final"

TrialSettles ==
    /\ pc = "settle"
    /\ trials' = Ruled(Current, Verdict, restored)
    /\ rollbackFailed' = (rollbackFailed \/ ~restored)
    /\ candidates' = IF Verdict = "accepted" THEN Append(candidates, Current) ELSE candidates
    /\ parent' = IF Adopts THEN trials[Current].after ELSE parent
    /\ pc' = AfterTrial
    /\ saved' = result
    /\ UNCHANGED <<requestVars, verified, execVars, round, attemptedTargets, attempted, restored,
                   gate, kernelFile, configFile, result>>

-----------------------------------------------------------------------------
\* Trials of the accepted chain lose their status when the run is cancelled.
CancelledTrials == [i \in 1..Current |-> IF \E k \in 1..Len(candidates) : candidates[k] = i
                                         THEN [trials[i] EXCEPT !.status = "cancelled"]
                                         ELSE trials[i]]

\* The check after the loop.  A cancelled run with an accepted parent redeploys
\* the baseline.
FinalCancelled(ok) ==
    /\ pc = "final" /\ cancelRequested
    /\ trials' = CancelledTrials
    /\ IF parent # Baseline /\ ~rollbackFailed
       THEN Redeploy(Baseline, ok) /\ rollbackFailed' = ~ok
       ELSE ok = restored /\ UNCHANGED <<workspace, rollbackFailed>>
    /\ restored' = ok
    /\ pc' = "finish"
    /\ UNCHANGED <<requestVars, verified, runaway, exec, lateCommands, roundVars, candidates, gate,
                   publishVars>>

FinalProceeds ==
    /\ pc = "final" /\ ~cancelRequested
    /\ pc' = "publish"
    /\ UNCHANGED <<requestVars, verified, execVars, roundVars, trialVars, publishVars>>

PublishSkipped ==
    /\ pc = "publish" /\ (rollbackFailed \/ candidates = <<>> \/ cancelRequested)
    /\ pc' = "finish"
    /\ UNCHANGED <<requestVars, verified, execVars, roundVars, trialVars, publishVars>>

PublishBegins ==
    /\ pc = "publish" /\ ~rollbackFailed /\ candidates # <<>> /\ ~cancelRequested
    /\ pc' = "deploying"
    /\ UNCHANGED <<requestVars, verified, execVars, roundVars, trialVars, publishVars>>

\* The publication is given up.  Only a cancel keeps it from being a rollback failure.
GiveUp(ok) ==
    /\ trials' = Ruled(Winner, IF cancelRequested THEN "cancelled" ELSE "validation_failed", ok)
    /\ rollbackFailed' = (~ok \/ ~cancelRequested)
    /\ restored' = ok
    /\ pc' = "finish"

\* Given up before a runner was built: the artifact's hash changed, or a cancel.
PublishNotStarted ==
    /\ pc = "deploying" /\ (cancelRequested \/ "local" \in Faults)
    /\ GiveUp(TRUE)
    /\ UNCHANGED <<requestVars, verified, execVars, roundVars, candidates, gate, publishVars>>

\* The runner for publication uploads the accepted tree.
PublishDeploys ==
    /\ pc = "deploying" /\ ~cancelRequested
    /\ workspace' = Published
    /\ pc' = "deployed"
    /\ UNCHANGED <<requestVars, verified, runaway, exec, lateCommands, roundVars, trialVars,
                   publishVars>>

\* build_runner raises, or the audit of the deployed tree fails.
PublishDeployFails ==
    /\ pc = "deploying" /\ ~cancelRequested
    /\ "deploy" \in Faults \/ "audit" \in Faults \/ runaway # "none"
    /\ workspace' \in Disturbed \union {Published}
    /\ pc' = "undeploy"
    /\ UNCHANGED <<requestVars, verified, runaway, exec, lateCommands, roundVars, trialVars,
                   publishVars>>

\* The artifact's hash and the flag are read once more after the audit.
DeployedChecked(artifactOk) ==
    /\ pc = "deployed" /\ (artifactOk \/ "local" \in Faults)
    /\ pc' = IF artifactOk /\ ~cancelRequested THEN "copying" ELSE "undeploy"
    /\ UNCHANGED <<requestVars, verified, execVars, roundVars, trialVars, publishVars>>

\* A hash that cannot be read skips the flag and leaves publish_ok as the audit set it.
DeployedUnread ==
    /\ pc = "deployed" /\ "local" \in Faults
    /\ pc' = "copying"
    /\ UNCHANGED <<requestVars, verified, execVars, roundVars, trialVars, publishVars>>

\* Roll the deployment back to the baseline, on its runner or on a fresh one.
Undeployed(ok) ==
    /\ pc = "undeploy"
    /\ Redeploy(Baseline, ok)
    /\ GiveUp(ok)
    /\ UNCHANGED <<requestVars, verified, runaway, exec, lateCommands, roundVars, candidates, gate,
                   publishVars>>

\* best_kernel.py is copied unless the flag is already set; a copy that fails, that
\* does not hash to the accepted source or cannot be hashed raises like the check does.
KernelCopied ==
    /\ pc = "copying" /\ ~cancelRequested
    /\ kernelFile' = Published
    /\ pc' = "copied"
    /\ UNCHANGED <<requestVars, verified, execVars, roundVars, trialVars, configFile, result, saved>>

KernelCopyRaises ==
    /\ pc = "copying" /\ (cancelRequested \/ "local" \in Faults)
    /\ kernelFile' \in IF cancelRequested THEN {kernelFile}
                      ELSE {kernelFile, Published, Unknown}
    /\ pc' = "unpublish"
    /\ UNCHANGED <<requestVars, verified, execVars, roundVars, trialVars, configFile, result, saved>>

\* The second check, best_config.yaml, and the accepted trial in the result.
ConfigUpdated ==
    /\ pc = "copied" /\ ~cancelRequested
    /\ configFile' = Published
    /\ trials' = [trials EXCEPT ![Winner].rollbackVerified = None]
    /\ result' = [result EXCEPT !.accepted = Winner, !.best = Published]
    /\ pc' = "announced"
    /\ UNCHANGED <<requestVars, verified, execVars, roundVars, candidates, restored, gate,
                   rollbackFailed, kernelFile, saved>>

ConfigUpdateRaises ==
    /\ pc = "copied" /\ (cancelRequested \/ "local" \in Faults)
    /\ configFile' \in IF cancelRequested THEN {configFile} ELSE {configFile, Published}
    /\ pc' = "unpublish"
    /\ UNCHANGED <<requestVars, verified, execVars, roundVars, trialVars, kernelFile, result, saved>>

RevertedKernelOnly ==  \* mutant: best_config.yaml keeps naming the candidate
    /\ kernelFile' = Baseline /\ UNCHANGED configFile
    /\ result' = [result EXCEPT !.accepted = None, !.best = Baseline]

RevertedConfigOnly ==  \* mutant: best_kernel.py keeps the candidate's bytes
    /\ UNCHANGED kernelFile /\ configFile' = None
    /\ result' = [result EXCEPT !.accepted = None, !.best = Baseline]

\* best_kernel.py, best_config.yaml and the result go back to the baseline.
Reverted ==
    /\ kernelFile' = Baseline /\ configFile' = None
    /\ result' = [result EXCEPT !.accepted = None, !.best = Baseline]

\* One of the two writes of the undo raises: best_kernel.py keeps what it held or half
\* of the baseline, or is back and best_config.yaml is not.
RevertRaises ==
    /\ kernelFile' \in {kernelFile, Unknown, Baseline}
    /\ configFile' \in IF kernelFile' = Baseline THEN {configFile, None} ELSE {configFile}
    /\ result' = [result EXCEPT !.accepted = None, !.best = Baseline]

\* The except branch of the local publication: always a rollback failure.
Unpublished(ok) ==
    /\ pc = "unpublish"
    /\ Restore(TRUE, Baseline, ok)
    /\ trials' = Ruled(Winner, IF cancelRequested THEN "cancelled" ELSE "validation_failed", ok)
    /\ rollbackFailed' = TRUE
    /\ restored' = ok
    /\ Reverted
    /\ pc' = "finish"
    /\ UNCHANGED <<requestVars, verified, runaway, exec, lateCommands, roundVars, candidates, gate,
                   saved>>

\* The check after best_updated was announced.  rollback_failed stays as it was.
AnnouncedCancelled(ok) ==
    /\ pc = "announced" /\ cancelRequested
    /\ Restore(TRUE, Baseline, ok)
    /\ trials' = Ruled(Winner, "cancelled", ok)
    /\ restored' = ok
    /\ Reverted
    /\ pc' = "finish"
    /\ UNCHANGED <<requestVars, verified, runaway, exec, lateCommands, roundVars, candidates, gate,
                   rollbackFailed, saved>>

\* Either undo leaves the engine with the exception of its own write.
UndoRaises(ok) ==
    /\ pc = "unpublish" \/ (pc = "announced" /\ cancelRequested)
    /\ Restore(TRUE, Baseline, ok)
    /\ trials' = Ruled(Winner, IF cancelRequested THEN "cancelled" ELSE "validation_failed", ok)
    /\ rollbackFailed' = (rollbackFailed \/ pc = "unpublish")
    /\ restored' = ok
    /\ RevertRaises
    /\ BreaksOff(saved)
    /\ UNCHANGED <<requestVars, verified, runaway, exec, lateCommands, roundVars, candidates, gate>>

AnnouncedStands ==
    /\ pc = "announced" /\ ~cancelRequested
    /\ pc' = "finish"
    /\ UNCHANGED <<requestVars, verified, execVars, roundVars, trialVars, publishVars>>

-----------------------------------------------------------------------------
\* The final status, from rollback_failed and one more read of the flag.
FinalResult ==
    IF rollbackFailed
    THEN [result EXCEPT !.status = "failed", !.accepted = None, !.best = Baseline]
    ELSE [result EXCEPT !.status = IF cancelRequested THEN "cancelled" ELSE "completed"]

StatusDecided ==
    /\ pc = "finish"
    /\ result' = FinalResult
    /\ pc' = "write"
    /\ UNCHANGED <<requestVars, verified, execVars, roundVars, trialVars, kernelFile, configFile,
                   saved>>

ResultWritten ==
    /\ pc = "write"
    /\ End(result)
    /\ UNCHANGED <<requestVars, verified, execVars, roundVars, trialVars, kernelFile, configFile>>

\* The last records, the result or the report after it cannot be written: the exception
\* leaves the earlier result on disk, the new one, or half of it.
WriteRaises ==
    /\ pc = "write"
    /\ \E written \in {saved, result} : BreaksOff(written)
    /\ UNCHANGED <<requestVars, verified, execVars, roundVars, trialVars, kernelFile, configFile,
                   result>>

-----------------------------------------------------------------------------
Begin == BeginUnavailable \/ BeginBaseline

BaselineStep == BaselineVerified \/ \E ok, closed \in BOOLEAN : BaselineFails(ok, closed)

RoundStep ==
    \/ RoundBegins \/ BudgetExhausted \/ PlanStops
    \/ \E t \in OpenTargets : RewriteRejected(t) \/ CandidateStarts(t)

TrialStep ==
    \/ \E ok \in BOOLEAN : CandidateRestored(ok)
    \/ GateRejects \/ GateRechecks \/ GateSkipped
    \/ \E ok \in BOOLEAN, d \in {"accepted", "rejected"} : RecheckRestored(ok, d)
    \/ TrialSettles

PublishStep ==
    \/ FinalProceeds \/ \E ok \in BOOLEAN : FinalCancelled(ok)
    \/ PublishSkipped \/ PublishBegins \/ PublishNotStarted
    \/ PublishDeploys \/ PublishDeployFails
    \/ \E ok \in BOOLEAN : DeployedChecked(ok) \/ Undeployed(ok)
    \/ DeployedUnread
    \/ KernelCopied \/ KernelCopyRaises \/ ConfigUpdated \/ ConfigUpdateRaises
    \/ \E ok \in BOOLEAN : Unpublished(ok) \/ AnnouncedCancelled(ok) \/ UndoRaises(ok)
    \/ AnnouncedStands

FinishStep == StatusDecided \/ ResultWritten \/ WriteRaises \/ EngineRaises

\* The worker thread.
Engine == Begin \/ BaselineStep \/ Executing \/ RoundStep \/ TrialStep \/ PublishStep \/ FinishStep

\* A finished run stays as it is.
Finished == Terminal /\ UNCHANGED vars

Next == Engine \/ RequestCancel \/ RunawayInterferes \/ Finished

Spec == Init /\ [][Next]_vars

\* The worker thread is never abandoned, and every call it makes comes back: the local
\* ones, and run_cancellable, which ManagedCommand shows to return only if the command
\* falls silent and the connection does not die unnoticed.  Nobody is obliged to cancel.
FairSpec == Spec /\ WF_vars(Engine)

-----------------------------------------------------------------------------
(* Properties                                                              *)

Done == pc = "done"
\* best_kernel.py never holds a candidate that was not measured, rechecked against its
\* parent and rolled back cleanly, not even in a run an exception broke off.  Damaged bytes
\* stand there between a raised copy and its undo, and for good only if the run raised.
PublishedIsVerified ==
    /\ kernelFile \in {None, Baseline, Unknown} \union verified
    /\ kernelFile = Unknown => pc \in {"unpublish", "raised"}

\* What the result file names as best is what the results directory holds, at the end of
\* a run that returns and at every moment an accepted trial is visible to the API; a
\* completed run leaves it in the workspace too, unless a recheck nobody could stop still
\* writes.  Of a run that raises, its undo of a publication included, it says nothing.
ReportedBestIsOnDisk ==
    /\ (Done /\ saved.baselineVerified) \/ saved.accepted # None =>
         /\ kernelFile = saved.best
         /\ IF saved.accepted = None THEN configFile = None /\ saved.best = Baseline
            ELSE /\ saved.accepted \in 1..Current
                 /\ trials[saved.accepted].after = saved.best
                 /\ configFile = saved.best
    /\ Done /\ saved.status = "completed" /\ runaway = "none" => workspace = saved.best

\* A version is executed as a candidate at most once, and never the baseline.
NoVersionTriedTwice ==
    \A i, j \in 1..Current : trials[i].after # None =>
        /\ trials[i].after # Baseline
        /\ i # j => trials[i].after # trials[j].after

\* A round only begins on a workspace that holds a verified version, whatever the
\* trial before it did: no failed, rejected or half uploaded candidate stays behind.
RoundStartsFromVerified ==
    pc \in {"round", "planning"} /\ runaway = "none" => workspace \in {Baseline} \union verified

\* A failed run that returns publishes nothing: the baseline stays, no trial is named.  Implied by
\* ImplementsPublication but for the number of the trial.
FailedPublishesNothing ==
    Done /\ saved.status = "failed" =>
        kernelFile \in {None, Baseline} /\ saved.accepted = None /\ saved.best = Baseline

\* However a run returns after its baseline was verified -- completed, cancelled or
\* failed -- a last rollback it calls verified leaves a verified version in the workspace,
\* and a result without an accepted trial leaves the baseline kernel.  A run that raises
\* may leave a candidate deployed.
EndsOnVerified ==
    Done /\ result.baselineVerified /\ restored /\ runaway = "none" =>
        /\ workspace \in {Baseline} \union verified
        /\ result.accepted = None => kernelFile = Baseline /\ configFile = None

\* After the user asks for the stop at most one more command starts: the build
\* behind the upload in progress, or the collection behind its tool checks.
CancelBoundsWork == lateCommands <= 1

\* While a baseline or candidate command may still be running, the engine itself
\* writes nothing into the workspace.
StopBlocksRewrite ==
    [][(runaway \in {"baseline", "candidate"} /\ ~RunawayInterferes) => UNCHANGED workspace]_vars

\* What a client sees of a run: the accepted source of the last trial, how the run ends
\* once that is decided or broken off, and of the result file the status and the best source.
LatestAccepted == IF candidates = <<>> THEN Baseline ELSE Published
Outcome == IF pc = "raised" THEN "raised"
           ELSE IF pc \in {"write", "done"} THEN result.status ELSE "open"
Reported == [status |-> saved.status, best |-> saved.best]

Promise ==
    INSTANCE Publication WITH
        Nothing <- None, Damaged <- Unknown, source <- Baseline, asked <- cancelRequested,
        proven <- verified, latest <- LatestAccepted, kernel <- kernelFile,
        outcome <- Outcome, report <- Reported

\* The rounds, rechecks, rollbacks and checks of the flag together keep the promise of
\* Publication: a completed run has published exactly the last trial it accepted, a failed
\* one that returns has taken everything back, and the result file says what the kernel
\* file holds.  A run that raises before its end is decided may leave anything but an
\* unproven candidate there, and its result file says failed.
ImplementsPublication == Promise!Spec

\* Every run ends, cancelled or not, whatever fails, if every command it starts returns.
Terminates == <>Terminal

=============================================================================
