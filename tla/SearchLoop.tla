------------------------------ MODULE SearchLoop ------------------------------
(* run() and run_trial() of main.py with the controlled patch trial: the      *)
(* baseline, the candidates of every iteration, and the final report.         *)
(*                                                                            *)
(* A configuration names a point of the search space and the kernel rendered  *)
(* from it.  Samples, logs, evidence and diagnoses are data: a measurement is *)
(* a number of Values, lower is better.  The single trial of a file task is   *)
(* the baseline; only the trials of a file task read the cancel flag.         *)
EXTENDS Integers, Sequences, FiniteSets

CONSTANTS Configs,         \* the points of the search space
          Baseline,        \* the first value of every parameter
          NoConfig,        \* no configuration; files that are none's
          Values,          \* what a benchmark may report
          MaxIterations,   \* config.search.max_iterations
          PerIteration,    \* config.search.candidates_per_iteration
          Requests,        \* the requests of a run
          Faults           \* the kinds of faults that may happen

NoValue == 0

RequestRecords == [fileTask: BOOLEAN, ssh: BOOLEAN, build: BOOLEAN, collect: BOOLEAN,
                   patching: BOOLEAN, search: BOOLEAN]

ASSUME SearchAssumption ==
  /\ Baseline \in Configs /\ NoConfig \notin Configs
  /\ Values \subseteq Nat \ {NoValue}
  /\ MaxIterations \in Nat /\ PerIteration \in Nat
  /\ Requests \subseteq {r \in RequestRecords : /\ r.fileTask => ~r.search
                                                /\ r.patching => r.search
                                                /\ r.collect => r.ssh}

VARIABLES task,        \* the request
          cancel,      \* the cancel flag
          pc,          \* where the worker stands
          iteration,   \* iterations begun
          batch,       \* candidates of this iteration not yet looked at
          tried,       \* hashes in `tried`
          trial,       \* the locals of run_trial
          files,       \* content of the local kernel file of every configuration
          remote,      \* whose files the remote workspace holds
          stray,       \* a command of an earlier step may still be running
          patch,       \* the record in patch_trials.jsonl
          records,     \* db.records
          leaked,      \* runners nobody closed
          report,      \* best_config.yaml and best_kernel.py
          measured     \* history: the kernel content that was benchmarked

loopVars == <<iteration, batch, tried>>
worldVars == <<files, remote, stray>>
outVars == <<patch, records, leaked, report, measured>>
vars == <<task, cancel, pc, loopVars, trial, worldVars, outVars>>

NoTrial == [config |-> NoConfig, status |-> "none", failed |-> FALSE, value |-> NoValue,
            stage |-> "none", last |-> "none", runner |-> FALSE, dead |-> FALSE]
NoPatch == [config |-> NoConfig, status |-> "none", verified |-> FALSE]
NoReport == [best |-> NoConfig, kernel |-> "none"]
Current == trial.config

Failing(status) == [trial EXCEPT !.status = status, !.failed = TRUE]

Init ==
  /\ task \in Requests
  /\ cancel = FALSE /\ pc = "baseline"
  /\ iteration = 0 /\ batch = {} /\ tried = {Baseline}
  /\ trial = NoTrial
  /\ files = [c \in Configs |-> IF c = Baseline THEN "rendered" ELSE "none"]
  /\ remote = NoConfig /\ stray = FALSE
  /\ patch = NoPatch /\ records = <<>> /\ leaked = 0 /\ report = NoReport
  /\ measured = [c \in Configs |-> "none"]

(* ---- the baseline and the iterations ---- *)

TrialBegins(c) ==
  /\ trial' = [NoTrial EXCEPT !.config = c]
  /\ files' = [files EXCEPT ![c] = "rendered"]
  /\ pc' = "deploy"

BaselineSkipped ==
  /\ pc = "baseline" /\ cancel
  /\ pc' = "iterate"
  /\ UNCHANGED <<task, cancel, loopVars, trial, worldVars, outVars>>

BaselineStarts ==
  /\ pc = "baseline" /\ ~cancel
  /\ TrialBegins(Baseline)
  /\ UNCHANGED <<task, cancel, loopVars, remote, stray, outVars>>

(* The policy proposes any few configurations that are new; none ends the search. *)
IterationStarts ==
  /\ pc = "iterate" /\ ~cancel /\ task.search /\ iteration < MaxIterations
  /\ iteration' = iteration + 1
  /\ \E proposed \in SUBSET (Configs \ tried) :
       /\ Cardinality(proposed) <= PerIteration
       /\ batch' = proposed
       /\ pc' = IF proposed = {} THEN "report" ELSE "candidate"
  /\ UNCHANGED <<task, cancel, tried, trial, worldVars, outVars>>

SearchEnds ==
  /\ pc = "iterate" /\ (cancel \/ ~task.search \/ iteration = MaxIterations)
  /\ pc' = "report"
  /\ UNCHANGED <<task, cancel, loopVars, trial, worldVars, outVars>>

CandidateStarts ==
  /\ pc = "candidate" /\ ~cancel
  /\ \E c \in batch : /\ batch' = batch \ {c}
                      /\ tried' = tried \cup {c}
                      /\ TrialBegins(c)
  /\ UNCHANGED <<task, cancel, iteration, remote, stray, outVars>>

(* Mutant: a cancelled batch is continued instead of left. *)
BatchContinues ==
  /\ pc = "candidate" /\ (cancel \/ batch = {})
  /\ batch' = {} /\ pc' = IF cancel THEN "candidate" ELSE "iterate"
  /\ UNCHANGED <<task, cancel, iteration, tried, trial, worldVars, outVars>>

BatchEnds ==
  /\ pc = "candidate" /\ (cancel \/ batch = {})
  /\ batch' = {} /\ pc' = "iterate"
  /\ UNCHANGED <<task, cancel, iteration, tried, trial, worldVars, outVars>>

(* ---- run_trial: the runner and the three commands ---- *)

FirstStage == IF task.build THEN "build" ELSE "correctness"
StageAfter(stage) == IF stage = "build" THEN "correctness" ELSE "benchmark"

(* Uploading makes the shared remote workspace hold this trial's files. *)
Deployed ==
  /\ pc = "deploy"
  /\ remote' = IF task.ssh THEN Current ELSE remote
  /\ trial' = [trial EXCEPT !.runner = TRUE, !.stage = FirstStage]
  /\ pc' = "command"
  /\ UNCHANGED <<task, cancel, loopVars, files, stray, outVars>>

DeployFails ==
  /\ pc = "deploy" /\ task.ssh /\ "deploy" \in Faults
  /\ remote' \in {remote, NoConfig}
  /\ trial' = Failing("deploy_failed")
  /\ pc' = "settle"
  /\ UNCHANGED <<task, cancel, loopVars, files, stray, outVars>>

CommandRefused ==
  /\ pc = "command" /\ task.fileTask /\ cancel
  /\ trial' = Failing("cancelled")
  /\ pc' = "settle"
  /\ UNCHANGED <<task, cancel, loopVars, worldVars, outVars>>

CommandStarts ==
  /\ pc = "command" /\ ~(task.fileTask /\ cancel)
  /\ pc' = "running"
  /\ UNCHANGED <<task, cancel, loopVars, trial, worldVars, outVars>>

(* Exit code 0, output accepted, hashes as before. *)
CommandPasses ==
  /\ pc = "running" /\ trial.stage # "benchmark"
  /\ trial' = [trial EXCEPT !.stage = StageAfter(trial.stage), !.last = "clean"]
  /\ pc' = "command"
  /\ UNCHANGED <<task, cancel, loopVars, worldVars, outVars>>

(* What the benchmark ran on: the remote files, or the trial's own directory. *)
Executed == IF ~task.ssh THEN files[Current]
            ELSE IF remote = Current THEN "rendered" ELSE "none"

BenchmarkPasses ==
  /\ pc = "running" /\ trial.stage = "benchmark"
  /\ \E v \in Values \cup {NoValue} :
       trial' = [trial EXCEPT !.status = "benchmark_ok", !.value = v, !.last = "clean"]
  /\ measured' = [measured EXCEPT ![Current] = Executed]
  /\ pc' = "settle"
  /\ UNCHANGED <<task, cancel, loopVars, worldVars, patch, records, leaked, report>>

(* Denied, failed, or with output that does not parse; a cancel that stopped  *)
(* the remote process group looks like a failed command too.                  *)
CommandFails ==
  /\ pc = "running"
  /\ \E last \in {"clean", "bad"} \cup {l \in {"stopped"} : task.fileTask /\ task.ssh /\ cancel} :
       trial' = [Failing("failed") EXCEPT !.last = last]
  /\ pc' = "settle"
  /\ UNCHANGED <<task, cancel, loopVars, worldVars, outVars>>

(* run() gives up, on a timeout or on too much output, and closes the channel: *)
(* the remote command may go on.                                              *)
CommandTimesOut ==
  /\ pc = "running"
  /\ trial' = [Failing("failed") EXCEPT !.last = "bad"]
  /\ stray' \in {stray, task.ssh /\ ~task.fileTask}
  /\ pc' = "settle"
  /\ UNCHANGED <<task, cancel, loopVars, files, remote, outVars>>

StopUnverified ==
  /\ pc = "running" /\ task.fileTask /\ task.ssh /\ "stop" \in Faults
  /\ trial' = [Failing("cleanup_unverified") EXCEPT !.last = "bad"]
  /\ stray' = TRUE
  /\ pc' = "settle"
  /\ UNCHANGED <<task, cancel, loopVars, files, remote, outVars>>

(* The connection breaks: exit code -1, and nothing is known of the command. *)
LinkBreaks ==
  /\ pc = "running" /\ task.ssh /\ "link" \in Faults
  /\ trial' = [Failing("failed") EXCEPT !.last = "bad", !.dead = TRUE]
  /\ stray' = TRUE
  /\ pc' = "settle"
  /\ UNCHANGED <<task, cancel, loopVars, files, remote, outVars>>

(* The audit behind the upload or behind a command raises: it cannot read the *)
(* files, or a command changed a protected one.                               *)
AuditFails ==
  /\ pc \in {"deploy", "running"} /\ task.fileTask /\ "audit" \in Faults
  /\ IF task.ssh THEN remote' \in {Current, NoConfig} /\ UNCHANGED files
                 ELSE files' \in {files, [files EXCEPT ![Current] = "altered"]} /\ UNCHANGED remote
  /\ trial' = [Failing("failed") EXCEPT !.runner = TRUE, !.last = IF pc = "running" THEN "clean" ELSE "none"]
  /\ pc' = "settle"
  /\ UNCHANGED <<task, cancel, loopVars, stray, outVars>>

(* ---- run_trial: behind the try block ---- *)

(* Mutant: a cancel hides that the stop was not verified. *)
StoppedByAnyCancel ==
  /\ task.fileTask /\ cancel

StoppedByCancel ==
  /\ task.fileTask /\ cancel /\ trial.status # "cleanup_unverified"
  /\ trial.last \in {"none", "clean", "stopped"}

Settles ==
  /\ pc = "settle"
  /\ LET settled == IF StoppedByCancel THEN Failing("cancelled") ELSE trial
     IN /\ trial' = settled
        /\ pc' = IF task.fileTask /\ settled.failed /\ settled.runner THEN "restore" ELSE "collect"
  /\ UNCHANGED <<task, cancel, loopVars, worldVars, outVars>>

RestoreWithheld ==
  /\ pc = "restore" /\ trial.status = "cleanup_unverified"
  /\ trial' = Failing("rollback_failed")
  /\ pc' = "collect"
  /\ UNCHANGED <<task, cancel, loopVars, worldVars, outVars>>

RestoreSucceeds ==
  /\ pc = "restore" /\ trial.status # "cleanup_unverified" /\ ~trial.dead
  /\ IF task.ssh THEN remote' = Current /\ UNCHANGED files
                 ELSE files' = [files EXCEPT ![Current] = "rendered"] /\ UNCHANGED remote
  /\ pc' = "collect"
  /\ UNCHANGED <<task, cancel, loopVars, trial, stray, outVars>>

RestoreFails ==
  /\ pc = "restore" /\ trial.status # "cleanup_unverified"
  /\ trial.dead \/ "restore" \in Faults
  /\ remote' \in {remote} \cup {c \in {NoConfig} : task.ssh /\ ~trial.dead}
  /\ trial' = Failing("rollback_failed")
  /\ pc' = "collect"
  /\ UNCHANGED <<task, cancel, loopVars, files, stray, outVars>>

(* The collector turns every failure into a record of its own; run_trial does *)
(* not look whether its last command could be stopped.                        *)
Collects ==
  /\ pc = "collect"
  /\ stray' \in {stray, stray \/ (task.collect /\ ~trial.failed /\ ~cancel /\ "stop" \in Faults)}
  /\ pc' = "patch"
  /\ UNCHANGED <<task, cancel, loopVars, trial, files, remote, outVars>>

(* ---- the controlled patch trial: one in a run, whatever the trial's status ---- *)

(* Wanted if it is configured and the template, which all configurations share,  *)
(* has the patch marker.                                                          *)
PatchWanted == task.patching /\ trial.runner /\ patch.config = NoConfig

\* No trial is wanted, or a command of the trial rewrote the kernel without the marker.
PatchSkipped ==
  /\ pc = "patch" /\ (PatchWanted => files[Current] # "rendered")
  /\ pc' = "close"
  /\ UNCHANGED <<task, cancel, loopVars, trial, worldVars, outVars>>

PatchIs(status) ==
  patch' = [config |-> Current, status |-> status, verified |-> FALSE]

PatchRejected ==
  /\ pc = "patch" /\ PatchWanted
  /\ PatchIs("validation_failed")
  /\ pc' = "close"
  /\ UNCHANGED <<task, cancel, loopVars, trial, worldVars, records, leaked, report, measured>>

PatchApplied ==
  /\ pc = "patch" /\ PatchWanted
  /\ files' = [files EXCEPT ![Current] = "patched"]
  /\ PatchIs("applied")
  /\ pc' = "compile"
  /\ UNCHANGED <<task, cancel, loopVars, trial, remote, stray, records, leaked, report, measured>>

PatchCompiles ==
  /\ pc = "compile"
  /\ pc' = "patchRun"
  /\ UNCHANGED <<task, cancel, loopVars, trial, worldVars, outVars>>

SyntaxFails ==
  /\ pc = "compile"
  /\ PatchIs("syntax_failed")
  /\ pc' = "rollback"
  /\ UNCHANGED <<task, cancel, loopVars, trial, worldVars, records, leaked, report, measured>>

(* Only PyCompileError is caught where the file can still be rolled back; a   *)
(* write of the patch that breaks off ends like this too.                     *)
CompileRaises ==
  /\ pc = "compile" /\ "local" \in Faults
  /\ PatchIs("validation_failed")
  /\ pc' = "close"
  /\ UNCHANGED <<task, cancel, loopVars, trial, worldVars, records, leaked, report, measured>>

(* build, correctness and benchmark of the patch, by the trial's runner *)
PatchRuns ==
  /\ pc = "patchRun"
  /\ \E status \in {"failed", "benchmark_ok"} : /\ trial.dead => status = "failed"
                                              /\ PatchIs(status)
  /\ stray' \in {stray, stray \/ task.ssh}
  /\ pc' = "rollback"
  /\ UNCHANGED <<task, cancel, loopVars, trial, files, remote, records, leaked, report, measured>>

RollsBack ==
  /\ pc = "rollback"
  /\ files' = [files EXCEPT ![Current] = "rendered"]
  /\ patch' = [patch EXCEPT !.verified = TRUE]
  /\ pc' = "close"
  /\ UNCHANGED <<task, cancel, loopVars, trial, remote, stray, records, leaked, report, measured>>

(* Mutant: the hash is not compared behind the copy. *)
RollbackTrusted ==
  /\ pc = "rollback" /\ "local" \in Faults
  /\ patch' = [patch EXCEPT !.verified = TRUE]
  /\ pc' = "close"
  /\ UNCHANGED <<task, cancel, loopVars, trial, worldVars, records, leaked, report, measured>>

RollbackFails ==
  /\ pc = "rollback" /\ "local" \in Faults
  /\ patch' = [patch EXCEPT !.status = "rolled_back"]
  /\ pc' = "close"
  /\ UNCHANGED <<task, cancel, loopVars, trial, worldVars, records, leaked, report, measured>>

(* ---- the end of a trial ---- *)

Closes ==
  /\ pc = "close"
  /\ trial' = [trial EXCEPT !.runner = FALSE]
  /\ pc' = "append"
  /\ UNCHANGED <<task, cancel, loopVars, worldVars, outVars>>

Entry == [config |-> Current, status |-> trial.status, value |-> trial.value]
SetupFailure == [config |-> Current, status |-> "candidate_setup_failed", value |-> NoValue]
Following == IF Current = Baseline THEN "iterate" ELSE "candidate"

(* Mutant: only measurements are kept. *)
SuccessRecorded ==
  /\ pc = "append"
  /\ records' = IF trial.failed THEN records ELSE Append(records, Entry)
  /\ trial' = NoTrial /\ pc' = Following
  /\ UNCHANGED <<task, cancel, loopVars, worldVars, patch, leaked, report, measured>>

Recorded ==
  /\ pc = "append"
  /\ records' = Append(records, Entry)
  /\ trial' = NoTrial /\ pc' = Following
  /\ UNCHANGED <<task, cancel, loopVars, worldVars, patch, leaked, report, measured>>

(* A local file error outside the try block leaves run_trial with its runner  *)
(* open; db.append may already have kept the record, and the record of the    *)
(* patch may be lost.  The baseline's error ends the run.                     *)
TrialRaises ==
  /\ pc \in {"deploy", "collect", "patch", "close", "append"} /\ "local" \in Faults
  /\ \/ records' = records
     \/ pc = "append" /\ records' = Append(records, Entry)
  /\ patch' = IF pc = "close" /\ patch.config = Current THEN NoPatch ELSE patch
  /\ leaked' = leaked + (IF trial.runner THEN 1 ELSE 0)
  /\ pc' = IF Current = Baseline THEN "raised" ELSE "setupFailed"
  /\ UNCHANGED <<task, cancel, loopVars, trial, worldVars, report, measured>>

FailureRecorded ==
  /\ pc = "setupFailed"
  /\ records' = Append(records, SetupFailure)
  /\ trial' = NoTrial /\ pc' = "candidate"
  /\ UNCHANGED <<task, cancel, loopVars, worldVars, patch, leaked, report, measured>>

FailureUnrecorded ==
  /\ pc = "setupFailed" /\ "local" \in Faults
  /\ records' \in {records, Append(records, SetupFailure)}
  /\ pc' = "raised"
  /\ UNCHANGED <<task, cancel, loopVars, trial, worldVars, patch, leaked, report, measured>>

(* ---- write_final_report ---- *)

Measurements == {i \in DOMAIN records :
                   records[i].status = "benchmark_ok" /\ records[i].value # NoValue}
Precedes(i, j) == \/ records[i].value < records[j].value
                  \/ records[i].value = records[j].value /\ i <= j
BestRecord == CHOOSE i \in Measurements : \A j \in Measurements : Precedes(i, j)

ReportWritten ==
  /\ pc = "report"
  /\ report' = IF Measurements = {} THEN NoReport
               ELSE LET best == records[BestRecord].config
                    IN [best |-> best, kernel |-> files[best]]
  /\ pc' = "done"
  /\ UNCHANGED <<task, cancel, loopVars, trial, worldVars, patch, records, leaked, measured>>

ReportRaises ==
  /\ pc = "report" /\ "local" \in Faults
  /\ pc' = "raised"
  /\ UNCHANGED <<task, cancel, loopVars, trial, worldVars, outVars>>

(* ---- the environment ---- *)

Cancel ==
  /\ ~cancel /\ pc \notin {"done", "raised"}
  /\ cancel' = TRUE
  /\ UNCHANGED <<task, pc, loopVars, trial, worldVars, outVars>>

StrayEnds ==
  /\ stray /\ stray' = FALSE
  /\ UNCHANGED <<task, cancel, pc, loopVars, trial, files, remote, outVars>>

Terminated == pc \in {"done", "raised"} /\ UNCHANGED vars

Worker ==
  \/ BaselineSkipped \/ BaselineStarts \/ IterationStarts \/ SearchEnds \/ CandidateStarts \/ BatchEnds
  \/ Deployed \/ DeployFails \/ CommandRefused \/ CommandStarts \/ CommandPasses \/ BenchmarkPasses
  \/ CommandFails \/ CommandTimesOut \/ StopUnverified \/ LinkBreaks \/ AuditFails
  \/ Settles \/ RestoreWithheld \/ RestoreSucceeds \/ RestoreFails \/ Collects
  \/ PatchSkipped \/ PatchRejected \/ PatchApplied \/ PatchCompiles \/ SyntaxFails \/ CompileRaises
  \/ PatchRuns \/ RollsBack \/ RollbackFails
  \/ Closes \/ Recorded \/ TrialRaises \/ FailureRecorded \/ FailureUnrecorded
  \/ ReportWritten \/ ReportRaises

Next == Worker \/ Cancel \/ StrayEnds \/ Terminated

(* The worker is a thread of the server.  Every command has a timeout, and what    *)
(* ManagedCommand shows to defeat it stays away.                                   *)
Spec == Init /\ [][Next]_vars /\ WF_vars(Worker)

(* ---- properties ---- *)

Statuses == {"none", "deploy_failed", "cancelled", "failed", "cleanup_unverified", "benchmark_ok",
             "rollback_failed", "candidate_setup_failed"}
Contents == {"none", "rendered", "patched", "altered"}

Trials == [config: Configs \cup {NoConfig}, status: Statuses, failed: BOOLEAN,
           value: Values \cup {NoValue}, stage: {"none", "build", "correctness", "benchmark"},
           last: {"none", "clean", "bad", "stopped"}, runner: BOOLEAN, dead: BOOLEAN]
Patches == [config: Configs \cup {NoConfig}, verified: BOOLEAN,
            status: {"none", "validation_failed", "applied", "syntax_failed", "failed",
                     "benchmark_ok", "rolled_back"}]
Records == [config: Configs, status: Statuses, value: Values \cup {NoValue}]
TrialSteps == {"deploy", "command", "running", "settle", "restore", "collect", "patch", "compile",
               "patchRun", "rollback", "close", "append"}

(* Every variable keeps its type. *)
TypeOK ==
  /\ task \in Requests /\ cancel \in BOOLEAN /\ stray \in BOOLEAN
  /\ pc \in TrialSteps \cup {"baseline", "iterate", "candidate", "setupFailed", "report", "done", "raised"}
  /\ iteration \in 0..MaxIterations
  /\ batch \subseteq Configs /\ tried \subseteq Configs /\ batch \cap tried = {}
  /\ trial \in Trials /\ patch \in Patches
  /\ files \in [Configs -> Contents] /\ measured \in [Configs -> Contents]
  /\ remote \in Configs \cup {NoConfig}
  /\ records \in Seq(Records)
  /\ leaked \in Nat
  /\ report \in [best: Configs \cup {NoConfig}, kernel: Contents]

(* best_kernel.py is the text that was measured for the best record, and no   *)
(* recorded measurement is better, unless the record of the patch trial says  *)
(* that its rollback was not verified; without a best there was no            *)
(* measurement (report_writer.py:107-127, main.py:330-545).                   *)
BestIsMeasured ==
  pc = "done" =>
    IF report.best = NoConfig THEN Measurements = {}
    ELSE /\ \E i \in Measurements : /\ records[i].config = report.best
                                    /\ \A j \in Measurements : records[i].value <= records[j].value
         /\ \/ report.kernel = measured[report.best]
            \/ patch.config = report.best /\ ~patch.verified

(* Between two trials every configuration that was tried has a record, and a  *)
(* second one only to say that its trial broke off; a runner is left open     *)
(* only by such a trial, or by one that ends the run (main.py:575-640).       *)
EveryTrialRecorded ==
  /\ pc \in {"iterate", "candidate", "report", "done"} =>
       tried = {records[i].config : i \in DOMAIN records}
                 \cup {c \in {Baseline} : cancel /\ records = <<>>}
  /\ \A i, j \in DOMAIN records :
       i < j /\ records[i].config = records[j].config => records[j].status = "candidate_setup_failed"
  /\ leaked <= Cardinality({i \in DOMAIN records : records[i].status = "candidate_setup_failed"})
                 + (IF pc \in {"setupFailed", "raised"} THEN 1 ELSE 0)

(* Behind the clean-up of a file task's trial the workspace is the baseline   *)
(* and no command of the trial runs, or the status says rollback_failed       *)
(* (main.py:399-425); a runner that was never built cleans up nothing.        *)
SettledTaskLeavesBaseline ==
  task.fileTask /\ pc \in {"collect", "patch", "close"} /\ trial.runner /\ trial.status # "rollback_failed" =>
    /\ IF task.ssh THEN remote = Current ELSE files[Current] = "rendered"
    /\ pc = "collect" => ~stray

(* Every run writes its report or raises. *)
RunEnds == <>(pc \in {"done", "raised"})

==============================================================================
