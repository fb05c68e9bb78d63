-------------------------- MODULE VersionExecution --------------------------
(***************************************************************************)
(* One strict execution of one source version on the execution workspace:  *)
(* _execute_version of source_optimizer/engine.py, the profiler collection *)
(* that follows it, and the restore that undoes it.  The three callers     *)
(* (baseline, candidate, parent recheck) are the roles.                    *)
(*                                                                         *)
(* The execution workspace is the remote directory an SSH runner uploads   *)
(* every version into, so there is a single one for the whole task.  The   *)
(* cancel flag is TaskRecord.cancel_requested, set by the HTTP thread at   *)
(* any moment and read by the worker thread at the places the code reads   *)
(* it.  The bytes of a version are a model value, and its manifest of      *)
(* hashes is the version itself.                                           *)
(***************************************************************************)
EXTENDS Naturals

CONSTANTS Versions,  \* source versions of the kernel entry file
          Unknown,   \* workspace bytes that are no version: foreign, partial, edited
          Repeats,   \* source_optimization.benchmark_repeats
          Faults     \* which environment faults may happen, a subset of FaultKinds

FaultKinds == {"deploy", "audit", "restore", "stop", "link", "local"}

ASSUME UnknownIsNoVersion == Unknown \notin Versions
ASSUME RepeatsPositive == Repeats \in Nat \ {0}
ASSUME FaultsKnown == Faults \subseteq FaultKinds

VARIABLES cancelRequested,  \* the task's cooperative cancel flag
          task,             \* the request: entry source and the switches the code tests
          workspace,        \* bytes of the execution workspace
          runaway,          \* role whose command may still run after an unverified stop
          exec,             \* the _ExecutionOutcome under construction, and where it stands
          lateCommands      \* history: commands started after the cancel request

requestVars == <<cancelRequested, task>>
execVars == <<workspace, runaway, exec, lateCommands>>

-----------------------------------------------------------------------------
Roles == {"baseline", "candidate", "recheck"}
Commands == {"build", "correctness", "benchmark"}
Stages == {"entry", "deploy", "profiler", "tools", "collection", "returned"} \union Commands
Failures == {"validation_failed", "build_failed", "correctness_failed", "benchmark_failed"}
OutcomeStatus == {"benchmark_ok", "cancelled"} \union Failures
Contents == Versions \union {Unknown}
MaxLate == 3  \* where the history counter saturates

TaskRecords == [source: Versions, fileTask: BOOLEAN, build: BOOLEAN, profiler: BOOLEAN]
Executions == [role: Roles, version: Versions, stage: Stages, repeat: 0..Repeats,
               status: OutcomeStatus, runner: BOOLEAN, restoreAllowed: BOOLEAN]

ExecTypeOK ==
    /\ cancelRequested \in BOOLEAN
    /\ task \in TaskRecords
    /\ workspace \in Contents
    /\ runaway \in Roles \union {"none"}
    /\ exec \in Executions
    /\ lateCommands \in 0..MaxLate

\* A call of _execute_version: a fresh _ExecutionOutcome.
Call(role, version) ==
    [role |-> role, version |-> version, stage |-> "entry", repeat |-> 0,
     status |-> "benchmark_ok", runner |-> FALSE, restoreAllowed |-> TRUE]

Return(status) == exec' = [exec EXCEPT !.stage = "returned", !.status = status]

FailureOf(stage) ==
    CASE stage = "build" -> "build_failed"
      [] stage = "correctness" -> "correctness_failed"
      [] stage = "benchmark" -> "benchmark_failed"

\* A step that starts a command of the request, or the profiler's, counts it when
\* the user has already asked for the stop.
CountStart ==
    lateCommands' = IF cancelRequested /\ lateCommands < MaxLate
                    THEN lateCommands + 1 ELSE lateCommands

Unchecked(next) == exec' = next /\ CountStart  \* mutant: the cancel check is missing

\* A cancel check, and the command it guards if it passes.
Checked(next) ==
    IF cancelRequested
    THEN exec' = [exec EXCEPT !.runner = next.runner, !.stage = "returned", !.status = "cancelled"]
         /\ UNCHANGED lateCommands
    ELSE exec' = next /\ CountStart

\* The bytes a command can leave behind: what was there, or an edited tree.
\* An upload that fails may have cleared or half written the directory.
Disturbed == {workspace, Unknown}

-----------------------------------------------------------------------------
\* The cancel check before anything touches the workspace.
EntryCancelled ==
    /\ exec.stage = "entry" /\ cancelRequested
    /\ Return("cancelled")
    /\ UNCHANGED <<workspace, runaway, lateCommands>>

\* A file task whose protected files changed on disk is refused before a runner exists.
EntryProtectedChanged ==
    /\ exec.stage = "entry" /\ ~cancelRequested
    /\ task.fileTask /\ "local" \in Faults
    /\ Return("validation_failed")
    /\ UNCHANGED <<workspace, runaway, lateCommands>>

EntryPasses ==
    /\ exec.stage = "entry" /\ ~cancelRequested
    /\ exec' = [exec EXCEPT !.stage = "deploy"]
    /\ UNCHANGED <<workspace, runaway, lateCommands>>

\* build_runner raises: no runner, and the upload may have started.
DeployRaises ==
    /\ exec.stage = "deploy" /\ "deploy" \in Faults
    /\ workspace' \in Disturbed
    /\ Return("validation_failed")
    /\ UNCHANGED <<runaway, lateCommands>>

\* The runner exists, but the before_build audit finds other bytes or fails.
DeployAuditFails ==
    /\ exec.stage = "deploy" /\ ("audit" \in Faults \/ runaway # "none")
    /\ workspace' \in {exec.version, Unknown}
    /\ exec' = [exec EXCEPT !.stage = "returned", !.status = "validation_failed", !.runner = TRUE]
    /\ UNCHANGED <<runaway, lateCommands>>

\* The version is on the workspace and audited.  A configured build starts
\* without another cancel check; without one the check before correctness is next.
DeployBuilds ==
    /\ exec.stage = "deploy" /\ task.build
    /\ workspace' = exec.version
    /\ exec' = [exec EXCEPT !.stage = "build", !.runner = TRUE]
    /\ CountStart
    /\ UNCHANGED runaway

DeployWithoutBuild ==
    /\ exec.stage = "deploy" /\ ~task.build
    /\ workspace' = exec.version
    /\ Checked([exec EXCEPT !.runner = TRUE, !.stage = "correctness"])
    /\ UNCHANGED runaway

-----------------------------------------------------------------------------
\* run_cancellable could not confirm that the process group is gone, after a
\* cancel, a timeout or an exception: no restore may follow.
CommandStopUnverified ==
    /\ exec.stage \in Commands /\ "stop" \in Faults
    /\ workspace' \in Disturbed
    /\ runaway' = exec.role
    /\ exec' = [exec EXCEPT !.stage = "returned", !.status = "validation_failed",
                            !.restoreAllowed = FALSE]
    /\ UNCHANGED lateCommands

\* The connection breaks for good under a command: exit code -1 without the mark of
\* an unverified stop, so restore_allowed stays TRUE, but the audit fails and the
\* runner answers nobody any more.
CommandLost ==
    /\ exec.stage \in Commands \union {"collection"} /\ "link" \in Faults
    /\ workspace' \in Disturbed
    /\ runaway' = exec.role
    /\ exec' = [exec EXCEPT !.stage = "returned", !.status = "validation_failed", !.runner = FALSE]
    /\ UNCHANGED lateCommands

\* The audit after every command comes before its exit code is looked at.
CommandAuditFails ==
    /\ exec.stage \in Commands /\ ("audit" \in Faults \/ workspace # exec.version)
    /\ workspace' \in Disturbed
    /\ Return("validation_failed")
    /\ UNCHANGED <<runaway, lateCommands>>

\* Exit code 130 with the flag set: the cancelled command is known to have stopped.
CommandInterrupted ==
    /\ exec.stage \in Commands /\ cancelRequested
    /\ workspace = exec.version
    /\ Return("cancelled")
    /\ UNCHANGED <<workspace, runaway, lateCommands>>

\* Non-zero exit, verified timeout, guard denial, or a result record that is
\* missing or invalid.
CommandFails ==
    /\ exec.stage \in Commands
    /\ workspace = exec.version
    /\ Return(FailureOf(exec.stage))
    /\ UNCHANGED <<workspace, runaway, lateCommands>>

\* A command that passed, followed by the check in front of the next one.
CommandPasses(stage, next) ==
    /\ exec.stage = stage
    /\ workspace = exec.version
    /\ Checked([exec EXCEPT !.stage = next])
    /\ UNCHANGED <<workspace, runaway>>

BuildPasses == CommandPasses("build", "correctness")

CorrectnessPasses == CommandPasses("correctness", "benchmark")

BenchmarkRepeats ==
    /\ exec.stage = "benchmark" /\ exec.repeat + 1 < Repeats
    /\ workspace = exec.version
    /\ Checked([exec EXCEPT !.repeat = @ + 1])
    /\ UNCHANGED <<workspace, runaway>>

\* The last repeat returns without a cancel check.  The profiler collection
\* follows for the baseline and for candidates, never for the recheck.
BenchmarkFinishes ==
    /\ exec.stage = "benchmark" /\ exec.repeat + 1 = Repeats
    /\ workspace = exec.version
    /\ exec' = [exec EXCEPT !.repeat = @ + 1,
                            !.stage = IF task.profiler /\ exec.role # "recheck"
                                      THEN "profiler" ELSE "returned"]
    /\ UNCHANGED <<workspace, runaway, lateCommands>>

-----------------------------------------------------------------------------
\* The collector's own cancel check, then tool checks, then the collection.
ProfilerEnters ==
    /\ exec.stage = "profiler" /\ ~cancelRequested
    /\ exec' = [exec EXCEPT !.stage = "tools"]
    /\ UNCHANGED <<workspace, runaway, lateCommands>>

ProfilerStarts ==
    /\ exec.stage = "tools"
    /\ exec' = [exec EXCEPT !.stage = "collection"]
    /\ CountStart
    /\ UNCHANGED <<workspace, runaway>>

\* Cancelled before it began, tool missing, collected, failed or interrupted
\* with a verified stop: the measurement stands and the audit decides.  A record that
\* cannot be written leaves the engine instead (EngineRaises of SourceOptimizer).
ProfilerAudited(ok) ==
    /\ \/ exec.stage = "profiler" /\ cancelRequested
       \/ exec.stage \in {"tools", "collection"}
    /\ IF ok THEN workspace = exec.version /\ UNCHANGED workspace
             ELSE /\ "audit" \in Faults \/ workspace # exec.version
                  /\ workspace' \in Disturbed
    /\ Return(IF ok THEN "benchmark_ok" ELSE "validation_failed")
    /\ UNCHANGED <<runaway, lateCommands>>

ProfilerStopUnverified ==
    /\ exec.stage = "collection" /\ "stop" \in Faults
    /\ workspace' \in Disturbed
    /\ runaway' = exec.role
    /\ exec' = [exec EXCEPT !.stage = "returned", !.status = "validation_failed",
                            !.restoreAllowed = FALSE]
    /\ UNCHANGED lateCommands

-----------------------------------------------------------------------------
\* _execute_version with the collection that follows it.
ExecStep ==
    \/ EntryCancelled \/ EntryProtectedChanged \/ EntryPasses
    \/ DeployRaises \/ DeployAuditFails \/ DeployBuilds \/ DeployWithoutBuild
    \/ CommandStopUnverified \/ CommandLost \/ CommandAuditFails \/ CommandInterrupted \/ CommandFails
    \/ BuildPasses \/ CorrectnessPasses \/ BenchmarkRepeats \/ BenchmarkFinishes
    \/ ProfilerEnters \/ ProfilerStarts \/ ProfilerStopUnverified
    \/ \E ok \in BOOLEAN : ProfilerAudited(ok)

\* A command nobody could stop keeps writing to the workspace.
RunawayWrites ==
    /\ runaway # "none" /\ workspace # Unknown
    /\ workspace' = Unknown
    /\ UNCHANGED <<runaway, exec, lateCommands>>

\* _restore_execution_workspace: upload the snapshot, then audit it.  Without a
\* runner it raises at once.  ok is the boolean it returns.
Restore(hasRunner, snapshot, ok) ==
    IF ~hasRunner THEN ~ok /\ UNCHANGED workspace
    ELSE IF ok THEN workspace' = snapshot
    ELSE "restore" \in Faults /\ workspace' \in Disturbed \union {snapshot}

RedeployUnaudited(snapshot, ok) ==  \* mutant: the audit's answer is not used
    workspace' \in IF "restore" \in Faults THEN Disturbed \union {snapshot} ELSE {snapshot}

\* A fresh runner that uploads the snapshot, and the audit of what it finds.
Redeploy(snapshot, ok) == Restore(TRUE, snapshot, ok)

=============================================================================
