----------------------------- MODULE TaskService -----------------------------
(***************************************************************************)
(* The task service around the optimisation engine: the HTTP threads of    *)
(* server/app.py that open, use and delete SSH sessions and submit tasks,   *)
(* the task records of TaskManager, and one daemon thread of JobWorker per *)
(* task.  Tasks share the WORKER_LOCK slot; a task and the HTTP threads    *)
(* share the connection of a session under its operation lock.  What the   *)
(* engine does to sources and files is SourceOptimizer; here it returns or *)
(* raises.                                                                 *)
(***************************************************************************)
EXTENDS SSHSessions

CONSTANTS Kinds,  \* the kinds of request to consider
          Nobody  \* no thread

\* Nobody and the user are no threads of the service.
ASSUME NobodyHoldsNothing == Nobody \notin Holders /\ "user" \notin Holders /\ Nobody # "user"

\* Only a file task opens a session of its own; a detection always names one.
ASSUME KindsValid ==
    /\ Kinds \subseteq [detect: BOOLEAN, ssh: {"user", "own", "no"}, optimise: BOOLEAN, fileTask: BOOLEAN]
    /\ \A k \in Kinds : (k.detect => k.ssh = "user") /\ (k.ssh = "own" => k.fileTask /\ ~k.detect)

VARIABLES step,         \* where the thread that serves each request stands
          request,      \* what each request asks for
          owner,        \* who asked for each session: a request, or the user
          workerLock,   \* WORKER_LOCK
          operation,    \* operation_lock of each session
          runner,       \* whose settings the shared SSHRunner of each session carries
          status,       \* TaskRecord.status
          cancelled,    \* TaskRecord.cancel_requested, with when it was first set
          sourceResult  \* status in results/source_optimization.json, "none" without the file

taskVars == <<status, cancelled, sourceResult>>
threadVars == <<step, request, owner>>
lockVars == <<workerLock, operation, runner>>
vars == <<storeVars, threadVars, lockVars, taskVars>>

-----------------------------------------------------------------------------
Requested == [kind: Kinds, session: Sessions \union {NoSession}]

HttpSteps == {"new", "opening", "acquiring", "selecting", "querying", "releasing", "deleting",
              "submitting", "ended"}
WaitingSteps == {"queued", "slot", "preparing"}
RunningSteps == {"configuring", "preflight", "searching", "measuring", "searched", "bound",
                 "optimising", "finishing"}
LateSteps == {"reporting", "leaving", "refusing", "returning"}
Steps == HttpSteps \union WaitingSteps \union {"binding"} \union RunningSteps \union LateSteps

TaskStatus == {"absent", "pending", "running", "completed", "failed", "cancelled"}
TerminalStatus == {"completed", "failed", "cancelled"}
SourceStatus == {"none", "unavailable", "running", "completed", "failed", "cancelled"}
CancelTimes == {"never", "waiting", "running", "late"}
RunnerSettings == [workspace: Holders \union {Nobody}, timeout: Holders \union {Nobody}]

TypeOK ==
    /\ StoreTypeOK
    /\ step \in [Holders -> Steps]
    /\ \A r \in Holders : step[r] # "new" => request[r] \in Requested
    /\ owner \in [Sessions -> Holders \union {Nobody, "user"}]
    /\ workerLock \in Holders \union {Nobody}
    /\ operation \in [Sessions -> Holders \union {Nobody}]
    /\ runner \in [Sessions -> RunnerSettings]
    /\ status \in [Holders -> TaskStatus]
    /\ cancelled \in [Holders -> CancelTimes]
    /\ sourceResult \in [Holders -> SourceStatus]

Init ==
    /\ StoreInit
    /\ step = [r \in Holders |-> "new"]
    /\ request = [r \in Holders |-> Nobody]
    /\ owner = [s \in Sessions |-> Nobody]
    /\ workerLock = Nobody
    /\ operation = [s \in Sessions |-> Nobody]
    /\ runner = [s \in Sessions |-> [workspace |-> Nobody, timeout |-> Nobody]]
    /\ status = [r \in Holders |-> "absent"]
    /\ cancelled = [r \in Holders |-> "never"]
    /\ sourceResult = [r \in Holders |-> "none"]

Kind(r) == request[r].kind
SessionOf(r) == request[r].session
HasSession(r) == SessionOf(r) # NoSession
CancelRequested(r) == cancelled[r] # "never"

Goes(r, from, to) == step[r] = from /\ step' = [step EXCEPT ![r] = to]
Asks(r, kind, s) == request' = [request EXCEPT ![r] = [kind |-> kind, session |-> s]]
SetStatus(r, value) == status' = [status EXCEPT ![r] = value]
WriteResult(r, value) ==
    sourceResult' = IF Kind(r).optimise THEN [sourceResult EXCEPT ![r] = value] ELSE sourceResult
Configures(r, field) ==
    runner' = IF HasSession(r) THEN [runner EXCEPT ![SessionOf(r)][field] = r] ELSE runner

-----------------------------------------------------------------------------
(* HTTP threads                                                            *)

\* POST and DELETE /api/ssh/sessions.
UserConnects(s) ==
    /\ owner[s] = Nobody /\ Connect(s)
    /\ owner' = [owner EXCEPT ![s] = "user"]
    /\ UNCHANGED <<step, request, lockVars, taskVars>>

UserDeletes(s) ==
    /\ owner[s] = "user" /\ Delete(s)
    /\ UNCHANGED <<threadVars, lockVars, taskVars>>

\* A request names a session the user was given, whatever became of it since.
ArrivesOnSession(r, kind, s) ==
    /\ kind.ssh = "user" /\ owner[s] = "user" /\ sessions[s].phase \in {"listed", "dropped"}
    /\ Goes(r, "new", "acquiring") /\ Asks(r, kind, s)
    /\ UNCHANGED <<storeVars, owner, lockVars, taskVars>>

\* A file task without a session opens one from the saved settings.
ArrivesWithSettings(r, kind, s) ==
    /\ kind.ssh = "own" /\ owner[s] = Nobody /\ Connect(s)
    /\ Goes(r, "new", "opening") /\ Asks(r, kind, s)
    /\ owner' = [owner EXCEPT ![s] = r]
    /\ UNCHANGED <<lockVars, taskVars>>

ArrivesWithoutSsh(r, kind) ==
    /\ kind.ssh = "no"
    /\ Goes(r, "new", "submitting") /\ Asks(r, kind, NoSession)
    /\ UNCHANGED <<storeVars, owner, lockVars, taskVars>>

SessionOpened(r) ==
    /\ Goes(r, "opening", "acquiring") /\ sessions[SessionOf(r)].phase = "listed"
    /\ UNCHANGED <<storeVars, request, owner, lockVars, taskVars>>

SessionRefused(r) ==
    /\ Goes(r, "opening", "ended") /\ sessions[SessionOf(r)].phase = "dropped"
    /\ UNCHANGED <<storeVars, request, owner, lockVars, taskVars>>

LeaseGranted(r) ==
    /\ Goes(r, "acquiring", "selecting") /\ Acquire(r, SessionOf(r))
    /\ UNCHANGED <<request, owner, lockVars, taskVars>>

NoCleanUp(r) == "ended"  \* mutant: the session opened for the request stays listed

\* The finally clause deletes the session a request opened for itself.
CleanUp(r) == IF owner[SessionOf(r)] = r /\ Listed(SessionOf(r)) THEN "deleting" ELSE "ended"

LeaseExpired(r) ==
    /\ Goes(r, "acquiring", CleanUp(r)) /\ AcquireExpired(SessionOf(r))
    /\ UNCHANGED <<request, owner, lockVars, taskVars>>

LeaseUnknown(r) ==
    /\ Goes(r, "acquiring", "ended") /\ ~Listed(SessionOf(r))
    /\ UNCHANGED <<storeVars, request, owner, lockVars, taskVars>>

\* Detection and device selection query the machine through the shared runner.
TakesRunner(r) ==
    /\ Goes(r, "selecting", "querying") /\ operation[SessionOf(r)] = Nobody
    /\ operation' = [operation EXCEPT ![SessionOf(r)] = r]
    /\ Configures(r, "timeout")
    /\ UNCHANGED <<storeVars, request, owner, workerLock, taskVars>>

\* A detection is over, or a device was selected, or not.
Queried(r, ok) ==
    /\ Goes(r, "querying", IF Kind(r).detect \/ ~ok THEN "releasing"
                           ELSE IF owner[SessionOf(r)] = r THEN "deleting" ELSE "submitting")
    /\ operation' = [operation EXCEPT ![SessionOf(r)] = Nobody]
    /\ UNCHANGED <<storeVars, request, owner, workerLock, runner, taskVars>>

RequestReleases(r) ==
    /\ Goes(r, "releasing", CleanUp(r)) /\ Release(r)
    /\ UNCHANGED <<request, owner, lockVars, taskVars>>

DeletesOwn(r) ==
    /\ Goes(r, "deleting", IF lease[r] # NoSession THEN "submitting" ELSE "ended")
    /\ Delete(SessionOf(r))
    /\ UNCHANGED <<request, owner, lockVars, taskVars>>

\* The record is created and the worker thread started with the lease.
Submitted(r) ==
    /\ Goes(r, "submitting", "queued")
    /\ SetStatus(r, "pending")
    /\ UNCHANGED <<storeVars, request, owner, lockVars, cancelled, sourceResult>>

\* A record that manager.create left pending has no thread behind it and is not followed.
SubmitRaises(r) ==
    /\ Goes(r, "submitting", IF lease[r] # NoSession THEN "releasing" ELSE "ended")
    /\ UNCHANGED <<storeVars, request, owner, lockVars, taskVars>>

\* POST /api/tasks/{task_id}/cancel, at any time, also after the task ended.
RequestCancel(r) ==
    /\ status[r] # "absent" /\ ~CancelRequested(r)
    /\ cancelled' = [cancelled EXCEPT ![r] = IF step[r] \in WaitingSteps THEN "waiting"
                                             ELSE IF step[r] \in RunningSteps \union {"binding"}
                                             THEN "running" ELSE "late"]
    /\ UNCHANGED <<storeVars, threadVars, lockVars, status, sourceResult>>

HttpStep(r) ==
    \/ SessionOpened(r) \/ SessionRefused(r)
    \/ LeaseGranted(r) \/ LeaseExpired(r) \/ LeaseUnknown(r)
    \/ TakesRunner(r) \/ (\E ok \in BOOLEAN : Queried(r, ok))
    \/ RequestReleases(r) \/ DeletesOwn(r) \/ Submitted(r) \/ SubmitRaises(r)

-----------------------------------------------------------------------------
(* Worker threads                                                          *)

TakesSlot(r) ==
    /\ Goes(r, "queued", "slot") /\ workerLock = Nobody
    /\ workerLock' = r
    /\ UNCHANGED <<storeVars, request, owner, operation, runner, taskVars>>

TakesSlotOnly(r) ==  \* mutant: the worker does not take the operation lock
    /\ Goes(r, "slot", "preparing")
    /\ UNCHANGED <<storeVars, request, owner, lockVars, taskVars>>

TakesOperation(r) ==
    /\ Goes(r, "slot", "preparing")
    /\ IF HasSession(r)
       THEN operation[SessionOf(r)] = Nobody
            /\ operation' = [operation EXCEPT ![SessionOf(r)] = r]
       ELSE UNCHANGED operation
    /\ UNCHANGED <<storeVars, request, owner, workerLock, runner, taskVars>>

CancelledAndPrepared(r) ==  \* mutant: the return after the cancelled status is missing
    /\ CancelRequested(r) /\ Goes(r, "preparing", "binding")
    /\ SetStatus(r, "cancelled") /\ WriteResult(r, "cancelled")
    /\ UNCHANGED <<storeVars, request, owner, lockVars, cancelled>>

\* Cancelled while it waited for the slot: nothing touches the machine.
CancelledBeforeStart(r) ==
    /\ CancelRequested(r) /\ Goes(r, "preparing", "leaving")
    /\ SetStatus(r, "cancelled") /\ WriteResult(r, "cancelled")
    /\ UNCHANGED <<storeVars, request, owner, lockVars, cancelled>>

StartsPreparing(r) ==
    /\ ~CancelRequested(r) /\ Goes(r, "preparing", "binding")
    /\ UNCHANGED <<storeVars, request, owner, lockVars, taskVars>>

\* prepare_task points the runner at the task's own remote workspace.
Prepared(r) ==
    /\ Goes(r, "binding", "configuring")
    /\ Configures(r, "workspace")
    /\ SetStatus(r, "running")
    /\ UNCHANGED <<storeVars, request, owner, workerLock, operation, cancelled, sourceResult>>

UnlocksSlotOnly(r) ==  \* mutant: the operation lock is kept
    workerLock' = Nobody /\ UNCHANGED operation

Unlocks(r) ==
    /\ workerLock' = Nobody
    /\ operation' = IF HasSession(r) THEN [operation EXCEPT ![SessionOf(r)] = Nobody] ELSE operation

\* prepare_task raises before or after it redirects the runner; the status is set
\* once the locks are gone.
PrepareRaises(r) ==
    /\ Goes(r, "binding", "refusing") /\ HasSession(r)
    /\ UNCHANGED runner \/ Configures(r, "workspace")
    /\ Unlocks(r)
    /\ UNCHANGED <<storeVars, request, owner, taskVars>>

PrepareFailureRecorded(r) ==
    /\ Goes(r, "refusing", "returning")
    /\ SetStatus(r, "failed")
    /\ UNCHANGED <<storeVars, request, owner, lockVars, cancelled, sourceResult>>

\* The configuration is built; an optimisation task's result file says running, or
\* unavailable when the source has no target.
Configured(r, targets) ==
    /\ Goes(r, "configuring", IF Kind(r).fileTask THEN "preflight" ELSE "searching")
    /\ WriteResult(r, IF targets THEN "running" ELSE "unavailable")
    /\ UNCHANGED <<storeVars, request, owner, lockVars, status, cancelled>>

PreflightPasses(r) ==
    /\ ~CancelRequested(r) /\ Goes(r, "preflight", "searching")
    /\ Configures(r, "timeout")
    /\ UNCHANGED <<storeVars, request, owner, workerLock, operation, taskVars>>

PreflightCancelled(r) ==
    /\ CancelRequested(r) /\ Goes(r, "preflight", "leaving")
    /\ SetStatus(r, "cancelled") /\ WriteResult(r, "cancelled")
    /\ UNCHANGED <<storeVars, request, owner, lockVars, cancelled>>

\* agent_main.run measures the baseline on a runner of its own settings, unless
\* the task is cancelled already.
SearchStarts(r) ==
    /\ ~CancelRequested(r) /\ Goes(r, "searching", "measuring")
    /\ Configures(r, "timeout")
    /\ UNCHANGED <<storeVars, request, owner, workerLock, operation, taskVars>>

SearchSkipped(r) ==
    /\ CancelRequested(r) /\ Goes(r, "searching", "searched")
    /\ UNCHANGED <<storeVars, request, owner, lockVars, taskVars>>

SearchEnds(r) ==
    /\ Goes(r, "measuring", "searched")
    /\ UNCHANGED <<storeVars, request, owner, lockVars, taskVars>>

\* Only a file task stops here; another one reaches the engine with the flag set.
CancelledInBaseline(r) ==
    /\ Goes(r, "searched", "leaving") /\ Kind(r).fileTask /\ CancelRequested(r)
    /\ SetStatus(r, "cancelled") /\ WriteResult(r, "cancelled")
    /\ UNCHANGED <<storeVars, request, owner, lockVars, cancelled>>

BaselineAccepted(r) ==
    /\ Goes(r, "searched", "bound")
    /\ ~Kind(r).fileTask \/ ~CancelRequested(r)
    /\ UNCHANGED <<storeVars, request, owner, lockVars, taskVars>>

DeviceVerified(r) ==
    /\ Goes(r, "bound", IF sourceResult[r] = "running" THEN "optimising" ELSE "finishing")
    /\ UNCHANGED <<storeVars, request, owner, lockVars, taskVars>>

EngineOutcomes(r) ==
    {"completed", "failed", "unavailable"} \union IF CancelRequested(r) THEN {"cancelled"} ELSE {}

\* What run_source_optimization returned is on disk; a failure or a cancel is final.  Only
\* an event is added in between.
EngineReturns(r, outcome) ==
    /\ Goes(r, "optimising", IF outcome \in {"failed", "cancelled"} THEN "leaving" ELSE "finishing")
    /\ WriteResult(r, outcome)
    /\ IF outcome \in {"failed", "cancelled"} THEN SetStatus(r, outcome) ELSE UNCHANGED status
    /\ UNCHANGED <<storeVars, request, owner, lockVars, cancelled>>

PassesUnchecked(r) ==  \* mutant: the last cancel check is missing
    /\ Goes(r, "finishing", "reporting")
    /\ UNCHANGED <<storeVars, request, owner, lockVars, taskVars>>

\* The last check of the flag.
PassesFinalCheck(r) ==
    /\ ~CancelRequested(r) /\ Goes(r, "finishing", "reporting")
    /\ UNCHANGED <<storeVars, request, owner, lockVars, taskVars>>

FinishCancelled(r) ==
    /\ CancelRequested(r) /\ Goes(r, "finishing", "leaving")
    /\ SetStatus(r, "cancelled")
    /\ UNCHANGED <<storeVars, request, owner, lockVars, cancelled, sourceResult>>

Completed(r) ==
    /\ Goes(r, "reporting", "leaving")
    /\ SetStatus(r, "completed")
    /\ UNCHANGED <<storeVars, request, owner, lockVars, cancelled, sourceResult>>

RaisesSilently(r) ==  \* mutant: the result file is not rewritten
    /\ step[r] \in RunningSteps \union {"reporting"}
    /\ step' = [step EXCEPT ![r] = "leaving"]
    /\ SetStatus(r, "failed")
    /\ UNCHANGED <<storeVars, request, owner, lockVars, cancelled, sourceResult>>

\* An exception anywhere in _run_task_locked fails the task and its result file.
Raises(r) ==
    /\ step[r] \in RunningSteps \union {"reporting"}
    /\ step' = [step EXCEPT ![r] = "leaving"]
    /\ SetStatus(r, "failed") /\ WriteResult(r, "failed")
    /\ UNCHANGED <<storeVars, request, owner, lockVars, cancelled>>

Leaves(r) ==
    /\ Goes(r, "leaving", "returning")
    /\ Unlocks(r)
    /\ UNCHANGED <<storeVars, request, owner, runner, taskVars>>

WorkerEnds(r) ==  \* mutant: the finally clause does not release the lease
    /\ Goes(r, "returning", "ended")
    /\ UNCHANGED <<storeVars, request, owner, lockVars, taskVars>>

\* The finally clause of _run_task.
WorkerReleases(r) ==
    /\ Goes(r, "returning", "ended")
    /\ IF lease[r] # NoSession THEN Release(r) ELSE UNCHANGED storeVars
    /\ UNCHANGED <<request, owner, lockVars, taskVars>>

WorkerStep(r) ==
    \/ TakesSlot(r) \/ TakesOperation(r)
    \/ CancelledBeforeStart(r) \/ StartsPreparing(r)
    \/ Prepared(r) \/ PrepareRaises(r) \/ PrepareFailureRecorded(r)
    \/ (\E targets \in BOOLEAN : Configured(r, targets))
    \/ PreflightPasses(r) \/ PreflightCancelled(r)
    \/ SearchStarts(r) \/ SearchSkipped(r) \/ SearchEnds(r)
    \/ CancelledInBaseline(r) \/ BaselineAccepted(r) \/ DeviceVerified(r)
    \/ (\E outcome \in EngineOutcomes(r) : EngineReturns(r, outcome))
    \/ PassesFinalCheck(r) \/ FinishCancelled(r) \/ Completed(r)
    \/ Raises(r) \/ Leaves(r) \/ WorkerReleases(r)

-----------------------------------------------------------------------------
\* What the user and the network do.
Arrival ==
    \E r \in Holders, kind \in Kinds :
        \/ ArrivesWithoutSsh(r, kind)
        \/ \E s \in Sessions : ArrivesOnSession(r, kind, s) \/ ArrivesWithSettings(r, kind, s)

UserStep ==
    \/ Arrival
    \/ \E s \in Sessions : UserConnects(s) \/ UserDeletes(s)
    \/ \E r \in Holders : RequestCancel(r)

StoreBackground == (Background \/ SetBack) /\ UNCHANGED <<threadVars, lockVars, taskVars>>

ThreadStep(r) == HttpStep(r) \/ WorkerStep(r)

Next == UserStep \/ StoreBackground \/ \E r \in Holders : ThreadStep(r)

Spec == Init /\ [][Next]_vars

\* Every thread runs on: queries and commands have timeouts, connecting has one, the
\* timer fires, time passes.  Nobody is obliged to ask, delete or cancel.  ManagedCommand
\* says what its timeout may not be enough for.
FairSpec ==
    /\ Spec
    /\ \A r \in Holders : WF_vars(ThreadStep(r))
    /\ \A s \in Sessions : WF_vars((ConnectSucceeds(s) \/ ConnectFails(s) \/ Enlist(s) \/ Expire(s))
                                   /\ UNCHANGED <<threadVars, lockVars, taskVars>>)
    /\ WF_vars(Tick /\ UNCHANGED <<threadVars, lockVars, taskVars>>)

-----------------------------------------------------------------------------
(* Properties                                                              *)

\* While a task measures and optimises, the shared runner carries its workspace and
\* its timeout: no detection, selection or other task reconfigured it meanwhile.
RunnerServesTask ==
    \A r \in Holders : step[r] \in {"measuring", "optimising"} /\ HasSession(r) =>
        /\ runner[SessionOf(r)].workspace = r
        /\ \/ runner[SessionOf(r)].timeout = r
           \/ step[r] = "optimising" /\ CancelRequested(r)

\* A cancel the service acknowledged before the task's last check is never answered
\* with a completed task, and one that arrived in the queue keeps it from running.
CancelHonoured ==
    \A r \in Holders :
        /\ status[r] = "completed" => cancelled[r] \in {"never", "late"}
        /\ cancelled[r] = "waiting" => status[r] \in {"pending", "cancelled"}

\* The status a client reads once it is terminal never changes again; ImplementsTaskLife
\* says so too.
TerminalIsFinal ==
    [][\A r \in Holders : status[r] \in TerminalStatus => status'[r] = status[r]]_vars

\* The result file agrees with the status of an ended task: a completed task has a
\* result, a failed one claims none, nothing is left running.
ResultAgrees ==
    \A r \in Holders : status[r] \in TerminalStatus /\ Kind(r).optimise =>
        /\ sourceResult[r] # "running"
        /\ status[r] = "completed" => sourceResult[r] \in {"completed", "unavailable"}
        /\ status[r] = "failed" => sourceResult[r] \in {"failed", "none"}

\* The connection a request opened for itself is closed, and its password forgotten,
\* as soon as the request or its task has ended, however it ended.
OwnConnectionClosed ==
    \A r \in Holders : step[r] = "ended" /\ Kind(r).ssh = "own" =>
        ~sessions[SessionOf(r)].open /\ sessions[SessionOf(r)].registered = {}

\* A cancel counts until the last check; a turn begins and ends with WORKER_LOCK.
CancelOf == [r \in Holders |-> IF cancelled[r] = "late" THEN "never" ELSE cancelled[r]]
TurnOf ==
    [r \in Holders |->
        CASE workerLock = r -> "now"
          [] workerLock # r /\ step[r] \in {"refusing", "returning", "ended"} /\ status[r] # "absent" ->
               "after"
          [] OTHER -> "before"]
Leaseholders == {r \in Holders : lease[r] # NoSession}

Life ==
    INSTANCE TaskLife WITH
        Tasks <- Holders, result <- sourceResult, cancelled <- CancelOf, turn <- TurnOf,
        connected <- Leaseholders

\* The threads, the two locks and the leases together keep the promise of TaskLife: one
\* task at a time, every status and result in its order and the last one final, a cancel
\* in time kept, and a connection that is not given back while its task is at work.
ImplementsTaskLife == Life!Spec

\* Every request that arrived ends: no thread waits forever for the slot, for a
\* connection or for another thread.
RequestsEnd == \A r \in Holders : (step[r] # "new") ~> (step[r] = "ended")

\* Every connection is closed in the end, deleted or not.
ConnectionsClose == \A s \in Sessions : sessions[s].open ~> ~sessions[s].open

=============================================================================
