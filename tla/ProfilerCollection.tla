-------------------------- MODULE ProfilerCollection --------------------------
(* collect_remote_mcprofiler_case of profiler/mcprofiler/collector.py: one    *)
(* call after another of one run, each with a collection directory of its     *)
(* own on the remote host and a copy of it in the results directory.          *)
(*                                                                            *)
(* A remote tree is its reports: their number, the text of the first, the     *)
(* same for the reports of the named kernel, whether a configured secret is   *)
(* anywhere in it, and whether its counters are numbers.  The digest of a     *)
(* text is the text.                                                          *)
EXTENDS Naturals, Sequences, FiniteSets

CONSTANTS Ids,        \* collection identifiers; a call may draw one again
          Trees,      \* what a collection directory may hold
          NoTree,     \* no directory
          NoText,     \* nothing was hashed
          Requests,   \* the requests of the callers
          NoRequest,  \* no call stands anywhere
          MaxCalls,   \* bound: calls of a run
          Faults      \* the kinds of faults that may happen

TreeRecords == [reports: 0..2, report: Nat, named: 0..2, kernel: Nat,
                secret: BOOLEAN, numeric: BOOLEAN]
Obstacles == {"none", "runner_unsupported", "guard_denied", "secret_in_command"}
RequestRecords == [obstacle: Obstacles, perKernel: BOOLEAN, append: BOOLEAN]

ASSUME CollectionAssumption ==
  /\ Trees \subseteq TreeRecords /\ NoTree \notin TreeRecords
  /\ NoText \notin Nat
  /\ Requests \subseteq RequestRecords
  /\ MaxCalls \in Nat

VARIABLES cancel,    \* the task's cancel flag
          pc,        \* where the call stands; "idle" between two calls
          calls,     \* calls begun
          call,      \* the locals of the call
          pending,   \* the arguments of finish()
          remote,    \* the collection directories and the profiled command
          cases,     \* results/mcprofiler_cases/<id>
          partials,  \* results/mcprofiler_failed/<id>
          imports,   \* lines a call appended to the three evidence files
          records,   \* mcprofiler_collection.jsonl
          broken     \* history: calls that ended in an exception

localVars == <<cases, partials, imports>>
outVars == <<records, broken>>
vars == <<cancel, pc, calls, call, pending, remote, localVars, outVars>>

Evidence == {"profiler_results", "metric_observations", "diagnoses"}

EmptyTree == [reports |-> 0, report |-> 0, named |-> 0, kernel |-> 0, secret |-> FALSE, numeric |-> FALSE]
Held == Trees \cup {EmptyTree, NoTree}

NoCall == [id |-> "none", request |-> NoRequest, answer |-> "none", hash |-> NoText, asked |-> FALSE]
NoOutcome == [status |-> "none", reason |-> "none", kept |-> "nothing", guard |-> "none"]

(* guard: which `except` stands around this call of finish(). *)
Outcome(status, reason, kept, guard) ==
  [status |-> status, reason |-> reason, kept |-> kept, guard |-> guard]

Finish(status, reason, kept, guard) ==
  /\ pending' = Outcome(status, reason, kept, guard)
  /\ pc' = "finish"

Fail(reason) == Finish("failed", reason, "nothing", "none")

FailExecution(status, reason) ==
  /\ pending' = Outcome(status, reason, "nothing", "none")
  /\ pc' = "preserve"

Raise == pc' = "raised" /\ pending' = NoOutcome

Init ==
  /\ cancel = FALSE /\ pc = "idle" /\ calls = 0 /\ call = NoCall /\ pending = NoOutcome
  /\ remote = [made |-> {}, tree |-> NoTree, alive |-> FALSE]
  /\ cases = [i \in Ids |-> NoTree] /\ partials = [i \in Ids |-> NoTree]
  /\ imports = {} /\ records = <<>> /\ broken = {}

(* ---- before the command ---- *)

Begins(i, request) ==
  /\ pc = "idle" /\ calls < MaxCalls
  /\ calls' = calls + 1
  /\ call' = [NoCall EXCEPT !.id = i, !.request = request]
  /\ IF cancel THEN Finish("cancelled", "cancelled", "nothing", "none")
     ELSE pc' = "check" /\ pending' = NoOutcome
  /\ UNCHANGED <<cancel, remote, localVars, outVars>>

Refused ==
  /\ pc = "check" /\ call.request.obstacle # "none"
  /\ Finish(IF call.request.obstacle = "runner_unsupported" THEN "unsupported" ELSE "failed",
            call.request.obstacle, "nothing", "none")
  /\ UNCHANGED <<cancel, calls, call, remote, localVars, outVars>>

(* The client's tool check, then that of a managed server: any may fail. *)
ToolFails(reason) ==
  /\ pc = "check" /\ call.request.obstacle = "none"
  /\ Finish(IF reason = "tool_unavailable" THEN "unsupported" ELSE "failed", reason, "nothing", "none")
  /\ UNCHANGED <<cancel, calls, call, remote, localVars, outVars>>

ToolsAreThere ==
  /\ pc = "check" /\ call.request.obstacle = "none"
  /\ pc' = "prepare"
  /\ UNCHANGED <<cancel, calls, call, pending, remote, localVars, outVars>>

(* test ! -e <directory> && mkdir -p <directory>; a command that failed may   *)
(* have made it all the same.                                                 *)
Prepared ==
  /\ pc = "prepare" /\ call.id \notin remote.made
  /\ remote' = [remote EXCEPT !.made = @ \cup {call.id}, !.tree = EmptyTree]
  /\ pc' = "execute"
  /\ UNCHANGED <<cancel, calls, call, pending, localVars, outVars>>

PrepareFails(reason) ==
  /\ pc = "prepare"
  /\ \E made \in {remote.made, remote.made \cup {call.id}} :
       /\ reason = "guard_denied" => made = remote.made
       /\ remote' = [remote EXCEPT !.made = made]
  /\ Fail(reason)
  /\ UNCHANGED <<cancel, calls, call, localVars, outVars>>

(* ---- run_cancellable ---- *)

Answers(answer, alive) ==
  /\ call' = [call EXCEPT !.answer = answer, !.asked = cancel]
  /\ remote' = [remote EXCEPT !.alive = alive]
  /\ pc' = "judge"
  /\ UNCHANGED <<cancel, calls, pending, localVars, outVars>>

CommandStarts(tree) ==
  /\ pc = "execute"
  /\ remote' = [remote EXCEPT !.tree = tree, !.alive = TRUE]
  /\ pc' = "running"
  /\ UNCHANGED <<cancel, calls, call, pending, localVars, outVars>>

CommandDenied == pc = "execute" /\ Answers("denied", remote.alive)

(* A process that left the command's process group outlives it. *)
MayOutlive == IF "straggler" \in Faults THEN BOOLEAN ELSE {FALSE}

(* An exit status of 130 reads as a cancel, whoever caused it. *)
CommandEnds ==
  /\ pc = "running"
  /\ \E answer \in {"passed", "failed", "cancelled"}, alive \in MayOutlive : Answers(answer, alive)

CommandStopped ==
  /\ pc = "running"
  /\ \E answer \in {"timeout"} \cup (IF cancel THEN {"cancelled"} ELSE {}), alive \in MayOutlive :
       Answers(answer, alive)

StopUnverified == pc = "running" /\ Answers("unverified", TRUE)

(* The command cannot be sent, or its channel closes without an exit status.  *)
LinkBreaks ==
  /\ "link" \in Faults
  /\ \/ /\ pc = "execute"
        /\ \E answer \in {"unverified", "exception"} : Answers(answer, remote.alive)
     \/ pc = "running" /\ Answers("failed", TRUE)

(* ---- the answer ---- *)

LogsFail ==
  /\ pc = "judge" /\ call.answer # "exception" /\ "disk" \in Faults
  /\ Raise
  /\ UNCHANGED <<cancel, calls, call, remote, localVars, outVars>>

NotExecuted ==
  /\ pc = "judge" /\ call.answer \in {"denied", "unverified", "exception"}
  /\ Fail(CASE call.answer = "denied" -> "guard_denied"
            [] call.answer = "unverified" -> "cleanup_unverified"
            [] OTHER -> "runner_exception")
  /\ UNCHANGED <<cancel, calls, call, remote, localVars, outVars>>

(* Mutant: only the answer tells of a cancel. *)
IsAnsweredCancelled == call.answer = "cancelled"

IsCancelled == call.answer = "cancelled" \/ cancel

ExecutionFailed ==
  /\ pc = "judge" /\ call.answer \in {"cancelled", "timeout", "failed", "passed"}
  /\ IsCancelled \/ call.answer # "passed"
  /\ IF IsCancelled THEN FailExecution("cancelled", "cancelled")
     ELSE FailExecution("failed", IF call.answer = "timeout" THEN "timeout" ELSE "collection_failed")
  /\ UNCHANGED <<cancel, calls, call, remote, localVars, outVars>>

ExecutionPassed ==
  /\ pc = "judge" /\ call.answer = "passed" /\ ~IsCancelled
  /\ pc' = "discover"
  /\ UNCHANGED <<cancel, calls, call, pending, remote, localVars, outVars>>

(* ---- _preserve_partial_artifacts: the record is written in any case ---- *)

(* Mutant: partial artifacts are not searched for secrets. *)
PartialKeptUnscanned ==
  /\ pc = "preserve" /\ partials[call.id] = NoTree
  /\ partials' = [partials EXCEPT ![call.id] = remote.tree]
  /\ pending' = [pending EXCEPT !.kept = "partial"]
  /\ pc' = "finish"
  /\ UNCHANGED <<cancel, calls, call, remote, cases, imports, outVars>>

PartialKept ==
  /\ pc = "preserve" /\ partials[call.id] = NoTree /\ ~remote.tree.secret
  /\ partials' = [partials EXCEPT ![call.id] = remote.tree]
  /\ pending' = [pending EXCEPT !.kept = "partial"]
  /\ pc' = "finish"
  /\ UNCHANGED <<cancel, calls, call, remote, cases, imports, outVars>>

(* There is one already, the download failed, or a secret was found. *)
PartialDropped ==
  /\ pc = "preserve"
  /\ pc' = "finish"
  /\ UNCHANGED <<cancel, calls, call, pending, remote, localVars, outVars>>

PartialStays ==
  /\ pc = "preserve" /\ partials[call.id] = NoTree /\ "disk" \in Faults
  /\ partials' = [partials EXCEPT ![call.id] = remote.tree]
  /\ Raise
  /\ UNCHANGED <<cancel, calls, call, remote, cases, imports, outVars>>

(* ---- discovery and download ---- *)

DiscoveryFails ==
  /\ pc = "discover"
  /\ FailExecution("failed", "discovery_failed")
  /\ UNCHANGED <<cancel, calls, call, remote, localVars, outVars>>

ReportsMiscounted ==
  /\ pc = "discover" /\ remote.tree.reports # 1
  /\ FailExecution("failed", IF remote.tree.reports = 0 THEN "report_not_found" ELSE "ambiguous_reports")
  /\ UNCHANGED <<cancel, calls, call, remote, localVars, outVars>>

ReportHashed ==
  /\ pc = "discover" /\ remote.tree.reports = 1
  /\ call' = [call EXCEPT !.hash = remote.tree.report]
  /\ pc' = "download"
  /\ UNCHANGED <<cancel, calls, pending, remote, localVars, outVars>>

CaseExists ==
  /\ pc = "download" /\ cases[call.id] # NoTree
  /\ Fail("local_case_exists")
  /\ UNCHANGED <<cancel, calls, call, remote, localVars, outVars>>

Downloaded ==
  /\ pc = "download" /\ cases[call.id] = NoTree
  /\ cases' = [cases EXCEPT ![call.id] = remote.tree]
  /\ pc' = "scan"
  /\ UNCHANGED <<cancel, calls, call, pending, remote, partials, imports, outVars>>

DownloadFails ==
  /\ pc = "download" /\ cases[call.id] = NoTree
  /\ Fail("artifact_download_failed")
  /\ UNCHANGED <<cancel, calls, call, remote, localVars, outVars>>

(* What was downloaded of it so far cannot be removed. *)
DownloadStays ==
  /\ pc = "download" /\ cases[call.id] = NoTree /\ "disk" \in Faults
  /\ cases' = [cases EXCEPT ![call.id] = remote.tree]
  /\ Raise
  /\ UNCHANGED <<cancel, calls, call, remote, partials, imports, outVars>>

Case == cases[call.id]

SecretFound ==
  /\ pc = "scan" /\ Case.secret
  /\ cases' = [cases EXCEPT ![call.id] = NoTree]
  /\ Fail("secret_detected")
  /\ UNCHANGED <<cancel, calls, call, remote, partials, imports, outVars>>

ScanRaises ==
  /\ pc = "scan" /\ "disk" \in Faults
  /\ Raise
  /\ UNCHANGED <<cancel, calls, call, remote, localVars, outVars>>

(* ---- verification ---- *)

(* It differs, or cannot be read. *)
ReportDiffers ==
  /\ pc = "scan" /\ ~Case.secret
  /\ Case.report # call.hash \/ "disk" \in Faults
  /\ Finish("failed", "artifact_hash_mismatch", "nothing", "hash")
  /\ UNCHANGED <<cancel, calls, call, remote, localVars, outVars>>

(* Mutant: the downloaded report is not compared. *)
ReportTrusted ==
  /\ pc = "scan" /\ ~Case.secret
  /\ pc' = IF call.request.perKernel THEN "kernel" ELSE "import"
  /\ UNCHANGED <<cancel, calls, call, pending, remote, localVars, outVars>>

ReportVerified ==
  /\ pc = "scan" /\ ~Case.secret /\ Case.report = call.hash
  /\ pc' = IF call.request.perKernel THEN "kernel" ELSE "import"
  /\ UNCHANGED <<cancel, calls, call, pending, remote, localVars, outVars>>

KernelMiscounted ==
  /\ pc = "kernel" /\ Case.named # 1
  /\ Finish("failed", "target_report_not_found", "case", "none")
  /\ UNCHANGED <<cancel, calls, call, remote, localVars, outVars>>

(* The remote report differs, or cannot be hashed. *)
KernelDiffers ==
  /\ pc = "kernel" /\ Case.named = 1
  /\ Fail("artifact_hash_mismatch")
  /\ UNCHANGED <<cancel, calls, call, remote, localVars, outVars>>

KernelVerified ==
  /\ pc = "kernel" /\ Case.named = 1 /\ Case.kernel = remote.tree.kernel
  /\ call' = [call EXCEPT !.hash = remote.tree.kernel]
  /\ pc' = "import"
  /\ UNCHANGED <<cancel, calls, pending, remote, localVars, outVars>>

(* ---- the import ---- *)

CountersMissing ==
  /\ pc = "import" /\ ~Case.numeric
  /\ Finish("failed", "report_invalid", "case", "parse")
  /\ UNCHANGED <<cancel, calls, call, remote, localVars, outVars>>

Lines(files) == {[id |-> call.id, file |-> f, text |-> call.hash] : f \in files}

(* The three files are appended to one after the other. *)
Prefixes == {{}, {"profiler_results"}, {"profiler_results", "metric_observations"}}

ParseFails ==
  /\ pc = "import"
  /\ \E files \in (IF call.request.append /\ Case.numeric /\ "disk" \in Faults THEN Prefixes ELSE {{}}) :
       imports' = imports \cup Lines(files)
  /\ Fail("parse_failed")
  /\ UNCHANGED <<cancel, calls, call, remote, cases, partials, outVars>>

Imported ==
  /\ pc = "import" /\ Case.numeric
  /\ imports' = IF call.request.append THEN imports \cup Lines(Evidence) ELSE imports
  /\ Finish("collected", "none", "case", "none")
  /\ UNCHANGED <<cancel, calls, call, remote, cases, partials, outVars>>

(* ---- finish(): _persist_result appends one line ---- *)

Entry == [id |-> call.id, status |-> pending.status, reason |-> pending.reason, kept |-> pending.kept,
          hash |-> IF pending.status = "collected" THEN call.hash ELSE NoText,
          request |-> call.request, asked |-> call.asked]

(* No later call looks at the directory again; its name stays taken. *)
Returns ==
  /\ pc' = "idle" /\ call' = NoCall
  /\ remote' = [remote EXCEPT !.tree = NoTree]

Persisted ==
  /\ pc = "finish"
  /\ records' = Append(records, Entry)
  /\ Returns /\ pending' = NoOutcome
  /\ UNCHANGED <<cancel, calls, localVars, broken>>

PersistFails ==
  /\ pc = "finish" /\ "disk" \in Faults
  /\ CASE pending.guard = "parse" -> Fail("parse_failed")
       [] pending.guard = "hash" -> Fail("artifact_hash_mismatch")
       [] OTHER -> Raise
  /\ UNCHANGED <<cancel, calls, call, remote, localVars, outVars>>

(* ---- the caller: _collect_source_profiler and run_trial ---- *)

(* Mutant: the caller swallows the exception. *)
CallerIgnores ==
  /\ pc = "raised"
  /\ broken' = broken \cup {call.id}
  /\ Returns
  /\ UNCHANGED <<cancel, calls, pending, localVars, records>>

CallerRecords ==
  /\ pc = "raised"
  /\ records' = Append(records, [Entry EXCEPT !.status = "failed", !.reason = "adapter_exception"])
  /\ broken' = broken \cup {call.id}
  /\ Returns
  /\ UNCHANGED <<cancel, calls, pending, localVars>>

CallerRaises ==
  /\ pc = "raised" /\ "disk" \in Faults
  /\ pc' = "dead"
  /\ UNCHANGED <<cancel, calls, call, pending, remote, localVars, outVars>>

(* SSHRunner.upload of the next trial clears the workspace. *)
NextTrialUploads ==
  /\ pc = "idle" /\ remote.made # {}
  /\ remote' = [remote EXCEPT !.made = {}]
  /\ UNCHANGED <<cancel, pc, calls, call, pending, localVars, outVars>>

(* ---- the environment ---- *)

Cancel ==
  /\ ~cancel /\ cancel' = TRUE
  /\ UNCHANGED <<pc, calls, call, pending, remote, localVars, outVars>>

(* A process that still runs writes to the collection directory; once finish() *)
(* was called nobody looks at it any more.                                    *)
Rewrites(tree) ==
  /\ pc \notin {"finish", "raised", "dead"}
  /\ remote.alive /\ remote.tree # NoTree /\ tree # remote.tree
  /\ remote' = [remote EXCEPT !.tree = tree]
  /\ UNCHANGED <<cancel, pc, calls, call, pending, localVars, outVars>>

LateProcessEnds ==
  /\ remote.alive /\ pc # "running"
  /\ remote' = [remote EXCEPT !.alive = FALSE]
  /\ UNCHANGED <<cancel, pc, calls, call, pending, localVars, outVars>>

Terminated ==
  /\ pc = "dead" \/ (pc = "idle" /\ calls = MaxCalls)
  /\ UNCHANGED vars

Call ==
  \/ Refused
  \/ \E reason \in {"runner_exception", "guard_denied", "tool_unavailable"} : ToolFails(reason)
  \/ ToolsAreThere \/ Prepared
  \/ \E reason \in {"runner_exception", "guard_denied", "collection_workspace_failed"} : PrepareFails(reason)
  \/ \E tree \in Trees : CommandStarts(tree)
  \/ CommandDenied \/ CommandEnds \/ CommandStopped \/ StopUnverified \/ LinkBreaks
  \/ LogsFail \/ NotExecuted \/ ExecutionFailed \/ ExecutionPassed
  \/ PartialKept \/ PartialDropped \/ PartialStays
  \/ DiscoveryFails \/ ReportsMiscounted \/ ReportHashed
  \/ CaseExists \/ Downloaded \/ DownloadFails \/ DownloadStays
  \/ SecretFound \/ ScanRaises \/ ReportDiffers \/ ReportVerified
  \/ KernelMiscounted \/ KernelDiffers \/ KernelVerified
  \/ CountersMissing \/ ParseFails \/ Imported
  \/ Persisted \/ PersistFails \/ CallerRecords \/ CallerRaises

Next ==
  \/ \E i \in Ids, request \in Requests : Begins(i, request)
  \/ Call \/ NextTrialUploads \/ Cancel
  \/ \E tree \in Trees : Rewrites(tree)
  \/ LateProcessEnds \/ Terminated

Spec == Init /\ [][Next]_vars

(* ---- properties ---- *)

Stages == {"idle", "check", "prepare", "execute", "running", "judge", "preserve", "discover", "download",
           "scan", "kernel", "import", "finish", "raised", "dead"}
Texts == Nat \cup {NoText}
Statuses == {"none", "collected", "unsupported", "failed", "cancelled"}
Reasons ==
  {"none", "cancelled", "runner_unsupported", "guard_denied", "secret_in_command", "runner_exception",
   "tool_unavailable", "collection_workspace_failed", "cleanup_unverified", "timeout", "collection_failed",
   "discovery_failed", "report_not_found", "ambiguous_reports", "local_case_exists",
   "artifact_download_failed", "secret_detected", "artifact_hash_mismatch", "target_report_not_found",
   "report_invalid", "parse_failed", "adapter_exception"}
CommandAnswers == {"none", "denied", "passed", "failed", "cancelled", "timeout", "unverified", "exception"}
Names == {"nothing", "case", "partial"}

CallRecords == [id: Ids \cup {"none"}, request: Requests \cup {NoRequest},
                answer: CommandAnswers, hash: Texts, asked: BOOLEAN]
OutcomeRecords == [status: Statuses, reason: Reasons, kept: Names, guard: {"none", "hash", "parse"}]
EntryRecords == [id: Ids, status: Statuses, reason: Reasons, kept: Names, hash: Texts,
                 request: Requests, asked: BOOLEAN]

(* Every variable keeps its type; a step behind the download has a local case *)
(* to look at, and a step behind the discovery a hash.                        *)
TypeOK ==
  /\ cancel \in BOOLEAN /\ pc \in Stages /\ calls \in 0..MaxCalls
  /\ call \in CallRecords /\ pending \in OutcomeRecords
  /\ pc # "idle" => call.id \in Ids /\ call.request \in Requests
  /\ remote \in [made: SUBSET Ids, tree: Held, alive: BOOLEAN]
  /\ cases \in [Ids -> Held] /\ partials \in [Ids -> Held]
  /\ imports \subseteq [id: Ids, file: Evidence, text: Nat]
  /\ records \in Seq(EntryRecords) /\ broken \subseteq Ids
  /\ pc \in {"scan", "kernel", "import"} => Case # NoTree /\ call.hash \in Nat

(* Between two calls no local directory holds a configured secret, unless the *)
(* call that left it broke off with an exception, whatever was downloaded and *)
(* however the call ended (collector.py:298-348, 486-494).           *)
SecretsAreDropped ==
  pc = "idle" =>
    \A i \in Ids \ broken : \A tree \in {cases[i], partials[i]} : tree # NoTree => ~tree.secret

(* A record that says "collected" stands for a report that is still there, is *)
(* the one that was hashed on the remote host and has numeric counters, and   *)
(* every line imported for it is of that report (collector.py:496-578).       *)
Reported(r) == IF r.request.perKernel THEN cases[r.id].kernel ELSE cases[r.id].report

CollectedIsBound ==
  \A n \in DOMAIN records : records[n].status = "collected" =>
    LET r == records[n] IN
    /\ cases[r.id] # NoTree /\ cases[r.id].numeric
    /\ r.hash = Reported(r)
    /\ r.request.append => \A f \in Evidence : [id |-> r.id, file |-> f, text |-> r.hash] \in imports

(* A collection that was asked to stop before its command answered is not     *)
(* "collected" (collector.py:451-453).                                        *)
AskedToStopIsNotCollected ==
  \A n \in DOMAIN records : records[n].asked => records[n].status # "collected"

(* Every call that returned to the run has exactly one record, also when      *)
(* finish() is called again from an exception handler or the caller has to    *)
(* write it (collector.py:364-370, engine.py:402-424).                        *)
OneRecordPerCall == Len(records) = calls - (IF pc = "idle" THEN 0 ELSE 1)
==============================================================================
