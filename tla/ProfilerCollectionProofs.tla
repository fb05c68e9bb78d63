----------------------- MODULE ProfilerCollectionProofs -----------------------
(* What the collector guarantees for every set of faults, however many calls  *)
(* there are and whatever a remote process writes into its directory; and, at *)
(* the end, what the managed command that the collector and the engine run    *)
(* guarantees whatever may go wrong: its types, that a verified stop leaves   *)
(* nobody of the process group, that no pid file outlives its supervisor, and *)
(* that it implements CommandContract.                                        *)
EXTENDS ProfilerCollection, ManagedCommand, TLAPS

(* The types of a call, and that only a call has locals. *)
LocalTypes ==
  /\ cancel \in BOOLEAN /\ pc \in Stages /\ calls \in 0..MaxCalls
  /\ call \in CallRecords /\ pending \in OutcomeRecords
  /\ pc # "idle" => call.id \in Ids /\ call.request \in Requests
  /\ records \in Seq(EntryRecords)

-----------------------------------------------------------------------------
(* The records of a call and of its outcome.                                 *)

LEMMA OutcomeType ==
  ASSUME NEW s \in Statuses, NEW r \in Reasons, NEW k \in Names, NEW g \in {"none", "hash", "parse"}
  PROVE  Outcome(s, r, k, g) \in OutcomeRecords /\ Outcome(s, r, k, g).status = s
BY DEF Outcome, OutcomeRecords

LEMMA NoOutcomeType == NoOutcome \in OutcomeRecords /\ NoOutcome.status = "none"
BY DEF NoOutcome, OutcomeRecords, Statuses, Reasons, Names

LEMMA KeptType ==
  ASSUME NEW o \in OutcomeRecords
  PROVE  [o EXCEPT !.kept = "partial"] \in OutcomeRecords /\ [o EXCEPT !.kept = "partial"].status = o.status
BY DEF OutcomeRecords, Names

LEMMA NoCallType == NoCall \in CallRecords /\ ~NoCall.asked
BY CollectionAssumption DEF CallRecords, NoCall, Texts, CommandAnswers

LEMMA AnswerType ==
  ASSUME NEW c \in CallRecords, NEW a \in CommandAnswers, NEW b \in BOOLEAN
  PROVE  LET d == [c EXCEPT !.answer = a, !.asked = b] IN
         d \in CallRecords /\ d.id = c.id /\ d.request = c.request /\ d.asked = b /\ d.answer = a /\ d.hash = c.hash
BY DEF CallRecords

LEMMA HashType ==
  ASSUME NEW c \in CallRecords, NEW h \in Nat
  PROVE  LET d == [c EXCEPT !.hash = h] IN
         d \in CallRecords /\ d.id = c.id /\ d.request = c.request /\ d.asked = c.asked /\ d.hash = h
BY DEF CallRecords, Texts

LEMMA FirstType ==
  ASSUME NEW i \in Ids, NEW q \in Requests
  PROVE  LET d == [NoCall EXCEPT !.id = i, !.request = q] IN
         d \in CallRecords /\ d.id = i /\ d.request = q /\ ~d.asked
BY CollectionAssumption DEF CallRecords, NoCall, Texts, CommandAnswers

-----------------------------------------------------------------------------
(* Every step of a call but the appends to the record leaves the record, the  *)
(* number of calls and the flag alone.                                        *)
Inside == UNCHANGED <<cancel, calls, records>> /\ pc # "idle" /\ pc' # "idle"

LEMMA StepInside ==
  ASSUME Call
  PROVE  Inside \/ Persisted \/ CallerRecords
<1> USE DEF Inside, localVars, outVars, Finish, Fail, FailExecution, Raise, Answers
<1>1. CASE Refused BY <1>1 DEF Refused
<1>2. CASE \E reason \in {"runner_exception", "guard_denied", "tool_unavailable"} : ToolFails(reason)
  BY <1>2 DEF ToolFails
<1>3. CASE ToolsAreThere \/ Prepared BY <1>3 DEF ToolsAreThere, Prepared
<1>4. CASE \E reason \in {"runner_exception", "guard_denied", "collection_workspace_failed"} : PrepareFails(reason)
  BY <1>4 DEF PrepareFails
<1>5. CASE \E tree \in Trees : CommandStarts(tree) BY <1>5 DEF CommandStarts
<1>6. CASE CommandDenied \/ CommandEnds \/ CommandStopped \/ StopUnverified \/ LinkBreaks
  BY <1>6 DEF CommandDenied, CommandEnds, CommandStopped, StopUnverified, LinkBreaks
<1>7. CASE LogsFail \/ NotExecuted \/ ExecutionFailed \/ ExecutionPassed
  BY <1>7 DEF LogsFail, NotExecuted, ExecutionFailed, ExecutionPassed
<1>8. CASE PartialKept \/ PartialDropped \/ PartialStays
  BY <1>8 DEF PartialKept, PartialDropped, PartialStays
<1>9. CASE DiscoveryFails \/ ReportsMiscounted \/ ReportHashed
  BY <1>9 DEF DiscoveryFails, ReportsMiscounted, ReportHashed
<1>10. CASE CaseExists \/ Downloaded \/ DownloadFails \/ DownloadStays
  BY <1>10 DEF CaseExists, Downloaded, DownloadFails, DownloadStays
<1>11. CASE SecretFound \/ ScanRaises \/ ReportDiffers \/ ReportVerified
  BY <1>11 DEF SecretFound, ScanRaises, ReportDiffers, ReportVerified
<1>12. CASE KernelMiscounted \/ KernelDiffers \/ KernelVerified
  BY <1>12 DEF KernelMiscounted, KernelDiffers, KernelVerified
<1>13. CASE CountersMissing \/ ParseFails \/ Imported
  BY <1>13 DEF CountersMissing, ParseFails, Imported
<1>14. CASE PersistFails \/ CallerRaises BY <1>14 DEF PersistFails, CallerRaises
<1> QED
  BY <1>1, <1>2, <1>3, <1>4, <1>5, <1>6, <1>7, <1>8, <1>9, <1>10, <1>11, <1>12, <1>13, <1>14 DEF Call

-----------------------------------------------------------------------------
(* A call that was asked to stop gets past the judgement of its command only  *)
(* towards an outcome other than "collected".                                 *)
AskedInv ==
  /\ pc \in {"check", "prepare", "execute", "running", "discover", "download", "scan", "kernel", "import"}
       => ~call.asked
  /\ pc = "judge" /\ call.asked => cancel
  /\ pc \in {"preserve", "finish"} /\ call.asked => pending.status # "collected"

(* The trees, and where a call has one to look at.                            *)
TreeInv ==
  /\ remote \in [made: SUBSET Ids, tree: Held, alive: BOOLEAN]
  /\ cases \in [Ids -> Held] /\ partials \in [Ids -> Held]
  /\ pc \in {"execute", "running", "judge", "preserve", "discover", "download", "scan", "kernel", "import"}
       => remote.tree # NoTree
  /\ pc \in {"download", "scan", "kernel", "import"} => call.hash \in Nat
  /\ pc \in {"scan", "kernel", "import"} => Case # NoTree
  /\ imports \subseteq [id: Ids, file: Evidence, text: Nat] /\ broken \subseteq Ids

LEMMA HeldType ==
  ASSUME NEW t \in Held, t # NoTree
  PROVE  t \in TreeRecords /\ t.report \in Nat /\ t.kernel \in Nat
<1>1. EmptyTree \in TreeRecords BY DEF EmptyTree, TreeRecords
<1> QED BY <1>1, CollectionAssumption DEF Held, TreeRecords

(* What a step inside a call leaves behind.                                   *)
Kept ==
  /\ pc' \in Stages /\ call' \in CallRecords /\ pending' \in OutcomeRecords
  /\ call'.id = call.id /\ call'.request = call.request
  /\ AskedInv'

(* It is so because finish() is only called with one of the outcomes, and     *)
(* with "collected" only at the import.                                       *)
LEMMA StepKeeps ==
  ASSUME LocalTypes, AskedInv, TreeInv, Call, Inside
  PROVE  Kept
<1> USE DEF Kept, LocalTypes, AskedInv, Inside, Stages
<1>a. /\ "none" \in Names \cup {"none"} /\ "nothing" \in Names /\ "case" \in Names
      /\ "failed" \in Statuses /\ "unsupported" \in Statuses /\ "cancelled" \in Statuses
      /\ "collected" \in Statuses
  BY DEF Names, Statuses
<1>f. ASSUME NEW s \in Statuses, NEW r \in Reasons, NEW k \in Names, NEW g \in {"none", "hash", "parse"},
             Finish(s, r, k, g), UNCHANGED call, call.asked => s # "collected"
      PROVE  Kept
  BY <1>f, OutcomeType DEF Finish
<1>g. ASSUME NEW s \in Statuses, NEW r \in Reasons, FailExecution(s, r), UNCHANGED call, s # "collected"
      PROVE  Kept
  BY <1>g, <1>a, OutcomeType DEF FailExecution
<1>h. ASSUME NEW r \in Reasons, Fail(r), UNCHANGED call
      PROVE  Kept
  BY <1>f, <1>h, <1>a DEF Fail
<1>i. ASSUME Raise, UNCHANGED call
      PROVE  Kept
  BY <1>i, NoOutcomeType DEF Raise
<1>j. ASSUME NEW a \in CommandAnswers, NEW b, Answers(a, b)
      PROVE  Kept
  <2> DEFINE d == [call EXCEPT !.answer = a, !.asked = cancel]
  <2>1. d \in CallRecords /\ d.id = call.id /\ d.request = call.request /\ d.asked = cancel
    BY DEF CallRecords
  <2>2. call' = d /\ pc' = "judge" /\ pending' = pending
    BY <1>j DEF Answers
  <2> HIDE DEF d
  <2> QED BY <2>1, <2>2
<1>n. ASSUME NEW h \in Nat, call' = [call EXCEPT !.hash = h], ~call.asked, UNCHANGED pending,
             pc' \in {"download", "import"}
      PROVE  Kept
  <2> DEFINE d == [call EXCEPT !.hash = h]
  <2>1. d \in CallRecords /\ d.id = call.id /\ d.request = call.request /\ d.asked = call.asked
    BY HashType
  <2>2. call' = d BY <1>n
  <2> HIDE DEF d
  <2> QED BY <1>n, <2>1, <2>2
<1>1. CASE Refused
  <2>1. call.request.obstacle \in Reasons
    BY CollectionAssumption DEF RequestRecords, Obstacles, Reasons
  <2>2. PICK s \in {"unsupported", "failed"} : Finish(s, call.request.obstacle, "nothing", "none")
    BY <1>1 DEF Refused
  <2> QED BY <1>1, <1>f, <1>a, <2>1, <2>2 DEF Refused
<1>2. CASE \E reason \in {"runner_exception", "guard_denied", "tool_unavailable"} : ToolFails(reason)
  BY <1>2, <1>f, <1>a DEF ToolFails, Reasons
<1>3. CASE ToolsAreThere \/ Prepared BY <1>3 DEF ToolsAreThere, Prepared
<1>4. CASE \E reason \in {"runner_exception", "guard_denied", "collection_workspace_failed"} : PrepareFails(reason)
  BY <1>4, <1>h DEF PrepareFails, Reasons
<1>5. CASE \E tree \in Trees : CommandStarts(tree) BY <1>5 DEF CommandStarts
<1>6. CASE CommandDenied \/ CommandEnds \/ CommandStopped \/ StopUnverified \/ LinkBreaks
  <2>1. \E a \in CommandAnswers : \E b : Answers(a, b)
    BY <1>6 DEF CommandDenied, CommandEnds, CommandStopped, StopUnverified, LinkBreaks, CommandAnswers
  <2> QED BY <1>j, <2>1
<1>7. CASE LogsFail \/ NotExecuted \/ ExecutionFailed \/ ExecutionPassed
  BY <1>7, <1>h, <1>i, <1>g, <1>a DEF LogsFail, NotExecuted, ExecutionFailed, ExecutionPassed, Reasons, IsCancelled
<1>8. CASE PartialKept \/ PartialDropped \/ PartialStays
  BY <1>8, <1>i, KeptType DEF PartialKept, PartialDropped, PartialStays
<1>9. CASE DiscoveryFails \/ ReportsMiscounted \/ ReportHashed
  <2>1. CASE ReportHashed
    <3>1. remote.tree.report \in Nat BY <2>1, HeldType DEF ReportHashed, TreeInv
    <3> QED BY <2>1, <3>1, <1>n DEF ReportHashed
  <2>2. CASE ReportsMiscounted
    <3>1. PICK r \in {"report_not_found", "ambiguous_reports"} : FailExecution("failed", r)
      BY <2>2 DEF ReportsMiscounted
    <3> QED BY <2>2, <3>1, <1>g, <1>a DEF ReportsMiscounted, Reasons
  <2> QED BY <1>9, <2>1, <2>2, <1>g, <1>a DEF DiscoveryFails, Reasons
<1>10. CASE CaseExists \/ Downloaded \/ DownloadFails \/ DownloadStays
  BY <1>10, <1>h, <1>i DEF CaseExists, Downloaded, DownloadFails, DownloadStays, Reasons
<1>11. CASE SecretFound \/ ScanRaises \/ ReportDiffers \/ ReportVerified
  BY <1>11, <1>h, <1>i, <1>f, <1>a DEF SecretFound, ScanRaises, ReportDiffers, ReportVerified, Reasons
<1>12. CASE KernelMiscounted \/ KernelDiffers \/ KernelVerified
  <2>1. CASE KernelVerified
    <3>1. remote.tree.kernel \in Nat BY <2>1, HeldType DEF KernelVerified, TreeInv
    <3> QED BY <2>1, <3>1, <1>n DEF KernelVerified
  <2> QED BY <1>12, <2>1, <1>f, <1>h, <1>a DEF KernelMiscounted, KernelDiffers, Reasons
<1>13. CASE CountersMissing \/ ParseFails \/ Imported
  BY <1>13, <1>f, <1>h, <1>a DEF CountersMissing, ParseFails, Imported, Reasons
<1>14. CASE PersistFails \/ CallerRaises
  BY <1>14, <1>h, <1>i DEF PersistFails, CallerRaises, Reasons
<1>15. ~Persisted /\ ~CallerRecords
  BY DEF Persisted, CallerRecords, Returns
<1> QED
  BY <1>1, <1>2, <1>3, <1>4, <1>5, <1>6, <1>7, <1>8, <1>9, <1>10, <1>11, <1>12, <1>13, <1>14, <1>15 DEF Call

-----------------------------------------------------------------------------
(* The trees keep their types, and a call has those it looks at.              *)

RemoteRecords == [made: SUBSET Ids, tree: Held, alive: BOOLEAN]

LEMMA LinesType ==
  ASSUME LocalTypes, pc # "idle", call.hash \in Nat, NEW files \in SUBSET Evidence
  PROVE  Lines(files) \subseteq [id: Ids, file: Evidence, text: Nat]
BY DEF LocalTypes, Lines

LEMMA TreeKept ==
  ASSUME LocalTypes, TreeInv, [Next]_vars
  PROVE  TreeInv'
<1> USE DEF TreeInv, localVars, outVars, Finish, Fail, FailExecution, Raise
<1>r. remote \in RemoteRecords /\ (remote' \in RemoteRecords => remote' \in [made: SUBSET Ids, tree: Held, alive: BOOLEAN])
  BY DEF RemoteRecords
<1>t. NoTree \in Held /\ EmptyTree \in Held /\ EmptyTree # NoTree /\ remote.tree \in Held
      /\ \A t \in Trees : t \in Held /\ t # NoTree
  <2>1. EmptyTree \in TreeRecords BY DEF EmptyTree, TreeRecords
  <2> QED BY <2>1, CollectionAssumption DEF Held
<1>1. CASE \E i \in Ids, request \in Requests : Begins(i, request)
  BY <1>1 DEF Begins, Case
<1>2. CASE Refused \/ \E reason \in {"runner_exception", "guard_denied", "tool_unavailable"} : ToolFails(reason)
  BY <1>2 DEF Refused, ToolFails, Case
<1>3. CASE ToolsAreThere
  BY <1>3 DEF ToolsAreThere, Case
<1>4. CASE Prepared
  <2>1. remote' \in RemoteRecords /\ remote'.tree = EmptyTree
    BY <1>4, <1>r, <1>t DEF Prepared, LocalTypes, RemoteRecords
  <2> QED BY <1>4, <1>r, <1>t, <2>1 DEF Prepared, Case
<1>5. CASE \E reason \in {"runner_exception", "guard_denied", "collection_workspace_failed"} : PrepareFails(reason)
  <2>1. remote' \in RemoteRecords
    BY <1>5, <1>r, <1>t DEF PrepareFails, LocalTypes, RemoteRecords
  <2> QED BY <1>5, <1>r, <2>1 DEF PrepareFails
<1>6. CASE \E tree \in Trees : CommandStarts(tree)
  <2>1. remote' \in RemoteRecords /\ remote'.tree # NoTree
    BY <1>6, <1>r, <1>t DEF CommandStarts, RemoteRecords
  <2> QED BY <1>6, <1>r, <2>1 DEF CommandStarts, Case
<1>7. CASE CommandDenied \/ CommandEnds \/ CommandStopped \/ StopUnverified \/ LinkBreaks
  <2>1. \E a \in CommandAnswers, b \in BOOLEAN : Answers(a, b) /\ pc \in {"execute", "running"}
    BY <1>7 DEF CommandDenied, CommandEnds, CommandStopped, StopUnverified, LinkBreaks, CommandAnswers, MayOutlive
  <2>2. remote' \in RemoteRecords /\ remote'.tree = remote.tree
    BY <2>1, <1>r, <1>t DEF Answers, RemoteRecords
  <2> QED BY <2>1, <2>2, <1>r DEF Answers
<1>8. CASE LogsFail \/ NotExecuted \/ ExecutionFailed \/ ExecutionPassed
  BY <1>8 DEF LogsFail, NotExecuted, ExecutionFailed, ExecutionPassed, Case
<1>9. CASE PartialKept \/ PartialDropped \/ PartialStays
  BY <1>9, <1>t DEF PartialKept, PartialDropped, PartialStays, Case
<1>10. CASE DiscoveryFails \/ ReportsMiscounted
  BY <1>10 DEF DiscoveryFails, ReportsMiscounted, Case
<1>11. CASE ReportHashed
  <2>1. remote.tree.report \in Nat BY <1>11, <1>t, HeldType DEF ReportHashed
  <2>2. call'.hash = remote.tree.report /\ call'.id = call.id BY <1>11 DEF ReportHashed, LocalTypes, CallRecords
  <2> QED BY <1>11, <2>1, <2>2 DEF ReportHashed
<1>12. CASE CaseExists \/ DownloadFails
  BY <1>12 DEF CaseExists, DownloadFails
<1>13. CASE Downloaded \/ DownloadStays
  BY <1>13, <1>t DEF Downloaded, DownloadStays, Case, LocalTypes
<1>14. CASE SecretFound \/ ScanRaises \/ ReportDiffers
  BY <1>14, <1>t DEF SecretFound, ScanRaises, ReportDiffers, LocalTypes
<1>15. CASE ReportVerified
  BY <1>15 DEF ReportVerified, Case
<1>16. CASE KernelMiscounted \/ KernelDiffers
  BY <1>16 DEF KernelMiscounted, KernelDiffers
<1>17. CASE KernelVerified
  <2>1. remote.tree.kernel \in Nat BY <1>17, <1>t, HeldType DEF KernelVerified
  <2>2. call'.hash = remote.tree.kernel /\ call'.id = call.id BY <1>17 DEF KernelVerified, LocalTypes, CallRecords
  <2> QED BY <1>17, <2>1, <2>2 DEF KernelVerified, Case
<1>18. CASE CountersMissing \/ PersistFails \/ CallerRaises
  BY <1>18 DEF CountersMissing, PersistFails, CallerRaises
<1>19. CASE ParseFails \/ Imported
  <2>1. PICK files \in SUBSET Evidence : imports' \subseteq imports \cup Lines(files)
    <3>1. {} \in SUBSET Evidence /\ Evidence \in SUBSET Evidence /\ Prefixes \subseteq SUBSET Evidence
      BY DEF Prefixes, Evidence
    <3>2. CASE ParseFails
      BY <1>19, <3>1, <3>2 DEF ParseFails
    <3>3. CASE Imported
      BY <1>19, <3>1, <3>3 DEF Imported
    <3> QED BY <1>19, <3>2, <3>3
  <2>2. Lines(files) \subseteq [id: Ids, file: Evidence, text: Nat]
    BY <1>19, LinesType DEF ParseFails, Imported
  <2> QED BY <1>19, <2>1, <2>2 DEF ParseFails, Imported
<1>20. CASE Persisted \/ CallerRecords
  <2>1. remote' \in RemoteRecords
    BY <1>20, <1>r, <1>t DEF Persisted, CallerRecords, Returns, RemoteRecords
  <2> QED BY <1>20, <1>r, <2>1 DEF Persisted, CallerRecords, Returns, LocalTypes
<1>21. CASE NextTrialUploads \/ LateProcessEnds \/ \E tree \in Trees : Rewrites(tree)
  <2>1. remote' \in RemoteRecords /\ (remote.tree # NoTree => remote'.tree # NoTree)
    BY <1>21, <1>r, <1>t DEF NextTrialUploads, LateProcessEnds, Rewrites, RemoteRecords
  <2> QED BY <1>21, <1>r, <2>1 DEF NextTrialUploads, LateProcessEnds, Rewrites, Case
<1>22. CASE Cancel \/ Terminated \/ UNCHANGED vars
  BY <1>22 DEF Cancel, Terminated, vars, Case
<1> QED
  BY <1>1, <1>2, <1>3, <1>4, <1>5, <1>6, <1>7, <1>8, <1>9, <1>10, <1>11, <1>12, <1>13, <1>14, <1>15,
     <1>16, <1>17, <1>18, <1>19, <1>20, <1>21, <1>22 DEF Next, Call

-----------------------------------------------------------------------------
(* The record.                                                               *)

LEMMA EntryType ==
  ASSUME LocalTypes, pc # "idle"
  PROVE  /\ Entry \in EntryRecords /\ Entry.status = pending.status /\ Entry.asked = call.asked
         /\ LET e == [Entry EXCEPT !.status = "failed", !.reason = "adapter_exception"]
            IN  e \in EntryRecords /\ e.status = "failed"
<1>1. call.id \in Ids /\ call.request \in Requests /\ call.hash \in Texts /\ call.asked \in BOOLEAN
  BY DEF LocalTypes, CallRecords
<1>2. pending.status \in Statuses /\ pending.reason \in Reasons /\ pending.kept \in Names
  BY DEF LocalTypes, OutcomeRecords
<1>3. "failed" \in Statuses /\ "adapter_exception" \in Reasons /\ NoText \in Texts
  BY DEF Statuses, Reasons, Texts
<1>4. (IF pending.status = "collected" THEN call.hash ELSE NoText) \in Texts
  BY <1>1, <1>3
<1> QED
  BY <1>1, <1>2, <1>3, <1>4 DEF Entry, EntryRecords

RecordInv == AskedToStopIsNotCollected /\ OneRecordPerCall

LEMMA AppendKeeps ==
  ASSUME RecordInv, NEW e \in EntryRecords, e.asked => e.status # "collected",
         records \in Seq(EntryRecords), calls \in Nat,
         records' = Append(records, e), calls' = calls, pc # "idle", pc' = "idle"
  PROVE  records' \in Seq(EntryRecords) /\ RecordInv'
<1>1. records' \in Seq(EntryRecords) /\ Len(records') = Len(records) + 1
  OBVIOUS
<1>2. \A n \in DOMAIN records' : (n \in DOMAIN records /\ records'[n] = records[n]) \/ records'[n] = e
  OBVIOUS
<1> QED
  BY <1>1, <1>2 DEF RecordInv, AskedToStopIsNotCollected, OneRecordPerCall

CallInv == LocalTypes /\ AskedInv /\ TreeInv /\ RecordInv

THEOREM InitCallInv == Init => CallInv
<1> SUFFICES ASSUME Init PROVE CallInv
  OBVIOUS
<1>1. LocalTypes
  <2>1. FALSE \in BOOLEAN /\ <<>> \in Seq(EntryRecords) /\ "idle" \in Stages /\ 0 \in 0..MaxCalls
    BY CollectionAssumption DEF Stages
  <2> QED BY <2>1, NoCallType, NoOutcomeType DEF Init, LocalTypes
<1>2. AskedInv /\ RecordInv
  BY DEF Init, AskedInv, RecordInv, AskedToStopIsNotCollected, OneRecordPerCall
<1>3. TreeInv
  <2>1. NoTree \in Held /\ {} \in SUBSET Ids /\ FALSE \in BOOLEAN
    BY DEF Held
  <2> QED BY <2>1 DEF Init, TreeInv
<1> QED
  BY <1>1, <1>2, <1>3 DEF CallInv

THEOREM CallInvKept == CallInv /\ [Next]_vars => CallInv'
<1> SUFFICES ASSUME CallInv, [Next]_vars PROVE CallInv'
  OBVIOUS
<1> USE DEF CallInv, localVars, outVars
<1>a. calls \in Nat /\ MaxCalls \in Nat
  BY CollectionAssumption DEF LocalTypes
<1>0. TreeInv'
  BY TreeKept
<1>1. CASE \E i \in Ids, request \in Requests : Begins(i, request)
  <2>1. PICK i \in Ids, request \in Requests : Begins(i, request)
    BY <1>1
  <2> DEFINE first == [NoCall EXCEPT !.id = i, !.request = request]
  <2>2. first \in CallRecords /\ first.id = i /\ first.request = request /\ ~first.asked
    BY FirstType
  <2>3. call' = first /\ calls' = calls + 1 /\ calls < MaxCalls /\ UNCHANGED <<cancel, records>>
        /\ pc = "idle" /\ pc' \in {"check", "finish"}
    BY <2>1 DEF Begins, Finish
  <2>4. pending' \in OutcomeRecords /\ (pc' = "finish" => pending'.status = "cancelled")
    <3>1. /\ Outcome("cancelled", "cancelled", "nothing", "none") \in OutcomeRecords
          /\ Outcome("cancelled", "cancelled", "nothing", "none").status = "cancelled"
      BY OutcomeType DEF Statuses, Reasons, Names
    <3> QED BY <2>1, <3>1, NoOutcomeType DEF Begins, Finish
  <2> HIDE DEF first
  <2>5. LocalTypes'
    BY <2>2, <2>3, <2>4, <1>a DEF LocalTypes, Stages
  <2>6. AskedInv'
    BY <2>2, <2>3, <2>4 DEF AskedInv
  <2>7. RecordInv'
    BY <2>3, <1>a DEF RecordInv, AskedToStopIsNotCollected, OneRecordPerCall
  <2> QED BY <2>5, <2>6, <2>7, <1>0
<1>2. CASE Call /\ Inside
  <2>1. Kept
    BY <1>2, StepKeeps
  <2>2. LocalTypes'
    BY <1>2, <2>1 DEF Kept, Inside, LocalTypes
  <2>3. RecordInv'
    BY <1>2 DEF Inside, RecordInv, AskedToStopIsNotCollected, OneRecordPerCall
  <2> QED BY <2>1, <2>2, <2>3, <1>0 DEF Kept
<1>3. CASE Persisted \/ CallerRecords
  <2>1. pc # "idle" /\ pc' = "idle" /\ call' = NoCall /\ UNCHANGED <<cancel, calls>>
    BY <1>3 DEF Persisted, CallerRecords, Returns
  <2>2. pending' \in OutcomeRecords
    BY <1>3, NoOutcomeType DEF Persisted, CallerRecords, LocalTypes
  <2>3. AskedInv'
    BY <2>1 DEF AskedInv
  <2>4. PICK e \in EntryRecords : records' = Append(records, e) /\ (e.asked => e.status # "collected")
    <3>1. CASE Persisted
      BY <3>1, <2>1, EntryType DEF Persisted, AskedInv
    <3>2. CASE CallerRecords
      BY <3>2, <2>1, EntryType DEF CallerRecords
    <3> QED BY <1>3, <3>1, <3>2
  <2>5. records' \in Seq(EntryRecords) /\ RecordInv'
    BY <2>1, <2>4, <1>a, AppendKeeps DEF LocalTypes
  <2>6. LocalTypes'
    BY <2>1, <2>2, <2>5, NoCallType DEF LocalTypes, Stages
  <2> QED BY <2>3, <2>5, <2>6, <1>0
<1>4. CASE NextTrialUploads \/ Cancel \/ LateProcessEnds \/ Terminated \/ UNCHANGED vars
           \/ \E tree \in Trees : Rewrites(tree)
  <2>1. UNCHANGED <<pc, calls, call, pending, records>> /\ (cancel' = cancel \/ cancel' = TRUE)
    BY <1>4 DEF NextTrialUploads, Cancel, LateProcessEnds, Terminated, Rewrites, vars
  <2>2. cancel' \in BOOLEAN /\ (cancel => cancel')
    BY <2>1 DEF LocalTypes
  <2>3. LocalTypes'
    BY <2>1, <2>2 DEF LocalTypes
  <2>4. AskedInv'
    BY <2>1, <2>2 DEF AskedInv
  <2>5. RecordInv'
    BY <2>1 DEF RecordInv, AskedToStopIsNotCollected, OneRecordPerCall
  <2> QED BY <2>3, <2>4, <2>5, <1>0
<1> QED
  BY <1>1, <1>2, <1>3, <1>4, StepInside DEF Next

-----------------------------------------------------------------------------
(* Every call that returned to the run has exactly one record.               *)
THEOREM OneRecord == Spec => []OneRecordPerCall
<1>1. CallInv => OneRecordPerCall
  BY DEF CallInv, RecordInv
<1> QED
  BY InitCallInv, CallInvKept, <1>1, PTL DEF Spec

(* A collection that was asked to stop before its command answered is not     *)
(* "collected".                                                               *)
THEOREM StoppedIsNotCollected == Spec => []AskedToStopIsNotCollected
<1>1. CallInv => AskedToStopIsNotCollected
  BY DEF CallInv, RecordInv
<1> QED
  BY InitCallInv, CallInvKept, <1>1, PTL DEF Spec

(* Every variable keeps its type, and no step looks at a directory that is    *)
(* not there.                                                                 *)
THEOREM Types == Spec => []TypeOK
<1>1. CallInv => TypeOK
  BY DEF CallInv, LocalTypes, TreeInv, TypeOK
<1> QED
  BY InitCallInv, CallInvKept, <1>1, PTL DEF Spec

-----------------------------------------------------------------------------
(* No secret stays: a local tree that holds one belongs to the call that is   *)
(* about to look for it, or to one that raised.                               *)
SecretInv ==
  \A i \in Ids \ broken :
    /\ partials[i] # NoTree /\ partials[i].secret => pc \in {"raised", "dead"} /\ call.id = i
    /\ cases[i] # NoTree /\ cases[i].secret => pc \in {"scan", "raised", "dead"} /\ call.id = i

(* A step of a call that adds no local tree and does not get a call with a    *)
(* secret past its search.                                                    *)
Harmless ==
  /\ UNCHANGED <<cases, partials, broken>> /\ pc # "idle" /\ call'.id = call.id
  /\ pc \in {"raised", "dead"} => pc' \in {"raised", "dead"}
  /\ pc = "scan" => pc' \in {"raised", "dead"} \/ Case = NoTree \/ ~Case.secret

LEMMA SecretKept ==
  ASSUME CallInv, SecretInv, [Next]_vars
  PROVE  SecretInv'
<1> USE DEF CallInv, localVars, outVars, Finish, Fail, FailExecution, Raise
<1>t. /\ cases \in [Ids -> Held] /\ partials \in [Ids -> Held]
      /\ pc # "idle" => call.id \in Ids /\ call \in CallRecords
  BY DEF TreeInv, LocalTypes
<1>h. CASE Harmless
  BY <1>h DEF Harmless, SecretInv, Case
<1>1. CASE \E i \in Ids, request \in Requests : Begins(i, request)
  BY <1>1 DEF Begins, SecretInv
<1>2. CASE Refused \/ \E reason \in {"runner_exception", "guard_denied", "tool_unavailable"} : ToolFails(reason)
  BY <1>2, <1>h DEF Refused, ToolFails, Harmless
<1>3. CASE ToolsAreThere \/ Prepared
           \/ \E reason \in {"runner_exception", "guard_denied", "collection_workspace_failed"} : PrepareFails(reason)
  BY <1>3, <1>h DEF ToolsAreThere, Prepared, PrepareFails, Harmless
<1>4. CASE \E tree \in Trees : CommandStarts(tree)
  BY <1>4, <1>h DEF CommandStarts, Harmless
<1>5. CASE CommandDenied \/ CommandEnds \/ CommandStopped \/ StopUnverified \/ LinkBreaks
  <2>1. \E a, b : Answers(a, b) /\ pc \in {"execute", "running"}
    BY <1>5 DEF CommandDenied, CommandEnds, CommandStopped, StopUnverified, LinkBreaks
  <2>2. call'.id = call.id
    BY <2>1, <1>t DEF Answers, CallRecords
  <2> QED BY <2>1, <2>2, <1>h DEF Answers, Harmless
<1>6. CASE LogsFail \/ NotExecuted \/ ExecutionFailed \/ ExecutionPassed
  BY <1>6, <1>h DEF LogsFail, NotExecuted, ExecutionFailed, ExecutionPassed, Harmless
<1>7. CASE PartialDropped \/ DiscoveryFails \/ ReportsMiscounted \/ CaseExists \/ DownloadFails
  BY <1>7, <1>h DEF PartialDropped, DiscoveryFails, ReportsMiscounted, CaseExists, DownloadFails, Harmless
<1>8. CASE PartialKept \/ PartialStays
  BY <1>8, <1>t DEF PartialKept, PartialStays, SecretInv
<1>9. CASE ReportHashed \/ KernelVerified
  <2>1. call'.id = call.id /\ pc \in {"discover", "kernel"}
    BY <1>9, <1>t DEF ReportHashed, KernelVerified, CallRecords
  <2> QED BY <1>9, <2>1, <1>h DEF ReportHashed, KernelVerified, Harmless
<1>10. CASE Downloaded \/ DownloadStays
  BY <1>10, <1>t DEF Downloaded, DownloadStays, SecretInv
<1>11. CASE SecretFound
  BY <1>11, <1>t DEF SecretFound, SecretInv
<1>12. CASE ScanRaises \/ ReportDiffers \/ ReportVerified
  BY <1>12, <1>h DEF ScanRaises, ReportDiffers, ReportVerified, Harmless
<1>13. CASE KernelMiscounted \/ KernelDiffers \/ CountersMissing \/ ParseFails \/ Imported
  BY <1>13, <1>h DEF KernelMiscounted, KernelDiffers, CountersMissing, ParseFails, Imported, Harmless
<1>14. CASE PersistFails \/ CallerRaises
  BY <1>14, <1>h DEF PersistFails, CallerRaises, Harmless
<1>15. CASE Persisted \/ CallerRecords
  <2>1. \A i \in Ids \ broken' :
          /\ partials[i] # NoTree => ~partials[i].secret
          /\ cases[i] # NoTree => ~cases[i].secret
    BY <1>15 DEF Persisted, CallerRecords, SecretInv
  <2> QED BY <1>15, <2>1 DEF Persisted, CallerRecords, SecretInv
<1>16. CASE NextTrialUploads \/ Cancel \/ LateProcessEnds \/ Terminated \/ UNCHANGED vars
            \/ \E tree \in Trees : Rewrites(tree)
  BY <1>16 DEF NextTrialUploads, Cancel, LateProcessEnds, Terminated, Rewrites, vars, SecretInv
<1> QED
  BY <1>1, <1>2, <1>3, <1>4, <1>5, <1>6, <1>7, <1>8, <1>9, <1>10, <1>11, <1>12, <1>13, <1>14, <1>15, <1>16
  DEF Next, Call

(* Between two calls no local directory holds a configured secret, unless the *)
(* call that left it ended in an exception.                                   *)
THEOREM NoSecretStays == Spec => []SecretsAreDropped
<1>1. Init => SecretInv
  BY DEF Init, SecretInv
<1>2. SecretInv => SecretsAreDropped
  BY DEF SecretInv, SecretsAreDropped
<1> QED
  BY InitCallInv, CallInvKept, SecretKept, <1>1, <1>2, PTL DEF Spec

-----------------------------------------------------------------------------
(* A collected record is bound to the report it names: the import looks at a  *)
(* report with the hash of the call, in a directory no collected record names *)
(* yet, and nothing touches that directory behind it.                         *)

IsReported == call.hash = IF call.request.perKernel THEN Case.kernel ELSE Case.report

BoundInv ==
  /\ pc \in {"scan", "kernel", "import"} =>
       \A n \in DOMAIN records : records[n].status = "collected" => records[n].id # call.id
  /\ pc = "kernel" => call.request.perKernel
  /\ pc = "import" => IsReported
  /\ pc = "preserve" => pending.status # "collected"
  /\ pc = "finish" /\ pending.status = "collected" =>
       /\ Case # NoTree /\ Case.numeric /\ IsReported
       /\ call.request.append => Lines(Evidence) \subseteq imports
  /\ CollectedIsBound

(* No outcome but that of the import says "collected".                        *)
LEMMA OthersDoNotCollect ==
  ASSUME CallInv, Call, Inside, ~Imported, pc = "preserve" => pending.status # "collected"
  PROVE  pc' \in {"preserve", "finish"} => pending'.status # "collected"
<1> USE DEF CallInv, Inside, Finish, Fail, FailExecution, Raise, localVars, outVars
<1>o. ASSUME NEW q, NEW r, NEW k, NEW g
      PROVE  Outcome(q, r, k, g).status = q
  BY DEF Outcome
<1>1. CASE Refused \/ \E reason \in {"runner_exception", "guard_denied", "tool_unavailable"} : ToolFails(reason)
  BY <1>1, <1>o DEF Refused, ToolFails
<1>2. CASE ToolsAreThere \/ Prepared
           \/ \E reason \in {"runner_exception", "guard_denied", "collection_workspace_failed"} : PrepareFails(reason)
  BY <1>2, <1>o DEF ToolsAreThere, Prepared, PrepareFails
<1>3. CASE \E tree \in Trees : CommandStarts(tree)
  BY <1>3 DEF CommandStarts
<1>4. CASE CommandDenied \/ CommandEnds \/ CommandStopped \/ StopUnverified \/ LinkBreaks
  BY <1>4 DEF CommandDenied, CommandEnds, CommandStopped, StopUnverified, LinkBreaks, Answers
<1>5. CASE LogsFail \/ NotExecuted \/ ExecutionFailed \/ ExecutionPassed
  BY <1>5, <1>o DEF LogsFail, NotExecuted, ExecutionFailed, ExecutionPassed
<1>6. CASE PartialKept \/ PartialDropped \/ PartialStays
  BY <1>6, KeptType DEF PartialKept, PartialDropped, PartialStays, LocalTypes
<1>7. CASE DiscoveryFails \/ ReportsMiscounted \/ ReportHashed
  BY <1>7, <1>o DEF DiscoveryFails, ReportsMiscounted, ReportHashed
<1>8. CASE CaseExists \/ Downloaded \/ DownloadFails \/ DownloadStays
  BY <1>8, <1>o DEF CaseExists, Downloaded, DownloadFails, DownloadStays
<1>9. CASE SecretFound \/ ScanRaises \/ ReportDiffers \/ ReportVerified
  BY <1>9, <1>o DEF SecretFound, ScanRaises, ReportDiffers, ReportVerified
<1>10. CASE KernelMiscounted \/ KernelDiffers \/ KernelVerified
  BY <1>10, <1>o DEF KernelMiscounted, KernelDiffers, KernelVerified
<1>11. CASE CountersMissing \/ ParseFails
  BY <1>11, <1>o DEF CountersMissing, ParseFails
<1>12. CASE PersistFails \/ CallerRaises
  BY <1>12, <1>o DEF PersistFails, CallerRaises
<1>13. ~Persisted /\ ~CallerRecords
  BY DEF Persisted, CallerRecords, Returns
<1> QED
  BY <1>1, <1>2, <1>3, <1>4, <1>5, <1>6, <1>7, <1>8, <1>9, <1>10, <1>11, <1>12, <1>13 DEF Call

(* Steps that leave the local cases, the imports and the record alone.        *)
Apart == UNCHANGED <<cases, imports, records>>

LEMMA BoundStays ==
  ASSUME CollectedIsBound, records' = records, imports \subseteq imports',
         \A n \in DOMAIN records : records[n].status = "collected" => cases'[records[n].id] = cases[records[n].id]
  PROVE  CollectedIsBound'
BY DEF CollectedIsBound, Reported

LEMMA BoundInside ==
  ASSUME CallInv, BoundInv, Call, Inside
  PROVE  BoundInv'
<1> USE DEF CallInv, Inside
<1>t. /\ cases \in [Ids -> Held] /\ call.id \in Ids /\ call \in CallRecords /\ records \in Seq(EntryRecords)
  BY DEF TreeInv, LocalTypes
<1>p. ASSUME Apart, UNCHANGED call, ~Imported, pc' \notin {"scan", "kernel", "import"}
      PROVE  BoundInv'
  <2>1. pc' \in {"preserve", "finish"} => pending'.status # "collected"
    BY <1>p, OthersDoNotCollect DEF BoundInv
  <2>2. CollectedIsBound'
    BY <1>p, BoundStays DEF Apart, BoundInv
  <2> QED BY <1>p, <2>1, <2>2 DEF BoundInv
<1> USE DEF localVars, outVars, Finish, Fail, FailExecution, Raise
<1>1. CASE Refused \/ \E reason \in {"runner_exception", "guard_denied", "tool_unavailable"} : ToolFails(reason)
  BY <1>1, <1>p DEF Refused, ToolFails, Apart, Imported
<1>2. CASE ToolsAreThere \/ Prepared
           \/ \E reason \in {"runner_exception", "guard_denied", "collection_workspace_failed"} : PrepareFails(reason)
  BY <1>2, <1>p DEF ToolsAreThere, Prepared, PrepareFails, Apart, Imported
<1>3. CASE \E tree \in Trees : CommandStarts(tree)
  BY <1>3, <1>p DEF CommandStarts, Apart, Imported
<1>4. CASE CommandDenied \/ CommandEnds \/ CommandStopped \/ StopUnverified \/ LinkBreaks
  <2>1. pc' = "judge" /\ Apart
    BY <1>4 DEF CommandDenied, CommandEnds, CommandStopped, StopUnverified, LinkBreaks, Answers, Apart
  <2>2. CollectedIsBound'
    BY <2>1, BoundStays DEF Apart, BoundInv
  <2> QED BY <2>1, <2>2 DEF BoundInv
<1>5. CASE LogsFail \/ NotExecuted \/ ExecutionFailed \/ ExecutionPassed
  BY <1>5, <1>p DEF LogsFail, NotExecuted, ExecutionFailed, ExecutionPassed, Apart, Imported
<1>6. CASE PartialKept \/ PartialDropped \/ PartialStays
  BY <1>6, <1>p DEF PartialKept, PartialDropped, PartialStays, Apart, Imported
<1>7. CASE DiscoveryFails \/ ReportsMiscounted
  BY <1>7, <1>p DEF DiscoveryFails, ReportsMiscounted, Apart, Imported
<1>8. CASE ReportHashed
  <2>1. pc' = "download" /\ Apart
    BY <1>8 DEF ReportHashed, Apart
  <2>2. CollectedIsBound'
    BY <2>1, BoundStays DEF Apart, BoundInv
  <2> QED BY <2>1, <2>2 DEF BoundInv
<1>9. CASE CaseExists \/ DownloadFails
  BY <1>9, <1>p DEF CaseExists, DownloadFails, Apart, Imported
<1>10. CASE Downloaded \/ DownloadStays
  <2>1. \A n \in DOMAIN records : records[n].status = "collected" => records[n].id # call.id
    BY <1>10 DEF Downloaded, DownloadStays, BoundInv, CollectedIsBound
  <2>2. CollectedIsBound'
    <3>1. \A i \in Ids : i # call.id => cases'[i] = cases[i]
      BY <1>10, <1>t DEF Downloaded, DownloadStays
    <3>2. \A n \in DOMAIN records : records[n].id \in Ids
      <4>1. \A n \in DOMAIN records : records[n] \in EntryRecords
        BY <1>t
      <4> QED BY <4>1 DEF EntryRecords
    <3>3. UNCHANGED <<imports, records>>
      BY <1>10 DEF Downloaded, DownloadStays
    <3> QED BY <2>1, <3>1, <3>2, <3>3, BoundStays DEF BoundInv
  <2> QED BY <1>10, <2>1, <2>2 DEF Downloaded, DownloadStays, BoundInv
<1>11. CASE SecretFound
  <2>1. CollectedIsBound'
    BY <1>11, <1>t, BoundStays DEF SecretFound, BoundInv
  <2>2. pending'.status # "collected"
    BY <1>11, OthersDoNotCollect DEF SecretFound, BoundInv, Imported
  <2> QED BY <1>11, <2>1, <2>2 DEF SecretFound, BoundInv
<1>12. CASE ScanRaises \/ ReportDiffers
  BY <1>12, <1>p DEF ScanRaises, ReportDiffers, Apart, Imported
<1>13. CASE ReportVerified
  <2>1. CollectedIsBound'
    BY <1>13, BoundStays DEF ReportVerified, BoundInv
  <2> QED BY <1>13, <2>1 DEF ReportVerified, BoundInv, IsReported, Case
<1>14. CASE KernelMiscounted \/ KernelDiffers
  BY <1>14, <1>p DEF KernelMiscounted, KernelDiffers, Apart, Imported
<1>16. CASE CountersMissing \/ PersistFails \/ CallerRaises
  BY <1>16, <1>p DEF CountersMissing, PersistFails, CallerRaises, Apart, Imported
<1>17. CASE ParseFails
  <2>1. pending'.status # "collected" /\ pc' = "finish"
    BY <1>17, OthersDoNotCollect DEF ParseFails, BoundInv, Imported, Outcome
  <2>2. imports \subseteq imports' /\ UNCHANGED <<cases, records>>
    BY <1>17 DEF ParseFails
  <2>3. CollectedIsBound'
    BY <2>2, BoundStays DEF BoundInv
  <2> QED BY <2>1, <2>3 DEF BoundInv
<1>18. CASE Imported
  <2>1. imports \subseteq imports' /\ UNCHANGED <<cases, records, call>> /\ pc' = "finish" /\ Case.numeric
    BY <1>18 DEF Imported
  <2>2. CollectedIsBound'
    BY <2>1, BoundStays DEF BoundInv
  <2>3. IsReported' /\ Case' = Case /\ Case # NoTree
    BY <1>18, <2>1 DEF Imported, BoundInv, IsReported, Case, TreeInv
  <2>4. call.request.append => Lines(Evidence)' \subseteq imports'
    BY <1>18, <2>1 DEF Imported, Lines
  <2> QED BY <2>1, <2>2, <2>3, <2>4 DEF BoundInv
<1>15. CASE KernelVerified
  <2>1. CollectedIsBound'
    BY <1>15, BoundStays DEF KernelVerified, BoundInv
  <2>2. call'.hash = remote.tree.kernel /\ call'.id = call.id /\ call'.request = call.request
    BY <1>15, <1>t DEF KernelVerified, CallRecords
  <2> QED BY <1>15, <2>1, <2>2 DEF KernelVerified, BoundInv, IsReported, Case
<1>19. ~Persisted /\ ~CallerRecords
  BY DEF Persisted, CallerRecords, Returns
<1> QED
  BY <1>1, <1>2, <1>3, <1>4, <1>5, <1>6, <1>7, <1>8, <1>9, <1>10, <1>11, <1>12, <1>13, <1>14, <1>15,
     <1>16, <1>17, <1>18, <1>19 DEF Call

(* The line that finish() or the caller writes is bound when it is collected. *)
LEMMA BoundRecorded ==
  ASSUME CallInv, BoundInv, Persisted \/ CallerRecords
  PROVE  BoundInv'
<1> USE DEF CallInv
<1>1. /\ pc' = "idle" /\ UNCHANGED <<cases, partials, imports>>
  BY DEF Persisted, CallerRecords, Returns, localVars
<1>2. PICK e \in EntryRecords :
         /\ records' = Append(records, e)
         /\ e.status = "collected" => pc = "finish" /\ pending.status = "collected" /\ e = Entry
  <2>0. pc # "idle"
    BY DEF Persisted, CallerRecords
  <2>1. CASE Persisted
    BY <2>0, <2>1, EntryType DEF Persisted
  <2>2. CASE CallerRecords
    BY <2>0, <2>2, EntryType DEF CallerRecords
  <2> QED BY <2>1, <2>2
<1>3. \A n \in DOMAIN records' : (n \in DOMAIN records /\ records'[n] = records[n]) \/ records'[n] = e
  BY <1>2 DEF LocalTypes
<1>4. e.status = "collected" =>
        /\ cases[e.id] # NoTree /\ cases[e.id].numeric /\ e.hash = Reported(e)
        /\ e.request.append => \A f \in Evidence : [id |-> e.id, file |-> f, text |-> e.hash] \in imports
  <2> SUFFICES ASSUME e.status = "collected"
               PROVE  /\ cases[e.id] # NoTree /\ cases[e.id].numeric /\ e.hash = Reported(e)
                      /\ e.request.append =>
                           \A f \in Evidence : [id |-> e.id, file |-> f, text |-> e.hash] \in imports
    OBVIOUS
  <2>1. e.id = call.id /\ e.request = call.request /\ e.hash = call.hash
    BY <1>2 DEF Entry
  <2>2. Case # NoTree /\ Case.numeric /\ IsReported /\ (call.request.append => Lines(Evidence) \subseteq imports)
    BY <1>2 DEF BoundInv
  <2>3. e.request.append => \A f \in Evidence : [id |-> e.id, file |-> f, text |-> e.hash] \in imports
    BY <2>1, <2>2 DEF Lines
  <2> QED BY <2>1, <2>2, <2>3 DEF Case, Reported, IsReported
<1>5. CollectedIsBound'
  BY <1>1, <1>3, <1>4 DEF BoundInv, CollectedIsBound, Reported
<1> QED
  BY <1>1, <1>5 DEF BoundInv

LEMMA BoundKept ==
  ASSUME CallInv, BoundInv, [Next]_vars
  PROVE  BoundInv'
<1> USE DEF localVars, outVars
<1>1. CASE \E i \in Ids, request \in Requests : Begins(i, request)
  <2>1. PICK i \in Ids, request \in Requests : Begins(i, request)
    BY <1>1
  <2>2. Outcome("cancelled", "cancelled", "nothing", "none").status = "cancelled"
    BY DEF Outcome
  <2>3. CollectedIsBound'
    BY <2>1, BoundStays DEF Begins, BoundInv
  <2> QED BY <2>1, <2>2, <2>3 DEF Begins, BoundInv, Finish
<1>2. CASE NextTrialUploads \/ Cancel \/ LateProcessEnds \/ Terminated \/ UNCHANGED vars
           \/ \E tree \in Trees : Rewrites(tree)
  <2>1. UNCHANGED <<pc, call, pending, cases, imports, records>>
    BY <1>2 DEF NextTrialUploads, Cancel, LateProcessEnds, Terminated, Rewrites, vars
  <2>2. CollectedIsBound'
    BY <2>1, BoundStays DEF BoundInv
  <2> QED BY <2>1, <2>2 DEF BoundInv, IsReported, Case, Lines
<1> QED
  BY <1>1, <1>2, StepInside, BoundInside, BoundRecorded DEF Next

(* A record that says "collected" stands for a report that is still there, is *)
(* the one hashed on the remote host and has numeric counters, and the lines  *)
(* imported for it are of that report.                                        *)
THEOREM CollectedIsReported == Spec => []CollectedIsBound
<1>1. Init => BoundInv
  BY DEF Init, BoundInv, CollectedIsBound
<1>2. BoundInv => CollectedIsBound
  BY DEF BoundInv
<1> QED
  BY InitCallInv, CallInvKept, BoundKept, <1>1, <1>2, PTL DEF Spec

-----------------------------------------------------------------------------
(* The managed command.                                                      *)

\* What the supervising shell knows about its child and its pid file.
ShellInv ==
    /\ supervisor \in {"absent", "started"} => leader = "none"
    /\ supervisor \in {"launched", "waiting", "hangup"} => leader # "none"
    /\ supervisor = "reaped" => leader = "gone"
    /\ supervisor = "exited" => leader \in {"none", "gone"}
    /\ leader = "none" => ~helpers
    /\ pidFile => supervisor \in {"waiting", "hangup", "reaped"}

\* A stop shell that signalled had found the group; one that confirmed saw it gone.
StopperInv ==
    /\ stopper = "signalled" => leader \in {"grouped", "gone"}
    /\ stopper = "confirmed" => leader = "gone" /\ ~helpers
    /\ stopVerified \/ answer = "stopped" => stopper = "confirmed"

\* Where the local thread stands, and what it has seen to get there.
ThreadInv ==
    /\ thread \in {"guard", "opening"} => supervisor = "absent"
    /\ closed => thread \in {"collecting", "returned"}
    /\ thread \in {"stop", "stopping", "grace"} => why # "none"
    /\ thread = "collecting" /\ link =>
          supervisor = "exited" \/ (closed /\ why # "none" /\ ~stopVerified)
    /\ stopVerified => thread \in {"grace", "collecting", "returned"}
    /\ answer # "none" => thread = "returned"
    /\ answer = "denied" => supervisor = "absent"
    /\ answer = "exited" /\ link => supervisor = "exited"

\* Only the status of a shell that exited has arrived, and the stop shell starts once.
HeardInv ==
    /\ "supervisor" \in heard => supervisor = "exited"
    /\ "stopper" \in heard => stopper \in {"confirmed", "refused"}
    /\ thread \notin {"stopping", "grace", "collecting", "returned"} => stopper = "idle"

MInv == CommandTypes /\ ShellInv /\ StopperInv /\ ThreadInv /\ HeardInv

-----------------------------------------------------------------------------
(* The invariant is inductive.                                             *)

LEMMA CommandBegins == CommandInit => MInv
BY DEF CommandInit, MInv, CommandTypes, ShellInv, StopperInv, ThreadInv, HeardInv

\* The steps of the local thread.
LEMMA LocalKeepsInv ==
    ASSUME MInv, Local
    PROVE  MInv'
<1> USE DEF MInv, CommandTypes, ShellInv, StopperInv, ThreadInv, HeardInv, StopReasons, Goto,
            ReturnsWith, requestVars, remoteVars, callVars, wireVars, Arrives
<1>1. CASE Denied BY <1>1 DEF Denied
<1>2. CASE Guarded BY <1>2 DEF Guarded
<1>3. CASE Opens BY <1>3 DEF Opens
<1>4. CASE OpenRaises BY <1>4 DEF OpenRaises
<1>5. CASE PollReads BY <1>5 DEF PollReads, StatusReady
<1>6. CASE Reads
  <2>1. output' \in BOOLEAN
    <3>1. CASE Floods BY <1>6, <3>1, Zenon DEF Reads
    <3>2. CASE ~Floods BY <1>6, <3>2 DEF Reads, Floods
    <3> QED BY <3>1, <3>2
  <2> QED BY <2>1, <1>6 DEF Reads
<1>7. CASE Drained BY <1>7 DEF Drained
<1>8. CASE Checks
  <2>1. ASSUME NEW reason \in StopReasons, Breaks(reason), thread = "checks" PROVE MInv'
    BY <2>1 DEF Breaks
  <2>2. CASE Goto("poll") /\ UNCHANGED <<requestVars, wireVars, remoteVars, stopper>>
    BY <1>8, <2>2 DEF Checks
  <2> QED BY <1>8, <2>1, <2>2 DEF Checks
<1>9. CASE Raises BY <1>9 DEF Raises, Breaks
<1>10. CASE StopStarts
  <2>1. "stopper" \notin heard
    BY <1>10 DEF StopStarts
  <2> QED BY <1>10, <2>1 DEF StopStarts
<1>11. CASE StopAnswered BY <1>11 DEF StopAnswered, StopOver, StopSucceeded
<1>12. CASE CleanedUp BY <1>12 DEF CleanedUp, StopOver, StopSucceeded
<1>13. CASE GraceSees BY <1>13 DEF GraceSees, StatusReady
<1>14. CASE GraceExpires
  <2>1. stopVerified' \in BOOLEAN BY <1>14, Zenon DEF GraceExpires
  <2> QED BY <2>1, <1>14 DEF GraceExpires, StatusReady
<1>15. CASE Collected BY <1>15 DEF Collected, Result
<1> QED
  BY ONLY Local, <1>1, <1>2, <1>3, <1>4, <1>5, <1>6, <1>7, <1>8, <1>9, <1>10, <1>11, <1>12, <1>13,
          <1>14, <1>15 DEF Local

\* The steps on the machine, of the two shells and of the command.
LEMMA RemoteKeepsInv ==
    ASSUME MInv, Supervisor \/ HangsUp \/ Command \/ Stopper
    PROVE  MInv'
<1> USE DEF MInv, CommandTypes, ShellInv, StopperInv, ThreadInv, HeardInv, GroupRuns, ExitOf,
            requestVars, remoteVars, callVars, wireVars, Arrives
<1>1. CASE SupervisorRefuses BY <1>1 DEF SupervisorRefuses
<1>2. CASE Launches BY <1>2 DEF Launches
<1>3. CASE WritesPid BY <1>3 DEF WritesPid
<1>4. CASE Reaps BY <1>4 DEF Reaps
<1>5. CASE Exits
  <2>1. pidFile' \in BOOLEAN BY <1>5, Zenon DEF Exits
  <2> QED BY <2>1, <1>5 DEF Exits
<1>6. CASE HangsUp BY <1>6 DEF HangsUp
<1>7. CASE Groups BY <1>7 DEF Groups
<1>8. CASE Ends BY <1>8 DEF Ends
<1>9. CASE HelperStarts BY <1>9 DEF HelperStarts
<1>10. CASE HelpersEnd
  <2>1. helpers' \in BOOLEAN BY <1>10, Zenon DEF HelpersEnd
  <2> QED BY <2>1, <1>10 DEF HelpersEnd
<1>11. CASE Writes BY <1>11 DEF Writes
<1>17. CASE FloodTurns
  <2>1. flooding' \in BOOLEAN BY <1>17, Zenon DEF FloodTurns
  <2> QED BY <2>1, <1>17 DEF FloodTurns
<1>12. CASE StopRefuses BY <1>12 DEF StopRefuses
<1>13. CASE StopSignals BY <1>13 DEF StopSignals, FindsGroup
<1>14. CASE StopConfirms
  <2>1. pidFile' \in BOOLEAN BY <1>14, Zenon DEF StopConfirms
  <2> QED BY <2>1, <1>14 DEF StopConfirms
<1>15. CASE StopGivesUp BY <1>15 DEF StopGivesUp
<1>16. CASE Killed
  <2>1. helpers' \in BOOLEAN BY <1>16, Zenon DEF Killed
  <2> QED BY <2>1, <1>16 DEF Killed
<1> QED
  BY ONLY Supervisor \/ HangsUp \/ Command \/ Stopper, <1>1, <1>2, <1>3, <1>4, <1>5, <1>6, <1>7,
          <1>8, <1>9, <1>10, <1>11, <1>12, <1>13, <1>14, <1>15, <1>16, <1>17
     DEF Supervisor, Command, Stopper

LEMMA CommandStep == MInv /\ [CommandNext]_commandVars => MInv'
<1> SUFFICES ASSUME MInv, [CommandNext]_commandVars PROVE MInv'
  OBVIOUS
<1> USE DEF MInv, CommandTypes, ShellInv, StopperInv, ThreadInv, HeardInv, requestVars,
            remoteVars, callVars, wireVars, Arrives
<1>1. CASE RequestCancel BY <1>1 DEF RequestCancel
<1>2. CASE TimePasses BY <1>2 DEF TimePasses
<1>3. CASE ConnectionBreaks
  <2>1. link' \in BOOLEAN BY <1>3, Zenon DEF ConnectionBreaks
  <2> QED BY <2>1, <1>3 DEF ConnectionBreaks
<1>4. CASE Over \/ UNCHANGED commandVars
  <2>1. UNCHANGED <<callVars, requestVars, link, silent, heard, output, flooding, remoteVars, stopper>>
    BY <1>4 DEF Over, commandVars
  <2> QED BY <2>1
<1>5. CASE ConnectionFallsSilent BY <1>5 DEF ConnectionFallsSilent
<1> QED
  BY ONLY MInv, [CommandNext]_commandVars, <1>1, <1>2, <1>3, <1>4, <1>5, LocalKeepsInv, RemoteKeepsInv
     DEF CommandNext

LEMMA CommandInvariance == CommandSpec => []MInv
BY CommandBegins, CommandStep, PTL DEF CommandSpec

-----------------------------------------------------------------------------
(* Theorems.                                                               *)

\* The variables keep their types, for every set of faults.
THEOREM CommandTypeCorrect == CommandSpec => []CommandTypes
<1>1. MInv => CommandTypes
  BY DEF MInv
<1> QED BY <1>1, CommandInvariance, PTL

\* A result that says the stop was verified means that the whole process group is
\* gone, whatever faults happen: stop_managed_process_group of run_cancellable.
THEOREM StopClearsGroup == CommandSpec => []VerifiedStopClearsGroup
<1>1. MInv => VerifiedStopClearsGroup
  BY DEF MInv, StopperInv, VerifiedStopClearsGroup, GroupRuns
<1> QED BY <1>1, CommandInvariance, PTL

\* The pid file never outlives the supervisor, whose trap and whose stop shell both
\* remove it.
THEOREM PidFileRemoved == CommandSpec => []NoStalePidFile
<1>1. MInv => NoStalePidFile
  BY DEF MInv, ShellInv, NoStalePidFile
<1> QED BY <1>1, CommandInvariance, PTL

\* run_cancellable implements the contract its callers read its results by.
THEOREM CommandImplements == CommandSpec => ImplementsContract
<1> DEFINE command == CASE leader = "none" -> "ready"
                        [] leader = "gone" -> "over"
                        [] OTHER -> "running"
           reported == IF answer \in {"denied", "exited"} THEN "finished" ELSE answer
           mapped == <<link, command, reported>>
<1>1. CommandInit => Contract!Init
  BY DEF CommandInit, Contract!Init
<1>2. MInv /\ [CommandNext]_commandVars => [Contract!Next]_mapped
  <2> SUFFICES ASSUME MInv, [CommandNext]_commandVars
               PROVE  Contract!Next \/ UNCHANGED mapped
    OBVIOUS
  <2> USE DEF MInv, CommandTypes, ShellInv, StopperInv, ThreadInv, HeardInv, requestVars,
              remoteVars, callVars, wireVars, Arrives
  <2>1. CASE Launches
    <3>1. command = "ready" /\ command' = "running" /\ UNCHANGED <<link, reported>>
      BY <2>1 DEF Launches
    <3>2. ~(link /\ reported \in {"finished", "stopped"})
      BY <2>1 DEF Launches
    <3> QED BY <3>1, <3>2 DEF Contract!Next, Contract!Starts, Contract!Settled
  <2>2. CASE Ends \/ Killed
    <3>1. /\ UNCHANGED <<link, reported>>
          /\ command \in {"running", "over"}
          /\ command' = "over"
      BY <2>2 DEF Ends, Killed
    <3> QED BY <3>1 DEF Contract!Next, Contract!Ends
  <2>3. CASE ConnectionBreaks
    <3>1. link /\ link' = FALSE /\ UNCHANGED <<command, reported>>
      BY <2>3 DEF ConnectionBreaks
    <3> QED BY <3>1 DEF Contract!Next, Contract!Breaks
  <2>4. CASE Denied \/ OpenRaises \/ CleanedUp \/ Collected
    <3>1. reported = "none" /\ UNCHANGED <<link, command>>
      BY <2>4 DEF Denied, OpenRaises, CleanedUp, Collected, ReturnsWith, StopOver
    <3>2. reported' = "unverified"
             \/ (reported' \in {"finished", "stopped"} /\ ~(link /\ command = "running"))
      BY <2>4 DEF Denied, OpenRaises, CleanedUp, Collected, ReturnsWith, Result,
                StopOver, StopSucceeded
    <3> QED BY <3>1, <3>2 DEF Contract!Next, Contract!Answers
  <2>5. CASE Guarded \/ Opens \/ PollReads \/ Reads \/ Drained \/ Checks \/ Raises \/ StopStarts
               \/ StopAnswered \/ GraceSees \/ GraceExpires
    BY <2>5 DEF Guarded, Opens, PollReads, Reads, Drained, Checks, Raises, StopStarts,
                StopAnswered, GraceSees, GraceExpires, Goto, Breaks
  <2>6. CASE SupervisorRefuses \/ WritesPid \/ Reaps \/ Exits \/ HangsUp \/ Groups \/ HelperStarts
               \/ HelpersEnd \/ Writes \/ FloodTurns
    BY <2>6 DEF SupervisorRefuses, WritesPid, Reaps, Exits, HangsUp, Groups, HelperStarts,
                HelpersEnd, Writes, FloodTurns
  <2>7. CASE StopRefuses \/ StopSignals \/ StopConfirms \/ StopGivesUp \/ RequestCancel
               \/ TimePasses \/ ConnectionFallsSilent \/ Over \/ UNCHANGED commandVars
    BY <2>7 DEF StopRefuses, StopSignals, StopConfirms, StopGivesUp, RequestCancel, TimePasses,
                ConnectionFallsSilent, Over, commandVars
  <2> QED
    BY ONLY [CommandNext]_commandVars, <2>1, <2>2, <2>3, <2>4, <2>5, <2>6, <2>7
       DEF CommandNext, Local, Supervisor, Command, Stopper
<1> QED
  BY <1>1, <1>2, CommandInvariance, PTL DEF CommandSpec, ImplementsContract, Contract!Spec
================================================================================
